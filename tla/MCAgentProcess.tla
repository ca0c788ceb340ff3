--------------------------- MODULE MCAgentProcess ---------------------------
EXTENDS AgentProcess

\* One helper may hold the pipes while another does not
CONSTANTS h1, h2
=============================================================================
