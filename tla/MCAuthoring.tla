---------------------------- MODULE MCAuthoring ----------------------------
EXTENDS Authoring

CONSTANTS w1, w2, a, b

\* Slugs are interchangeable: the first note has the slug a
MCInit == Init /\ \A n \in notes : n.slug = a
MCSpec == MCInit /\ [][Next]_vars /\ \A w \in Writers : WF_vars(Step(w))
=============================================================================
