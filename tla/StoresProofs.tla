---------------------------- MODULE StoresProofs ----------------------------
(***************************************************************************)
(* What the parts that keep a copy of something keep true of it: the cache of the   *)
(* Markdown store, the two sides of a synchronisation, the cards of GitHub and the    *)
(* documents of Firebase. MCServices runs each beside the others, one at a time; for   *)
(* each part its inductive invariant and that every step of it keeps it, and at the    *)
(* end that whichever part is active does. The bounds are any numbers, the tasks,      *)
(* texts, statuses, documents and handlers any sets.                                *)
(***************************************************************************)
EXTENDS MCServices, TLAPS

-----------------------------------------------------------------------------
(* The Markdown store and its watcher *)

StoreValues == /\ StorePaths \in Nat \ {0} /\ StoreCalls \in Nat /\ StoreEdits \in Nat
                    /\ StoreFaults \in Nat
               /\ Torn \notin Store!Note /\ None \notin Store!Note \cup StoreStatuses
                    /\ Torn # None

\* A job at work on the note at p, at one of these labels
StoreWorks(j, p, labels) == job[j].path = p /\ job[j].pc \in labels
StoreSaves == {"tmp", "fill", "rename"}

StoreJobBufs == \A j \in StoreJobs : job[j].pc \in {"find", "sum", "sync"} \cup StoreSaves
  => job[j].buf \in StoreStatuses

\* A call that nothing has crossed has read what is there, or written it
StoreUncrossed(p) ==
    /\ ~Store!Readable(tmp[p])
    /\ \A j \in StoreJobs : StoreWorks(j, p, {"sum"}) /\ job[j].clean =>
          Store!Readable(storeFile[p]) /\ job[j].buf = storeFile[p].status
    /\ \A j \in StoreJobs : StoreWorks(j, p, {"sync"}) /\ job[j].clean
         => ~Store!Readable(storeFile[p])

\* Saves that never overlapped found the temporary file as they left it
StoreOneSave(p) == p \notin overlapped =>
    /\ storeFile[p] # Torn
    /\ \A i, j \in StoreJobs : StoreWorks(i, p, {"fill", "rename"}) /\ StoreWorks(j, p, {"fill",
         "rename"}) => i = j
    /\ \A j \in StoreJobs : StoreWorks(j, p, {"fill"}) => tmp[p] = Torn
    /\ \A j \in StoreJobs : StoreWorks(j, p, {"rename"}) => tmp[p] # Torn

\* Unless a save is under way, which unsettles the path when it ends: the task is that of
\* the checksum, or is about to be read; and the checksum is the file's, or is about to
\* be compared with it
StorePicture(p) == p \in unsettled \/ (\E j \in StoreJobs : StoreWorks(j, p, StoreSaves)) \/
    (/\ \/ Store!Readable(sum[p]) => state[p] = sum[p].status
        \/ sum[p] = storeFile[p] /\ \E j \in StoreJobs : \/ StoreWorks(j, p, {"read"})
                                                         \/ StoreWorks(j, p, {"sum"})
                                                              /\ job[j].clean
     /\ \/ sum[p] \in {storeFile[p], None} \/ storeFile[p] = None
        \/ p \in events \cup timers \/ \E j \in StoreJobs : StoreWorks(j, p, {"check"}))

StorePathInv(p) == StoreUncrossed(p) /\ StoreOneSave(p) /\ StorePicture(p)
StoreIInv == Store!TypeOK /\ StoreJobBufs /\ \A p \in Store!Paths : StorePathInv(p)
\* Another path, and a job that is not at work on q
StoreAway(j, q) == job[j].path # q \/ job[j].pc \in {"idle", "find"}

StoreJob == [pc : {"idle", "check", "read", "sum", "find", "tmp", "fill", "rename", "sync"},
             path : Store!Paths, buf : StoreStatuses \cup {None}, clean : BOOLEAN]

\* A path nothing is done about keeps its invariant
LEMMA StoreFrame ==
    ASSUME NEW q \in Store!Paths, StorePathInv(q),
           storeFile'[q] = storeFile[q], tmp'[q] = tmp[q], state'[q] = state[q], sum'[q] = sum[q],
           q \in events' <=> q \in events, q \in timers' <=> q \in timers,
           q \in unsettled' <=> q \in unsettled, q \in overlapped' <=> q \in overlapped,
           \A i \in StoreJobs : job'[i] = job[i] \/ (StoreAway(i, q) /\ StoreAway(i, q)')
    PROVE  StorePathInv(q)'
<1>1. \A i \in StoreJobs : \A labels : "idle" \notin labels /\ "find" \notin labels =>
         /\ StoreWorks(i, q, labels)' <=> StoreWorks(i, q, labels)
         /\ StoreWorks(i, q, labels)' => job'[i] = job[i]
      BY DEF StoreWorks, StoreAway
<1>2. \A n : Store!Readable(n)' = Store!Readable(n)
      BY DEF Store!Readable
<1>3. StoreUncrossed(q)'
      BY <1>1, <1>2 DEF StorePathInv, StoreUncrossed, StoreWorks, Store!Readable
<1>4. StoreOneSave(q)'
      BY <1>1 DEF StorePathInv, StoreOneSave, StoreWorks
<1>5. StorePicture(q)'
  <2>1. (\E j \in StoreJobs : StoreWorks(j, q, StoreSaves))
          <=> (\E j \in StoreJobs : StoreWorks(j, q, StoreSaves)')
        BY <1>1 DEF StoreSaves
  <2>2. (\E j \in StoreJobs : StoreWorks(j, q, {"check"})) <=> (\E j \in StoreJobs : StoreWorks(j,
          q, {"check"})')
        BY <1>1
  <2>3. (\E j \in StoreJobs : StoreWorks(j, q, {"read"}) \/ (StoreWorks(j, q, {"sum"})
          /\ job[j].clean)) =>
        (\E j \in StoreJobs : StoreWorks(j, q, {"read"})' \/ (StoreWorks(j, q, {"sum"})'
          /\ job'[j].clean))
        BY <1>1
  <2>4. QED
        BY <2>1, <2>2, <2>3 DEF StorePathInv, StorePicture, Store!Readable
<1>6. QED
      BY <1>3, <1>4, <1>5 DEF StorePathInv

\* ... and so does one whose files and caches stay as they are while one job changes
LEMMA StoreJobChange ==
    ASSUME Store!TypeOK, NEW j \in StoreJobs, NEW c \in StoreJob, job' = [job EXCEPT ![j] = c]
    PROVE  /\ job' \in [StoreJobs -> StoreJob] /\ job'[j] = c
           /\ \A i \in StoreJobs : i # j => job'[i] = job[i]
BY DEF Store!TypeOK, StoreJob

\* The timer of a path fires: onFileChange begins
LEMMA StoreFires ==
    ASSUME StoreValues, StoreIInv, NEW j \in StoreJobs, NEW p \in Store!Paths, Store!Fires(j, p)
    PROVE  StoreIInv'
<1>1. Store!TypeOK /\ StoreJobBufs /\ \A q \in Store!Paths : StorePathInv(q)
      BY DEF StoreIInv
<1>2. PICK c \in StoreJob : /\ job' = [job EXCEPT ![j] = c]
                            /\ c.pc = "check" /\ c.path = p
  <2>1. [Store!Idle EXCEPT !.pc = "check", !.path = p] \in StoreJob
        BY DEF Store!Idle, StoreJob
  <2>2. QED
        BY <2>1 DEF Store!Fires, Store!Idle
<1>3. /\ job' \in [StoreJobs -> StoreJob] /\ job'[j] = c /\ \A i \in StoreJobs : i # j
           => job'[i] = job[i]
      BY <1>1, <1>2, StoreJobChange
<1>4. /\ UNCHANGED <<storeFile, tmp, state, sum, watching, events, unsettled, overlapped,
           storeCalls, storeEdits, storeFaults>>
      /\ timers' = timers \ {p} /\ job[j].pc = "idle"
      BY DEF Store!Fires, Store!Caches, Store!Ghosts, Store!Bounds, Store!At
<1>5. Store!TypeOK'
      BY <1>1, <1>3, <1>4 DEF Store!TypeOK, StoreJob
<1>6. StoreJobBufs'
      BY <1>1, <1>2, <1>3 DEF StoreJobBufs, StoreSaves
<1>7. \A q \in Store!Paths : q # p => StorePathInv(q)'
  <2>1. SUFFICES ASSUME NEW q \in Store!Paths, q # p PROVE StorePathInv(q)'
        OBVIOUS
  <2>2. \A i \in StoreJobs : job'[i] = job[i] \/ (StoreAway(i, q) /\ StoreAway(i, q)')
        BY <1>2, <1>3, <1>4, <2>1 DEF StoreAway
  <2>3. QED
        BY <1>1, <1>4, <2>1, <2>2, StoreFrame
<1>8. StorePathInv(p)'
  <2>1. \A i \in StoreJobs : job'[i] = job[i] \/ (i = j /\ job[i].pc = "idle"
          /\ job'[i].pc = "check" /\ job'[i].path = p)
        BY <1>2, <1>3, <1>4
  <2>2. StoreUncrossed(p)'
        BY <1>1, <1>4, <2>1 DEF StorePathInv, StoreUncrossed, StoreWorks, Store!Readable
  <2>3. StoreOneSave(p)'
        BY <1>1, <1>4, <2>1 DEF StorePathInv, StoreOneSave, StoreWorks
  <2>4. StorePicture(p)'
        BY <1>1, <1>2, <1>3, <1>4, <2>1 DEF StorePathInv, StorePicture, StoreWorks, StoreSaves,
             Store!Readable
  <2>5. QED
        BY <2>2, <2>3, <2>4 DEF StorePathInv
<1>9. QED
      BY <1>5, <1>6, <1>7, <1>8 DEF StoreIInv

\* The checksum is compared, or the file is gone
LEMMA StoreCheck ==
    ASSUME StoreValues, StoreIInv, NEW j \in StoreJobs, Store!Check(j)
    PROVE  StoreIInv'
<1>1. Store!TypeOK /\ StoreJobBufs /\ \A q \in Store!Paths : StorePathInv(q)
      BY DEF StoreIInv
<1>2. PICK p \in Store!Paths : p = job[j].path
      BY <1>1 DEF Store!TypeOK
<1>3. PICK c \in StoreJob : /\ job' = [job EXCEPT ![j] = c]
                            /\ \/ c.pc = "idle" /\ storeFile[p] \in {None, sum[p]} /\ sum' = sum
                               \/ c.pc = "read" /\ c.path = p
                                    /\ sum' = [sum EXCEPT ![p] = storeFile[p]]
  <2>1. Store!Idle \in StoreJob /\ Store!Idle.pc = "idle"
        BY DEF Store!Idle, StoreJob, StoreValues, Store!Paths
  <2>2. CASE storeFile[p] \in {None, sum[p]}
        BY <1>2, <2>1, <2>2 DEF Store!Check, Store!Ends
  <2>3. CASE storeFile[p] \notin {None, sum[p]}
    <3> DEFINE c == [job[j] EXCEPT !.pc = "read"]
    <3>1. c \in StoreJob /\ c.pc = "read" /\ c.path = p
          BY <1>1, <1>2 DEF Store!TypeOK, StoreJob
    <3>2. job' = [job EXCEPT ![j] = c] /\ sum' = [sum EXCEPT ![p] = storeFile[p]]
          BY <1>1, <1>2, <2>3 DEF Store!Check, Store!Goes, Store!TypeOK
    <3>3. QED
          BY <3>1, <3>2
  <2>4. QED
        BY <2>2, <2>3
<1>4. /\ job' \in [StoreJobs -> StoreJob] /\ job'[j] = c /\ \A i \in StoreJobs : i # j
           => job'[i] = job[i]
      BY <1>1, <1>3, StoreJobChange
<1>5. /\ UNCHANGED <<storeFile, tmp, state, watching, events, timers, unsettled, overlapped,
           storeCalls, storeEdits, storeFaults>>
      /\ job[j].pc = "check"
      BY DEF Store!Check, Store!Caches, Store!Watch, Store!Ghosts, Store!Bounds, Store!At
<1>6. Store!TypeOK'
      BY <1>1, <1>3, <1>4, <1>5, <1>2 DEF Store!TypeOK, StoreJob, StoreValues
<1>7. StoreJobBufs'
      BY <1>1, <1>3, <1>4, <1>5, <1>2 DEF StoreJobBufs, StoreSaves
<1>8. \A q \in Store!Paths : q # p => StorePathInv(q)'
  <2>1. SUFFICES ASSUME NEW q \in Store!Paths, q # p PROVE StorePathInv(q)'
        OBVIOUS
  <2>2. \A i \in StoreJobs : job'[i] = job[i] \/ (StoreAway(i, q) /\ StoreAway(i, q)')
        BY <1>3, <1>4, <1>5, <2>1, <1>2 DEF StoreAway
  <2>3. storeFile'[q] = storeFile[q] /\ tmp'[q] = tmp[q] /\ state'[q] = state[q]
          /\ sum'[q] = sum[q]
        BY <1>1, <1>3, <1>5, <2>1, <1>2 DEF Store!TypeOK
  <2>4. /\ q \in events' <=> q \in events
        /\ q \in timers' <=> q \in timers
        /\ q \in unsettled' <=> q \in unsettled
        /\ q \in overlapped' <=> q \in overlapped
        BY <1>1, <1>5, <2>1, <1>2
  <2>5. QED
        BY <1>1, <2>1, <2>2, <2>3, <2>4, StoreFrame
<1>9. StorePathInv(p)'
  <2>1. \A i \in StoreJobs : job'[i] = job[i] \/ (i = j /\ job[i].pc = "check" /\ job'[i] = c)
        BY <1>1, <1>3, <1>4, <1>5, <1>2 DEF Store!TypeOK, StoreJob
  <2>2. StoreUncrossed(p)'
        BY <1>1, <1>3, <1>5, <2>1, <1>2 DEF StorePathInv, StoreUncrossed, StoreWorks,
             Store!Readable, Store!TypeOK
  <2>3. StoreOneSave(p)'
        BY <1>1, <1>3, <1>5, <2>1, <1>2 DEF StorePathInv, StoreOneSave, StoreWorks, Store!TypeOK
  <2>4. StorePicture(p)'
        BY <1>1, <1>3, <1>4, <1>5, <2>1, <1>2 DEF StorePathInv, StorePicture, StoreWorks,
             StoreSaves, Store!Readable, Store!TypeOK
  <2>5. QED
        BY <2>2, <2>3, <2>4 DEF StorePathInv
<1>10. QED
      BY <1>6, <1>7, <1>8, <1>9 DEF StoreIInv

\* loadFromFile has read the file
LEMMA StoreLoad ==
    ASSUME StoreValues, StoreIInv, NEW j \in StoreJobs, Store!Load(j)
    PROVE  StoreIInv'
<1>1. Store!TypeOK /\ StoreJobBufs /\ \A q \in Store!Paths : StorePathInv(q)
      BY DEF StoreIInv
<1>2. PICK p \in Store!Paths : p = job[j].path
      BY <1>1 DEF Store!TypeOK
<1>3. PICK c \in StoreJob : /\ job' = [job EXCEPT ![j] = c]
                            /\ \/ /\ c.pc = "sum" /\ c.path = p /\ c.clean
                                  /\ Store!Readable(storeFile[p]) /\ c.buf = storeFile[p].status
                               \/ c.pc = "idle" /\ ~Store!Readable(storeFile[p])
  <2>1. Store!Idle \in StoreJob /\ Store!Idle.pc = "idle"
        BY DEF Store!Idle, StoreJob, StoreValues, Store!Paths
  <2>2. CASE ~Store!Readable(storeFile[p])
        BY <1>2, <2>1, <2>2 DEF Store!Load, Store!Ends
  <2>3. CASE Store!Readable(storeFile[p])
    <3> DEFINE c == [job[j] EXCEPT !.pc = "sum", !.buf = storeFile[p].status, !.clean = TRUE]
    <3>1. storeFile[p].status \in StoreStatuses
          BY <1>1, <2>3 DEF Store!TypeOK, Store!Readable, Store!Note
    <3>2. c \in StoreJob /\ c.pc = "sum" /\ c.path = p /\ c.clean /\ c.buf = storeFile[p].status
          BY <1>1, <1>2, <3>1 DEF Store!TypeOK, StoreJob
    <3>3. job' = [job EXCEPT ![j] = c]
          BY <1>1, <1>2, <2>3 DEF Store!Load, Store!TypeOK
    <3>4. QED
          BY <2>3, <3>2, <3>3
  <2>4. QED
        BY <2>2, <2>3
<1>4. /\ job' \in [StoreJobs -> StoreJob] /\ job'[j] = c /\ \A i \in StoreJobs : i # j
           => job'[i] = job[i]
      BY <1>1, <1>3, StoreJobChange
<1>5. /\ UNCHANGED <<storeFile, tmp, state, sum, watching, events, timers, unsettled, overlapped,
           storeCalls, storeEdits, storeFaults>>
      /\ job[j].pc = "read" /\ (Store!Readable(storeFile[p])
           => storeFile[p].status \in StoreStatuses)
      BY <1>1 DEF Store!Load, Store!Caches, Store!Watch, Store!Ghosts, Store!Bounds, Store!At,
           Store!TypeOK, Store!Readable, Store!Note
<1>6. Store!TypeOK'
      BY <1>1, <1>3, <1>4, <1>5, <1>2 DEF Store!TypeOK, StoreJob, StoreValues
<1>7. StoreJobBufs'
      BY <1>1, <1>3, <1>4, <1>5, <1>2 DEF StoreJobBufs, StoreSaves
<1>8. \A q \in Store!Paths : q # p => StorePathInv(q)'
  <2>1. SUFFICES ASSUME NEW q \in Store!Paths, q # p PROVE StorePathInv(q)'
        OBVIOUS
  <2>2. \A i \in StoreJobs : job'[i] = job[i] \/ (StoreAway(i, q) /\ StoreAway(i, q)')
        BY <1>3, <1>4, <1>5, <2>1, <1>2 DEF StoreAway
  <2>3. storeFile'[q] = storeFile[q] /\ tmp'[q] = tmp[q] /\ state'[q] = state[q]
          /\ sum'[q] = sum[q]
        BY <1>1, <1>3, <1>5, <2>1, <1>2 DEF Store!TypeOK
  <2>4. /\ q \in events' <=> q \in events
        /\ q \in timers' <=> q \in timers
        /\ q \in unsettled' <=> q \in unsettled
        /\ q \in overlapped' <=> q \in overlapped
        BY <1>1, <1>5, <2>1, <1>2
  <2>5. QED
        BY <1>1, <2>1, <2>2, <2>3, <2>4, StoreFrame
<1>9. StorePathInv(p)'
  <2>1. \A i \in StoreJobs : job'[i] = job[i] \/ (i = j /\ job[i].pc = "read" /\ job'[i] = c)
        BY <1>1, <1>3, <1>4, <1>5, <1>2 DEF Store!TypeOK, StoreJob
  <2>2. StoreUncrossed(p)'
        BY <1>1, <1>3, <1>5, <2>1, <1>2 DEF StorePathInv, StoreUncrossed, StoreWorks,
             Store!Readable, Store!TypeOK
  <2>3. StoreOneSave(p)'
        BY <1>1, <1>3, <1>5, <2>1, <1>2 DEF StorePathInv, StoreOneSave, StoreWorks, Store!TypeOK
  <2>4. StorePicture(p)'
        BY <1>1, <1>3, <1>4, <1>5, <2>1, <1>2 DEF StorePathInv, StorePicture, StoreWorks,
             StoreSaves, Store!Readable, Store!TypeOK
  <2>5. QED
        BY <2>2, <2>3, <2>4 DEF StorePathInv
<1>10. QED
      BY <1>6, <1>7, <1>8, <1>9 DEF StoreIInv

\* What was read is cached
LEMMA StoreCache ==
    ASSUME StoreValues, StoreIInv, NEW j \in StoreJobs, Store!Cache(j)
    PROVE  StoreIInv'
<1>1. Store!TypeOK /\ StoreJobBufs /\ \A q \in Store!Paths : StorePathInv(q)
      BY DEF StoreIInv
<1>2. PICK p \in Store!Paths : p = job[j].path
      BY <1>1 DEF Store!TypeOK
<1>3. PICK c \in StoreJob : /\ job' = [job EXCEPT ![j] = c]
                            /\ c.pc = "idle"
  <2>1. Store!Idle \in StoreJob /\ Store!Idle.pc = "idle"
        BY DEF Store!Idle, StoreJob, StoreValues, Store!Paths
  <2>2. QED
        BY <2>1 DEF Store!Cache, Store!Ends
<1>4. /\ job' \in [StoreJobs -> StoreJob] /\ job'[j] = c /\ \A i \in StoreJobs : i # j
           => job'[i] = job[i]
      BY <1>1, <1>3, StoreJobChange
<1>5. /\ UNCHANGED <<storeFile, tmp, watching, events, timers, overlapped, storeCalls, storeEdits,
           storeFaults>>
      /\ job[j].pc = "sum"
      /\ \/ storeFile[p] = None /\ UNCHANGED <<state, sum, unsettled>>
         \/ /\ storeFile[p] # None /\ sum' = [sum EXCEPT ![p] = storeFile[p]]
            /\ state' = [state EXCEPT ![p] = job[j].buf]
            /\ unsettled' = IF job[j].clean THEN unsettled \ {p} ELSE unsettled \cup {p}
      BY <1>2 DEF Store!Cache, Store!Settles, Store!Caches, Store!Watch, Store!Ghosts,
           Store!Bounds, Store!At
<1>6. Store!TypeOK'
      BY <1>1, <1>3, <1>4, <1>5, <1>2 DEF Store!TypeOK, StoreJob, StoreValues
<1>7. StoreJobBufs'
      BY <1>1, <1>3, <1>4, <1>5, <1>2 DEF StoreJobBufs, StoreSaves
<1>8. \A q \in Store!Paths : q # p => StorePathInv(q)'
  <2>1. SUFFICES ASSUME NEW q \in Store!Paths, q # p PROVE StorePathInv(q)'
        OBVIOUS
  <2>2. \A i \in StoreJobs : job'[i] = job[i] \/ (StoreAway(i, q) /\ StoreAway(i, q)')
        BY <1>3, <1>4, <1>5, <2>1, <1>2 DEF StoreAway
  <2>3. storeFile'[q] = storeFile[q] /\ tmp'[q] = tmp[q] /\ state'[q] = state[q]
          /\ sum'[q] = sum[q]
        BY <1>1, <1>3, <1>5, <2>1, <1>2 DEF Store!TypeOK
  <2>4. /\ q \in events' <=> q \in events
        /\ q \in timers' <=> q \in timers
        /\ q \in unsettled' <=> q \in unsettled
        /\ q \in overlapped' <=> q \in overlapped
        BY <1>1, <1>5, <2>1, <1>2
  <2>5. QED
        BY <1>1, <2>1, <2>2, <2>3, <2>4, StoreFrame
<1>9. StorePathInv(p)'
  <2>1. \A i \in StoreJobs : job'[i] = job[i] \/ (i = j /\ job[i].pc = "sum" /\ job'[i] = c)
        BY <1>1, <1>3, <1>4, <1>5, <1>2 DEF Store!TypeOK, StoreJob
  <2>2. StoreUncrossed(p)'
        BY <1>1, <1>3, <1>5, <2>1, <1>2 DEF StorePathInv, StoreUncrossed, StoreWorks,
             Store!Readable, Store!TypeOK
  <2>3. StoreOneSave(p)'
        BY <1>1, <1>3, <1>5, <2>1, <1>2 DEF StorePathInv, StoreOneSave, StoreWorks, Store!TypeOK
  <2>4. StorePicture(p)'
    <3>1. CASE storeFile[p] = None
      <4>1. \A labels : "idle" \notin labels /\ "sum" \notin labels => \A i \in StoreJobs :
               (StoreWorks(i, p, labels)' <=> StoreWorks(i, p, labels))
                 /\ (StoreWorks(i, p, labels) => job'[i] = job[i])
            BY <1>3, <1>4, <1>5, <2>1 DEF StoreWorks
      <4>2. StorePicture(p) /\ storeFile'[p] = None /\ (Store!Readable(sum[p])
              => sum[p] # storeFile[p])
            BY <1>1, <1>5, <3>1 DEF StorePathInv, Store!Readable
      <4>3. QED
            BY <1>5, <3>1, <4>1, <4>2 DEF StorePicture, StoreSaves, Store!Readable
    <3>2. CASE storeFile[p] # None /\ job[j].clean
      <4>1. sum'[p] = storeFile[p] /\ storeFile'[p] = storeFile[p] /\ state'[p] = job[j].buf
            BY <1>1, <1>5, <3>2 DEF Store!TypeOK
      <4>2. Store!Readable(storeFile[p]) => job[j].buf = storeFile[p].status
            BY <1>1, <1>5, <1>2, <3>2 DEF StorePathInv, StoreUncrossed, StoreWorks
      <4>3. QED
            BY <4>1, <4>2 DEF StorePicture, Store!Readable
    <3>3. CASE storeFile[p] # None /\ ~job[j].clean
          BY <1>5, <3>3 DEF StorePicture
    <3>4. QED
          BY <3>1, <3>2, <3>3
  <2>5. QED
        BY <2>2, <2>3, <2>4 DEF StorePathInv
<1>10. QED
      BY <1>6, <1>7, <1>8, <1>9 DEF StoreIInv

\* syncCache is written
LEMMA StoreSyncCache ==
    ASSUME StoreValues, StoreIInv, NEW j \in StoreJobs, Store!SyncCache(j)
    PROVE  StoreIInv'
<1>1. Store!TypeOK /\ StoreJobBufs /\ \A q \in Store!Paths : StorePathInv(q)
      BY DEF StoreIInv
<1>2. PICK p \in Store!Paths : p = job[j].path
      BY <1>1 DEF Store!TypeOK
<1>3. PICK c \in StoreJob : /\ job' = [job EXCEPT ![j] = c]
                            /\ c.pc = "idle"
  <2>1. Store!Idle \in StoreJob /\ Store!Idle.pc = "idle"
        BY DEF Store!Idle, StoreJob, StoreValues, Store!Paths
  <2>2. QED
        BY <2>1 DEF Store!SyncCache, Store!Ends
<1>4. /\ job' \in [StoreJobs -> StoreJob] /\ job'[j] = c /\ \A i \in StoreJobs : i # j
           => job'[i] = job[i]
      BY <1>1, <1>3, StoreJobChange
<1>5. /\ UNCHANGED <<storeFile, tmp, watching, events, timers, overlapped, storeCalls, storeEdits,
           storeFaults>>
      /\ job[j].pc = "sync"
      /\ \/ storeFile[p] = None /\ UNCHANGED <<state, sum, unsettled>>
         \/ /\ storeFile[p] # None /\ sum' = [sum EXCEPT ![p] = storeFile[p]]
            /\ state' = [state EXCEPT ![p] = job[j].buf]
            /\ unsettled' = IF job[j].clean THEN unsettled \ {p} ELSE unsettled \cup {p}
      BY <1>2 DEF Store!SyncCache, Store!Settles, Store!Caches, Store!Watch, Store!Ghosts,
           Store!Bounds, Store!At
<1>6. Store!TypeOK'
      BY <1>1, <1>3, <1>4, <1>5, <1>2 DEF Store!TypeOK, StoreJob, StoreValues
<1>7. StoreJobBufs'
      BY <1>1, <1>3, <1>4, <1>5, <1>2 DEF StoreJobBufs, StoreSaves
<1>8. \A q \in Store!Paths : q # p => StorePathInv(q)'
  <2>1. SUFFICES ASSUME NEW q \in Store!Paths, q # p PROVE StorePathInv(q)'
        OBVIOUS
  <2>2. \A i \in StoreJobs : job'[i] = job[i] \/ (StoreAway(i, q) /\ StoreAway(i, q)')
        BY <1>3, <1>4, <1>5, <2>1, <1>2 DEF StoreAway
  <2>3. storeFile'[q] = storeFile[q] /\ tmp'[q] = tmp[q] /\ state'[q] = state[q]
          /\ sum'[q] = sum[q]
        BY <1>1, <1>3, <1>5, <2>1, <1>2 DEF Store!TypeOK
  <2>4. /\ q \in events' <=> q \in events
        /\ q \in timers' <=> q \in timers
        /\ q \in unsettled' <=> q \in unsettled
        /\ q \in overlapped' <=> q \in overlapped
        BY <1>1, <1>5, <2>1, <1>2
  <2>5. QED
        BY <1>1, <2>1, <2>2, <2>3, <2>4, StoreFrame
<1>9. StorePathInv(p)'
  <2>1. \A i \in StoreJobs : job'[i] = job[i] \/ (i = j /\ job[i].pc = "sync" /\ job'[i] = c)
        BY <1>1, <1>3, <1>4, <1>5, <1>2 DEF Store!TypeOK, StoreJob
  <2>2. StoreUncrossed(p)'
        BY <1>1, <1>3, <1>5, <2>1, <1>2 DEF StorePathInv, StoreUncrossed, StoreWorks,
             Store!Readable, Store!TypeOK
  <2>3. StoreOneSave(p)'
        BY <1>1, <1>3, <1>5, <2>1, <1>2 DEF StorePathInv, StoreOneSave, StoreWorks, Store!TypeOK
  <2>4. StorePicture(p)'
    <3>1. CASE storeFile[p] = None
      <4>1. \A labels : "idle" \notin labels /\ "sync" \notin labels => \A i \in StoreJobs :
               (StoreWorks(i, p, labels)' <=> StoreWorks(i, p, labels))
                 /\ (StoreWorks(i, p, labels) => job'[i] = job[i])
            BY <1>3, <1>4, <1>5, <2>1 DEF StoreWorks
      <4>2. StorePicture(p) /\ storeFile'[p] = None /\ (Store!Readable(sum[p])
              => sum[p] # storeFile[p])
            BY <1>1, <1>5, <3>1 DEF StorePathInv, Store!Readable
      <4>3. QED
            BY <1>5, <3>1, <4>1, <4>2 DEF StorePicture, StoreSaves, Store!Readable
    <3>2. CASE storeFile[p] # None /\ job[j].clean
      <4>1. sum'[p] = storeFile[p] /\ storeFile'[p] = storeFile[p] /\ state'[p] = job[j].buf
            BY <1>1, <1>5, <3>2 DEF Store!TypeOK
      <4>2. Store!Readable(storeFile[p]) => job[j].buf = storeFile[p].status
            BY <1>1, <1>5, <1>2, <3>2 DEF StorePathInv, StoreUncrossed, StoreWorks
      <4>3. QED
            BY <4>1, <4>2 DEF StorePicture, Store!Readable
    <3>3. CASE storeFile[p] # None /\ ~job[j].clean
          BY <1>5, <3>3 DEF StorePicture
    <3>4. QED
          BY <3>1, <3>2, <3>3
  <2>5. QED
        BY <2>2, <2>3, <2>4 DEF StorePathInv
<1>10. QED
      BY <1>6, <1>7, <1>8, <1>9 DEF StoreIInv

\* The note of a task is looked up
LEMMA StoreFind ==
    ASSUME StoreValues, StoreIInv, NEW j \in StoreJobs, Store!Find(j)
    PROVE  StoreIInv'
<1>1. Store!TypeOK /\ StoreJobBufs /\ \A q \in Store!Paths : StorePathInv(q)
      BY DEF StoreIInv
<1>2. PICK p \in Store!Paths : p = job[j].path
      BY <1>1 DEF Store!TypeOK
<1>3. PICK c \in StoreJob : /\ job' = [job EXCEPT ![j] = c]
                            /\ \/ c.pc = "idle"
                               \/ c.pc = "tmp" /\ c.path = p /\ c.buf = job[j].buf
  <2>1. Store!Idle \in StoreJob /\ Store!Idle.pc = "idle"
        BY DEF Store!Idle, StoreJob, StoreValues, Store!Paths
  <2>2. CASE Store!Ends(j)
        BY <2>1, <2>2 DEF Store!Ends
  <2>3. CASE Store!Goes(j, "tmp")
    <3> DEFINE c == [job[j] EXCEPT !.pc = "tmp"]
    <3>1. c \in StoreJob /\ c.pc = "tmp" /\ c.path = p /\ c.buf = job[j].buf
          BY <1>1, <1>2 DEF Store!TypeOK, StoreJob
    <3>2. job' = [job EXCEPT ![j] = c]
          BY <1>1, <2>3 DEF Store!Goes, Store!TypeOK
    <3>3. QED
          BY <3>1, <3>2
  <2>4. QED
        BY <2>2, <2>3 DEF Store!Find
<1>4. /\ job' \in [StoreJobs -> StoreJob] /\ job'[j] = c /\ \A i \in StoreJobs : i # j
           => job'[i] = job[i]
      BY <1>1, <1>3, StoreJobChange
<1>5. /\ UNCHANGED <<storeFile, tmp, state, sum, watching, events, timers, unsettled, overlapped,
           storeCalls, storeEdits, storeFaults>>
      /\ job[j].pc = "find"
      BY DEF Store!Find, Store!Caches, Store!Watch, Store!Ghosts, Store!Bounds, Store!At
<1>6. Store!TypeOK'
      BY <1>1, <1>3, <1>4, <1>5, <1>2 DEF Store!TypeOK, StoreJob, StoreValues
<1>7. StoreJobBufs'
      BY <1>1, <1>3, <1>4, <1>5, <1>2 DEF StoreJobBufs, StoreSaves
<1>8. \A q \in Store!Paths : q # p => StorePathInv(q)'
  <2>1. SUFFICES ASSUME NEW q \in Store!Paths, q # p PROVE StorePathInv(q)'
        OBVIOUS
  <2>2. \A i \in StoreJobs : job'[i] = job[i] \/ (StoreAway(i, q) /\ StoreAway(i, q)')
        BY <1>3, <1>4, <1>5, <2>1, <1>2 DEF StoreAway
  <2>3. storeFile'[q] = storeFile[q] /\ tmp'[q] = tmp[q] /\ state'[q] = state[q]
          /\ sum'[q] = sum[q]
        BY <1>1, <1>3, <1>5, <2>1, <1>2 DEF Store!TypeOK
  <2>4. /\ q \in events' <=> q \in events
        /\ q \in timers' <=> q \in timers
        /\ q \in unsettled' <=> q \in unsettled
        /\ q \in overlapped' <=> q \in overlapped
        BY <1>1, <1>5, <2>1, <1>2
  <2>5. QED
        BY <1>1, <2>1, <2>2, <2>3, <2>4, StoreFrame
<1>9. StorePathInv(p)'
  <2>1. \A i \in StoreJobs : job'[i] = job[i] \/ (i = j /\ job[i].pc = "find" /\ job'[i] = c)
        BY <1>1, <1>3, <1>4, <1>5, <1>2 DEF Store!TypeOK, StoreJob
  <2>2. StoreUncrossed(p)'
        BY <1>1, <1>3, <1>5, <2>1, <1>2 DEF StorePathInv, StoreUncrossed, StoreWorks,
             Store!Readable, Store!TypeOK
  <2>3. StoreOneSave(p)'
        BY <1>1, <1>3, <1>5, <2>1, <1>2 DEF StorePathInv, StoreOneSave, StoreWorks, Store!TypeOK
  <2>4. StorePicture(p)'
        BY <1>1, <1>3, <1>4, <1>5, <2>1, <1>2 DEF StorePathInv, StorePicture, StoreWorks,
             StoreSaves, Store!Readable, Store!TypeOK
  <2>5. QED
        BY <2>2, <2>3, <2>4 DEF StorePathInv
<1>10. QED
      BY <1>6, <1>7, <1>8, <1>9 DEF StoreIInv

\* A job fails
LEMMA StoreFail ==
    ASSUME StoreValues, StoreIInv, NEW j \in StoreJobs, Store!Fail(j)
    PROVE  StoreIInv'
<1>1. Store!TypeOK /\ StoreJobBufs /\ \A q \in Store!Paths : StorePathInv(q)
      BY DEF StoreIInv
<1>2. PICK p \in Store!Paths : p = job[j].path
      BY <1>1 DEF Store!TypeOK
<1>3. PICK c \in StoreJob : /\ job' = [job EXCEPT ![j] = c]
                            /\ c.pc = "idle"
  <2>1. Store!Idle \in StoreJob /\ Store!Idle.pc = "idle"
        BY DEF Store!Idle, StoreJob, StoreValues, Store!Paths
  <2>2. QED
        BY <2>1 DEF Store!Fail, Store!Ends
<1>4. /\ job' \in [StoreJobs -> StoreJob] /\ job'[j] = c /\ \A i \in StoreJobs : i # j
           => job'[i] = job[i]
      BY <1>1, <1>3, StoreJobChange
<1>5. /\ UNCHANGED <<storeFile, tmp, state, sum, watching, events, timers, overlapped, storeCalls,
           storeEdits>>
      /\ unsettled' = unsettled \cup {p} /\ storeFaults' \in 0..StoreFaults
      BY <1>1, <1>2 DEF Store!Fail, Store!Caches, Store!Watch, Store!Ghosts, Store!Bounds,
           Store!At, Store!TypeOK, StoreValues
<1>6. Store!TypeOK'
      BY <1>1, <1>3, <1>4, <1>5, <1>2 DEF Store!TypeOK, StoreJob, StoreValues
<1>7. StoreJobBufs'
      BY <1>1, <1>3, <1>4, <1>5, <1>2 DEF StoreJobBufs, StoreSaves
<1>8. \A q \in Store!Paths : q # p => StorePathInv(q)'
  <2>1. SUFFICES ASSUME NEW q \in Store!Paths, q # p PROVE StorePathInv(q)'
        OBVIOUS
  <2>2. \A i \in StoreJobs : job'[i] = job[i] \/ (StoreAway(i, q) /\ StoreAway(i, q)')
        BY <1>3, <1>4, <1>5, <2>1, <1>2 DEF StoreAway
  <2>3. storeFile'[q] = storeFile[q] /\ tmp'[q] = tmp[q] /\ state'[q] = state[q]
          /\ sum'[q] = sum[q]
        BY <1>1, <1>3, <1>5, <2>1, <1>2 DEF Store!TypeOK
  <2>4. /\ q \in events' <=> q \in events
        /\ q \in timers' <=> q \in timers
        /\ q \in unsettled' <=> q \in unsettled
        /\ q \in overlapped' <=> q \in overlapped
        BY <1>1, <1>5, <2>1, <1>2
  <2>5. QED
        BY <1>1, <2>1, <2>2, <2>3, <2>4, StoreFrame
<1>9. StorePathInv(p)'
  <2>1. \A i \in StoreJobs : job'[i] = job[i] \/ (i = j /\ job'[i].pc = "idle")
        BY <1>1, <1>3, <1>4, <1>5, <1>2 DEF Store!TypeOK, StoreJob
  <2>2. StoreUncrossed(p)'
        BY <1>1, <1>3, <1>5, <2>1, <1>2 DEF StorePathInv, StoreUncrossed, StoreWorks,
             Store!Readable, Store!TypeOK
  <2>3. StoreOneSave(p)'
        BY <1>1, <1>3, <1>5, <2>1, <1>2 DEF StorePathInv, StoreOneSave, StoreWorks, Store!TypeOK
  <2>4. StorePicture(p)'
        BY <1>1, <1>3, <1>4, <1>5, <2>1, <1>2 DEF StorePathInv, StorePicture, StoreWorks,
             StoreSaves, Store!Readable, Store!TypeOK
  <2>5. QED
        BY <2>2, <2>3, <2>4 DEF StorePathInv
<1>10. QED
      BY <1>6, <1>7, <1>8, <1>9 DEF StoreIInv

\* A load begins
LEMMA StoreBeginLoad ==
    ASSUME StoreValues, StoreIInv, NEW j \in StoreJobs, NEW p \in Store!Paths, Store!BeginLoad(j,
             p)
    PROVE  StoreIInv'
<1>1. Store!TypeOK /\ StoreJobBufs /\ \A q \in Store!Paths : StorePathInv(q)
      BY DEF StoreIInv
<1>2. PICK c \in StoreJob : /\ job' = [job EXCEPT ![j] = c]
                            /\ c.pc = "read" /\ c.path = p
  <2> DEFINE c == [Store!Idle EXCEPT !.pc = "read", !.path = p]
  <2>1. c \in StoreJob /\ c.pc = "read" /\ c.path = p
        BY DEF Store!Idle, StoreJob
  <2>2. job' = [job EXCEPT ![j] = c]
        BY DEF Store!BeginLoad
  <2>3. QED
        BY <2>1, <2>2
<1>3. /\ job' \in [StoreJobs -> StoreJob] /\ job'[j] = c /\ \A i \in StoreJobs : i # j
           => job'[i] = job[i]
      BY <1>1, <1>2, StoreJobChange
<1>4. /\ UNCHANGED <<storeFile, tmp, state, sum, watching, events, timers, unsettled, overlapped,
           storeEdits, storeFaults>>
      /\ job[j].pc = "idle" /\ storeCalls' \in 0..StoreCalls
      BY <1>1 DEF Store!BeginLoad, Store!Caches, Store!Watch, Store!Ghosts, Store!Bounds,
           Store!At, Store!TypeOK, StoreValues
<1>5. Store!TypeOK'
      BY <1>1, <1>2, <1>3, <1>4 DEF Store!TypeOK, StoreJob, StoreValues
<1>6. StoreJobBufs'
      BY <1>1, <1>2, <1>3, <1>4 DEF StoreJobBufs, StoreSaves
<1>7. \A q \in Store!Paths : q # p => StorePathInv(q)'
  <2>1. SUFFICES ASSUME NEW q \in Store!Paths, q # p PROVE StorePathInv(q)'
        OBVIOUS
  <2>2. \A i \in StoreJobs : job'[i] = job[i] \/ (StoreAway(i, q) /\ StoreAway(i, q)')
        BY <1>2, <1>3, <1>4, <2>1 DEF StoreAway
  <2>3. storeFile'[q] = storeFile[q] /\ tmp'[q] = tmp[q] /\ state'[q] = state[q]
          /\ sum'[q] = sum[q]
        BY <1>1, <1>2, <1>4, <2>1 DEF Store!TypeOK
  <2>4. /\ q \in events' <=> q \in events
        /\ q \in timers' <=> q \in timers
        /\ q \in unsettled' <=> q \in unsettled
        /\ q \in overlapped' <=> q \in overlapped
        BY <1>1, <1>4, <2>1
  <2>5. QED
        BY <1>1, <2>1, <2>2, <2>3, <2>4, StoreFrame
<1>8. StorePathInv(p)'
  <2>1. \A i \in StoreJobs : job'[i] = job[i] \/ (i = j /\ job[i].pc = "idle" /\ job'[i] = c)
        BY <1>1, <1>2, <1>3, <1>4 DEF Store!TypeOK, StoreJob
  <2>2. StoreUncrossed(p)'
        BY <1>1, <1>2, <1>4, <2>1 DEF StorePathInv, StoreUncrossed, StoreWorks, Store!Readable,
             Store!TypeOK
  <2>3. StoreOneSave(p)'
        BY <1>1, <1>2, <1>4, <2>1 DEF StorePathInv, StoreOneSave, StoreWorks, Store!TypeOK
  <2>4. StorePicture(p)'
        BY <1>1, <1>2, <1>3, <1>4, <2>1 DEF StorePathInv, StorePicture, StoreWorks, StoreSaves,
             Store!Readable, Store!TypeOK
  <2>5. QED
        BY <2>2, <2>3, <2>4 DEF StorePathInv
<1>9. QED
      BY <1>5, <1>6, <1>7, <1>8 DEF StoreIInv

\* A save begins
LEMMA StoreBeginSave ==
    ASSUME StoreValues, StoreIInv, NEW j \in StoreJobs, NEW p \in Store!Paths,
             NEW s \in StoreStatuses, Store!BeginSave(j, p, s)
    PROVE  StoreIInv'
<1>1. Store!TypeOK /\ StoreJobBufs /\ \A q \in Store!Paths : StorePathInv(q)
      BY DEF StoreIInv
<1>2. PICK c \in StoreJob : /\ job' = [job EXCEPT ![j] = c]
                            /\ c.pc = "tmp" /\ c.path = p /\ c.buf = s
  <2> DEFINE c == [Store!Idle EXCEPT !.pc = "tmp", !.path = p, !.buf = s]
  <2>1. c \in StoreJob /\ c.pc = "tmp" /\ c.path = p /\ c.buf = s
        BY DEF Store!Idle, StoreJob
  <2>2. job' = [job EXCEPT ![j] = c]
        BY DEF Store!BeginSave
  <2>3. QED
        BY <2>1, <2>2
<1>3. /\ job' \in [StoreJobs -> StoreJob] /\ job'[j] = c /\ \A i \in StoreJobs : i # j
           => job'[i] = job[i]
      BY <1>1, <1>2, StoreJobChange
<1>4. /\ UNCHANGED <<storeFile, tmp, state, sum, watching, events, timers, unsettled, overlapped,
           storeEdits, storeFaults>>
      /\ job[j].pc = "idle" /\ storeCalls' \in 0..StoreCalls
      BY <1>1 DEF Store!BeginSave, Store!Caches, Store!Watch, Store!Ghosts, Store!Bounds,
           Store!At, Store!TypeOK, StoreValues
<1>5. Store!TypeOK'
      BY <1>1, <1>2, <1>3, <1>4 DEF Store!TypeOK, StoreJob, StoreValues
<1>6. StoreJobBufs'
      BY <1>1, <1>2, <1>3, <1>4 DEF StoreJobBufs, StoreSaves
<1>7. \A q \in Store!Paths : q # p => StorePathInv(q)'
  <2>1. SUFFICES ASSUME NEW q \in Store!Paths, q # p PROVE StorePathInv(q)'
        OBVIOUS
  <2>2. \A i \in StoreJobs : job'[i] = job[i] \/ (StoreAway(i, q) /\ StoreAway(i, q)')
        BY <1>2, <1>3, <1>4, <2>1 DEF StoreAway
  <2>3. storeFile'[q] = storeFile[q] /\ tmp'[q] = tmp[q] /\ state'[q] = state[q]
          /\ sum'[q] = sum[q]
        BY <1>1, <1>2, <1>4, <2>1 DEF Store!TypeOK
  <2>4. /\ q \in events' <=> q \in events
        /\ q \in timers' <=> q \in timers
        /\ q \in unsettled' <=> q \in unsettled
        /\ q \in overlapped' <=> q \in overlapped
        BY <1>1, <1>4, <2>1
  <2>5. QED
        BY <1>1, <2>1, <2>2, <2>3, <2>4, StoreFrame
<1>8. StorePathInv(p)'
  <2>1. \A i \in StoreJobs : job'[i] = job[i] \/ (i = j /\ job[i].pc = "idle" /\ job'[i] = c)
        BY <1>1, <1>2, <1>3, <1>4 DEF Store!TypeOK, StoreJob
  <2>2. StoreUncrossed(p)'
        BY <1>1, <1>2, <1>4, <2>1 DEF StorePathInv, StoreUncrossed, StoreWorks, Store!Readable,
             Store!TypeOK
  <2>3. StoreOneSave(p)'
        BY <1>1, <1>2, <1>4, <2>1 DEF StorePathInv, StoreOneSave, StoreWorks, Store!TypeOK
  <2>4. StorePicture(p)'
        BY <1>1, <1>2, <1>3, <1>4, <2>1 DEF StorePathInv, StorePicture, StoreWorks, StoreSaves,
             Store!Readable, Store!TypeOK
  <2>5. QED
        BY <2>2, <2>3, <2>4 DEF StorePathInv
<1>9. QED
      BY <1>5, <1>6, <1>7, <1>8 DEF StoreIInv

\* A write-back begins
LEMMA StoreBeginWriteBack ==
    ASSUME StoreValues, StoreIInv, NEW j \in StoreJobs, NEW p \in Store!Paths,
             NEW s \in StoreStatuses, Store!BeginWriteBack(j, p, s)
    PROVE  StoreIInv'
<1>1. Store!TypeOK /\ StoreJobBufs /\ \A q \in Store!Paths : StorePathInv(q)
      BY DEF StoreIInv
<1>2. PICK c \in StoreJob : /\ job' = [job EXCEPT ![j] = c]
                            /\ c.pc = "find" /\ c.path = p /\ c.buf = s
  <2> DEFINE c == [Store!Idle EXCEPT !.pc = "find", !.path = p, !.buf = s]
  <2>1. c \in StoreJob /\ c.pc = "find" /\ c.path = p /\ c.buf = s
        BY DEF Store!Idle, StoreJob
  <2>2. job' = [job EXCEPT ![j] = c]
        BY DEF Store!BeginWriteBack
  <2>3. QED
        BY <2>1, <2>2
<1>3. /\ job' \in [StoreJobs -> StoreJob] /\ job'[j] = c /\ \A i \in StoreJobs : i # j
           => job'[i] = job[i]
      BY <1>1, <1>2, StoreJobChange
<1>4. /\ UNCHANGED <<storeFile, tmp, state, sum, watching, events, timers, unsettled, overlapped,
           storeEdits, storeFaults>>
      /\ job[j].pc = "idle" /\ storeCalls' \in 0..StoreCalls
      BY <1>1 DEF Store!BeginWriteBack, Store!Caches, Store!Watch, Store!Ghosts, Store!Bounds,
           Store!At, Store!TypeOK, StoreValues
<1>5. Store!TypeOK'
      BY <1>1, <1>2, <1>3, <1>4 DEF Store!TypeOK, StoreJob, StoreValues
<1>6. StoreJobBufs'
      BY <1>1, <1>2, <1>3, <1>4 DEF StoreJobBufs, StoreSaves
<1>7. \A q \in Store!Paths : q # p => StorePathInv(q)'
  <2>1. SUFFICES ASSUME NEW q \in Store!Paths, q # p PROVE StorePathInv(q)'
        OBVIOUS
  <2>2. \A i \in StoreJobs : job'[i] = job[i] \/ (StoreAway(i, q) /\ StoreAway(i, q)')
        BY <1>2, <1>3, <1>4, <2>1 DEF StoreAway
  <2>3. storeFile'[q] = storeFile[q] /\ tmp'[q] = tmp[q] /\ state'[q] = state[q]
          /\ sum'[q] = sum[q]
        BY <1>1, <1>2, <1>4, <2>1 DEF Store!TypeOK
  <2>4. /\ q \in events' <=> q \in events
        /\ q \in timers' <=> q \in timers
        /\ q \in unsettled' <=> q \in unsettled
        /\ q \in overlapped' <=> q \in overlapped
        BY <1>1, <1>4, <2>1
  <2>5. QED
        BY <1>1, <2>1, <2>2, <2>3, <2>4, StoreFrame
<1>8. StorePathInv(p)'
  <2>1. \A i \in StoreJobs : job'[i] = job[i] \/ (i = j /\ job[i].pc = "idle" /\ job'[i] = c)
        BY <1>1, <1>2, <1>3, <1>4 DEF Store!TypeOK, StoreJob
  <2>2. StoreUncrossed(p)'
        BY <1>1, <1>2, <1>4, <2>1 DEF StorePathInv, StoreUncrossed, StoreWorks, Store!Readable,
             Store!TypeOK
  <2>3. StoreOneSave(p)'
        BY <1>1, <1>2, <1>4, <2>1 DEF StorePathInv, StoreOneSave, StoreWorks, Store!TypeOK
  <2>4. StorePicture(p)'
        BY <1>1, <1>2, <1>3, <1>4, <2>1 DEF StorePathInv, StorePicture, StoreWorks, StoreSaves,
             Store!Readable, Store!TypeOK
  <2>5. QED
        BY <2>2, <2>3, <2>4 DEF StorePathInv
<1>9. QED
      BY <1>5, <1>6, <1>7, <1>8 DEF StoreIInv

\* The others at work on p are told that it is not as it was; elsewhere nothing changes
StoreAcross(i, p) == ~StoreAway(i, p) /\ job'[i].pc = job[i].pc /\ job'[i].path = job[i].path
                 /\ job'[i].buf = job[i].buf /\ job'[i].clean = FALSE

\* A change of a file only takes the calm from the jobs on it
LEMMA StoreDisturbed ==
    ASSUME Store!TypeOK, NEW p \in Store!Paths
    PROVE  /\ Store!Disturbed(p, job) \in [StoreJobs -> StoreJob]
           /\ \A i \in StoreJobs : StoreAway(i, p) => Store!Disturbed(p, job)[i] = job[i]
           /\ \A i \in StoreJobs : ~StoreAway(i, p)
                => Store!Disturbed(p, job)[i] = [job[i] EXCEPT !.clean = FALSE]
<1>1. \A i \in StoreJobs : job[i] \in StoreJob /\ [job[i] EXCEPT !.clean = FALSE] \in StoreJob
      BY DEF Store!TypeOK, StoreJob
<1>2. \A i \in StoreJobs : i \in Store!OnPath(p) <=> ~StoreAway(i, p)
      BY DEF Store!OnPath, StoreAway
<1>3. Store!Disturbed(p, job) = [i \in StoreJobs |-> IF i \in Store!OnPath(p)
        THEN [job[i] EXCEPT !.clean = FALSE] ELSE job[i]]
      BY DEF Store!Disturbed
<1>4. QED
      BY <1>1, <1>2, <1>3

\* ... and one of them goes on
LEMMA StoreCrossed ==
    ASSUME Store!TypeOK, NEW p \in Store!Paths, NEW j \in StoreJobs, NEW c \in StoreJob,
           job' = [Store!Disturbed(p, job) EXCEPT ![j] = c]
    PROVE  /\ job' \in [StoreJobs -> StoreJob] /\ job'[j] = c
           /\ \A i \in StoreJobs : i # j => StoreAcross(i, p) \/ (StoreAway(i, p)
                /\ job'[i] = job[i])
<1>1. job' \in [StoreJobs -> StoreJob] /\ job'[j] = c /\ \A i \in StoreJobs : i # j
        => job'[i] = Store!Disturbed(p, job)[i]
      BY StoreDisturbed
<1>2. \A i \in StoreJobs : i # j /\ ~StoreAway(i, p) => StoreAcross(i, p)
  <2>1. SUFFICES ASSUME NEW i \in StoreJobs, i # j, ~StoreAway(i, p) PROVE StoreAcross(i, p)
        OBVIOUS
  <2>2. job'[i] = [job[i] EXCEPT !.clean = FALSE] /\ job[i] \in StoreJob
        BY <1>1, <2>1, StoreDisturbed DEF Store!TypeOK, StoreJob
  <2>3. QED
        BY <2>1, <2>2 DEF StoreAcross, StoreJob
<1>3. QED
      BY <1>1, <1>2, StoreDisturbed

\* The temporary file is opened
LEMMA StoreWriteTmp ==
    ASSUME StoreValues, StoreIInv, NEW j \in StoreJobs, Store!WriteTmp(j)
    PROVE  StoreIInv'
<1>1. Store!TypeOK /\ StoreJobBufs /\ \A q \in Store!Paths : StorePathInv(q)
      BY DEF StoreIInv
<1>2. PICK p \in Store!Paths : p = job[j].path
      BY <1>1 DEF Store!TypeOK
<1> DEFINE alone == Store!Saving(p) = {}
           c == [job[j] EXCEPT !.pc = "fill", !.clean = alone]
<1>3. alone \in BOOLEAN /\ c \in StoreJob /\ c.pc = "fill" /\ c.path = p /\ c.buf = job[j].buf
        /\ c.clean = alone
      BY <1>1, <1>2 DEF Store!TypeOK, StoreJob
<1>4. /\ UNCHANGED <<storeFile, state, sum, watching, events, timers, unsettled, storeCalls,
           storeEdits, storeFaults>>
      /\ job[j].pc = "tmp" /\ tmp' = [tmp EXCEPT ![p] = Torn]
      /\ overlapped' = IF alone THEN overlapped ELSE overlapped \cup {p}
      /\ job' = [IF alone THEN job ELSE Store!Disturbed(p, job) EXCEPT ![j] = c]
      BY <1>2 DEF Store!WriteTmp, Store!Caches, Store!Watch, Store!Bounds, Store!At
<1>5. alone => \A i \in StoreJobs : ~StoreWorks(i, p, {"fill", "rename"})
      BY DEF Store!Saving, Store!OnPath, StoreWorks
<1> HIDE DEF alone, c
<1>6. /\ job' \in [StoreJobs -> StoreJob] /\ job'[j] = c
      /\ \A i \in StoreJobs : i # j => job'[i] = job[i] \/ StoreAcross(i, p)
  <2>1. CASE alone
        BY <1>1, <1>3, <1>4, <2>1, StoreJobChange
  <2>2. CASE ~alone
        BY <1>1, <1>3, <1>4, <2>2, StoreCrossed
  <2>3. QED
        BY <2>1, <2>2
<1>7. Store!TypeOK'
  <2>1. tmp' \in [Store!Paths -> Store!Note \cup {Torn, None}]
        BY <1>1, <1>4 DEF Store!TypeOK
  <2>2. overlapped' \subseteq Store!Paths
        BY <1>1, <1>4 DEF Store!TypeOK
  <2>3. QED
        BY <1>1, <1>6, <1>4, <2>1, <2>2 DEF Store!TypeOK, StoreJob
<1>8. StoreJobBufs'
      BY <1>1, <1>3, <1>6, <1>4 DEF StoreJobBufs, StoreSaves, StoreAcross
<1>9. \A q \in Store!Paths : q # p => StorePathInv(q)'
  <2>1. SUFFICES ASSUME NEW q \in Store!Paths, q # p PROVE StorePathInv(q)'
        OBVIOUS
  <2>2. \A i \in StoreJobs : job'[i] = job[i] \/ (StoreAway(i, q) /\ StoreAway(i, q)')
        BY <1>3, <1>6, <1>4, <1>2, <2>1 DEF StoreAway, StoreAcross
  <2>3. storeFile'[q] = storeFile[q] /\ tmp'[q] = tmp[q] /\ state'[q] = state[q]
          /\ sum'[q] = sum[q]
        BY <1>1, <1>3, <1>4, <2>1 DEF Store!TypeOK
  <2>4. /\ q \in events' <=> q \in events
        /\ q \in timers' <=> q \in timers
        /\ q \in unsettled' <=> q \in unsettled
        /\ q \in overlapped' <=> q \in overlapped
        BY <1>1, <1>3, <1>4, <2>1
  <2>5. QED
        BY <1>1, <2>1, <2>2, <2>3, <2>4, StoreFrame
<1>10. StorePathInv(p)'
  <2>1. tmp'[p] = Torn /\ ~Store!Readable(Torn)' /\ storeFile'[p] = storeFile[p]
        BY <1>1, <1>4 DEF Store!TypeOK, Store!Readable
  <2>2. StoreUncrossed(p)'
        BY <1>1, <1>3, <1>6, <1>4, <2>1 DEF StorePathInv, StoreUncrossed, StoreWorks,
             Store!Readable, StoreAcross
  <2>3. StoreOneSave(p)'
    <3>1. SUFFICES ASSUME p \notin overlapped' PROVE StoreOneSave(p)'
          BY DEF StoreOneSave
    <3>2. alone /\ p \notin overlapped
          BY <1>4, <3>1
    <3>3. \A i \in StoreJobs : i # j => ~StoreWorks(i, p, {"fill", "rename"})'
          BY <1>6, <1>5, <3>2 DEF StoreWorks, StoreAcross
    <3>4. ~StoreWorks(j, p, {"rename"})'
          BY <1>3, <1>6 DEF StoreWorks
    <3>5. \A i \in StoreJobs : StoreWorks(i, p, {"rename"})' => StoreWorks(i, p, {"fill",
            "rename"})'
          BY DEF StoreWorks
    <3>6. QED
          BY <1>1, <2>1, <3>2, <3>3, <3>4, <3>5 DEF StoreOneSave, StorePathInv
  <2>4. StorePicture(p)'
        BY <1>3, <1>6 DEF StorePicture, StoreWorks, StoreSaves
  <2>5. QED
        BY <2>2, <2>3, <2>4 DEF StorePathInv
<1>11. QED
      BY <1>7, <1>8, <1>9, <1>10 DEF StoreIInv

\* The temporary file is written
LEMMA StoreFill ==
    ASSUME StoreValues, StoreIInv, NEW j \in StoreJobs, Store!Fill(j)
    PROVE  StoreIInv'
<1>1. Store!TypeOK /\ StoreJobBufs /\ \A q \in Store!Paths : StorePathInv(q)
      BY DEF StoreIInv
<1>2. PICK p \in Store!Paths : p = job[j].path
      BY <1>1 DEF Store!TypeOK
<1> DEFINE n == [status |-> job[j].buf, readable |-> FALSE]
           c == [job[j] EXCEPT !.pc = "rename"]
<1>3. c \in StoreJob /\ c.pc = "rename" /\ c.path = p /\ c.buf = job[j].buf
      BY <1>1, <1>2 DEF Store!TypeOK, StoreJob
<1>4. /\ UNCHANGED <<state, sum, watching, timers, unsettled, overlapped, storeCalls, storeEdits,
           storeFaults>>
      /\ job[j].pc = "fill"
      BY DEF Store!Fill, Store!Caches, Store!Ghosts, Store!Bounds, Store!At
<1>5. n \in Store!Note /\ ~n.readable /\ n # Torn /\ n # None
  <2>1. job[j].buf \in StoreStatuses
        BY <1>1, <1>4 DEF StoreJobBufs, StoreSaves
  <2>2. n \in Store!Note /\ ~n.readable
        BY <2>1 DEF Store!Note
  <2> HIDE DEF n
  <2>3. QED
        BY <2>2 DEF StoreValues
<1>6. \/ /\ tmp[p] # None /\ tmp' = [tmp EXCEPT ![p] = n] /\ job' = [job EXCEPT ![j] = c]
         /\ storeFile' = storeFile /\ events' = events
      \/ /\ tmp[p] = None /\ tmp' = tmp /\ job' = [Store!Disturbed(p, job) EXCEPT ![j] = c]
         /\ storeFile' \in {storeFile, [storeFile EXCEPT ![p] = n]}
              /\ events' \in {events, events \cup {p}}
  <2>1. CASE tmp[p] # None
        BY <1>1, <1>2, <2>1 DEF Store!Fill, Store!Goes, Store!TypeOK
  <2>2. CASE tmp[p] = None
        BY <1>1, <1>2, <2>2 DEF Store!Fill, Store!Disturbs, Store!Becomes
  <2>3. QED
        BY <2>1, <2>2
<1> HIDE DEF n, c
<1>7. /\ job' \in [StoreJobs -> StoreJob] /\ job'[j] = c
      /\ \A i \in StoreJobs : i # j => job'[i] = job[i] \/ StoreAcross(i, p)
  <2>1. CASE job' = [job EXCEPT ![j] = c]
        BY <1>1, <1>3, <2>1, StoreJobChange
  <2>2. CASE job' = [Store!Disturbed(p, job) EXCEPT ![j] = c]
        BY <1>1, <1>3, <2>2, StoreCrossed
  <2>3. QED
        BY <1>6, <2>1, <2>2
<1>8. Store!TypeOK'
  <2>1. tmp' \in [Store!Paths -> Store!Note \cup {Torn, None}]
        BY <1>1, <1>6, <1>5 DEF Store!TypeOK
  <2>2. storeFile' \in [Store!Paths -> Store!Note \cup {Torn, None}]
        BY <1>1, <1>6, <1>5 DEF Store!TypeOK
  <2>3. events' \subseteq Store!Paths
        BY <1>1, <1>6 DEF Store!TypeOK
  <2>4. QED
        BY <1>1, <1>7, <1>4, <2>1, <2>2, <2>3 DEF Store!TypeOK, StoreJob
<1>9. StoreJobBufs'
      BY <1>1, <1>3, <1>7, <1>4 DEF StoreJobBufs, StoreSaves, StoreAcross
<1>10. \A q \in Store!Paths : q # p => StorePathInv(q)'
  <2>1. SUFFICES ASSUME NEW q \in Store!Paths, q # p PROVE StorePathInv(q)'
        OBVIOUS
  <2>2. \A i \in StoreJobs : job'[i] = job[i] \/ (StoreAway(i, q) /\ StoreAway(i, q)')
        BY <1>3, <1>7, <1>4, <1>2, <2>1 DEF StoreAway, StoreAcross
  <2>3. storeFile'[q] = storeFile[q] /\ tmp'[q] = tmp[q] /\ state'[q] = state[q]
          /\ sum'[q] = sum[q]
        BY <1>1, <1>6, <1>4, <2>1 DEF Store!TypeOK
  <2>4. /\ q \in events' <=> q \in events
        /\ q \in timers' <=> q \in timers
        /\ q \in unsettled' <=> q \in unsettled
        /\ q \in overlapped' <=> q \in overlapped
        BY <1>1, <1>6, <1>4, <2>1
  <2>5. QED
        BY <1>1, <2>1, <2>2, <2>3, <2>4, StoreFrame
<1>11. StorePathInv(p)'
  <2>1. \/ tmp'[p] = n /\ storeFile'[p] = storeFile[p] /\ tmp[p] # None
             /\ \A i \in StoreJobs : i # j => job'[i] = job[i]
        \/ tmp[p] = None /\ tmp'[p] = None /\ \A i \in StoreJobs : i # j
             => StoreAcross(i, p) \/ StoreAway(i, p)'
    <3>1. CASE tmp[p] # None
          BY <1>1, <1>3, <1>6, <3>1, StoreJobChange DEF Store!TypeOK
    <3>2. CASE tmp[p] = None
      <4>1. \A i \in StoreJobs : i # j => StoreAcross(i, p) \/ (StoreAway(i, p)
              /\ job'[i] = job[i])
            BY <1>1, <1>3, <1>6, <3>2, StoreCrossed
      <4>2. QED
            BY <1>6, <3>2, <4>1 DEF StoreAway
    <3>3. QED
          BY <3>1, <3>2
  <2>2. StoreUncrossed(p)'
        BY <1>1, <1>3, <1>7, <1>5, <2>1 DEF StorePathInv, StoreUncrossed, StoreWorks,
             Store!Readable, StoreAcross, StoreAway
  <2>3. StoreOneSave(p)'
    <3>1. SUFFICES ASSUME p \notin overlapped' PROVE StoreOneSave(p)'
          BY DEF StoreOneSave
    <3>2. p \notin overlapped /\ StoreWorks(j, p, {"fill"}) /\ StoreOneSave(p)
          BY <1>1, <1>4, <1>2, <3>1 DEF StoreWorks, StorePathInv
    <3>3. tmp[p] = Torn
          BY <3>2 DEF StoreOneSave
    <3>4. tmp'[p] = n /\ storeFile'[p] = storeFile[p] /\ \A i \in StoreJobs : i # j
            => job'[i] = job[i]
          BY <2>1, <3>3 DEF StoreValues
    <3>5. \A i \in StoreJobs : i # j => ~StoreWorks(i, p, {"fill", "rename"})'
          BY <3>2, <3>4 DEF StoreOneSave, StoreWorks
    <3>6. ~StoreWorks(j, p, {"fill"})'
          BY <1>3, <1>7 DEF StoreWorks
    <3>7. \A i \in StoreJobs : StoreWorks(i, p, {"rename"})' \/ StoreWorks(i, p, {"fill"})'
            => StoreWorks(i, p, {"fill", "rename"})'
          BY DEF StoreWorks
    <3>8. QED
          BY <1>5, <3>2, <3>4, <3>5, <3>6, <3>7 DEF StoreOneSave
  <2>4. StorePicture(p)'
        BY <1>3, <1>7 DEF StorePicture, StoreWorks, StoreSaves
  <2>5. QED
        BY <2>2, <2>3, <2>4 DEF StorePathInv
<1>12. QED
      BY <1>8, <1>9, <1>10, <1>11 DEF StoreIInv

\* The temporary file takes the note's place
LEMMA StoreRename ==
    ASSUME StoreValues, StoreIInv, NEW j \in StoreJobs, Store!Rename(j)
    PROVE  StoreIInv'
<1>1. Store!TypeOK /\ StoreJobBufs /\ \A q \in Store!Paths : StorePathInv(q)
      BY DEF StoreIInv
<1>2. PICK p \in Store!Paths : p = job[j].path
      BY <1>1 DEF Store!TypeOK
<1>3. /\ UNCHANGED <<state, sum, watching, timers, overlapped, storeCalls, storeEdits,
           storeFaults>>
      /\ job[j].pc = "rename" /\ unsettled' = unsettled \cup {p}
      BY <1>2 DEF Store!Rename, Store!Caches, Store!Bounds, Store!At
<1>4. PICK c \in StoreJob :
        \/ /\ tmp[p] = None /\ job' = [job EXCEPT ![j] = c] /\ c.pc = "idle"
           /\ UNCHANGED <<storeFile, tmp, events>>
        \/ /\ job' = [Store!Disturbed(p, job) EXCEPT ![j] = c]
           /\ c.pc = "sync" /\ c.path = p /\ c.buf = job[j].buf
           /\ storeFile' = [storeFile EXCEPT ![p] = tmp[p]] /\ tmp' = [tmp EXCEPT ![p] = None]
           /\ events' \in {events, events \cup {p}}
  <2>1. CASE tmp[p] = None
    <3>1. Store!Idle \in StoreJob /\ Store!Idle.pc = "idle"
          BY DEF Store!Idle, StoreJob, StoreValues, Store!Paths
    <3>2. QED
          BY <1>2, <2>1, <3>1 DEF Store!Rename, Store!Ends
  <2>2. CASE tmp[p] # None
    <3> DEFINE c == [job[j] EXCEPT !.pc = "sync"]
    <3>1. c \in StoreJob /\ c.pc = "sync" /\ c.path = p /\ c.buf = job[j].buf
          BY <1>1, <1>2 DEF Store!TypeOK, StoreJob
    <3>2. /\ job' = [Store!Disturbed(p, job) EXCEPT ![j] = c]
          /\ storeFile' = [storeFile EXCEPT ![p] = tmp[p]] /\ tmp' = [tmp EXCEPT ![p] = None]
          /\ events' \in {events, events \cup {p}}
          BY <1>2, <2>2 DEF Store!Rename, Store!Disturbs, Store!Becomes
    <3>3. QED
          BY <3>1, <3>2
  <2>3. QED
        BY <2>1, <2>2
<1>5. /\ job' \in [StoreJobs -> StoreJob] /\ job'[j] = c
      /\ \A i \in StoreJobs : i # j => job'[i] = job[i] \/ StoreAcross(i, p)
  <2>1. CASE job' = [job EXCEPT ![j] = c]
        BY <1>1, <2>1, StoreJobChange
  <2>2. CASE job' = [Store!Disturbed(p, job) EXCEPT ![j] = c]
        BY <1>1, <2>2, StoreCrossed
  <2>3. QED
        BY <1>4, <2>1, <2>2
<1>6. Store!TypeOK'
  <2>1. tmp' \in [Store!Paths -> Store!Note \cup {Torn, None}]
          /\ storeFile' \in [Store!Paths -> Store!Note \cup {Torn, None}]
        BY <1>1, <1>4 DEF Store!TypeOK
  <2>2. events' \subseteq Store!Paths /\ unsettled' \subseteq Store!Paths
        BY <1>1, <1>3, <1>4 DEF Store!TypeOK
  <2>3. QED
        BY <1>1, <1>5, <1>3, <2>1, <2>2 DEF Store!TypeOK, StoreJob
<1>7. StoreJobBufs'
      BY <1>1, <1>4, <1>5, <1>3 DEF StoreJobBufs, StoreSaves, StoreAcross
<1>8. \A q \in Store!Paths : q # p => StorePathInv(q)'
  <2>1. SUFFICES ASSUME NEW q \in Store!Paths, q # p PROVE StorePathInv(q)'
        OBVIOUS
  <2>2. \A i \in StoreJobs : job'[i] = job[i] \/ (StoreAway(i, q) /\ StoreAway(i, q)')
        BY <1>4, <1>5, <1>3, <1>2, <2>1 DEF StoreAway, StoreAcross
  <2>3. storeFile'[q] = storeFile[q] /\ tmp'[q] = tmp[q] /\ state'[q] = state[q]
          /\ sum'[q] = sum[q]
        BY <1>1, <1>4, <1>3, <2>1 DEF Store!TypeOK
  <2>4. /\ q \in events' <=> q \in events
        /\ q \in timers' <=> q \in timers
        /\ q \in unsettled' <=> q \in unsettled
        /\ q \in overlapped' <=> q \in overlapped
        BY <1>1, <1>4, <1>3, <2>1
  <2>5. QED
        BY <1>1, <2>1, <2>2, <2>3, <2>4, StoreFrame
<1>9. StorePathInv(p)'
  <2>1. \/ /\ tmp'[p] = tmp[p] /\ storeFile'[p] = storeFile[p] /\ c.pc = "idle"
           /\ \A i \in StoreJobs : i # j => job'[i] = job[i]
        \/ /\ tmp'[p] = None /\ storeFile'[p] = tmp[p] /\ c.pc = "sync" /\ c.path = p
           /\ \A i \in StoreJobs : i # j => StoreAcross(i, p) \/ StoreAway(i, p)'
    <3>1. CASE c.pc = "idle"
          BY <1>1, <1>4, <3>1, StoreJobChange DEF Store!TypeOK
    <3>2. CASE c.pc # "idle"
      <4>1. \A i \in StoreJobs : i # j => StoreAcross(i, p) \/ (StoreAway(i, p)
              /\ job'[i] = job[i])
            BY <1>1, <1>4, <3>2, StoreCrossed
      <4>2. tmp'[p] = None /\ storeFile'[p] = tmp[p] /\ c.pc = "sync" /\ c.path = p
            BY <1>1, <1>4, <3>2 DEF Store!TypeOK
      <4>3. QED
            BY <4>1, <4>2 DEF StoreAway
    <3>3. QED
          BY <3>1, <3>2
  <2>2. StoreUncrossed(p)'
        BY <1>1, <1>5, <2>1 DEF StorePathInv, StoreUncrossed, StoreWorks, Store!Readable,
             StoreAcross, StoreAway
  <2>3. StoreOneSave(p)'
    <3>1. SUFFICES ASSUME p \notin overlapped' PROVE StoreOneSave(p)'
          BY DEF StoreOneSave
    <3>2. p \notin overlapped /\ StoreWorks(j, p, {"rename"}) /\ StoreWorks(j, p, {"fill",
            "rename"}) /\ StoreOneSave(p)
          BY <1>1, <1>3, <1>2, <3>1 DEF StoreWorks, StorePathInv
    <3>3. tmp[p] # Torn /\ storeFile[p] # Torn
          BY <3>2 DEF StoreOneSave
    <3>4. \A i \in StoreJobs : i # j => ~StoreWorks(i, p, {"fill", "rename"})
          BY <3>2 DEF StoreOneSave
    <3>5. \A i \in StoreJobs : ~StoreWorks(i, p, {"fill", "rename"})'
          BY <1>5, <2>1, <3>4 DEF StoreWorks, StoreAcross
    <3>6. \A i \in StoreJobs : StoreWorks(i, p, {"rename"})' \/ StoreWorks(i, p, {"fill"})'
            => StoreWorks(i, p, {"fill", "rename"})'
          BY DEF StoreWorks
    <3>7. storeFile'[p] # Torn
          BY <2>1, <3>3
    <3>8. QED
          BY <3>5, <3>6, <3>7 DEF StoreOneSave
  <2>4. StorePicture(p)'
        BY <1>3 DEF StorePicture
  <2>5. QED
        BY <2>2, <2>3, <2>4 DEF StorePathInv
<1>10. QED
      BY <1>6, <1>7, <1>8, <1>9 DEF StoreIInv

\* Somebody else writes or removes a note
LEMMA StoreChanges ==
    ASSUME StoreValues, StoreIInv, NEW p \in Store!Paths, NEW n \in Store!Note \cup {None},
             Store!Changes(p, n),
           UNCHANGED <<tmp, state, sum, watching, timers, overlapped>>,
           storeCalls' \in 0..StoreCalls, storeEdits' \in 0..StoreEdits,
             storeFaults' \in 0..StoreFaults
    PROVE  StoreIInv'
<1>1. Store!TypeOK /\ StoreJobBufs /\ \A q \in Store!Paths : StorePathInv(q)
      BY DEF StoreIInv
<1>2. /\ job' \in [StoreJobs -> StoreJob]
      /\ \A i \in StoreJobs : StoreAcross(i, p) \/ (StoreAway(i, p) /\ job'[i] = job[i])
  <2>1. job' = Store!Disturbed(p, job)
        BY DEF Store!Changes
  <2>2. SUFFICES ASSUME NEW i \in StoreJobs, ~StoreAway(i, p) PROVE StoreAcross(i, p)
        BY <1>1, <2>1, StoreDisturbed
  <2>3. job'[i] = [job[i] EXCEPT !.clean = FALSE] /\ job[i] \in StoreJob
        BY <1>1, <2>1, <2>2, StoreDisturbed DEF Store!TypeOK, StoreJob
  <2>4. QED
        BY <2>2, <2>3 DEF StoreAcross, StoreJob
<1>3. /\ storeFile' = [storeFile EXCEPT ![p] = n] /\ storeFile'[p] = n
      /\ events' \in {events, events \cup {p}} /\ unsettled' \in {unsettled, unsettled \cup {p}}
      /\ p \in unsettled' \/ (p \in events' /\ Store!OnPath(p) = {})
      BY <1>1 DEF Store!Changes, Store!Becomes, Store!TypeOK
<1>4. n # Torn
      BY DEF StoreValues
<1>5. Store!TypeOK'
  <2>1. storeFile' \in [Store!Paths -> Store!Note \cup {Torn, None}]
          /\ events' \subseteq Store!Paths /\ unsettled' \subseteq Store!Paths
        BY <1>1, <1>3 DEF Store!TypeOK
  <2>2. QED
        BY <1>1, <1>2, <2>1 DEF Store!TypeOK, StoreJob
<1>6. StoreJobBufs'
      BY <1>1, <1>2 DEF StoreJobBufs, StoreSaves, StoreAcross
<1>7. \A q \in Store!Paths : q # p => StorePathInv(q)'
  <2>1. SUFFICES ASSUME NEW q \in Store!Paths, q # p PROVE StorePathInv(q)'
        OBVIOUS
  <2>2. \A i \in StoreJobs : job'[i] = job[i] \/ (StoreAway(i, q) /\ StoreAway(i, q)')
        BY <1>2, <2>1 DEF StoreAway, StoreAcross
  <2>3. storeFile'[q] = storeFile[q] /\ tmp'[q] = tmp[q] /\ state'[q] = state[q]
          /\ sum'[q] = sum[q]
        BY <1>1, <1>3, <2>1 DEF Store!TypeOK
  <2>4. /\ q \in events' <=> q \in events
        /\ q \in timers' <=> q \in timers
        /\ q \in unsettled' <=> q \in unsettled
        /\ q \in overlapped' <=> q \in overlapped
        BY <1>1, <1>3, <2>1
  <2>5. QED
        BY <1>1, <2>1, <2>2, <2>3, <2>4, StoreFrame
<1>8. StorePathInv(p)'
  <2>1. \A i \in StoreJobs : StoreAway(i, p)' \/ (StoreAcross(i, p) /\ ~StoreAway(i, p))
        BY <1>2 DEF StoreAway, StoreAcross
  <2>2. StoreUncrossed(p)'
        BY <1>1, <2>1 DEF StorePathInv, StoreUncrossed, StoreWorks, Store!Readable, StoreAcross,
             StoreAway
  <2>3. StoreOneSave(p)'
        BY <1>1, <1>3, <1>4, <2>1 DEF StorePathInv, StoreOneSave, StoreWorks, StoreAcross,
             StoreAway
  <2>4. StorePicture(p)'
    <3>1. SUFFICES ASSUME p \notin unsettled' PROVE StorePicture(p)'
          BY DEF StorePicture
    <3>2. p \notin unsettled /\ p \in events' /\ \A i \in StoreJobs : StoreAway(i, p)
          BY <1>3, <3>1 DEF Store!OnPath, StoreAway
    <3>3. Store!Readable(sum[p]) => state[p] = sum[p].status
          BY <1>1, <3>2 DEF StorePathInv, StorePicture, StoreWorks, StoreSaves, StoreAway
    <3>4. QED
          BY <3>2, <3>3 DEF StorePicture, Store!Readable
  <2>5. QED
        BY <2>2, <2>3, <2>4 DEF StorePathInv
<1>9. QED
      BY <1>5, <1>6, <1>7, <1>8 DEF StoreIInv

\* A person edits a note
LEMMA StoreEdit ==
    ASSUME StoreValues, StoreIInv, NEW p \in Store!Paths, Store!Edit(p)
    PROVE  StoreIInv'
<1>1. PICK n \in Store!Note \cup {None} : Store!Changes(p, n)
      BY DEF Store!Edit
<1>2. /\ UNCHANGED <<tmp, state, sum, watching, timers, overlapped>>
      /\ storeCalls' \in 0..StoreCalls /\ storeEdits' \in 0..StoreEdits
           /\ storeFaults' \in 0..StoreFaults
      BY DEF Store!Edit, Store!Caches, StoreIInv, Store!TypeOK, StoreValues
<1>3. QED
      BY <1>1, <1>2, StoreChanges

\* A person deletes a note
LEMMA StoreDelete == ASSUME StoreValues, StoreIInv, Store!Delete PROVE StoreIInv'
<1>1. PICK p \in Store!Paths : Store!Changes(p, None)
      BY DEF Store!Delete
<1>2. /\ UNCHANGED <<tmp, state, sum, watching, timers, overlapped>>
      /\ storeCalls' \in 0..StoreCalls /\ storeEdits' \in 0..StoreEdits
           /\ storeFaults' \in 0..StoreFaults
      BY DEF Store!Delete, Store!Caches, StoreIInv, Store!TypeOK, StoreValues
<1>3. QED
      BY <1>1, <1>2, StoreChanges

\* No job changes: what matters of a path is where changes of it are on their way
LEMMA StoreWatch ==
    ASSUME StoreValues, StoreIInv, UNCHANGED <<storeFile, tmp, state, sum, job, overlapped,
             storeCalls, storeEdits>>,
           watching' \in BOOLEAN, events' \subseteq Store!Paths, timers' \subseteq Store!Paths,
             unsettled' \subseteq Store!Paths,
           storeFaults' \in 0..StoreFaults,
           \A p \in Store!Paths : \/ p \in unsettled'
                                  \/ p \notin unsettled /\ (p \in events \cup timers
                                       => p \in events' \cup timers')
    PROVE  StoreIInv'
<1>1. Store!TypeOK /\ StoreJobBufs /\ \A q \in Store!Paths : StorePathInv(q)
      BY DEF StoreIInv
<1>2. Store!TypeOK'
      BY <1>1 DEF Store!TypeOK
<1>3. StoreJobBufs'
      BY <1>1 DEF StoreJobBufs
<1>4. ASSUME NEW p \in Store!Paths PROVE StorePathInv(p)'
  <2>1. StoreUncrossed(p)'
        BY <1>1 DEF StorePathInv, StoreUncrossed, StoreWorks, Store!Readable
  <2>2. StoreOneSave(p)'
        BY <1>1 DEF StorePathInv, StoreOneSave, StoreWorks
  <2>3. StorePicture(p)'
    <3>1. CASE p \in unsettled'
          BY <3>1 DEF StorePicture
    <3>2. CASE p \notin unsettled /\ (p \in events \cup timers => p \in events' \cup timers')
          BY <1>1, <3>2 DEF StorePathInv, StorePicture, StoreWorks, Store!Readable
    <3>3. QED
          BY <3>1, <3>2
  <2>4. QED
        BY <2>1, <2>2, <2>3 DEF StorePathInv
<1>5. QED
      BY <1>2, <1>3, <1>4 DEF StoreIInv

\* The process is killed
LEMMA StoreDies == ASSUME StoreValues, StoreIInv, Store!Dies PROVE StoreIInv'
<1>1. Store!TypeOK /\ StoreJobBufs /\ \A q \in Store!Paths : StorePathInv(q)
      BY DEF StoreIInv
<1>2. Store!Idle \in StoreJob /\ Store!Idle.pc = "idle"
      BY DEF Store!Idle, StoreJob, StoreValues, Store!Paths
<1>3. /\ UNCHANGED <<storeFile, tmp, watching, overlapped, storeCalls,
           storeEdits>> /\ storeFaults' \in 0..StoreFaults
      /\ events' = {} /\ timers' = {} /\ unsettled' = {}
      /\ state' = [p \in Store!Paths |-> None] /\ sum' = [p \in Store!Paths |-> None]
      /\ job' \in [StoreJobs -> StoreJob] /\ \A i \in StoreJobs : job'[i].pc = "idle"
      BY <1>1, <1>2 DEF Store!Dies, Store!TypeOK, StoreValues
<1>4. Store!TypeOK'
      BY <1>1, <1>3 DEF Store!TypeOK, StoreJob
<1>5. StoreJobBufs'
      BY <1>3 DEF StoreJobBufs, StoreSaves
<1>6. ASSUME NEW p \in Store!Paths PROVE StorePathInv(p)'
  <2>1. StoreUncrossed(p)'
        BY <1>1, <1>3 DEF StorePathInv, StoreUncrossed, StoreWorks, Store!Readable
  <2>2. StoreOneSave(p)'
        BY <1>1, <1>3 DEF StorePathInv, StoreOneSave, StoreWorks
  <2>3. StorePicture(p)'
        BY <1>3 DEF StorePicture, StoreWorks, Store!Readable
  <2>4. QED
        BY <2>1, <2>2, <2>3 DEF StorePathInv
<1>7. QED
      BY <1>4, <1>5, <1>6 DEF StoreIInv

\* The store starts so
LEMMA StoreInit == ASSUME StoreValues, Store!Init PROVE StoreIInv
<1>1. Store!Idle \in StoreJob /\ Store!Idle.pc = "idle"
      BY DEF Store!Idle, StoreJob, StoreValues, Store!Paths
<1>2. 0 \in 0..StoreCalls /\ 0 \in 0..StoreEdits /\ 0 \in 0..StoreFaults
      BY DEF StoreValues
<1>3. storeFile \in [Store!Paths -> Store!Note \cup {None}]
      BY DEF Store!Init, Store!Note
<1>4. /\ tmp = [p \in Store!Paths |-> None] /\ state = [p \in Store!Paths |-> None]
           /\ sum = [p \in Store!Paths |-> None]
      /\ job \in [StoreJobs -> StoreJob] /\ \A j \in StoreJobs : job[j].pc = "idle"
      /\ unsettled = {} /\ overlapped = {} /\ events = {} /\ timers = {} /\ watching = TRUE
      BY <1>1 DEF Store!Init
<1>5. Store!TypeOK
      BY <1>2, <1>3, <1>4 DEF Store!TypeOK, StoreJob, Store!Init
<1>6. StoreJobBufs
      BY <1>4 DEF StoreJobBufs, StoreSaves
<1>7. ASSUME NEW p \in Store!Paths PROVE StorePathInv(p)
  <2>1. StoreUncrossed(p)
        BY <1>4 DEF StoreUncrossed, StoreWorks, Store!Readable
  <2>2. StoreOneSave(p)
        BY <1>3, <1>4 DEF StoreOneSave, StoreWorks, StoreValues
  <2>3. StorePicture(p)
        BY <1>4 DEF StorePicture, StoreWorks, Store!Readable
  <2>4. QED
        BY <2>1, <2>2, <2>3 DEF StorePathInv
<1>8. QED
      BY <1>5, <1>6, <1>7 DEF StoreIInv

\* It holds what the runs check
LEMMA StoreInvLemma == ASSUME StoreValues, StoreIInv PROVE Store!StoreInv
<1>1. Store!TypeOK /\ StoreJobBufs /\ \A q \in Store!Paths : StorePathInv(q)
      BY DEF StoreIInv
<1>2. Store!NotesAreWhole
      BY <1>1 DEF Store!NotesAreWhole, StorePathInv, StoreOneSave
<1>3. Store!CacheAgrees
  <2>1. SUFFICES ASSUME NEW p \in Store!Paths, Store!Quiet(p), p \notin unsettled, sum[p] # None,
                          storeFile[p] # None
                 PROVE  sum[p] = storeFile[p] /\ (Store!Readable(storeFile[p])
                          => state[p] = storeFile[p].status)
        BY DEF Store!CacheAgrees
  <2>2. p \notin events \cup timers /\ \A j \in StoreJobs : StoreAway(j, p)
        BY <2>1 DEF Store!Quiet, Store!OnPath, StoreAway
  <2>3. \A j \in StoreJobs : \A labels : "idle" \notin labels /\ "find" \notin labels
          => ~StoreWorks(j, p, labels)
        BY <2>2 DEF StoreWorks, StoreAway
  <2>4. QED
        BY <1>1, <2>1, <2>2, <2>3 DEF StorePathInv, StorePicture, StoreSaves
<1>4. QED
      BY <1>1, <1>2, <1>3 DEF Store!StoreInv

\* A step of the store, of a person or of the watcher keeps it
LEMMA StoreStep == ASSUME StoreValues, StoreIInv, Store!Next \/ UNCHANGED store PROVE StoreIInv'
<1>1. Store!TypeOK
      BY DEF StoreIInv
<1>2. ASSUME NEW p \in Store!Paths, Store!Report(p) PROVE StoreIInv'
      BY <1>1, <1>2, StoreWatch DEF Store!Report, Store!Caches, Store!Ghosts, Store!Bounds,
           Store!TypeOK
<1>3. CASE Store!Stop
  <2>1. /\ UNCHANGED <<storeFile, tmp, state, sum, job, overlapped, storeCalls, storeEdits>>
        /\ watching' = FALSE /\ events' = {} /\ timers' = {} /\ storeFaults' \in 0..StoreFaults
        /\ unsettled' = unsettled \cup events \cup timers
        BY <1>1, <1>3 DEF Store!Stop, Store!Caches, Store!TypeOK, StoreValues
  <2>2. unsettled' \subseteq Store!Paths
        BY <1>1, <2>1 DEF Store!TypeOK
  <2>3. QED
        BY <2>1, <2>2, StoreWatch
<1>4. CASE Store!Start
      BY <1>1, <1>4, StoreWatch DEF Store!Start, Store!Caches, Store!Ghosts, Store!Bounds,
           Store!TypeOK
<1>5. CASE UNCHANGED store
      BY <1>1, <1>5, StoreWatch DEF store, Store!TypeOK
<1>6. QED
      BY <1>2, <1>3, <1>4, <1>5, StoreCheck, StoreLoad, StoreCache, StoreFind, StoreWriteTmp,
           StoreFill,
         StoreRename, StoreSyncCache, StoreFail, StoreFires, StoreBeginLoad, StoreBeginSave,
         StoreBeginWriteBack, StoreEdit, StoreDelete, StoreDies DEF Store!Next, Store!Step

-----------------------------------------------------------------------------
(* The synchronisation with a provider *)

SyncValues == /\ SyncCalls \in Nat /\ SyncEdits \in Nat /\ SyncFaults \in Nat
              /\ Sync!Content # {} /\ None \notin Sync!Record \cup Sync!Content \cup SyncTasks
                   /\ None \notin [SyncTasks -> Sync!Record]

\* A call that holds a copy of t
SyncHolds(s, t) == syncCall[s].pc \in {"save", "push", "update"} /\ syncCall[s].task = t

SyncForm == \A s \in SyncSlots :
    /\ syncCall[s].pc \in {"save", "push", "update"} => syncCall[s].task \in SyncTasks
    /\ syncCall[s].pc \in {"push", "update"} => syncCall[s].copy # None
    /\ syncCall[s].pc \in {"next", "save"} => syncCall[s].fetched # None
    /\ syncCall[s].pc = "update" => syncCall[s].task \in pushed

\* Of r, the store's record or a copy of it, and the provider's record the later one is the
\* latest that was written by hand
SyncDated(r, t) ==
    /\ r.updated <= clock
    /\ r.updated = 0 \/ r.updated <= remote[t].updated => remote[t].content = latest[t]
    /\ r.updated >= remote[t].updated => r.content = latest[t]

\* ... or would be, were the status not pushed with a date of its own
SyncFollows(r, t) == mode = "newest-wins" /\ t \notin pushed \cup lost =>
                   IF r = None THEN remote[t].content = latest[t] ELSE SyncDated(r, t)

SyncTaskInv(t) ==
    /\ remote[t].updated \in 1..clock
    /\ t \in settled \cup agreed => local[t] # None
    /\ t \in settled =>
         /\ mode = "provider-wins" => local[t].content = remote[t].content
         /\ mode = "newest-wins" /\ t \notin pushed \cup lost /\ local[t].updated # 0 =>
              local[t].content = latest[t]
    /\ t \in agreed => local[t].content.status = remote[t].content.status
    /\ mode = "local-wins" /\ t \notin lost /\ local[t] # None => local[t].content = mine[t]
    /\ SyncFollows(local[t], t)

\* What a call that nothing has crossed knows of t
SyncCalmInv(s, t) ==
    /\ syncCall[s].pc \in {"next", "save"} => syncCall[s].fetched[t] = remote[t]
    /\ SyncHolds(s, t) /\ syncCall[s].copy # None /\ mode = "local-wins" /\ t \notin lost =>
         syncCall[s].copy.content = mine[t]
    /\ SyncHolds(s, t) /\ syncCall[s].pc = "save" =>
         /\ t \in settled \/ local[t] = syncCall[s].copy
         /\ syncCall[s].copy = None /\ local[t] # None => mine[t] = remote[t].content
         /\ t \in agreed => syncCall[s].copy # None
              /\ syncCall[s].copy.content.status = remote[t].content.status
         /\ SyncFollows(syncCall[s].copy, t)
    /\ SyncHolds(s, t) /\ syncCall[s].pc = "update"
         => remote[t].content.status = syncCall[s].copy.content.status

SyncCallInv(s, t) == /\ SyncHolds(s, t) /\ syncCall[s].copy # None => local[t] # None
                     /\ t \in syncCall[s].calm => SyncCalmInv(s, t)

SyncIInv == /\ Sync!TypeOK /\ SyncForm
            /\ \A t \in SyncTasks : SyncTaskInv(t) /\ \A s \in SyncSlots : SyncCallInv(s, t)

SyncCall == [pc : {"idle", "next", "save", "push", "update"}, task : SyncTasks \cup {None},
             fetched : {None} \cup [SyncTasks -> Sync!Record], todo : SUBSET SyncTasks,
             copy : Sync!Record \cup {None}, calm : SUBSET SyncTasks]

\* The call at s is where it was, and knows no more of the tasks than it did
SyncSame(s) == /\ syncCall'[s].pc = syncCall[s].pc /\ syncCall'[s].task = syncCall[s].task
               /\ syncCall'[s].copy = syncCall[s].copy
                    /\ syncCall'[s].fetched = syncCall[s].fetched
               /\ syncCall'[s].calm \subseteq syncCall[s].calm

\* Nothing is done to u
SyncAlone(u) == /\ remote'[u] = remote[u] /\ local'[u] = local[u]
                /\ mine'[u] = mine[u] /\ latest'[u] = latest[u]
                /\ u \in settled' <=> u \in settled
                /\ u \in agreed' <=> u \in agreed
                /\ u \in pushed' <=> u \in pushed
                /\ u \in lost' <=> u \in lost

\* A task that a step leaves alone stays as it was
LEMMA SyncFrame ==
    ASSUME Sync!TypeOK, NEW u \in SyncTasks, SyncTaskInv(u), mode' = mode, clock' \in Nat,
             clock' >= clock, SyncAlone(u)
    PROVE  /\ SyncTaskInv(u)'
           /\ \A r \in Sync!Record \cup {None} : SyncFollows(r, u) => SyncFollows(r, u)'
           /\ \A s \in SyncSlots : SyncSame(s) /\ SyncCallInv(s, u) => SyncCallInv(s, u)'
<1>1. \A r \in Sync!Record \cup {None} : SyncFollows(r, u) => SyncFollows(r, u)'
  <2>1. SUFFICES ASSUME NEW r \in Sync!Record \cup {None}, SyncFollows(r, u),
                        mode = "newest-wins" /\ u \notin pushed \cup lost
                 PROVE  IF r = None THEN remote[u].content = latest[u] ELSE SyncDated(r, u)'
        BY DEF SyncFollows, SyncAlone
  <2>2. CASE r = None
        BY <2>1, <2>2 DEF SyncFollows
  <2>3. CASE r # None
    <3>1. SyncDated(r, u) /\ r.updated \in Nat /\ clock \in Nat
          BY <2>1, <2>3 DEF SyncFollows, Sync!TypeOK, Sync!Record
    <3>2. SyncDated(r, u)'
          BY <3>1 DEF SyncDated, SyncAlone
    <3>3. QED
          BY <2>3, <3>2
  <2>4. QED
        BY <2>2, <2>3
<1>2. local[u] \in Sync!Record \cup {None} /\ remote[u] \in Sync!Record /\ clock \in Nat
      BY DEF Sync!TypeOK
<1>3. SyncTaskInv(u)'
  <2>1. PICK l \in Sync!Record \cup {None} : l = local[u] /\ local'[u] = l
        BY <1>2 DEF SyncAlone
  <2>2. SyncFollows(l, u)
        BY <2>1 DEF SyncTaskInv
  <2>3. SyncFollows(l, u)'
        BY <1>1, <2>2
  <2>4. SyncFollows(local[u], u)'
        BY <2>1, <2>3 DEF SyncFollows, SyncDated
  <2>5. remote'[u].updated \in 1..clock'
        BY <1>2 DEF SyncTaskInv, SyncAlone, Sync!Record
  <2>6. QED
        BY <2>4, <2>5 DEF SyncTaskInv, SyncAlone
<1>4. ASSUME NEW s \in SyncSlots, SyncSame(s), SyncCallInv(s, u) PROVE SyncCallInv(s, u)'
  <2>1. SyncHolds(s, u)' <=> SyncHolds(s, u)
        BY <1>4 DEF SyncSame, SyncHolds
  <2>2. syncCall[s].copy \in Sync!Record \cup {None}
        BY DEF Sync!TypeOK
  <2>3. u \in syncCall'[s].calm => SyncCalmInv(s, u)'
    <3>1. SUFFICES ASSUME u \in syncCall'[s].calm PROVE SyncCalmInv(s, u)'
          OBVIOUS
    <3>2. SyncCalmInv(s, u)
          BY <1>4, <3>1 DEF SyncSame, SyncCallInv
    <3>3. PICK r \in Sync!Record \cup {None} : r = syncCall[s].copy /\ syncCall'[s].copy = r
          BY <1>4, <2>2 DEF SyncSame
    <3>4. SyncFollows(r, u) => SyncFollows(r, u)'
          BY <1>1
    <3>5. SyncFollows(syncCall[s].copy, u) => SyncFollows(syncCall[s].copy, u)'
          BY <3>3, <3>4 DEF SyncFollows, SyncDated
    <3>6. QED
          BY <1>4, <2>1, <3>2, <3>5 DEF SyncCalmInv, SyncSame, SyncAlone
  <2>4. QED
        BY <1>4, <2>1, <2>3 DEF SyncCallInv, SyncSame, SyncAlone
<1>5. QED
      BY <1>1, <1>3, <1>4

\* One call changes, and the others are the same
LEMMA SyncCallChange ==
    ASSUME Sync!TypeOK, NEW s \in SyncSlots, NEW c \in SyncCall,
             syncCall' = [syncCall EXCEPT ![s] = c]
    PROVE  /\ syncCall' \in [SyncSlots -> SyncCall] /\ syncCall'[s] = c
           /\ \A i \in SyncSlots : i # s => syncCall'[i] = syncCall[i] /\ SyncSame(i)
BY DEF Sync!TypeOK, SyncCall, SyncSame

\* One call goes on, and the tasks stay as they are
LEMMA SyncGoesOn ==
    ASSUME SyncValues, SyncIInv, NEW s \in SyncSlots, NEW c \in SyncCall,
             syncCall' = [syncCall EXCEPT ![s] = c],
           UNCHANGED <<mode, local, remote, clock, syncs, mine, latest, settled, agreed, pushed,
             lost, syncEdits>>,
           syncCalls' \in 0..SyncCalls, syncFaults' \in 0..SyncFaults,
           c.pc \in {"save", "push", "update"} => c.task \in SyncTasks,
           c.pc \in {"push", "update"} => c.copy # None,
           c.pc \in {"next", "save"} => c.fetched # None, c.pc # "update",
           \A u \in SyncTasks : SyncCallInv(s, u)'
    PROVE  SyncIInv'
<1>1. Sync!TypeOK /\ SyncForm /\ \A t \in SyncTasks : SyncTaskInv(t)
        /\ \A i \in SyncSlots : SyncCallInv(i, t)
      BY DEF SyncIInv
<1>2. syncCall' \in [SyncSlots -> SyncCall] /\ syncCall'[s] = c /\ \A i \in SyncSlots : i # s
        => syncCall'[i] = syncCall[i] /\ SyncSame(i)
      BY <1>1, SyncCallChange
<1>3. Sync!TypeOK'
      BY <1>1, <1>2 DEF Sync!TypeOK, SyncCall
<1>4. SyncForm'
      BY <1>1, <1>2 DEF SyncForm
<1>5. ASSUME NEW u \in SyncTasks PROVE SyncTaskInv(u)' /\ \A i \in SyncSlots : SyncCallInv(i, u)'
  <2>1. SyncAlone(u) /\ clock' \in Nat /\ clock' >= clock
        BY <1>1 DEF SyncAlone, Sync!TypeOK
  <2>2. SyncTaskInv(u)' /\ \A i \in SyncSlots : SyncSame(i) /\ SyncCallInv(i, u)
          => SyncCallInv(i, u)'
        BY <1>1, <2>1, SyncFrame
  <2>3. QED
        BY <1>1, <1>2, <2>2
<1>6. QED
      BY <1>3, <1>4, <1>5 DEF SyncIInv

\* A slot that does nothing holds nothing
LEMMA SyncIdle ==
    ASSUME SyncValues
    PROVE  /\ Sync!Idle \in SyncCall /\ Sync!Idle.pc = "idle" /\ Sync!Idle.calm = {}
                /\ Sync!Idle.fetched = None
           /\ Sync!Idle.copy = None /\ Sync!Idle.task = None
BY DEF Sync!Idle, SyncCall

\* A pull begins
LEMMA SyncPull == ASSUME SyncValues, SyncIInv, NEW s \in SyncSlots, Sync!Pull(s) PROVE SyncIInv'
<1>1. Sync!TypeOK /\ remote \in [SyncTasks -> Sync!Record]
      BY DEF SyncIInv, Sync!TypeOK
<1> DEFINE c == [Sync!Idle EXCEPT !.pc = "next", !.fetched = remote, !.todo = SyncTasks,
             !.calm = SyncTasks]
<1>2. c \in SyncCall /\ c.pc = "next" /\ c.fetched = remote /\ c.fetched # None
      BY <1>1 DEF SyncCall, Sync!Idle, SyncValues
<1>3. syncCall' = [syncCall EXCEPT ![s] = c]
      BY DEF Sync!Pull
<1> HIDE DEF c
<1>4. syncCall'[s] = c
      BY <1>1, <1>2, <1>3, SyncCallChange
<1>5. /\ UNCHANGED <<mode, local, remote, clock, syncs, mine, latest, settled, agreed, pushed,
           lost, syncEdits>>
      /\ syncCalls' \in 0..SyncCalls /\ syncFaults' \in 0..SyncFaults
      BY <1>1 DEF Sync!Pull, Sync!TypeOK, SyncValues
<1>6. \A u \in SyncTasks : SyncCallInv(s, u)'
      BY <1>2, <1>4, <1>5 DEF SyncCallInv, SyncCalmInv, SyncHolds
<1>7. QED
      BY <1>2, <1>3, <1>5, <1>6, SyncGoesOn

\* A call throws
LEMMA SyncThrows ==
    ASSUME SyncValues, SyncIInv, NEW s \in SyncSlots, Sync!Throws(s)
    PROVE  SyncIInv'
<1>1. Sync!TypeOK
      BY DEF SyncIInv
<1>2. syncCall' = [syncCall EXCEPT ![s] = Sync!Idle]
      BY DEF Sync!Throws, Sync!Ends
<1>3. syncCall'[s] = Sync!Idle
      BY <1>1, <1>2, SyncIdle, SyncCallChange
<1>4. /\ UNCHANGED <<mode, local, remote, clock, syncs, mine, latest, settled, agreed, pushed,
           lost, syncEdits>>
      /\ syncCalls' \in 0..SyncCalls /\ syncFaults' \in 0..SyncFaults
      BY <1>1 DEF Sync!Throws, Sync!TypeOK, SyncValues
<1>5. \A u \in SyncTasks : SyncCallInv(s, u)'
      BY <1>3, SyncIdle DEF SyncCallInv, SyncCalmInv, SyncHolds
<1>6. QED
      BY <1>2, <1>4, <1>5, SyncIdle, SyncGoesOn

\* The next task of a pull is looked up
LEMMA SyncFind == ASSUME SyncValues, SyncIInv, NEW s \in SyncSlots, Sync!Find(s) PROVE SyncIInv'
<1>1. Sync!TypeOK /\ SyncForm /\ \A t \in SyncTasks : SyncTaskInv(t)
        /\ \A i \in SyncSlots : SyncCallInv(i, t)
      BY DEF SyncIInv
<1>2. /\ UNCHANGED <<mode, local, remote, clock, syncs, mine, latest, settled, agreed, pushed,
           lost, syncEdits>>
      /\ syncCalls' \in 0..SyncCalls /\ syncFaults' \in 0..SyncFaults /\ syncCall[s].pc = "next"
      BY <1>1 DEF Sync!Find, Sync!TypeOK, Sync!At
<1>3. CASE Sync!Ends(s)
  <2>1. syncCall' = [syncCall EXCEPT ![s] = Sync!Idle]
        BY <1>3 DEF Sync!Ends
  <2>2. syncCall'[s] = Sync!Idle
        BY <1>1, <2>1, SyncIdle, SyncCallChange
  <2>3. \A u \in SyncTasks : SyncCallInv(s, u)'
        BY <2>2, SyncIdle DEF SyncCallInv, SyncCalmInv, SyncHolds
  <2>4. QED
        BY <1>2, <2>1, <2>3, SyncIdle, SyncGoesOn
<1>4. ASSUME NEW t \in syncCall[s].todo,
             syncCall' = [syncCall EXCEPT ![s].pc = "save", ![s].task = t, ![s].todo = @ \ {t},
               ![s].copy = local[t]]
      PROVE  SyncIInv'
  <2> DEFINE c == [syncCall[s] EXCEPT !.pc = "save", !.task = t, !.todo = @ \ {t},
               !.copy = local[t]]
  <2>1. t \in SyncTasks /\ syncCall[s] \in SyncCall /\ local[t] \in Sync!Record \cup {None}
        BY <1>1 DEF Sync!TypeOK, SyncCall
  <2>2. /\ c \in SyncCall /\ c.pc = "save" /\ c.task = t /\ c.copy = local[t]
        /\ c.fetched = syncCall[s].fetched /\ c.calm = syncCall[s].calm
        BY <2>1 DEF SyncCall
  <2>3. syncCall' = [syncCall EXCEPT ![s] = c]
        BY <1>1, <1>4 DEF Sync!TypeOK
  <2> HIDE DEF c
  <2>4. syncCall'[s] = c
        BY <1>1, <2>2, <2>3, SyncCallChange
  <2>5. c.fetched # None
        BY <1>1, <1>2, <2>2 DEF SyncForm
  <2>6. ASSUME NEW u \in SyncTasks PROVE SyncCallInv(s, u)'
    <3>1. SyncHolds(s, u)' => u = t
          BY <2>2, <2>4 DEF SyncHolds
    <3>2. SyncHolds(s, u)' /\ syncCall'[s].copy # None => local'[u] # None
          BY <1>2, <2>2, <2>4, <3>1
    <3>3. u \in syncCall'[s].calm => syncCall'[s].fetched[u] = remote'[u]
          BY <1>1, <1>2, <2>2, <2>4 DEF SyncCallInv, SyncCalmInv
    <3>4. u = t => SyncFollows(syncCall[s].copy, u)'
          BY <1>1, <1>2, <2>2, <2>4 DEF SyncTaskInv, SyncFollows, SyncDated
    <3>5. QED
          BY <1>1, <1>2, <2>2, <2>4, <3>1, <3>2, <3>3, <3>4 DEF SyncCallInv, SyncCalmInv,
               SyncTaskInv
  <2>7. QED
        BY <1>2, <2>1, <2>2, <2>3, <2>5, <2>6, SyncGoesOn
<1>5. QED
      BY <1>3, <1>4 DEF Sync!Find

\* A push begins
LEMMA SyncPush ==
    ASSUME SyncValues, SyncIInv, NEW s \in SyncSlots, NEW t \in SyncTasks, Sync!Push(s,
             t) PROVE SyncIInv'
<1>1. Sync!TypeOK /\ \A u \in SyncTasks : SyncTaskInv(u)
      BY DEF SyncIInv
<1> DEFINE c == [Sync!Idle EXCEPT !.pc = "push", !.task = t, !.copy = local[t], !.calm = {t}]
<1>2. c \in SyncCall /\ c.pc = "push" /\ c.task = t /\ c.copy = local[t] /\ local[t] # None
      BY <1>1 DEF SyncCall, Sync!Idle, Sync!Push, Sync!TypeOK
<1>3. syncCall' = [syncCall EXCEPT ![s] = c]
      BY DEF Sync!Push
<1> HIDE DEF c
<1>4. syncCall'[s] = c
      BY <1>1, <1>2, <1>3, SyncCallChange
<1>5. /\ UNCHANGED <<mode, local, remote, clock, syncs, mine, latest, settled, agreed, pushed,
           lost, syncEdits>>
      /\ syncCalls' \in 0..SyncCalls /\ syncFaults' \in 0..SyncFaults
      BY <1>1 DEF Sync!Push, Sync!TypeOK, SyncValues
<1>6. \A u \in SyncTasks : SyncCallInv(s, u)'
      BY <1>1, <1>2, <1>4, <1>5 DEF SyncCallInv, SyncCalmInv, SyncHolds, SyncTaskInv
<1>7. QED
      BY <1>2, <1>3, <1>5, <1>6, SyncGoesOn

\* A call other than that at s no longer relies on what it has read of t
LEMMA SyncDisturb ==
    ASSUME Sync!TypeOK, NEW t \in SyncTasks
    PROVE  /\ Sync!Disturb(t) \in [SyncSlots -> SyncCall]
           /\ \A i \in SyncSlots : /\ Sync!Disturb(t)[i].pc = syncCall[i].pc
                                        /\ Sync!Disturb(t)[i].task = syncCall[i].task
                                   /\ Sync!Disturb(t)[i].copy = syncCall[i].copy
                                   /\ Sync!Disturb(t)[i].fetched = syncCall[i].fetched
                                   /\ Sync!Disturb(t)[i].calm = syncCall[i].calm \ {t}
<1>1. \A i \in SyncSlots : syncCall[i] \in SyncCall
      BY DEF Sync!TypeOK, SyncCall
<1>2. \A i \in SyncSlots : [syncCall[i] EXCEPT !.calm = @ \ {t}] \in SyncCall
      BY <1>1 DEF SyncCall
<1>3. \A i \in SyncSlots : Sync!Disturb(t)[i] = [syncCall[i] EXCEPT !.calm = @ \ {t}]
      BY DEF Sync!Disturb
<1>4. QED
      BY <1>1, <1>2, <1>3 DEF Sync!Disturb, SyncCall

\* A write of a task takes it from the calm of the calls that have not seen it
LEMMA SyncCrossed ==
    ASSUME Sync!TypeOK, NEW t \in SyncTasks, NEW s \in SyncSlots, NEW c \in SyncCall,
           syncCall' = [Sync!Disturb(t) EXCEPT ![s] = c]
    PROVE  /\ syncCall' \in [SyncSlots -> SyncCall] /\ syncCall'[s] = c
           /\ \A i \in SyncSlots : i # s => SyncSame(i) /\ t \notin syncCall'[i].calm
BY SyncDisturb DEF SyncSame

\* The provider gets the status
LEMMA SyncPushStatus ==
    ASSUME SyncValues, SyncIInv, NEW s \in SyncSlots, Sync!PushStatus(s)
    PROVE  SyncIInv'
<1>1. Sync!TypeOK /\ SyncForm /\ \A t \in SyncTasks : SyncTaskInv(t)
        /\ \A i \in SyncSlots : SyncCallInv(i, t)
      BY DEF SyncIInv
<1>2. syncCall[s].pc = "push" /\ syncCall[s] \in SyncCall /\ syncCall[s].copy # None
        /\ syncCall[s].task \in SyncTasks
      BY <1>1 DEF Sync!PushStatus, Sync!At, SyncForm, Sync!TypeOK, SyncCall
<1>3. PICK t \in SyncTasks : t = syncCall[s].task
      BY <1>2
<1>4. PICK x \in SyncStates : x = syncCall[s].copy.content.status
      BY <1>2 DEF SyncCall, Sync!Record, Sync!Content
<1>5. PICK c \in SyncCall : /\ c = [syncCall[s] EXCEPT !.pc = "update"]
                            /\ c.pc = "update" /\ c.task = t /\ c.copy = syncCall[s].copy
                            /\ c.calm = syncCall[s].calm /\ c.fetched = syncCall[s].fetched
  <2> DEFINE d == [syncCall[s] EXCEPT !.pc = "update"]
  <2>1. /\ d \in SyncCall /\ d.pc = "update" /\ d.task = t /\ d.copy = syncCall[s].copy
        /\ d.calm = syncCall[s].calm /\ d.fetched = syncCall[s].fetched
        BY <1>2, <1>3 DEF SyncCall
  <2>2. QED
        BY <2>1
<1>6. /\ remote' = [remote EXCEPT ![t].content.status = x, ![t].updated = clock + 1]
      /\ syncCall' = [Sync!Disturb(t) EXCEPT ![s] = c]
      /\ pushed' = pushed \cup {t} /\ settled' = settled \ {t} /\ agreed' = agreed \ {t}
      /\ clock' = clock + 1
      /\ UNCHANGED <<mode, local, syncs, mine, latest, lost, syncCalls, syncEdits, syncFaults>>
      BY <1>3, <1>4, <1>5 DEF Sync!PushStatus
<1>7. PICK r \in Sync!Record : remote' = [remote EXCEPT ![t] = r] /\ r.content.status = x
             /\ r.updated = clock + 1
  <2>1. remote[t] \in Sync!Record /\ clock + 1 \in Nat
        BY <1>1 DEF Sync!TypeOK
  <2>2. PICK k \in Sync!Content : k = [remote[t].content EXCEPT !.status = x] /\ k.status = x
    <3>1. remote[t].content \in Sync!Content
          BY <2>1 DEF Sync!Record
    <3>2. [remote[t].content EXCEPT !.status = x] \in Sync!Content
          BY <3>1 DEF Sync!Content
    <3>3. QED
          BY <3>1, <3>2 DEF Sync!Content
  <2>3. [remote[t] EXCEPT !.content = k, !.updated = clock + 1] \in Sync!Record
        BY <2>1 DEF Sync!Record
  <2>4. remote' = [remote EXCEPT ![t] = [remote[t] EXCEPT !.content = k, !.updated = clock + 1]]
        BY <1>1, <1>6, <2>1, <2>2 DEF Sync!TypeOK, Sync!Record, Sync!Content
  <2>5. QED
        BY <2>1, <2>2, <2>3, <2>4 DEF Sync!Record
<1>8. /\ remote' \in [SyncTasks -> Sync!Record] /\ remote'[t] = r
      /\ \A u \in SyncTasks : u # t => remote'[u] = remote[u]
      BY <1>1, <1>7 DEF Sync!TypeOK
<1>9. /\ syncCall' \in [SyncSlots -> SyncCall] /\ syncCall'[s] = c
      /\ \A i \in SyncSlots : i # s => SyncSame(i) /\ t \notin syncCall'[i].calm
      BY <1>1, <1>6, SyncCrossed
<1>10. Sync!TypeOK'
      BY <1>1, <1>6, <1>8, <1>9 DEF Sync!TypeOK, SyncCall
<1>11. SyncForm'
      BY <1>1, <1>2, <1>3, <1>5, <1>6, <1>9 DEF SyncForm, SyncSame
<1>12. ASSUME NEW u \in SyncTasks, u # t
      PROVE SyncTaskInv(u)' /\ \A i \in SyncSlots : SyncCallInv(i, u)'
  <2>1. SyncAlone(u) /\ clock' \in Nat /\ clock' >= clock
        BY <1>1, <1>6, <1>8, <1>12 DEF SyncAlone, Sync!TypeOK
  <2>2. SyncTaskInv(u)' /\ \A i \in SyncSlots : SyncSame(i) /\ SyncCallInv(i, u)
          => SyncCallInv(i, u)'
        BY <1>1, <1>6, <2>1, SyncFrame
  <2>3. SyncCallInv(s, u)'
        BY <1>5, <1>9, <1>12 DEF SyncCallInv, SyncCalmInv, SyncHolds
  <2>4. QED
        BY <1>1, <1>9, <2>2, <2>3
<1>13. SyncTaskInv(t)'
  <2>1. remote'[t].updated \in 1..clock'
        BY <1>1, <1>6, <1>7, <1>8 DEF Sync!TypeOK
  <2>2. QED
        BY <1>1, <1>6, <2>1 DEF SyncTaskInv, SyncFollows
<1>14. ASSUME NEW i \in SyncSlots PROVE SyncCallInv(i, t)'
  <2>1. CASE i # s
        BY <1>1, <1>6, <1>9, <2>1 DEF SyncCallInv, SyncHolds, SyncSame
  <2>2. CASE i = s
        BY <1>1, <1>2, <1>3, <1>4, <1>5, <1>6, <1>7, <1>8, <1>9, <2>2 DEF SyncCallInv,
             SyncCalmInv, SyncHolds
  <2>3. QED
        BY <2>1, <2>2
<1>15. QED
      BY <1>10, <1>11, <1>12, <1>13, <1>14 DEF SyncIInv

\* A record keeps its content when it is stamped
LEMMA SyncSyncedLemma ==
    ASSUME Sync!TypeOK, NEW r \in Sync!Record
    PROVE  /\ Sync!Synced(r) \in Sync!Record /\ Sync!Synced(r).content = r.content
                /\ Sync!Synced(r).updated = r.updated
           /\ Sync!Synced(r).stamp = syncs + 1
           /\ [r EXCEPT !.sum = Sync!computeChecksum(r)] \in Sync!Record
           /\ [r EXCEPT !.sum = Sync!computeChecksum(r)].content = r.content
           /\ [r EXCEPT !.sum = Sync!computeChecksum(r)].updated = r.updated
<1>1. syncs + 1 \in Nat
      BY DEF Sync!TypeOK
<1>2. Sync!computeChecksum(r) \in Sync!Digest
      BY DEF Sync!computeChecksum, Sync!Digest, Sync!Record
<1>3. QED
      BY <1>1, <1>2 DEF Sync!Synced, Sync!Record

\* The push has its answer and saves the record
LEMMA SyncUpdate ==
    ASSUME SyncValues, SyncIInv, NEW s \in SyncSlots, Sync!Update(s)
    PROVE  SyncIInv'
<1>1. Sync!TypeOK /\ SyncForm /\ \A t \in SyncTasks : SyncTaskInv(t)
        /\ \A i \in SyncSlots : SyncCallInv(i, t)
      BY DEF SyncIInv
<1>2. syncCall[s].pc = "update" /\ syncCall[s] \in SyncCall /\ syncCall[s].copy # None
        /\ syncCall[s].task \in SyncTasks
      BY <1>1 DEF Sync!Update, Sync!At, SyncForm, Sync!TypeOK, SyncCall
<1>3. PICK t \in SyncTasks : t = syncCall[s].task
      BY <1>2
<1>4. PICK r \in Sync!Record : r = syncCall[s].copy
      BY <1>2 DEF SyncCall
<1>5. PICK l \in Sync!Record : l = Sync!Synced(r) /\ l.content = r.content
      BY <1>1, SyncSyncedLemma
<1>6. /\ local' = [local EXCEPT ![t] = l]
      /\ syncCall' = [Sync!Disturb(t) EXCEPT ![s] = Sync!Idle]
      /\ agreed' = IF t \in syncCall[s].calm THEN agreed \cup {t} ELSE agreed \ {t}
      /\ settled' = settled \ {t} /\ syncs' = syncs + 1
      /\ lost' = IF t \notin syncCall[s].calm /\ local'[t] # local[t] THEN lost \cup {t} ELSE lost
      /\ UNCHANGED <<mode, remote, clock, mine, latest, pushed, syncCalls, syncEdits, syncFaults>>
      BY <1>3, <1>4, <1>5 DEF Sync!Update, Sync!Loses
<1>7. /\ local' \in [SyncTasks -> Sync!Record \cup {None}] /\ local'[t] = l /\ l # None
      /\ \A u \in SyncTasks : u # t => local'[u] = local[u]
      BY <1>1, <1>6 DEF Sync!TypeOK, SyncValues
<1>8. /\ syncCall' \in [SyncSlots -> SyncCall] /\ syncCall'[s] = Sync!Idle
      /\ \A i \in SyncSlots : i # s => SyncSame(i) /\ t \notin syncCall'[i].calm
      BY <1>1, <1>6, SyncIdle, SyncCrossed
<1>9. Sync!TypeOK'
  <2>1. agreed' \subseteq SyncTasks /\ settled' \subseteq SyncTasks /\ lost' \subseteq SyncTasks
          /\ syncs' \in Nat
        BY <1>1, <1>6 DEF Sync!TypeOK
  <2>2. QED
        BY <1>1, <1>6, <1>7, <1>8, <2>1 DEF Sync!TypeOK, SyncCall
<1>10. SyncForm'
      BY <1>1, <1>6, <1>8, SyncIdle DEF SyncForm, SyncSame
<1>11. ASSUME NEW u \in SyncTasks, u # t
      PROVE SyncTaskInv(u)' /\ \A i \in SyncSlots : SyncCallInv(i, u)'
  <2>1. SyncAlone(u) /\ clock' \in Nat /\ clock' >= clock
        BY <1>1, <1>6, <1>7, <1>11 DEF SyncAlone, Sync!TypeOK
  <2>2. SyncTaskInv(u)' /\ \A i \in SyncSlots : SyncSame(i) /\ SyncCallInv(i, u)
          => SyncCallInv(i, u)'
        BY <1>1, <1>6, <2>1, SyncFrame
  <2>3. SyncCallInv(s, u)'
        BY <1>8, SyncIdle DEF SyncCallInv, SyncCalmInv, SyncHolds
  <2>4. QED
        BY <1>1, <1>8, <2>2, <2>3
<1>12. SyncTaskInv(t)'
  <2>1. t \in pushed'
        BY <1>1, <1>2, <1>3, <1>6 DEF SyncForm
  <2>2. SyncFollows(local[t], t)'
        BY <2>1 DEF SyncFollows
  <2>3. t \in agreed' => local'[t].content.status = remote'[t].content.status
    <3>1. SUFFICES ASSUME t \in agreed' PROVE l.content.status = remote[t].content.status
          BY <1>6, <1>7
    <3>2. SyncCalmInv(s, t) /\ SyncHolds(s, t)
          BY <1>1, <1>2, <1>3, <1>6, <3>1 DEF SyncCallInv, SyncHolds
    <3>3. QED
          BY <1>2, <1>4, <1>5, <3>2 DEF SyncCalmInv
  <2>4. mode' = "local-wins" /\ t \notin lost' => local'[t].content = mine'[t]
    <3>1. SUFFICES ASSUME mode = "local-wins", t \notin lost' PROVE l.content = mine[t]
          BY <1>6, <1>7
    <3>2. CASE t \in syncCall[s].calm
      <4>1. SyncCalmInv(s, t) /\ SyncHolds(s, t) /\ t \notin lost
            BY <1>1, <1>2, <1>3, <1>6, <3>1, <3>2 DEF SyncCallInv, SyncHolds
      <4>2. QED
            BY <1>2, <1>4, <1>5, <3>1, <4>1 DEF SyncCalmInv
    <3>3. CASE local'[t] = local[t] /\ t \notin lost
          BY <1>1, <1>6, <1>7, <3>1, <3>3 DEF SyncTaskInv
    <3>4. QED
          BY <1>6, <3>1, <3>2, <3>3
  <2>5. remote'[t].updated \in 1..clock' /\ t \notin settled' /\ local'[t] # None
        BY <1>1, <1>6, <1>7 DEF SyncTaskInv
  <2>6. QED
        BY <2>2, <2>3, <2>4, <2>5 DEF SyncTaskInv
<1>13. ASSUME NEW i \in SyncSlots PROVE SyncCallInv(i, t)'
  <2>1. CASE i # s
        BY <1>1, <1>7, <1>8, <2>1 DEF SyncCallInv, SyncHolds, SyncSame
  <2>2. CASE i = s
        BY <1>8, <2>2, SyncIdle DEF SyncCallInv, SyncCalmInv, SyncHolds
  <2>3. QED
        BY <2>1, <2>2
<1>14. QED
      BY <1>9, <1>10, <1>11, <1>12, <1>13 DEF SyncIInv

\* Somebody edits a task, here or there
LEMMA SyncEdit == ASSUME SyncValues, SyncIInv, Sync!Edit PROVE SyncIInv'
<1>1. Sync!TypeOK /\ SyncForm /\ \A t \in SyncTasks : SyncTaskInv(t)
        /\ \A i \in SyncSlots : SyncCallInv(i, t)
      BY DEF SyncIInv
<1>2. PICK t \in SyncTasks, c \in Sync!Content :
        /\ Sync!EditLocal(t, c) \/ Sync!EditRemote(t, c)
        /\ latest' = [latest EXCEPT ![t] = c] /\ syncCall' = Sync!Disturb(t)
        /\ settled' = settled \ {t} /\ agreed' = agreed \ {t}
      BY DEF Sync!Edit
<1>3. /\ clock' = clock + 1 /\ syncEdits' = syncEdits + 1
      /\ UNCHANGED <<mode, syncs, pushed, syncCalls, syncFaults>> /\ syncEdits' \in 0..SyncEdits
      BY <1>1, <1>2 DEF Sync!Edit, Sync!EditLocal, Sync!EditRemote, Sync!TypeOK, SyncValues
<1>4. clock \in Nat /\ clock' \in Nat /\ clock' > clock
      BY <1>1, <1>3 DEF Sync!TypeOK
<1>5. /\ syncCall' \in [SyncSlots -> SyncCall]
      /\ \A i \in SyncSlots : SyncSame(i) /\ t \notin syncCall'[i].calm
      BY <1>1, <1>2, SyncDisturb DEF SyncSame
<1>6. /\ latest' \in [SyncTasks -> Sync!Content] /\ latest'[t] = c
      /\ \A u \in SyncTasks : u # t => latest'[u] = latest[u]
      BY <1>1, <1>2 DEF Sync!TypeOK
<1> DEFINE Written(r) == r \in Sync!Record /\ r.content = c /\ r.updated = clock'
<1>7. \/ /\ local[t] # None /\ remote' = remote
         /\ mine' = [mine EXCEPT ![t] = c] /\ lost' = lost \ {t}
         /\ \E r \in Sync!Record : Written(r) /\ local' = [local EXCEPT ![t] = r]
      \/ /\ UNCHANGED <<local, mine, lost>>
         /\ \E r \in Sync!Record : Written(r) /\ remote' = [remote EXCEPT ![t] = r]
  <2>1. CASE Sync!EditLocal(t, c)
    <3> DEFINE r == [local[t] EXCEPT !.content = c, !.updated = clock + 1]
    <3>1. local[t] \in Sync!Record
          BY <1>1, <2>1 DEF Sync!TypeOK, Sync!EditLocal
    <3>2. r \in Sync!Record /\ r.content = c /\ r.updated = clock'
          BY <1>3, <1>4, <3>1 DEF Sync!Record
    <3>3. local' = [local EXCEPT ![t] = r]
          BY <1>1, <2>1 DEF Sync!TypeOK, Sync!EditLocal
    <3>4. QED
          BY <2>1, <3>2, <3>3 DEF Sync!EditLocal
  <2>2. CASE Sync!EditRemote(t, c)
    <3> DEFINE r == [remote[t] EXCEPT !.content = c, !.updated = clock + 1]
    <3>1. remote[t] \in Sync!Record
          BY <1>1 DEF Sync!TypeOK
    <3>2. r \in Sync!Record /\ r.content = c /\ r.updated = clock'
          BY <1>3, <1>4, <3>1 DEF Sync!Record
    <3>3. remote' = [remote EXCEPT ![t] = r]
          BY <1>1, <2>2 DEF Sync!TypeOK, Sync!EditRemote
    <3>4. QED
          BY <2>2, <3>2, <3>3 DEF Sync!EditRemote
  <2>3. QED
        BY <1>2, <2>1, <2>2
<1>8. /\ local' \in [SyncTasks -> Sync!Record \cup {None}]
           /\ remote' \in [SyncTasks -> Sync!Record]
      /\ mine' \in [SyncTasks -> Sync!Content \cup {None}] /\ lost' \subseteq SyncTasks
      /\ \A u \in SyncTasks : u # t => local'[u] = local[u] /\ remote'[u] = remote[u]
           /\ mine'[u] = mine[u]
                                   /\ (u \in lost' <=> u \in lost)
      /\ \/ Written(local'[t]) /\ remote'[t] = remote[t] /\ mine'[t] = c
         \/ Written(remote'[t]) /\ local'[t] = local[t] /\ mine'[t] = mine[t] /\ (t \in lost'
              <=> t \in lost)
  <2>1. CASE /\ remote' = remote
             /\ mine' = [mine EXCEPT ![t] = c] /\ lost' = lost \ {t}
             /\ \E r \in Sync!Record : Written(r) /\ local' = [local EXCEPT ![t] = r]
        BY <1>1, <2>1 DEF Sync!TypeOK
  <2>2. CASE /\ UNCHANGED <<local, mine, lost>>
             /\ \E r \in Sync!Record : Written(r) /\ remote' = [remote EXCEPT ![t] = r]
        BY <1>1, <2>2 DEF Sync!TypeOK
  <2>3. QED
        BY <1>7, <2>1, <2>2
<1>9. Sync!TypeOK'
  <2>1. settled' \subseteq SyncTasks /\ agreed' \subseteq SyncTasks
        BY <1>1, <1>2 DEF Sync!TypeOK
  <2>2. QED
        BY <1>1, <1>3, <1>4, <1>5, <1>6, <1>8, <2>1 DEF Sync!TypeOK, SyncCall
<1>10. SyncForm'
      BY <1>1, <1>3, <1>5 DEF SyncForm, SyncSame
<1>11. ASSUME NEW u \in SyncTasks, u # t
      PROVE SyncTaskInv(u)' /\ \A i \in SyncSlots : SyncCallInv(i, u)'
  <2>1. SyncAlone(u)
        BY <1>1, <1>2, <1>3, <1>6, <1>8, <1>11 DEF SyncAlone
  <2>2. SyncTaskInv(u)' /\ \A i \in SyncSlots : SyncSame(i) /\ SyncCallInv(i, u)
          => SyncCallInv(i, u)'
        BY <1>1, <1>3, <1>4, <1>11, <2>1, SyncFrame
  <2>3. QED
        BY <1>1, <1>5, <2>2
<1>12. SyncTaskInv(t)'
  <2>1. remote[t].updated \in 1..clock /\ remote[t].updated \in Nat
        BY <1>1 DEF SyncTaskInv, Sync!TypeOK, Sync!Record
  <2>2. CASE Written(local'[t]) /\ remote'[t] = remote[t] /\ mine'[t] = c
    <3>1. local'[t] # None /\ local'[t].updated = clock' /\ local'[t].content = c
          BY <2>2 DEF SyncValues
    <3>2. SyncDated(local[t], t)'
          BY <1>4, <1>6, <2>1, <2>2, <3>1 DEF SyncDated
    <3>3. SyncFollows(local[t], t)'
          BY <3>1, <3>2 DEF SyncFollows
    <3>4. QED
          BY <1>2, <1>3, <1>4, <2>1, <2>2, <3>1, <3>3 DEF SyncTaskInv
  <2>3. CASE Written(remote'[t]) /\ local'[t] = local[t] /\ mine'[t] = mine[t] /\ (t \in lost'
               <=> t \in lost)
    <3>1. remote'[t].updated = clock' /\ remote'[t].content = c
          BY <2>3
    <3>2. SyncFollows(local[t], t)'
      <4>1. SUFFICES ASSUME mode' = "newest-wins" /\ t \notin pushed' \cup lost', local'[t] # None
                     PROVE  SyncDated(local[t], t)'
            BY <1>6, <3>1 DEF SyncFollows
      <4>2. SyncDated(local[t], t) /\ local[t] \in Sync!Record
            BY <1>1, <1>3, <2>3, <4>1 DEF SyncTaskInv, SyncFollows, Sync!TypeOK
      <4>3. local'[t].updated < remote'[t].updated /\ local'[t].updated <= clock'
            BY <1>4, <2>3, <3>1, <4>2 DEF SyncDated, Sync!Record
      <4>4. QED
            BY <1>4, <1>6, <3>1, <4>2, <4>3, <2>3 DEF SyncDated, Sync!Record
    <3>3. QED
          BY <1>1, <1>2, <1>3, <1>4, <2>3, <3>1, <3>2 DEF SyncTaskInv
  <2>4. QED
        BY <1>8, <2>2, <2>3
<1>13. ASSUME NEW i \in SyncSlots PROVE SyncCallInv(i, t)'
      BY <1>1, <1>5, <1>8 DEF SyncCallInv, SyncHolds, SyncSame, SyncValues
<1>14. QED
      BY <1>9, <1>10, <1>11, <1>12, <1>13 DEF SyncIInv

\* Which record wins
LEMMA SyncResolveLemma ==
    ASSUME mode \in Sync!Modes, NEW l \in Sync!Record, NEW r \in Sync!Record
    PROVE  /\ mode = "local-wins" => Sync!Resolve(l, r) = l
           /\ mode = "provider-wins" => Sync!Resolve(l, r) = r
           /\ mode = "newest-wins" => Sync!Resolve(l, r) = IF l.updated = 0 \/ r.updated = 0
                \/ l.updated > r.updated
                                                      THEN l ELSE r
<1>1. CASE mode = "local-wins"
      BY <1>1, Zenon DEF Sync!Resolve
<1>2. CASE mode = "provider-wins"
      BY <1>2, Zenon DEF Sync!Resolve
<1>3. CASE mode = "newest-wins"
      BY <1>3, Zenon DEF Sync!Resolve
<1>4. QED
      BY <1>1, <1>2, <1>3 DEF Sync!Modes

\* What a pull does to the call that makes it and to the others
LEMMA SyncSaveCalls ==
    ASSUME SyncValues, Sync!TypeOK, SyncForm, NEW s \in SyncSlots, Sync!Save(s),
             NEW t \in SyncTasks, t = syncCall[s].task
    PROVE  /\ syncCall' \in [SyncSlots -> SyncCall]
           /\ syncCall'[s].pc = "next" /\ syncCall'[s].copy = None
           /\ syncCall'[s].fetched = syncCall[s].fetched
                /\ syncCall'[s].calm \subseteq syncCall[s].calm
           /\ \A i \in SyncSlots : i # s => SyncSame(i)
           /\ t \notin syncCall[s].calm => \A i \in SyncSlots : t \notin syncCall'[i].calm
<1> DEFINE calls0 == IF t \in syncCall[s].calm THEN syncCall ELSE Sync!Disturb(t)
           c == [calls0[s] EXCEPT !.pc = "next", !.task = None, !.copy = None]
<1>1. /\ calls0 \in [SyncSlots -> SyncCall]
      /\ \A i \in SyncSlots : /\ calls0[i].pc = syncCall[i].pc
                                   /\ calls0[i].task = syncCall[i].task
                              /\ calls0[i].copy = syncCall[i].copy
                                   /\ calls0[i].fetched = syncCall[i].fetched
                              /\ calls0[i].calm \subseteq syncCall[i].calm
                              /\ t \notin syncCall[s].calm => t \notin calls0[i].calm
  <2>1. syncCall \in [SyncSlots -> SyncCall]
        BY DEF Sync!TypeOK, SyncCall
  <2>2. CASE t \in syncCall[s].calm
        BY <2>1, <2>2
  <2>3. CASE t \notin syncCall[s].calm
        BY <2>3, SyncDisturb
  <2>4. QED
        BY <2>2, <2>3
<1>2. syncCall' = [calls0 EXCEPT ![s].pc = "next", ![s].task = None, ![s].copy = None]
      BY DEF Sync!Save
<1> HIDE DEF calls0
<1>3. c \in SyncCall /\ c.pc = "next" /\ c.copy = None /\ c.fetched = syncCall[s].fetched
        /\ c.calm = calls0[s].calm
      BY <1>1 DEF SyncCall
<1>4. syncCall' = [calls0 EXCEPT ![s] = c]
      BY <1>1, <1>2
<1> HIDE DEF c
<1>5. syncCall' \in [SyncSlots -> SyncCall] /\ syncCall'[s] = c /\ \A i \in SyncSlots : i # s
        => syncCall'[i] = calls0[i]
      BY <1>1, <1>3, <1>4
<1>6. QED
      BY <1>1, <1>3, <1>5 DEF SyncSame

\* Of the copy and the task fetched, the record that the rule keeps
SyncOutcome(m, l, r) ==
    /\ l = None => m.content = r.content /\ m.updated = r.updated
    /\ l # None => \/ mode = "local-wins" /\ m.content = l.content /\ m.updated = l.updated
                   \/ mode = "provider-wins" /\ m.content = r.content /\ m.updated = r.updated
                   \/ /\ mode = "newest-wins"
                      /\ IF l.updated = 0 \/ r.updated = 0 \/ l.updated > r.updated
                         THEN m.content = l.content /\ m.updated = l.updated
                         ELSE m.content = r.content /\ m.updated = r.updated

\* What a pull saves is what the rule says
LEMMA SyncOutcomeLemma ==
    ASSUME SyncValues, Sync!TypeOK, NEW l \in Sync!Record \cup {None}, NEW r \in Sync!Record
    PROVE  \E m \in Sync!Record :
             /\ m = (IF l = None THEN [r EXCEPT !.sum = Sync!computeChecksum(r)]
                                          ELSE Sync!Synced(Sync!Resolve(l, r)))
                                  /\ SyncOutcome(m, l, r)
<1>1. CASE l = None
      BY <1>1, SyncSyncedLemma DEF SyncOutcome
<1>2. CASE l # None
  <2>1. l \in Sync!Record /\ mode \in Sync!Modes
        BY <1>2 DEF Sync!TypeOK
  <2>2. PICK k \in Sync!Record : k = Sync!Resolve(l, r)
        BY <2>1, SyncResolveLemma DEF Sync!Modes
  <2>3. Sync!Synced(k) \in Sync!Record /\ Sync!Synced(k).content = k.content
          /\ Sync!Synced(k).updated = k.updated
        BY SyncSyncedLemma
  <2>4. SyncOutcome(Sync!Synced(k), l, r)
        BY <1>2, <2>1, <2>2, <2>3, SyncResolveLemma DEF SyncOutcome, Sync!Modes
  <2>5. QED
        BY <1>2, <2>2, <2>3, <2>4
<1>3. QED
      BY <1>1, <1>2

\* A pull saves a task
LEMMA SyncSave == ASSUME SyncValues, SyncIInv, NEW s \in SyncSlots, Sync!Save(s) PROVE SyncIInv'
<1>1. Sync!TypeOK /\ SyncForm /\ \A t \in SyncTasks : SyncTaskInv(t)
        /\ \A i \in SyncSlots : SyncCallInv(i, t)
      BY DEF SyncIInv
<1>2. syncCall[s].pc = "save" /\ syncCall[s] \in SyncCall /\ syncCall[s].task \in SyncTasks
        /\ syncCall[s].fetched \in [SyncTasks -> Sync!Record]
      BY <1>1 DEF Sync!Save, Sync!At, SyncForm, Sync!TypeOK, SyncCall
<1>3. PICK t \in SyncTasks : t = syncCall[s].task
      BY <1>2
<1>4. PICK l \in Sync!Record \cup {None}, r \in Sync!Record : l = syncCall[s].copy
             /\ r = syncCall[s].fetched[t]
      BY <1>2 DEF SyncCall
<1>5. PICK m \in Sync!Record : /\ m = (IF l = None THEN [r EXCEPT !.sum = Sync!computeChecksum(r)]
                                       ELSE Sync!Synced(Sync!Resolve(l, r)))
                               /\ SyncOutcome(m, l, r)
      BY <1>1, SyncOutcomeLemma
<1> DEFINE calm == t \in syncCall[s].calm
<1>6. /\ \/ l # None /\ Sync!UpToDate(l, r) /\ local' = local /\ syncs' = syncs
         \/ local' = [local EXCEPT ![t] = m] /\ syncs' = syncs + 1
      /\ settled' = IF calm THEN settled \cup {t} ELSE settled \ {t}
      /\ agreed' = IF calm THEN agreed ELSE agreed \ {t}
      /\ lost' = IF ~calm /\ local'[t] # local[t] THEN lost \cup {t} ELSE lost
      /\ mine' = IF l = None THEN [mine EXCEPT ![t] = r.content] ELSE mine
      /\ UNCHANGED <<mode, remote, clock, latest, pushed, syncCalls, syncEdits, syncFaults>>
  <2>1. /\ local' = IF l # None /\ Sync!UpToDate(l, r) THEN local ELSE [local EXCEPT ![t] = m]
        /\ syncs' = IF l # None /\ Sync!UpToDate(l, r) THEN syncs ELSE syncs + 1
        BY <1>3, <1>4, <1>5 DEF Sync!Save
  <2>2. QED
        BY <1>3, <1>4, <2>1 DEF Sync!Save, Sync!Loses
<1>7. /\ syncCall' \in [SyncSlots -> SyncCall]
      /\ syncCall'[s].pc = "next" /\ syncCall'[s].copy = None
      /\ syncCall'[s].fetched = syncCall[s].fetched
           /\ syncCall'[s].calm \subseteq syncCall[s].calm
      /\ \A i \in SyncSlots : i # s => SyncSame(i)
      /\ ~calm => \A i \in SyncSlots : t \notin syncCall'[i].calm
      BY <1>1, <1>3, SyncSaveCalls
<1>8. SyncHolds(s, t) /\ SyncCallInv(s, t) /\ (calm => SyncCalmInv(s, t)) /\ (calm
        => r = remote[t])
      BY <1>1, <1>2, <1>3, <1>4 DEF SyncHolds, SyncCallInv, SyncCalmInv
<1>9. /\ local' \in [SyncTasks -> Sync!Record \cup {None}] /\ local'[t] # None
      /\ \A u \in SyncTasks : u # t => local'[u] = local[u]
      /\ local'[t] = m \/ (local'[t] = local[t] /\ l # None /\ Sync!UpToDate(l, r))
  <2>1. CASE l # None /\ Sync!UpToDate(l, r) /\ local' = local
        BY <1>1, <1>4, <1>8, <2>1 DEF SyncCallInv, Sync!TypeOK
  <2>2. CASE local' = [local EXCEPT ![t] = m]
        BY <1>1, <2>2 DEF Sync!TypeOK, SyncValues
  <2>3. QED
        BY <1>6, <2>1, <2>2
<1>10. mine' \in [SyncTasks -> Sync!Content \cup {None}] /\ mine'[t] = (IF l = None
         THEN r.content ELSE mine[t])
       /\ \A u \in SyncTasks : u # t => mine'[u] = mine[u]
      BY <1>1, <1>6 DEF Sync!TypeOK, Sync!Record
<1>11. \A u \in SyncTasks : u # t => /\ u \in settled' <=> u \in settled
                                     /\ u \in agreed' <=> u \in agreed
                                     /\ u \in lost' <=> u \in lost
      BY <1>6
<1>12. Sync!TypeOK'
  <2>1. agreed' \subseteq SyncTasks /\ settled' \subseteq SyncTasks /\ lost' \subseteq SyncTasks
          /\ syncs' \in Nat
        BY <1>1, <1>6 DEF Sync!TypeOK
  <2>2. QED
        BY <1>1, <1>6, <1>7, <1>9, <1>10, <2>1 DEF Sync!TypeOK, SyncCall
<1>13. SyncForm'
  <2>1. syncCall'[s].fetched # None
        BY <1>1, <1>2, <1>7 DEF SyncForm
  <2>2. QED
        BY <1>1, <1>6, <1>7, <2>1 DEF SyncForm, SyncSame
<1>14. ASSUME NEW u \in SyncTasks, u # t
      PROVE SyncTaskInv(u)' /\ \A i \in SyncSlots : SyncCallInv(i, u)'
  <2>1. SyncAlone(u) /\ clock' \in Nat /\ clock' >= clock
        BY <1>1, <1>6, <1>9, <1>10, <1>11, <1>14 DEF SyncAlone, Sync!TypeOK
  <2>2. SyncTaskInv(u)' /\ \A i \in SyncSlots : SyncSame(i) /\ SyncCallInv(i, u)
          => SyncCallInv(i, u)'
        BY <1>1, <1>6, <2>1, SyncFrame
  <2>3. SyncCallInv(s, u)'
        BY <1>1, <1>2, <1>6, <1>7 DEF SyncCallInv, SyncCalmInv, SyncHolds
  <2>4. QED
        BY <1>1, <1>7, <2>2, <2>3
<1> HIDE DEF calm
\* What is kept is dated as the copy and the fetched task are
<1>15. calm => SyncFollows(m, t)
  <2>1. SUFFICES ASSUME calm, mode = "newest-wins", t \notin pushed \cup lost
        PROVE SyncDated(m, t)
        BY DEF SyncFollows, SyncValues
  <2>2. m.updated \in Nat /\ r.updated \in Nat /\ remote[t].updated \in 1..clock /\ clock \in Nat
        BY <1>1 DEF SyncTaskInv, Sync!Record, Sync!TypeOK
  <2>3. SyncCalmInv(s, t) /\ r = remote[t]
        BY <1>8, <2>1
  <2>4. SyncFollows(l, t)
        BY <1>2, <1>4, <1>8, <2>3 DEF SyncCalmInv
  <2>5. CASE l = None
        BY <1>5, <2>1, <2>2, <2>3, <2>4, <2>5 DEF SyncOutcome, SyncFollows, SyncDated
  <2>6. CASE l # None
    <3>1. SyncDated(l, t) /\ l.updated \in Nat
          BY <2>1, <2>4, <2>6 DEF SyncFollows, Sync!Record
    <3>2. QED
          BY <1>5, <2>1, <2>2, <2>3, <2>6, <3>1 DEF SyncOutcome, SyncDated
  <2>7. QED
        BY <2>5, <2>6
<1>16. lost' = lost \/ t \in lost'
      BY <1>6
<1>17. t \notin lost' => t \notin lost /\ (calm \/ local'[t] = local[t])
      BY <1>6 DEF calm
<1>18. SyncFollows(local[t], t)'
  <2>1. SUFFICES ASSUME mode = "newest-wins", t \notin pushed \cup lost, calm
                          \/ local'[t] = local[t]
                 PROVE  SyncDated(local[t], t)'
        BY <1>6, <1>9, <1>17 DEF SyncFollows
  <2>2. CASE local'[t] = local[t]
        BY <1>1, <1>6, <1>9, <2>1, <2>2 DEF SyncTaskInv, SyncFollows, SyncDated
  <2>3. CASE local'[t] = m /\ calm
    <3>1. SyncDated(m, t)
          BY <1>15, <2>1, <2>3 DEF SyncFollows, SyncValues
    <3>2. QED
          BY <1>6, <2>3, <3>1 DEF SyncDated
  <2>4. QED
        BY <1>9, <2>1, <2>2, <2>3
<1>19. mode = "local-wins" /\ t \notin lost' => local'[t].content = mine'[t]
  <2>1. SUFFICES ASSUME mode = "local-wins", t \notin lost, calm \/ local'[t] = local[t]
                 PROVE  local'[t].content = mine'[t]
        BY <1>17
  <2>2. CASE local'[t] = m /\ l = None
        BY <1>5, <1>10, <2>2 DEF SyncOutcome
  <2>3. CASE local'[t] = m /\ l # None /\ calm
        BY <1>2, <1>4, <1>5, <1>8, <1>10, <2>1, <2>3 DEF SyncOutcome, SyncCalmInv
  <2>4. CASE local'[t] = local[t] /\ l # None
        BY <1>1, <1>9, <1>10, <2>1, <2>4 DEF SyncTaskInv
  <2>5. QED
        BY <1>9, <2>1, <2>2, <2>3, <2>4
<1>20. t \in settled' =>
         /\ mode = "provider-wins" => local'[t].content = remote[t].content
         /\ mode = "newest-wins" /\ t \notin pushed \cup lost /\ local'[t].updated # 0 =>
              local'[t].content = latest[t]
  <2>1. SUFFICES ASSUME calm
                 PROVE  /\ mode = "provider-wins" => local'[t].content = remote[t].content
                        /\ mode = "newest-wins" /\ t \notin pushed \cup lost
                             /\ local'[t].updated # 0 =>
                             local'[t].content = latest[t]
        BY <1>6 DEF calm
  <2>2. SyncCalmInv(s, t) /\ r = remote[t] /\ SyncFollows(l, t)
        BY <1>2, <1>4, <1>8, <2>1 DEF SyncCalmInv
  <2>3. remote[t].updated \in 1..clock /\ clock \in Nat /\ r.updated \in Nat /\ (l # None
          => l.updated \in Nat)
        BY <1>1 DEF SyncTaskInv, Sync!TypeOK, Sync!Record
  <2>4. CASE local'[t] = m
    <3>1. mode = "provider-wins" => m.content = remote[t].content
          BY <1>5, <2>2 DEF SyncOutcome
    <3>2. mode = "newest-wins" /\ t \notin pushed \cup lost /\ m.updated # 0
            => m.content = latest[t]
          BY <1>5, <2>2, <2>3 DEF SyncOutcome, SyncFollows, SyncDated
    <3>3. QED
          BY <2>4, <3>1, <3>2
  <2>5. CASE local'[t] = local[t] /\ l # None /\ Sync!UpToDate(l, r)
    <3>1. l.content = r.content /\ l.updated = r.updated
          BY <2>5 DEF Sync!UpToDate, Sync!hasChanged, Sync!computeChecksum
    <3>2. CASE t \in settled
          BY <1>1, <2>5, <3>2 DEF SyncTaskInv
    <3>3. CASE local[t] = l
          BY <2>2, <2>3, <2>5, <3>1, <3>3 DEF SyncFollows, SyncDated
    <3>4. QED
          BY <1>2, <1>4, <1>8, <2>2, <3>2, <3>3 DEF SyncCalmInv
  <2>6. QED
        BY <1>9, <2>4, <2>5
<1>21. t \in agreed' => local'[t].content.status = remote[t].content.status
  <2>1. SUFFICES ASSUME calm, t \in agreed
        PROVE local'[t].content.status = remote[t].content.status
        BY <1>6 DEF calm
  <2>2. r = remote[t] /\ l # None /\ l.content.status = remote[t].content.status
        BY <1>2, <1>4, <1>8, <2>1 DEF SyncCalmInv
  <2>3. m.content \in {l.content, r.content}
        BY <1>5, <2>2 DEF SyncOutcome
  <2>4. QED
        BY <1>1, <1>9, <2>1, <2>2, <2>3 DEF SyncTaskInv
<1>22. SyncTaskInv(t)'
      BY <1>1, <1>6, <1>9, <1>18, <1>19, <1>20, <1>21, <1>16 DEF SyncTaskInv
<1>23. ASSUME NEW i \in SyncSlots PROVE SyncCallInv(i, t)'
  <2>1. CASE i = s
    <3>1. ~SyncHolds(i, t)' /\ syncCall'[i].fetched[t] = r
          BY <1>4, <1>7, <2>1 DEF SyncHolds
    <3>2. t \in syncCall'[i].calm => calm
          BY <1>7, <2>1 DEF calm
    <3>3. QED
          BY <1>6, <1>8, <3>1, <3>2 DEF SyncCallInv, SyncCalmInv
  <2>2. CASE i # s /\ ~calm
        BY <1>1, <1>7, <1>9, <2>2 DEF SyncCallInv, SyncHolds, SyncSame
  <2>3. CASE i # s /\ calm
    <3>1. SyncSame(i) /\ (SyncHolds(i, t)' <=> SyncHolds(i, t))
          BY <1>7, <2>3 DEF SyncSame, SyncHolds
    <3>2. t \in settled' /\ lost' = lost /\ agreed' = agreed
          BY <1>6, <2>3 DEF calm
    <3>3. SUFFICES ASSUME t \in syncCall'[i].calm PROVE SyncCalmInv(i, t)'
          BY <1>9 DEF SyncCallInv
    <3>4. SyncCalmInv(i, t) /\ SyncCallInv(i, t)
          BY <1>1, <3>1, <3>3 DEF SyncCallInv, SyncSame
    \* A pull that found no record leaves what the provider has, as others before it did
    <3>5. local[t] # None => mine'[t] = mine[t]
          BY <1>2, <1>4, <1>8, <1>10, <2>3 DEF SyncCalmInv
    <3>6. local[t] = None => mine'[t] = remote[t].content
          BY <1>8, <1>10, <2>3, <1>4 DEF SyncCallInv
    <3>7. SyncHolds(i, t) /\ syncCall[i].copy # None => local[t] # None
          BY <3>4 DEF SyncCallInv
    <3>8. SyncFollows(syncCall[i].copy, t) => SyncFollows(syncCall[i].copy, t)'
          BY <1>6, <3>1, <3>2 DEF SyncFollows, SyncDated, SyncSame
    <3>9. QED
          BY <1>6, <1>9, <3>1, <3>2, <3>4, <3>5, <3>6, <3>7, <3>8 DEF SyncCalmInv, SyncSame
  <2>4. QED
        BY <2>1, <2>2, <2>3
<1>24. QED
      BY <1>12, <1>13, <1>14, <1>22, <1>23 DEF SyncIInv

\* Two equal sides, or none, are a start
LEMMA SyncInit == ASSUME SyncValues, Sync!Init PROVE SyncIInv
<1> DEFINE c == CHOOSE any \in Sync!Content : TRUE
<1>1. c \in Sync!Content
      BY DEF SyncValues
<1>2. PICK at \in {0, 1} : /\ remote = [t \in SyncTasks |-> Sync!Fresh(c, 1)]
                           /\ local \in [SyncTasks -> {None, Sync!Fresh(c, at)}]
                           /\ latest = [t \in SyncTasks |-> c]
                           /\ mine = [t \in SyncTasks |-> IF local[t] = None THEN None ELSE c]
      BY DEF Sync!Init
<1> HIDE DEF c
<1>3. \A n \in {0, 1} : Sync!Fresh(c, n) \in Sync!Record /\ Sync!Fresh(c, n).content = c
        /\ Sync!Fresh(c, n).updated = n
      BY <1>1 DEF Sync!Fresh, Sync!Record
<1>4. /\ mode \in Sync!Modes /\ clock = 1 /\ syncs = 0 /\ syncCalls = 0 /\ syncEdits = 0
           /\ syncFaults = 0
      /\ settled = {} /\ agreed = {} /\ pushed = {} /\ lost = {}
      /\ syncCall \in [SyncSlots -> SyncCall] /\ \A s \in SyncSlots : syncCall[s] = Sync!Idle
      BY SyncIdle DEF Sync!Init
<1>5. 0 \in 0..SyncCalls /\ 0 \in 0..SyncEdits /\ 0 \in 0..SyncFaults
      BY DEF SyncValues
<1>6. /\ remote \in [SyncTasks -> Sync!Record] /\ local \in [SyncTasks -> Sync!Record \cup {None}]
      /\ latest \in [SyncTasks -> Sync!Content]
           /\ mine \in [SyncTasks -> Sync!Content \cup {None}]
      BY <1>1, <1>2, <1>3
<1>7. Sync!TypeOK
      BY <1>4, <1>5, <1>6 DEF Sync!TypeOK, SyncCall
<1>8. SyncForm /\ \A s \in SyncSlots, t \in SyncTasks : SyncCallInv(s, t)
      BY <1>4, SyncIdle DEF SyncForm, SyncCallInv, SyncHolds
<1>9. ASSUME NEW t \in SyncTasks PROVE SyncTaskInv(t)
  <2>1. remote[t].updated = 1 /\ remote[t].content = c /\ latest[t] = c
        BY <1>2, <1>3
  <2>2. local[t] # None => local[t].content = c /\ local[t].updated \in {0, 1} /\ mine[t] = c
        BY <1>2, <1>3
  <2>3. SyncFollows(local[t], t)
        BY <1>4, <2>1, <2>2 DEF SyncFollows, SyncDated
  <2>4. QED
        BY <1>4, <2>1, <2>2, <2>3 DEF SyncTaskInv
<1>10. QED
      BY <1>7, <1>8, <1>9 DEF SyncIInv

\* It holds what the runs check
LEMMA SyncInvLemma == ASSUME SyncValues, SyncIInv PROVE Sync!SyncInv
<1>1. Sync!TypeOK /\ \A t \in SyncTasks : SyncTaskInv(t)
      BY DEF SyncIInv
<1>2. settled \subseteq SyncTasks /\ agreed \subseteq SyncTasks
      BY <1>1 DEF Sync!TypeOK
<1>3. Sync!PullSettles
      BY <1>1, <1>2 DEF Sync!PullSettles, SyncTaskInv
<1>4. Sync!PushAgrees
      BY <1>1, <1>2 DEF Sync!PushAgrees, SyncTaskInv
<1>5. QED
      BY <1>1, <1>3, <1>4 DEF Sync!SyncInv

\* A step of a call or of a person keeps it
LEMMA SyncStep == ASSUME SyncValues, SyncIInv, Sync!Next \/ UNCHANGED sync PROVE SyncIInv'
<1>1. CASE UNCHANGED sync
  <2>1. UNCHANGED <<mode, local, remote, syncCall, clock, syncs, mine, latest, settled, agreed,
          pushed, lost,
                    syncCalls, syncEdits, syncFaults>>
        BY <1>1 DEF sync
  <2>2. Sync!TypeOK' /\ SyncForm'
        BY <2>1 DEF SyncIInv, Sync!TypeOK, SyncForm
  <2>3. ASSUME NEW t \in SyncTasks
        PROVE SyncTaskInv(t)' /\ \A s \in SyncSlots : SyncCallInv(s, t)'
    <3>1. Sync!TypeOK /\ SyncTaskInv(t) /\ \A s \in SyncSlots : SyncCallInv(s, t)
          BY DEF SyncIInv
    <3>2. SyncAlone(t) /\ clock' \in Nat /\ clock' >= clock /\ \A s \in SyncSlots : SyncSame(s)
          BY <2>1, <3>1 DEF SyncAlone, Sync!TypeOK, SyncSame
    <3>3. QED
          BY <2>1, <3>1, <3>2, SyncFrame
  <2>4. QED
        BY <2>2, <2>3 DEF SyncIInv
<1>2. QED
      BY <1>1, SyncPull, SyncFind, SyncSave, SyncPushStatus, SyncUpdate, SyncThrows, SyncPush,
           SyncEdit DEF Sync!Next

-----------------------------------------------------------------------------
(* The draft cards of GitHub *)

DraftsValues == /\ DraftWindow \in Nat /\ DraftCalls \in Nat /\ DraftFaults \in Nat
                     /\ DraftTouches \in Nat
                /\ None \notin Drafts!Names

DraftsActive(s) == draftCall[s].pc # "idle"
DraftsResolved(status) == Drafts!resolveStatusOptionId(Drafts!normalizedToGithubStatus[status])

\* Calls have numbers of their own, in the order they began
DraftsNumbers ==
    /\ \A k \in DOMAIN items : items[k].by <= draftCalls
    /\ \A j, k \in DOMAIN items : items[j].by = items[k].by => j = k
    /\ \A r \in returned : r.by <= draftCalls
    /\ \A s \in DraftSlots : DraftsActive(s) => draftCall[s].by \in 1..draftCalls
         /\ \A r \in returned : r.by # draftCall[s].by
    /\ \A s, r \in DraftSlots : DraftsActive(s) /\ DraftsActive(r)
         /\ draftCall[s].by = draftCall[r].by => s = r

\* The card of a call that is under way has no status yet, that of one that has returned has
\* the option its status resolves to, unless people have touched it
DraftsCards ==
    /\ \A s \in DraftSlots : draftCall[s].pc = "set"
         => draftCall[s].option = DraftsResolved(draftCall[s].status)
                                             /\ draftCall[s].option # None
    /\ \A s \in DraftSlots : DraftsActive(s) => draftCall[s].by \in touched
         \/ \E k \in DOMAIN items : items[k].by = draftCall[s].by
    /\ \A r \in returned : r.by \in touched \/ \E k \in DOMAIN items : items[k].by = r.by
    /\ \A s \in DraftSlots, k \in DOMAIN items :
         DraftsActive(s) /\ items[k].by = draftCall[s].by /\ items[k].by \notin touched
           => items[k].option = None
    /\ \A r \in returned, k \in DOMAIN items :
         items[k].by = r.by /\ r.by \notin touched => items[k].option = DraftsResolved(r.status)
    /\ \A r \in returned, k \in DOMAIN items : items[k].by = r.by /\ items[k].option = None =>
         {"In Review", "Backlog"} \cap options = {}

DraftsIInv == Drafts!TypeOK /\ DraftsNumbers /\ DraftsCards

\* What a status is read back as, when the project lacks the option it asks for
LEMMA DraftsResolvedLemma ==
    ASSUME DraftsValues, options \subseteq Drafts!Names, NEW status \in Drafts!Statuses
    PROVE  /\ DraftsResolved(status) \in options \cup {None}
           /\ DraftsResolved(status) = None => {"In Review", "Backlog"} \cap options = {}
           /\ Drafts!githubStatusToNormalized(DraftsResolved(status)) =
                CASE Drafts!normalizedToGithubStatus[status] \in options -> status
                  [] Drafts!normalizedToGithubStatus[status] \notin options
                    /\ "In Review" \in options -> "REVIEW"
                  [] OTHER -> "TODO"
<1>1. \A name \in Drafts!Names : Drafts!resolveStatusOptionId(name) =
        IF name \in options THEN name ELSE IF "In Review" \in options THEN "In Review"
        ELSE IF "Backlog" \in options THEN "Backlog" ELSE None
      BY DEF Drafts!resolveStatusOptionId
<1>2. \A option : Drafts!githubStatusToNormalized(option) =
        IF option = "Ready" THEN "READY" ELSE IF option = "In Progress" THEN "RUNNING"
        ELSE IF option = "In Review" THEN "REVIEW" ELSE IF option = "Done" THEN "DONE"
        ELSE IF option = "Blocked" THEN "FAILED" ELSE "TODO"
      BY DEF Drafts!githubStatusToNormalized
<1> DEFINE n == Drafts!normalizedToGithubStatus
<1>3. /\ n["TODO"] = "Backlog" /\ n["READY"] = "Ready" /\ n["RUNNING"] = "In Progress"
      /\ n["REVIEW"] = "In Review" /\ n["DONE"] = "Done" /\ n["FAILED"] = "Blocked"
      BY DEF Drafts!normalizedToGithubStatus
<1>4. status \in {"TODO", "READY", "RUNNING", "REVIEW", "DONE", "FAILED"}
      BY DEF Drafts!Statuses
<1> HIDE DEF n
<1>5. n[status] \in Drafts!Names
      BY <1>3, <1>4 DEF Drafts!Names
<1>6. DraftsResolved(status) = IF n[status] \in options THEN n[status]
                         ELSE IF "In Review" \in options THEN "In Review"
                         ELSE IF "Backlog" \in options THEN "Backlog" ELSE None
      BY <1>1, <1>5 DEF DraftsResolved, n
<1>7. Drafts!githubStatusToNormalized(n[status]) = status
      BY <1>2, <1>3, <1>4
<1>8. Drafts!githubStatusToNormalized("In Review") = "REVIEW"
        /\ Drafts!githubStatusToNormalized("Backlog") = "TODO"
      BY <1>2
<1>9. Drafts!githubStatusToNormalized(None) = "TODO"
      BY <1>2 DEF DraftsValues, Drafts!Names
<1>10. /\ DraftsResolved(status) \in options \cup {None}
       /\ DraftsResolved(status) = None => {"In Review", "Backlog"} \cap options = {}
  <2>1. None \notin options
        BY DEF DraftsValues
  <2>2. "In Review" \in Drafts!Names /\ "Backlog" \in Drafts!Names
        BY DEF Drafts!Names
  <2>3. QED
        BY <1>5, <1>6, <2>1, <2>2 DEF DraftsValues
<1>11. Drafts!githubStatusToNormalized(DraftsResolved(status)) =
         IF n[status] \in options THEN status ELSE IF "In Review" \in options
           THEN "REVIEW" ELSE "TODO"
      BY <1>6, <1>7, <1>8, <1>9
<1>12. QED
      BY <1>10, <1>11 DEF n

\* Every card is read back with the status it was published with, as far as the
\* options allow
LEMMA DraftsInvLemma == ASSUME DraftsValues, DraftsIInv PROVE Drafts!DraftsInv
<1>1. Drafts!TypeOK /\ DraftsNumbers /\ DraftsCards
      BY DEF DraftsIInv
<1>2. Drafts!CardsAccounted
      BY <1>1 DEF DraftsNumbers, DraftsCards, Drafts!CardsAccounted
<1>3. Drafts!PublishedReadsBack
  <2>1. SUFFICES ASSUME NEW r \in returned, NEW k \in DOMAIN items, items[k].by = r.by,
                          r.by \notin touched
                 PROVE  Drafts!githubStatusToNormalized(items[k].option) =
                          CASE Drafts!normalizedToGithubStatus[r.status] \in options -> r.status
                            [] Drafts!normalizedToGithubStatus[r.status] \notin options
                              /\ "In Review" \in options -> "REVIEW"
                            [] OTHER -> "TODO"
        BY DEF Drafts!PublishedReadsBack, Drafts!fetchProjectDrafts
  <2>2. items[k].option = DraftsResolved(r.status) /\ r.status \in Drafts!Statuses
        BY <1>1, <2>1 DEF DraftsCards, Drafts!TypeOK
  <2>3. QED
        BY <1>1, <2>2, DraftsResolvedLemma DEF Drafts!TypeOK
<1>4. QED
      BY <1>1, <1>2, <1>3 DEF Drafts!DraftsInv

\* Taking one item out of a sequence leaves the others, each once
LEMMA DraftsRemoveAtLemma ==
    ASSUME NEW S, NEW q \in Seq(S), NEW k \in DOMAIN q
    PROVE  /\ Drafts!RemoveAt(q, k) \in Seq(S)
           /\ \A i \in DOMAIN Drafts!RemoveAt(q, k) : \E j \in DOMAIN q \ {k} :
                Drafts!RemoveAt(q, k)[i] = q[j] /\ j = IF i < k THEN i ELSE i + 1
           /\ \A j \in DOMAIN q \ {k} : \E i \in DOMAIN Drafts!RemoveAt(q, k) : Drafts!RemoveAt(q,
                k)[i] = q[j]
<1>1. Len(q) \in Nat /\ DOMAIN q = 1..Len(q) /\ k \in 1..Len(q)
      OBVIOUS
<1> DEFINE a == SubSeq(q, 1, k - 1)
           b == SubSeq(q, k + 1, Len(q))
           p == a \o b
<1>2. /\ a \in Seq(S) /\ Len(a) = k - 1 /\ \A i \in 1..k - 1 : a[i] = q[i]
      BY <1>1
<1>3. /\ b \in Seq(S) /\ Len(b) = Len(q) - k /\ \A i \in 1..Len(q) - k : b[i] = q[k + i]
      BY <1>1
<1> HIDE DEF a, b
<1>4. Len(a) = k - 1 /\ Len(b) = Len(q) - k /\ k - 1 \in Nat /\ Len(q) - k \in Nat
      BY <1>1, <1>2, <1>3
<1>5. /\ p \in Seq(S) /\ Len(p) = Len(q) - 1 /\ DOMAIN p = 1..Len(q) - 1
  <2>1. a \in Seq(S) /\ b \in Seq(S)
        BY <1>2, <1>3
  <2>2. p \in Seq(S)
        BY <2>1
  <2>3. Len(p) = Len(a) + Len(b)
        BY <2>1
  <2>4. p \in Seq(S) /\ Len(p) = Len(a) + Len(b)
        BY <2>2, <2>3
  <2>5. Len(a) + Len(b) = Len(q) - 1
        BY <1>1, <1>4
  <2>6. DOMAIN p = 1..Len(p)
        BY <2>4
  <2>7. QED
        BY <2>4, <2>5, <2>6
<1>6. \A i \in 1..Len(q) - 1 : i < k => p[i] = q[i]
  <2>1. SUFFICES ASSUME NEW i \in 1..Len(q) - 1, i < k PROVE p[i] = q[i]
        OBVIOUS
  <2>2. i \in 1..Len(a) /\ i \in 1..k - 1
        BY <1>1, <1>4, <2>1
  <2>3. p[i] = a[i]
        BY <1>2, <1>3, <1>4, <2>2
  <2>4. QED
        BY <1>2, <2>2, <2>3
<1>7. \A i \in 1..Len(q) - 1 : ~(i < k) => p[i] = q[i + 1]
  <2>1. SUFFICES ASSUME NEW i \in 1..Len(q) - 1, ~(i < k) PROVE p[i] = q[i + 1]
        OBVIOUS
  <2>2. i - Len(a) \in 1..Len(q) - k /\ i \in Len(a) + 1 .. Len(a) + Len(b)
          /\ k + (i - Len(a)) = i + 1
        BY <1>1, <1>4, <2>1
  <2>3. a \in Seq(S) /\ b \in Seq(S) /\ Len(a) \in Nat /\ Len(b) \in Nat
        BY <1>2, <1>3
  <2>4. i \in Nat /\ i > Len(a) /\ i <= Len(a) + Len(b)
        BY <1>1, <1>4, <2>2
  <2>5. p[i] = b[i - Len(a)]
        BY <2>3, <2>4
  <2>6. QED
        BY <1>3, <2>2, <2>5
<1>8. \A i \in 1..Len(q) - 1 : p[i] = IF i < k THEN q[i] ELSE q[i + 1]
      BY <1>6, <1>7
<1>9. p = Drafts!RemoveAt(q, k)
      BY DEF Drafts!RemoveAt, a, b
<1> HIDE DEF p
<1>10. \A i \in DOMAIN p : \E j \in DOMAIN q \ {k} : p[i] = q[j] /\ j = IF i < k THEN i ELSE i + 1
  <2>1. TAKE i \in DOMAIN p
  <2>2. (IF i < k THEN i ELSE i + 1) \in DOMAIN q \ {k}
        BY <1>1, <1>5
  <2>3. QED
        BY <1>5, <1>8, <2>2
<1>11. \A j \in DOMAIN q \ {k} : \E i \in DOMAIN p : p[i] = q[j]
  <2>1. TAKE j \in DOMAIN q \ {k}
  <2>2. (IF j < k THEN j ELSE j - 1) \in DOMAIN p
        BY <1>1, <1>5
  <2>3. p[IF j < k THEN j ELSE j - 1] = q[j]
        BY <1>1, <1>8
  <2>4. QED
        BY <2>2, <2>3
<1>12. QED
      BY <1>5, <1>9, <1>10, <1>11

DraftsCallRecord == [pc : {"idle", "options", "set"}, by : 0..DraftCalls,
               status : Drafts!Statuses, option : Drafts!Names \cup {None}]

\* createTask adds a card
LEMMA DraftsCreate ==
    ASSUME DraftsValues, DraftsIInv, NEW s \in DraftSlots, NEW t \in DraftTasks,
             NEW status \in Drafts!Statuses,
           Drafts!Create(s, t, status)
    PROVE  DraftsIInv'
<1> USE DEF DraftsValues
<1>1. Drafts!TypeOK /\ DraftsNumbers /\ DraftsCards
      BY DEF DraftsIInv
<1> DEFINE card == [by |-> draftCalls + 1, task |-> t, option |-> None]
<1>2. card \in Drafts!Item /\ card.by = draftCalls + 1 /\ card.option = None
        /\ draftCalls' = draftCalls + 1
      /\ draftCalls' \in 0..DraftCalls /\ draftCall[s].pc = "idle"
      BY <1>1 DEF Drafts!Create, Drafts!TypeOK, Drafts!Item, Drafts!At
<1> HIDE DEF card
<1>3. UNCHANGED <<options, returned, touched, touches>> /\ items' \in {items, Append(items, card)}
      /\ draftFaults' \in 0..DraftFaults
      BY <1>1 DEF Drafts!Create, Drafts!Fault, Drafts!TypeOK, card
<1>4. /\ items' \in Seq(Drafts!Item)
      /\ \A k \in DOMAIN items : k \in DOMAIN items' /\ items'[k] = items[k]
      /\ \A k \in DOMAIN items' : \/ k \in DOMAIN items /\ items'[k] = items[k]
                                  \/ k = Len(items) + 1 /\ items'[k] = card
  <2>1. items \in Seq(Drafts!Item)
        BY <1>1 DEF Drafts!TypeOK
  <2>2. CASE items' = items
        BY <2>1, <2>2
  <2>3. CASE items' = Append(items, card)
    <3>1. /\ items' \in Seq(Drafts!Item) /\ DOMAIN items' = 1..Len(items) + 1
               /\ DOMAIN items = 1..Len(items)
          /\ Len(items) \in Nat
          BY <1>2, <2>1, <2>3
    <3>2. \A k \in 1..Len(items) : items'[k] = items[k]
          BY <1>2, <2>1, <2>3
    <3>3. items'[Len(items) + 1] = card
          BY <1>2, <2>1, <2>3
    <3>4. QED
          BY <3>1, <3>2, <3>3
  <2>4. QED
        BY <1>3, <2>2, <2>3
<1>5. PICK c \in DraftsCallRecord :
        /\ draftCall' = [draftCall EXCEPT ![s] = c]
        /\ \/ c = draftCall[s]
           \/ c.pc = "options" /\ c.by = draftCalls + 1
                /\ \E k \in DOMAIN items' : items'[k].by = draftCalls + 1
  <2>1. CASE /\ items' = Append(items, card)
             /\ draftCall' = [draftCall EXCEPT ![s] = [Drafts!Idle EXCEPT !.pc = "options",
                  !.by = draftCalls',
                                                        !.status = status]]
    <3>1. [Drafts!Idle EXCEPT !.pc = "options", !.by = draftCalls',
            !.status = status] \in DraftsCallRecord
          BY <1>2 DEF Drafts!Idle, DraftsCallRecord
    <3>2. Len(items) + 1 \in DOMAIN items' /\ items'[Len(items) + 1] = card
          BY <1>1, <1>2, <2>1 DEF Drafts!TypeOK
    <3>3. QED
          BY <1>2, <2>1, <3>1, <3>2 DEF Drafts!Idle
  <2>2. CASE UNCHANGED draftCall
    <3>1. draftCall[s] \in DraftsCallRecord /\ draftCall = [draftCall EXCEPT ![s] = draftCall[s]]
          BY <1>1 DEF Drafts!TypeOK, DraftsCallRecord
    <3>2. QED
          BY <2>2, <3>1
  <2>3. QED
        BY <2>1, <2>2 DEF Drafts!Create, card
<1>6. draftCall'[s] = c /\ \A r \in DraftSlots : r # s => draftCall'[r] = draftCall[r]
      BY <1>1, <1>5 DEF Drafts!TypeOK
<1>7. Drafts!TypeOK'
  <2>1. draftCall' \in [DraftSlots -> DraftsCallRecord]
        BY <1>1, <1>5 DEF Drafts!TypeOK, DraftsCallRecord
  <2>2. QED
        BY <1>1, <1>2, <1>3, <1>4, <2>1 DEF Drafts!TypeOK, DraftsCallRecord
<1>8. draftCalls \in Nat /\ (\A k \in DOMAIN items : items[k] \in Drafts!Item)
        /\ \A r \in DraftSlots : draftCall[r].by \in 0..DraftCalls
      BY <1>1 DEF Drafts!TypeOK
<1>9. DraftsNumbers'
  <2>1. \A k \in DOMAIN items' : items'[k].by <= draftCalls'
        BY <1>1, <1>2, <1>4, <1>8 DEF DraftsNumbers, Drafts!Item
  <2>2. \A j, k \in DOMAIN items' : items'[j].by = items'[k].by => j = k
        BY <1>1, <1>2, <1>4, <1>8 DEF DraftsNumbers, Drafts!Item
  <2>3. \A r \in returned' : r.by <= draftCalls'
        BY <1>1, <1>2, <1>3, <1>8 DEF DraftsNumbers, Drafts!TypeOK
  <2>4. \A r \in DraftSlots : DraftsActive(r)' => draftCall'[r].by \in 1..draftCalls'
          /\ \A q \in returned' : q.by # draftCall'[r].by
        BY <1>1, <1>2, <1>3, <1>5, <1>6, <1>8 DEF DraftsNumbers, DraftsActive, Drafts!TypeOK
  <2>5. \A q, r \in DraftSlots : DraftsActive(q)' /\ DraftsActive(r)'
          /\ draftCall'[q].by = draftCall'[r].by => q = r
        BY <1>1, <1>2, <1>5, <1>6, <1>8 DEF DraftsNumbers, DraftsActive
  <2>6. QED
        BY <2>1, <2>2, <2>3, <2>4, <2>5 DEF DraftsNumbers, DraftsActive
<1>10. \A x : DraftsResolved(x)' = DraftsResolved(x)
      BY <1>3 DEF DraftsResolved, Drafts!resolveStatusOptionId
<1>11. DraftsCards'
  <2>1. \A r \in DraftSlots : draftCall'[r].pc = "set"
          => draftCall'[r].option = DraftsResolved(draftCall'[r].status)
                                             /\ draftCall'[r].option # None
        BY <1>1, <1>2, <1>5, <1>6 DEF DraftsCards
  <2>2. \A r \in DraftSlots : DraftsActive(r)' =>
           draftCall'[r].by \in touched'
             \/ \E k \in DOMAIN items' : items'[k].by = draftCall'[r].by
    <3>1. SUFFICES ASSUME NEW r \in DraftSlots, DraftsActive(r)'
                   PROVE  draftCall'[r].by \in touched'
                            \/ \E k \in DOMAIN items' : items'[k].by = draftCall'[r].by
          OBVIOUS
    <3>2. CASE draftCall'[r] = draftCall[r]
      <4>1. draftCall[r].by \in touched \/ \E k \in DOMAIN items : items[k].by = draftCall[r].by
            BY <1>1, <3>1, <3>2 DEF DraftsCards, DraftsActive
      <4>2. QED
            BY <1>3, <1>4, <3>2, <4>1
    <3>3. CASE draftCall'[r].by = draftCalls + 1
                 /\ \E k \in DOMAIN items' : items'[k].by = draftCalls + 1
          BY <3>3
    <3>4. QED
          BY <1>5, <1>6, <3>2, <3>3
  <2>3. \A r \in returned' : r.by \in touched' \/ \E k \in DOMAIN items' : items'[k].by = r.by
    <3>1. \A r \in returned : r.by \in touched \/ \E k \in DOMAIN items : items[k].by = r.by
          BY <1>1 DEF DraftsCards
    <3>2. returned' = returned /\ touched' = touched
          BY <1>3
    <3>3. QED
          BY <1>4, <3>1, <3>2
  <2>4. \A r \in DraftSlots, k \in DOMAIN items' :
           DraftsActive(r)' /\ items'[k].by = draftCall'[r].by /\ items'[k].by \notin touched'
             => items'[k].option = None
    <3>1. SUFFICES ASSUME NEW r \in DraftSlots, NEW k \in DOMAIN items', DraftsActive(r)',
                            items'[k].by = draftCall'[r].by,
                          items'[k].by \notin touched'
                   PROVE  items'[k].option = None
          OBVIOUS
    <3>2. CASE items'[k] = card
          BY <1>2, <3>2
    <3>3. CASE k \in DOMAIN items /\ items'[k] = items[k]
      <4>1. items[k].by <= draftCalls
            BY <1>1, <3>3 DEF DraftsNumbers
      <4>2. draftCall'[r] = draftCall[r]
            BY <1>2, <1>5, <1>6, <1>8, <3>1, <3>3, <4>1
      <4>3. QED
            BY <1>1, <1>3, <3>1, <3>3, <4>2 DEF DraftsCards, DraftsActive
    <3>4. QED
          BY <1>4, <3>2, <3>3
  <2>5. \A r \in returned', k \in DOMAIN items' : items'[k].by = r.by
          => k \in DOMAIN items /\ items'[k] = items[k]
        BY <1>1, <1>2, <1>3, <1>4, <1>8 DEF DraftsNumbers, Drafts!TypeOK
  <2>6. \A r \in returned', k \in DOMAIN items' :
           items'[k].by = r.by /\ r.by \notin touched'
             => items'[k].option = DraftsResolved(r.status)
    <3>1. \A r \in returned, k \in DOMAIN items :
             items[k].by = r.by /\ r.by \notin touched
               => items[k].option = DraftsResolved(r.status)
          BY <1>1 DEF DraftsCards
    <3>2. returned' = returned /\ touched' = touched
          BY <1>3
    <3>3. QED
          BY <2>5, <3>1, <3>2
  <2>7. \A r \in returned', k \in DOMAIN items' : items'[k].by = r.by
          /\ items'[k].option = None =>
           {"In Review", "Backlog"} \cap options' = {}
    <3>1. \A r \in returned, k \in DOMAIN items : items[k].by = r.by /\ items[k].option = None =>
             {"In Review", "Backlog"} \cap options = {}
          BY <1>1 DEF DraftsCards
    <3>2. returned' = returned /\ options' = options
          BY <1>3
    <3>3. QED
          BY <2>5, <3>1, <3>2
  <2>8. QED
        BY <1>10, <2>1, <2>2, <2>3, <2>4, <2>6, <2>7 DEF DraftsCards, DraftsActive
<1>12. QED
      BY <1>7, <1>9, <1>11 DEF DraftsIInv

\* The options of the project arrive
LEMMA DraftsFetchOptions ==
    ASSUME DraftsValues, DraftsIInv, NEW s \in DraftSlots, Drafts!FetchOptions(s)
    PROVE  DraftsIInv'
<1> USE DEF DraftsValues
<1>1. Drafts!TypeOK /\ DraftsNumbers /\ DraftsCards
      BY DEF DraftsIInv
<1>2. UNCHANGED <<options, items, touched, draftCalls,
        touches>> /\ DraftsActive(s) /\ draftFaults' \in 0..DraftFaults
      BY <1>1 DEF Drafts!FetchOptions, Drafts!At, DraftsActive, Drafts!Fault, Drafts!TypeOK
<1>3. draftCall[s] \in DraftsCallRecord
      BY <1>1 DEF Drafts!TypeOK, DraftsCallRecord
<1> DEFINE option == DraftsResolved(draftCall[s].status)
           ours == [by |-> draftCall[s].by, status |-> draftCall[s].status]
<1>4. /\ option \in Drafts!Names \cup {None}
      /\ option = None => {"In Review", "Backlog"} \cap options = {}
      BY <1>1, <1>3, DraftsResolvedLemma DEF Drafts!TypeOK, DraftsCallRecord
<1>5. PICK c \in DraftsCallRecord :
        /\ draftCall' = [draftCall EXCEPT ![s] = c]
        /\ \/ /\ c.pc = "set" /\ c.by = draftCall[s].by /\ c.status = draftCall[s].status
                   /\ c.option = option
              /\ option # None /\ returned' = returned
           \/ c.pc = "idle" /\ option = None /\ returned' = returned \cup {ours}
           \/ c.pc = "idle" /\ returned' = returned
  <2>1. CASE option # None /\ UNCHANGED <<returned, draftFaults>>
             /\ draftCall' = [draftCall EXCEPT ![s].pc = "set", ![s].option = option]
    <3> DEFINE c == [draftCall[s] EXCEPT !.pc = "set", !.option = option]
    <3>1. c \in DraftsCallRecord /\ c.pc = "set" /\ c.by = draftCall[s].by
            /\ c.status = draftCall[s].status /\ c.option = option
          BY <1>3, <1>4 DEF DraftsCallRecord
    <3>2. draftCall' = [draftCall EXCEPT ![s] = c]
          BY <1>1, <2>1 DEF Drafts!TypeOK
    <3>3. QED
          BY <2>1, <3>1, <3>2
  <2>2. Drafts!Idle \in DraftsCallRecord /\ Drafts!Idle.pc = "idle"
        BY DEF Drafts!Idle, DraftsCallRecord, Drafts!Statuses
  <2>3. CASE option = None /\ Drafts!Ends(s) /\ Drafts!Returns(s)
        BY <2>2, <2>3 DEF Drafts!Ends, Drafts!Returns
  <2>4. CASE Drafts!Ends(s) /\ UNCHANGED returned
        BY <2>2, <2>4 DEF Drafts!Ends
  <2>5. QED
        BY <2>1, <2>3, <2>4 DEF Drafts!FetchOptions, DraftsResolved
<1>6. draftCall'[s] = c /\ \A r \in DraftSlots : r # s => draftCall'[r] = draftCall[r]
      BY <1>1, <1>5 DEF Drafts!TypeOK
<1>7. draftCall[s].by \in 1..draftCalls /\ (\A r \in returned : r.by # draftCall[s].by)
        /\ draftCalls \in 0..DraftCalls
      BY <1>1, <1>2 DEF DraftsNumbers, Drafts!TypeOK
<1>8. ours.by = draftCall[s].by /\ ours.status = draftCall[s].status
        /\ ours \in [by : 1..DraftCalls, status : Drafts!Statuses]
      BY <1>3, <1>7 DEF DraftsCallRecord
<1> HIDE DEF option, ours
<1>9. \A r \in returned' : r \in returned \/ (r = ours /\ option = None /\ c.pc = "idle")
      BY <1>5
<1>10. \A r \in DraftSlots : DraftsActive(r)'
         => DraftsActive(r) /\ draftCall'[r].by = draftCall[r].by /\ (r = s
           => returned' = returned)
      BY <1>2, <1>5, <1>6 DEF DraftsActive
<1>11. \A x : DraftsResolved(x)' = DraftsResolved(x)
      BY <1>2 DEF DraftsResolved, Drafts!resolveStatusOptionId
<1>12. Drafts!TypeOK'
  <2>1. draftCall' \in [DraftSlots -> DraftsCallRecord]
        BY <1>1, <1>5 DEF Drafts!TypeOK, DraftsCallRecord
  <2>2. returned' \subseteq [by : 1..DraftCalls, status : Drafts!Statuses]
        BY <1>1, <1>5, <1>8 DEF Drafts!TypeOK
  <2>3. QED
        BY <1>1, <1>2, <2>1, <2>2 DEF Drafts!TypeOK, DraftsCallRecord
<1>13. DraftsNumbers'
  <2>1. \A r \in returned' : r.by <= draftCalls'
        BY <1>1, <1>2, <1>7, <1>8, <1>9 DEF DraftsNumbers
  <2>2. \A r \in DraftSlots : DraftsActive(r)' => draftCall'[r].by \in 1..draftCalls'
          /\ \A q \in returned' : q.by # draftCall'[r].by
    <3>1. SUFFICES ASSUME NEW r \in DraftSlots, DraftsActive(r)', NEW q \in returned'
                   PROVE  draftCall'[r].by \in 1..draftCalls' /\ q.by # draftCall'[r].by
          BY <1>1, <1>2, <1>10 DEF DraftsNumbers
    <3>2. DraftsActive(r) /\ draftCall'[r].by = draftCall[r].by
          BY <1>10, <3>1
    <3>3. CASE q \in returned
          BY <1>1, <1>2, <3>2, <3>3 DEF DraftsNumbers
    <3>4. CASE q = ours /\ c.pc = "idle"
          BY <1>1, <1>2, <1>6, <1>8, <3>1, <3>2, <3>4 DEF DraftsNumbers, DraftsActive
    <3>5. QED
          BY <1>9, <3>3, <3>4
  <2>3. \A q, r \in DraftSlots : DraftsActive(q)' /\ DraftsActive(r)'
          /\ draftCall'[q].by = draftCall'[r].by => q = r
        BY <1>1, <1>10 DEF DraftsNumbers
  <2>4. QED
        BY <1>1, <1>2, <2>1, <2>2, <2>3 DEF DraftsNumbers, DraftsActive
<1>14. DraftsCards'
  <2>1. \A r \in DraftSlots : draftCall'[r].pc = "set"
          => draftCall'[r].option = DraftsResolved(draftCall'[r].status)
                                             /\ draftCall'[r].option # None
        BY <1>1, <1>5, <1>6 DEF DraftsCards, option
  <2>2. \A r \in DraftSlots : DraftsActive(r)' =>
           draftCall'[r].by \in touched'
             \/ \E k \in DOMAIN items' : items'[k].by = draftCall'[r].by
    <3>1. \A r \in DraftSlots : DraftsActive(r) => draftCall[r].by \in touched
            \/ \E k \in DOMAIN items : items[k].by = draftCall[r].by
          BY <1>1 DEF DraftsCards
    <3>2. items' = items /\ touched' = touched
          BY <1>2
    <3>3. QED
          BY <1>10, <3>1, <3>2
  <2>3. \A r \in returned' : r.by \in touched' \/ \E k \in DOMAIN items' : items'[k].by = r.by
        BY <1>1, <1>2, <1>8, <1>9 DEF DraftsCards
  <2>4. \A r \in DraftSlots, k \in DOMAIN items' :
           DraftsActive(r)' /\ items'[k].by = draftCall'[r].by /\ items'[k].by \notin touched'
             => items'[k].option = None
        BY <1>1, <1>2, <1>10 DEF DraftsCards
  <2>5. \A r \in returned', k \in DOMAIN items' :
           items'[k].by = r.by /\ r.by \notin touched'
             => items'[k].option = DraftsResolved(r.status)
        BY <1>1, <1>2, <1>8, <1>9 DEF DraftsCards, option
  <2>6. \A r \in returned', k \in DOMAIN items' : items'[k].by = r.by
          /\ items'[k].option = None =>
           {"In Review", "Backlog"} \cap options' = {}
        BY <1>1, <1>2, <1>4, <1>9 DEF DraftsCards
  <2>7. QED
        BY <1>11, <2>1, <2>2, <2>3, <2>4, <2>5, <2>6 DEF DraftsCards, DraftsActive
<1>15. QED
      BY <1>12, <1>13, <1>14 DEF DraftsIInv

\* A status is set, on the card of its task if the lookup finds it
LEMMA DraftsSetStatus ==
    ASSUME DraftsValues, DraftsIInv, NEW s \in DraftSlots, Drafts!SetStatus(s)
    PROVE  DraftsIInv'
<1> USE DEF DraftsValues
<1>1. Drafts!TypeOK /\ DraftsNumbers /\ DraftsCards
      BY DEF DraftsIInv
<1>2. /\ options' = options /\ touched' = touched /\ draftCalls' = draftCalls
           /\ touches' = touches
      /\ DraftsActive(s) /\ draftCall[s].pc = "set" /\ draftFaults' \in 0..DraftFaults
      BY <1>1 DEF Drafts!SetStatus, Drafts!At, DraftsActive, Drafts!Fault, Drafts!TypeOK
<1>3. draftCall[s] \in DraftsCallRecord /\ draftCall[s].option # None
        /\ draftCall[s].option = DraftsResolved(draftCall[s].status)
      BY <1>1, <1>2 DEF Drafts!TypeOK, DraftsCallRecord, DraftsCards
<1>4. draftCall[s].by \in 1..draftCalls /\ (\A r \in returned : r.by # draftCall[s].by)
        /\ draftCalls \in 0..DraftCalls
      BY <1>1, <1>2 DEF DraftsNumbers, Drafts!TypeOK
<1> DEFINE ours == [by |-> draftCall[s].by, status |-> draftCall[s].status]
           set  == [k \in DOMAIN items |-> IF items[k].by = draftCall[s].by
                      THEN [items[k] EXCEPT !.option = draftCall[s].option] ELSE items[k]]
<1>5. ours.by = draftCall[s].by /\ ours.status = draftCall[s].status
        /\ ours \in [by : 1..DraftCalls, status : Drafts!Statuses]
      BY <1>3, <1>4 DEF DraftsCallRecord
<1>6. items \in Seq(Drafts!Item) /\ \A k \in DOMAIN items : items[k] \in Drafts!Item
      BY <1>1 DEF Drafts!TypeOK
<1>7. /\ set \in Seq(Drafts!Item) /\ DOMAIN set = DOMAIN items
      /\ \A k \in DOMAIN items :
           /\ set[k].by = items[k].by
           /\ IF items[k].by = draftCall[s].by THEN set[k].option = draftCall[s].option
                ELSE set[k] = items[k]
  <2>1. \A k \in DOMAIN items : /\ set[k] \in Drafts!Item /\ set[k].by = items[k].by
                                /\ IF items[k].by = draftCall[s].by
                                     THEN set[k].option = draftCall[s].option
                                   ELSE set[k] = items[k]
        BY <1>3, <1>6 DEF Drafts!Item, DraftsCallRecord
  <2>2. DOMAIN items = 1..Len(items) /\ Len(items) \in Nat
        BY <1>6
  <2>3. set = [k \in 1..Len(items) |-> set[k]]
        BY <2>2
  <2>4. set \in Seq(Drafts!Item)
        BY <2>1, <2>2, <2>3
  <2>5. QED
        BY <2>1, <2>4
<1>8. /\ items' \in {items, set}
      /\ \/ returned' = returned
         \/ returned' = returned \cup {ours} /\ items' = set
              /\ \E k \in DOMAIN items : items[k].by = draftCall[s].by
  <2> DEFINE mineAt == {k \in DOMAIN items : items[k].by = draftCall[s].by}
             setAt  == [k \in DOMAIN items |->
                          IF k \in mineAt THEN [items[k] EXCEPT !.option = draftCall[s].option]
                            ELSE items[k]]
  <2>1. setAt = set
        OBVIOUS
  <2>2. \/ mineAt # {} /\ items' = setAt /\ returned' = returned \cup {ours}
        \/ items' = items /\ returned' = returned
        \/ items' \in {items, setAt} /\ returned' = returned
        BY DEF Drafts!SetStatus, Drafts!Returns
  <2>3. mineAt # {} => \E k \in DOMAIN items : items[k].by = draftCall[s].by
        OBVIOUS
  <2> HIDE DEF mineAt, setAt
  <2>4. QED
        BY <2>1, <2>2, <2>3
<1>9. draftCall' = [draftCall EXCEPT ![s] = Drafts!Idle]
      BY DEF Drafts!SetStatus, Drafts!Ends
<1>10. Drafts!Idle \in DraftsCallRecord /\ Drafts!Idle.pc = "idle"
      BY DEF Drafts!Idle, DraftsCallRecord, Drafts!Statuses
<1>11. /\ draftCall'[s] = Drafts!Idle /\ \A r \in DraftSlots : r # s
            => draftCall'[r] = draftCall[r]
       /\ draftCall' \in [DraftSlots -> DraftsCallRecord]
      BY <1>1, <1>9, <1>10 DEF Drafts!TypeOK, DraftsCallRecord
<1>12. \A r \in DraftSlots : DraftsActive(r)' => r # s /\ DraftsActive(r)
         /\ draftCall'[r] = draftCall[r] /\ draftCall[r].by # draftCall[s].by
      BY <1>1, <1>2, <1>10, <1>11 DEF DraftsActive, DraftsNumbers
<1> HIDE DEF ours, set
<1>13. /\ items' \in Seq(Drafts!Item) /\ DOMAIN items' = DOMAIN items
       /\ \A k \in DOMAIN items :
            items'[k].by = items[k].by /\ (items[k].by # draftCall[s].by => items'[k] = items[k])
      BY <1>6, <1>7, <1>8
<1>14. \A r \in returned' : r \in returned \/ (r = ours /\ items' = set
         /\ \E k \in DOMAIN items : items[k].by = draftCall[s].by)
      BY <1>8
<1>15. \A x : DraftsResolved(x)' = DraftsResolved(x)
      BY <1>2 DEF DraftsResolved, Drafts!resolveStatusOptionId
<1>16. Drafts!TypeOK'
  <2>1. returned' \subseteq [by : 1..DraftCalls, status : Drafts!Statuses]
        BY <1>1, <1>5, <1>8 DEF Drafts!TypeOK
  <2>2. QED
        BY <1>1, <1>2, <1>11, <1>13, <2>1 DEF Drafts!TypeOK, DraftsCallRecord
<1>17. DraftsNumbers'
  <2>1. \A k \in DOMAIN items' : items'[k].by <= draftCalls'
        BY <1>1, <1>2, <1>13 DEF DraftsNumbers
  <2>2. \A j, k \in DOMAIN items' : items'[j].by = items'[k].by => j = k
        BY <1>1, <1>13 DEF DraftsNumbers
  <2>3. \A r \in returned' : r.by <= draftCalls'
        BY <1>1, <1>2, <1>4, <1>5, <1>14 DEF DraftsNumbers
  <2>4. \A r \in DraftSlots : DraftsActive(r)' => draftCall'[r].by \in 1..draftCalls'
          /\ \A q \in returned' : q.by # draftCall'[r].by
        BY <1>1, <1>2, <1>5, <1>12, <1>14 DEF DraftsNumbers
  <2>5. \A q, r \in DraftSlots : DraftsActive(q)' /\ DraftsActive(r)'
          /\ draftCall'[q].by = draftCall'[r].by => q = r
        BY <1>1, <1>12 DEF DraftsNumbers
  <2>6. QED
        BY <2>1, <2>2, <2>3, <2>4, <2>5 DEF DraftsNumbers, DraftsActive
<1>18. DraftsCards'
  <2>1. \A r \in DraftSlots : draftCall'[r].pc = "set"
          => draftCall'[r].option = DraftsResolved(draftCall'[r].status)
                                             /\ draftCall'[r].option # None
        BY <1>1, <1>10, <1>11 DEF DraftsCards
  <2>2. \A r \in DraftSlots : DraftsActive(r)' =>
           draftCall'[r].by \in touched'
             \/ \E k \in DOMAIN items' : items'[k].by = draftCall'[r].by
    <3>1. \A r \in DraftSlots : DraftsActive(r) => draftCall[r].by \in touched
            \/ \E k \in DOMAIN items : items[k].by = draftCall[r].by
          BY <1>1 DEF DraftsCards
    <3>2. QED
          BY <1>2, <1>12, <1>13, <3>1
  <2>3. \A r \in returned' : r.by \in touched' \/ \E k \in DOMAIN items' : items'[k].by = r.by
    <3>1. \A r \in returned : r.by \in touched \/ \E k \in DOMAIN items : items[k].by = r.by
          BY <1>1 DEF DraftsCards
    <3>2. QED
          BY <1>2, <1>5, <1>13, <1>14, <3>1
  <2>4. \A r \in DraftSlots, k \in DOMAIN items' :
           DraftsActive(r)' /\ items'[k].by = draftCall'[r].by /\ items'[k].by \notin touched'
             => items'[k].option = None
    <3>1. \A r \in DraftSlots, k \in DOMAIN items :
             DraftsActive(r) /\ items[k].by = draftCall[r].by /\ items[k].by \notin touched
               => items[k].option = None
          BY <1>1 DEF DraftsCards
    <3>2. QED
          BY <1>2, <1>12, <1>13, <3>1
  <2>5. \A r \in returned', k \in DOMAIN items' : items'[k].by = r.by =>
           \/ r \in returned /\ items'[k] = items[k] /\ items[k].by = r.by
           \/ r = ours /\ items'[k].option = draftCall[s].option
        BY <1>4, <1>5, <1>7, <1>13, <1>14
  <2>6. \A r \in returned', k \in DOMAIN items' :
           items'[k].by = r.by /\ r.by \notin touched'
             => items'[k].option = DraftsResolved(r.status)
    <3>1. \A r \in returned, k \in DOMAIN items :
             items[k].by = r.by /\ r.by \notin touched
               => items[k].option = DraftsResolved(r.status)
          BY <1>1 DEF DraftsCards
    <3>2. QED
          BY <1>2, <1>3, <1>5, <1>13, <2>5, <3>1
  <2>7. \A r \in returned', k \in DOMAIN items' : items'[k].by = r.by
          /\ items'[k].option = None =>
           {"In Review", "Backlog"} \cap options' = {}
    <3>1. \A r \in returned, k \in DOMAIN items : items[k].by = r.by /\ items[k].option = None =>
             {"In Review", "Backlog"} \cap options = {}
          BY <1>1 DEF DraftsCards
    <3>2. QED
          BY <1>2, <1>3, <1>13, <2>5, <3>1
  <2>8. QED
        BY <1>15, <2>1, <2>2, <2>3, <2>4, <2>6, <2>7 DEF DraftsCards, DraftsActive
<1>19. QED
      BY <1>16, <1>17, <1>18 DEF DraftsIInv

\* Somebody else touches a card
LEMMA DraftsTouch ==
    ASSUME DraftsValues, DraftsIInv, Drafts!Touch
    PROVE  DraftsIInv'
<1> USE DEF DraftsValues
<1>1. Drafts!TypeOK /\ DraftsNumbers /\ DraftsCards
      BY DEF DraftsIInv
<1>2. /\ options' = options /\ draftCall' = draftCall /\ returned' = returned
           /\ draftCalls' = draftCalls /\ draftFaults' = draftFaults
      /\ touches' \in 0..DraftTouches
      BY <1>1 DEF Drafts!Touch, Drafts!TypeOK
<1>3. items \in Seq(Drafts!Item) /\ \A k \in DOMAIN items : items[k] \in Drafts!Item
      BY <1>1 DEF Drafts!TypeOK
<1>4. PICK k \in DOMAIN items :
        /\ touched' = touched \cup {items[k].by}
        /\ \/ \E o \in options : items' = [items EXCEPT ![k].option = o]
           \/ items' = Drafts!RemoveAt(items, k)
      BY DEF Drafts!Touch
\* Every card left was there before, and is as it was unless it is the touched one
<1> DEFINE Left ==
      /\ items' \in Seq(Drafts!Item)
      /\ \A i \in DOMAIN items' : \E j \in DOMAIN items :
           /\ items'[i].by = items[j].by /\ (j # k => items'[i] = items[j])
           /\ j = k => items'[i].option # None
      /\ \A j \in DOMAIN items : j # k => \E i \in DOMAIN items' : items'[i] = items[j]
      /\ \A i, j \in DOMAIN items' : items'[i].by = items'[j].by => i = j
<1>5. Left
  <2>1. ASSUME NEW o \in options, items' = [items EXCEPT ![k].option = o]
        PROVE  Left
    <3> DEFINE it == [items[k] EXCEPT !.option = o]
    <3>1. it \in Drafts!Item /\ it.by = items[k].by /\ it.option = o /\ o # None
          BY <1>1, <1>3 DEF Drafts!Item, Drafts!TypeOK
    <3>2. items' = [items EXCEPT ![k] = it]
          BY <1>3, <2>1
    <3> HIDE DEF it
    <3>3. /\ items' \in Seq(Drafts!Item) /\ DOMAIN items' = DOMAIN items
          /\ items'[k] = it /\ \A j \in DOMAIN items : j # k => items'[j] = items[j]
          BY <1>3, <3>1, <3>2
    <3>4. \A i, j \in DOMAIN items : items[i].by = items[j].by => i = j
          BY <1>1 DEF DraftsNumbers
    <3>5. \A i, j \in DOMAIN items' : items'[i].by = items'[j].by => i = j
          BY <3>1, <3>3, <3>4
    <3>6. QED
          BY <3>1, <3>3, <3>5
  <2>2. ASSUME items' = Drafts!RemoveAt(items, k)
        PROVE  Left
    <3>1. /\ items' \in Seq(Drafts!Item)
          /\ \A i \in DOMAIN items' : \E j \in DOMAIN items \ {k} :
               items'[i] = items[j] /\ j = IF i < k THEN i ELSE i + 1
          /\ \A j \in DOMAIN items \ {k} : \E i \in DOMAIN items' : items'[i] = items[j]
          BY <1>3, <2>2, DraftsRemoveAtLemma
    <3>2. \A i, j \in DOMAIN items : items[i].by = items[j].by => i = j
          BY <1>1 DEF DraftsNumbers
    <3>3. \A i, j \in DOMAIN items' : items'[i].by = items'[j].by => i = j
      <4>1. SUFFICES ASSUME NEW i \in DOMAIN items', NEW j \in DOMAIN items',
                              items'[i].by = items'[j].by
                     PROVE  i = j
            OBVIOUS
      <4>2. (IF i < k THEN i ELSE i + 1) = (IF j < k THEN j ELSE j + 1)
            BY <3>1, <3>2, <4>1
      <4>3. i \in Nat /\ j \in Nat /\ k \in Nat
            BY <1>3, <3>1
      <4>4. QED
            BY <4>2, <4>3
    <3>4. QED
          BY <3>1, <3>3
  <2>3. QED
        BY <1>4, <2>1, <2>2
<1>6. \A x : DraftsResolved(x)' = DraftsResolved(x)
      BY <1>2 DEF DraftsResolved, Drafts!resolveStatusOptionId
<1>7. Drafts!TypeOK'
  <2>1. touched' \subseteq 1..DraftCalls
        BY <1>1, <1>3, <1>4 DEF Drafts!TypeOK, Drafts!Item
  <2>2. QED
        BY <1>1, <1>2, <1>5, <2>1 DEF Drafts!TypeOK
<1>8. DraftsNumbers'
  <2>1. \A i \in DOMAIN items' : items'[i].by <= draftCalls'
        BY <1>1, <1>2, <1>5 DEF DraftsNumbers
  <2>2. QED
        BY <1>1, <1>2, <1>5, <2>1 DEF DraftsNumbers, DraftsActive
\* Whose card was there has it still, or people have touched it
<1>9. \A n : (n \in touched \/ \E j \in DOMAIN items : items[j].by = n)
             => (n \in touched' \/ \E i \in DOMAIN items' : items'[i].by = n)
      BY <1>4, <1>5
<1>10. \A i \in DOMAIN items' : \E j \in DOMAIN items :
         /\ items'[i].by = items[j].by
         /\ items'[i].by \notin touched' => items'[i] = items[j] /\ items[j].by \notin touched
         /\ items'[i].option = None => items'[i] = items[j]
      BY <1>4, <1>5
<1>11. DraftsCards'
  <2>1. \A r \in DraftSlots : DraftsActive(r) => draftCall[r].by \in touched'
          \/ \E j \in DOMAIN items' : items'[j].by = draftCall[r].by
        BY <1>1, <1>9 DEF DraftsCards
  <2>2. \A r \in returned : r.by \in touched' \/ \E j \in DOMAIN items' : items'[j].by = r.by
        BY <1>1, <1>9 DEF DraftsCards
  <2>3. \A r \in DraftSlots, i \in DOMAIN items' :
           DraftsActive(r) /\ items'[i].by = draftCall[r].by /\ items'[i].by \notin touched'
             => items'[i].option = None
    <3>1. \A r \in DraftSlots, j \in DOMAIN items :
             DraftsActive(r) /\ items[j].by = draftCall[r].by /\ items[j].by \notin touched
               => items[j].option = None
          BY <1>1 DEF DraftsCards
    <3>2. SUFFICES ASSUME NEW r \in DraftSlots, NEW i \in DOMAIN items', DraftsActive(r),
                            items'[i].by = draftCall[r].by,
                          items'[i].by \notin touched'
                   PROVE  items'[i].option = None
          OBVIOUS
    <3>3. PICK j \in DOMAIN items : items'[i] = items[j] /\ items[j].by \notin touched
          BY <1>10, <3>2
    <3>4. QED
          BY <3>1, <3>2, <3>3
  <2>4. \A r \in returned, i \in DOMAIN items' :
           items'[i].by = r.by /\ r.by \notin touched'
             => items'[i].option = DraftsResolved(r.status)
    <3>1. \A r \in returned, j \in DOMAIN items :
             items[j].by = r.by /\ r.by \notin touched
               => items[j].option = DraftsResolved(r.status)
          BY <1>1 DEF DraftsCards
    <3>2. SUFFICES ASSUME NEW r \in returned, NEW i \in DOMAIN items', items'[i].by = r.by,
                            r.by \notin touched'
                   PROVE  items'[i].option = DraftsResolved(r.status)
          OBVIOUS
    <3>3. PICK j \in DOMAIN items : items'[i] = items[j] /\ items[j].by \notin touched
          BY <1>10, <3>2
    <3>4. QED
          BY <3>1, <3>2, <3>3
  <2>5. \A r \in returned, i \in DOMAIN items' : items'[i].by = r.by /\ items'[i].option = None =>
           {"In Review", "Backlog"} \cap options = {}
        BY <1>1, <1>10 DEF DraftsCards
  <2>6. \A r \in DraftSlots : draftCall[r].pc = "set"
          => draftCall[r].option = DraftsResolved(draftCall[r].status)
            /\ draftCall[r].option # None
        BY <1>1 DEF DraftsCards
  <2>7. QED
        BY <1>2, <1>6, <2>1, <2>2, <2>3, <2>4, <2>5, <2>6 DEF DraftsCards, DraftsActive
<1>12. QED
      BY <1>7, <1>8, <1>11 DEF DraftsIInv

\* The project starts so
LEMMA DraftsInit == ASSUME DraftsValues, Drafts!Init PROVE DraftsIInv
<1>1. options \subseteq Drafts!Names /\ items = <<>>
        /\ draftCall = [s \in DraftSlots |-> Drafts!Idle]
      /\ returned = {} /\ touched = {} /\ draftCalls = 0 /\ draftFaults = 0 /\ touches = 0
      BY DEF Drafts!Init, Drafts!Names
<1> USE DEF DraftsValues
<1>2. 0 \in 0..DraftCalls /\ 0 \in 0..DraftFaults /\ 0 \in 0..DraftTouches
      OBVIOUS
<1>3. Drafts!Idle \in DraftsCallRecord /\ Drafts!Idle.pc = "idle"
      BY <1>2 DEF Drafts!Idle, DraftsCallRecord, Drafts!Statuses
<1>4. items \in Seq(Drafts!Item) /\ DOMAIN items = {}
      BY <1>1
<1>5. Drafts!TypeOK
      BY <1>1, <1>2, <1>3, <1>4 DEF Drafts!TypeOK, DraftsCallRecord
<1>6. (\A s \in DraftSlots : draftCall[s].pc = "idle") /\ DOMAIN items = {}
      BY <1>1, <1>3, <1>4
<1>7. DraftsNumbers
      BY <1>1, <1>6 DEF DraftsNumbers, DraftsActive
<1>8. DraftsCards
      BY <1>1, <1>6 DEF DraftsCards, DraftsActive
<1>9. QED
      BY <1>5, <1>7, <1>8 DEF DraftsIInv

\* A step of the adapter, or of its project, keeps it
LEMMA DraftsStep ==
    ASSUME DraftsValues, DraftsIInv, Drafts!Next \/ UNCHANGED drafts
    PROVE  DraftsIInv'
<1>1. CASE UNCHANGED drafts
  <2>1. UNCHANGED <<options, items, draftCall, returned, touched, draftCalls, draftFaults,
          touches>>
        BY <1>1 DEF drafts
  <2>2. \A x : DraftsResolved(x)' = DraftsResolved(x)
        BY <2>1 DEF DraftsResolved, Drafts!resolveStatusOptionId
  <2>3. Drafts!TypeOK' /\ DraftsNumbers'
        BY <2>1 DEF DraftsIInv, Drafts!TypeOK, DraftsNumbers, DraftsActive
  <2>4. DraftsCards'
        BY <2>1, <2>2 DEF DraftsIInv, DraftsCards, DraftsActive
  <2>5. QED
        BY <2>3, <2>4 DEF DraftsIInv
<1>2. QED
      BY <1>1, DraftsCreate, DraftsFetchOptions, DraftsSetStatus, DraftsTouch DEF Drafts!Next

-----------------------------------------------------------------------------
(* The transport over Firebase *)

TransportValues == /\ MaxPublishes \in Nat /\ MaxSubscribes \in Nat /\ ListenerFaults \in Nat
                   /\ Published \subseteq Transport!Statuses /\ None \notin Transport!Statuses
                   /\ None \notin [status : Transport!Statuses, prev : Transport!Statuses]

\* Who is to know of a document listens, and only documents that are there are reported
TransportDue ==
    /\ \A h \in Handlers : \A d \in due[h] : h \in handlers /\ docs[d] # None
    /\ \A d \in feed : docs[d] # None
    /\ listener = "dead" => listenerFaults # 0

TransportIInv == Transport!TransportInv /\ TransportDue

\* A step of the transport keeps it
LEMMA TransportStep ==
    ASSUME TransportValues, TransportIInv, Transport!Next \/ UNCHANGED transport
    PROVE  TransportIInv'
<1>1. Transport!TypeOK /\ Transport!ViewsCatchUp /\ Transport!ChangesNoted
        /\ Transport!ListenerKept /\ TransportDue
      BY DEF TransportIInv, Transport!TransportInv
<1> USE DEF TransportValues
<1>2. ASSUME NEW h \in Handlers, Transport!subscribe(h) PROVE TransportIInv'
  <2>1. Transport!TypeOK'
        BY <1>1, <1>2 DEF Transport!subscribe, Transport!There, Transport!TypeOK, TransportDue,
             Transport!ListenerKept
  <2>2. Transport!ListenerKept'
        BY <1>1, <1>2 DEF Transport!subscribe, Transport!There, Transport!ListenerKept,
             Transport!TypeOK
  <2>3. TransportDue'
        BY <1>1, <1>2 DEF Transport!subscribe, Transport!There, Transport!TypeOK,
             Transport!ListenerKept, TransportDue
  <2>4. Transport!ViewsCatchUp'
        BY <1>1, <1>2 DEF Transport!subscribe, Transport!There, Transport!TypeOK,
             Transport!ListenerKept, TransportDue, Transport!ViewsCatchUp, Transport!Known
  <2>5. Transport!ChangesNoted'
        BY <1>1, <1>2 DEF Transport!subscribe, Transport!There, Transport!TypeOK,
             Transport!ListenerKept, TransportDue, Transport!ChangesNoted, Transport!Known
  <2>6. QED
        BY <2>1, <2>2, <2>3, <2>4, <2>5 DEF TransportIInv, Transport!TransportInv
<1>3. ASSUME NEW h \in Handlers, Transport!unsubscribe(h) PROVE TransportIInv'
  <2>1. Transport!TypeOK'
        BY <1>1, <1>3 DEF Transport!unsubscribe, Transport!Now, Transport!TypeOK, TransportDue,
             Transport!ListenerKept
  <2>2. Transport!ListenerKept'
        BY <1>1, <1>3 DEF Transport!unsubscribe, Transport!Now, Transport!ListenerKept,
             Transport!TypeOK
  <2>3. TransportDue'
        BY <1>1, <1>3 DEF Transport!unsubscribe, Transport!Now, Transport!TypeOK,
             Transport!ListenerKept, TransportDue
  <2>4. Transport!ViewsCatchUp'
        BY <1>1, <1>3 DEF Transport!unsubscribe, Transport!Now, Transport!TypeOK,
             Transport!ListenerKept, TransportDue, Transport!ViewsCatchUp, Transport!Known
  <2>5. Transport!ChangesNoted'
        BY <1>1, <1>3 DEF Transport!unsubscribe, Transport!Now, Transport!TypeOK,
             Transport!ListenerKept, TransportDue, Transport!ChangesNoted, Transport!Known
  <2>6. QED
        BY <2>1, <2>2, <2>3, <2>4, <2>5 DEF TransportIInv, Transport!TransportInv
<1>4. ASSUME NEW d \in Docs, Transport!Report(d) PROVE TransportIInv'
  <2>1. Transport!TypeOK'
    <3>1. /\ docs[d] \in [status : Transport!Statuses, prev : Transport!Statuses]
          /\ \A x \in Transport!Statuses : Transport!normalizeStatus(x) \in Transport!Statuses
          BY <1>1, <1>4 DEF Transport!Report, Transport!TypeOK, TransportDue,
               Transport!normalizeStatus, Transport!Statuses
    <3>2. view' \in [Handlers -> [Docs -> Transport!Statuses \cup {None}]]
          BY <1>1, <1>4, <3>1 DEF Transport!Report, Transport!TypeOK
    <3>3. noted' \in [Handlers -> SUBSET Docs]
      <4>1. noted' = [h \in Handlers |->
                        IF h \in handlers THEN IF Transport!normalizeStatus(docs[d].prev) # Transport!normalizeStatus(docs[d].status)
                                              THEN noted[h] \cup {d} ELSE noted[h] \ {d}
                        ELSE noted[h]]
            BY <1>4 DEF Transport!Report
      <4>2. QED
            BY <1>1, <4>1 DEF Transport!TypeOK
    <3>4. /\ handlers' \subseteq handlers /\ listener' \in {"none", "live", "dead"}
               /\ feed' \subseteq feed
          /\ due' \in [Handlers -> SUBSET Docs]
          /\ UNCHANGED <<docs, publishes, subscribes, listenerFaults>>
          BY <1>1, <1>4 DEF Transport!Report, Transport!Now, Transport!TypeOK
    <3>5. QED
          BY <1>1, <3>2, <3>3, <3>4 DEF Transport!TypeOK
  <2>2. Transport!ListenerKept'
        BY <1>1, <1>4 DEF Transport!Report, Transport!Now, Transport!normalizeStatus,
             Transport!firestoreDocToCanonical, Transport!ListenerKept, Transport!TypeOK
  <2>3. TransportDue'
        BY <1>1, <1>4 DEF Transport!Report, Transport!Now, Transport!normalizeStatus,
             Transport!firestoreDocToCanonical, Transport!TypeOK, Transport!ListenerKept,
               TransportDue
  <2>4. Transport!ViewsCatchUp'
        BY <1>1, <1>4 DEF Transport!Report, Transport!Now, Transport!normalizeStatus,
             Transport!firestoreDocToCanonical, Transport!TypeOK, Transport!ListenerKept,
               TransportDue, Transport!ViewsCatchUp, Transport!Known
  <2>5. Transport!ChangesNoted'
    <3>1. PICK old, new \in Transport!Statuses : old = docs[d].prev /\ new = docs[d].status
          BY <1>1, <1>4 DEF Transport!Report, Transport!TypeOK, TransportDue
    <3>2. Transport!normalizeStatus(old) # Transport!normalizeStatus(new)
            <=> old # new /\ {old, new} # {"TODO", "READY"}
          BY DEF Transport!normalizeStatus
    <3>3. /\ noted' \in [Handlers -> SUBSET Docs]
          /\ \A h \in Handlers : h \in handlers =>
               /\ d \in noted'[h] <=> Transport!normalizeStatus(old) # Transport!normalizeStatus(new)
               /\ \A e \in Docs \ {d} : e \in noted'[h] <=> e \in noted[h]
          BY <1>1, <1>4, <2>1, <3>1 DEF Transport!Report, Transport!TypeOK
    <3>4. /\ \A h \in Handlers : due'[h] = {} \/ (h \in handlers /\ due'[h] = due[h])
          /\ \A h \in Handlers : due'[h] # {} => feed' = feed \ {d}
          /\ UNCHANGED <<docs, listenerFaults>>
          BY <1>1, <1>4 DEF Transport!Report, Transport!Now, Transport!TypeOK
    <3>5. QED
          BY <1>1, <3>1, <3>2, <3>3, <3>4 DEF Transport!ChangesNoted, Transport!Known
  <2>6. QED
        BY <2>1, <2>2, <2>3, <2>4, <2>5 DEF TransportIInv, Transport!TransportInv
<1>5. ASSUME NEW d \in Docs, NEW s \in Published, Transport!publish(d, s) PROVE TransportIInv'
  <2>1. PICK doc \in [status : Transport!Statuses,
               prev : Transport!Statuses] : docs' = [docs EXCEPT ![d] = doc]
    <3>1. [status |-> s, prev |-> IF docs[d] = None THEN "TODO" ELSE docs[d].status]
            \in [status : Transport!Statuses, prev : Transport!Statuses]
          BY <1>1 DEF Transport!TypeOK, Transport!Statuses
    <3>2. QED
          BY <1>5, <3>1 DEF Transport!publish
  <2>2. Transport!TypeOK'
    <3>1. publishes' \in 0..MaxPublishes
          BY <1>1, <1>5 DEF Transport!publish, Transport!TypeOK
    <3>2. feed' \subseteq Docs /\ due' \in [Handlers -> SUBSET Docs]
          /\ UNCHANGED <<handlers, listener, view, noted, subscribes, listenerFaults>>
          BY <1>1, <1>5 DEF Transport!publish, Transport!TypeOK
    <3>3. QED
          BY <1>1, <2>1, <3>1, <3>2 DEF Transport!TypeOK
  <2>3. Transport!ListenerKept'
        BY <1>1, <1>5 DEF Transport!publish, Transport!ListenerKept, Transport!TypeOK
  <2>4. TransportDue'
    <3>1. /\ docs'[d] # None /\ \A e \in Docs \ {d} : docs'[e] = docs[e]
          BY <1>1, <2>1 DEF Transport!TypeOK
    <3>2. feed' \subseteq feed \cup {d} /\ UNCHANGED <<handlers, listener, listenerFaults>>
          /\ \A h \in Handlers : due'[h] \subseteq due[h] \cup {d} /\ (h \notin handlers
               => due'[h] = due[h])
          BY <1>1, <1>5 DEF Transport!publish, Transport!TypeOK
    <3>3. QED
          BY <1>1, <3>1, <3>2 DEF Transport!TypeOK, TransportDue
  <2>5. Transport!ViewsCatchUp'
        BY <1>1, <1>5 DEF Transport!publish, Transport!TypeOK, Transport!ListenerKept,
             TransportDue, Transport!ViewsCatchUp, Transport!Known
  <2>6. Transport!ChangesNoted'
        BY <1>1, <1>5 DEF Transport!publish, Transport!TypeOK, Transport!ListenerKept,
             TransportDue, Transport!ChangesNoted, Transport!Known
  <2>7. QED
        BY <2>2, <2>3, <2>4, <2>5, <2>6 DEF TransportIInv, Transport!TransportInv
<1>6. ASSUME Transport!disconnect PROVE TransportIInv'
  <2>1. Transport!TypeOK'
        BY <1>1, <1>6 DEF Transport!disconnect, Transport!Now, Transport!TypeOK, TransportDue,
             Transport!ListenerKept
  <2>2. Transport!ListenerKept'
        BY <1>1, <1>6 DEF Transport!disconnect, Transport!Now, Transport!ListenerKept,
             Transport!TypeOK
  <2>3. TransportDue'
        BY <1>1, <1>6 DEF Transport!disconnect, Transport!Now, Transport!TypeOK,
             Transport!ListenerKept, TransportDue
  <2>4. Transport!ViewsCatchUp'
        BY <1>1, <1>6 DEF Transport!disconnect, Transport!Now, Transport!TypeOK,
             Transport!ListenerKept, TransportDue, Transport!ViewsCatchUp, Transport!Known
  <2>5. Transport!ChangesNoted'
        BY <1>1, <1>6 DEF Transport!disconnect, Transport!Now, Transport!TypeOK,
             Transport!ListenerKept, TransportDue, Transport!ChangesNoted, Transport!Known
  <2>6. QED
        BY <2>1, <2>2, <2>3, <2>4, <2>5 DEF TransportIInv, Transport!TransportInv
<1>7. ASSUME Transport!ListenerFails PROVE TransportIInv'
  <2>1. Transport!TypeOK'
        BY <1>1, <1>7 DEF Transport!ListenerFails, Transport!TypeOK, TransportDue,
             Transport!ListenerKept
  <2>2. Transport!ListenerKept'
        BY <1>1, <1>7 DEF Transport!ListenerFails, Transport!ListenerKept, Transport!TypeOK
  <2>3. TransportDue'
        BY <1>1, <1>7 DEF Transport!ListenerFails, Transport!TypeOK, Transport!ListenerKept,
             TransportDue
  <2>4. Transport!ViewsCatchUp'
        BY <1>1, <1>7 DEF Transport!ListenerFails, Transport!TypeOK, Transport!ListenerKept,
             TransportDue, Transport!ViewsCatchUp, Transport!Known
  <2>5. Transport!ChangesNoted'
        BY <1>1, <1>7 DEF Transport!ListenerFails, Transport!TypeOK, Transport!ListenerKept,
             TransportDue, Transport!ChangesNoted, Transport!Known
  <2>6. QED
        BY <2>1, <2>2, <2>3, <2>4, <2>5 DEF TransportIInv, Transport!TransportInv
<1>8. ASSUME UNCHANGED transport PROVE TransportIInv'
  <2>1. Transport!TypeOK'
        BY <1>1, <1>8 DEF transport, Transport!TypeOK, TransportDue, Transport!ListenerKept
  <2>2. Transport!ListenerKept'
        BY <1>1, <1>8 DEF transport, Transport!ListenerKept, Transport!TypeOK
  <2>3. TransportDue'
        BY <1>1, <1>8 DEF transport, Transport!TypeOK, Transport!ListenerKept, TransportDue
  <2>4. Transport!ViewsCatchUp'
        BY <1>1, <1>8 DEF transport, Transport!TypeOK, Transport!ListenerKept, TransportDue,
             Transport!ViewsCatchUp, Transport!Known
  <2>5. Transport!ChangesNoted'
        BY <1>1, <1>8 DEF transport, Transport!TypeOK, Transport!ListenerKept, TransportDue,
             Transport!ChangesNoted, Transport!Known
  <2>6. QED
        BY <2>1, <2>2, <2>3, <2>4, <2>5 DEF TransportIInv, Transport!TransportInv
<1>9. QED
      BY <1>2, <1>3, <1>4, <1>5, <1>6, <1>7, <1>8 DEF Transport!Next

\* The transport starts so
LEMMA TransportInit == ASSUME TransportValues, Transport!Init PROVE TransportIInv
      BY DEF Transport!Init, TransportValues, TransportIInv, Transport!TransportInv,
           Transport!TypeOK, Transport!ViewsCatchUp, Transport!ChangesNoted,
         Transport!ListenerKept, TransportDue, Transport!Known

-----------------------------------------------------------------------------
\* What each part has of its values follows from what they all have
LEMMA StoresValues == StoreValues /\ SyncValues /\ DraftsValues /\ TransportValues
BY ServicesAssumption DEF ServicesAssumption, StoreValues, SyncValues, DraftsValues,
     TransportValues

\* Whichever part is active has its own
StoresIInv ==
    /\ active = "store" => StoreIInv
    /\ active = "sync" => SyncIInv
    /\ active = "drafts" => DraftsIInv
    /\ active = "transport" => TransportIInv

\* Every part starts with it
LEMMA StoresInit == ASSUME Init PROVE StoresIInv
<1>1. StoreIInv
      BY StoresValues, StoreInit DEF Init
<1>2. SyncIInv
      BY StoresValues, SyncInit DEF Init
<1>3. DraftsIInv
      BY StoresValues, DraftsInit DEF Init
<1>4. TransportIInv
      BY StoresValues, TransportInit DEF Init
<1>5. QED
      BY <1>1, <1>2, <1>3, <1>4 DEF StoresIInv

\* The part that is active keeps it, and the others do not move
LEMMA StoresStep == ASSUME StoresIInv, [Next]_vars PROVE StoresIInv'
<1>1. active' = active
      BY DEF Next, Others, vars
<1>2. ASSUME active = "store" PROVE StoreIInv'
  <2>1. Store!Next \/ UNCHANGED store
        BY <1>2 DEF Next, vars
  <2>2. StoreIInv
        BY <1>2 DEF StoresIInv
  <2>3. QED
        BY <2>1, <2>2, StoresValues, StoreStep
<1>3. ASSUME active = "sync" PROVE SyncIInv'
  <2>1. Sync!Next \/ UNCHANGED sync
        BY <1>3 DEF Next, vars
  <2>2. SyncIInv
        BY <1>3 DEF StoresIInv
  <2>3. QED
        BY <2>1, <2>2, StoresValues, SyncStep
<1>4. ASSUME active = "drafts" PROVE DraftsIInv'
  <2>1. Drafts!Next \/ UNCHANGED drafts
        BY <1>4 DEF Next, vars
  <2>2. DraftsIInv
        BY <1>4 DEF StoresIInv
  <2>3. QED
        BY <2>1, <2>2, StoresValues, DraftsStep
<1>5. ASSUME active = "transport" PROVE TransportIInv'
  <2>1. Transport!Next \/ UNCHANGED transport
        BY <1>5 DEF Next, vars
  <2>2. TransportIInv
        BY <1>5 DEF StoresIInv
  <2>3. QED
        BY <2>1, <2>2, StoresValues, TransportStep
<1>6. QED
      BY <1>1, <1>2, <1>3, <1>4, <1>5 DEF StoresIInv

\* Whatever the order of its loads, saves, events, edits and crashes, the cache of the
\* Markdown store agrees with a note once nothing about the note is under way, unless a
\* change crossed a call or went unwatched, and a note is half written only where two saves
\* of it overlapped (markdown-store.ts). A pull that no edit crossed leaves the store with
\* what the conflict rule says, and after a push both sides have the status until one is
\* edited (sync-coordinator.ts). A card nobody moved is read back with the status it was
\* published with or with that status's fallback (github-adapter.ts); a handler that was told
\* of a document has its status, unless the listener has failed (firebase-listener.ts).
THEOREM StoresAgreeAlways == Spec => []StoresAgree
<1>1. StoresIInv => StoresAgree
      BY StoresValues, StoreInvLemma, SyncInvLemma, DraftsInvLemma DEF StoresIInv, StoresAgree,
           TransportIInv
<1>2. QED
      BY <1>1, StoresInit, StoresStep, PTL DEF Spec
=============================================================================
