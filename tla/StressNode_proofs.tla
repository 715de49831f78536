-------------------------- MODULE StressNode_proofs --------------------------
(***************************************************************************)
(* Proofs about StressNode for any number of requests, targets and ports:  *)
(* types, the single-run and honest-status invariants, the order of the    *)
(* journal, and the completeness of a quiet shutdown.                      *)
(***************************************************************************)
EXTENDS StressNode, TLAPS

\* Moving one loader keeps the type of link.
LEMMA LinkType ==
  ASSUME link \in [Run -> [Target -> LinkPhase]],
         NEW r \in Run, NEW t \in Target, NEW w \in LinkPhase, SetLink(r, t, w)
  PROVE  link' \in [Run -> [Target -> LinkPhase]]
<1>1. [link[r] EXCEPT ![t] = w] \in [Target -> LinkPhase]
  OBVIOUS
<1> QED
  BY <1>1 DEF SetLink

\* Moving one loader changes nothing but its own entry.
LEMMA LinkAt ==
  ASSUME link \in [Run -> [Target -> LinkPhase]],
         NEW r \in Run, NEW t \in Target, NEW w, SetLink(r, t, w)
  PROVE  \A s \in Run, u \in Target :
           link'[s][u] = IF s = r /\ u = t THEN w ELSE link[s][u]
BY DEF SetLink

\* The type invariant is inductive.
LEMMA TypeInductive == TypeOK /\ [Next]_vars => TypeOK'
<1> SUFFICES ASSUME TypeOK, [Next]_vars PROVE TypeOK'
  OBVIOUS
<1> USE RunAssumption, AbortAssumption
    DEF TypeOK, HandlerPhase, LinkPhase, LifePhase, AppPhase, loaders, journal
<1>1. ASSUME NEW r \in Run, StartRequest(r) PROVE TypeOK'
  BY <1>1 DEF StartRequest
<1>2. ASSUME NEW r \in Run, NEW p \in Port, OpenListener(r, p) PROVE TypeOK'
  BY <1>2 DEF OpenListener
<1>3. ASSUME NEW r \in Run, ListenersUp(r) PROVE TypeOK'
  BY <1>3 DEF ListenersUp
<1>4. ASSUME NEW r \in Run, RecordStarted(r) PROVE TypeOK'
  BY <1>4 DEF RecordStarted, Write
<1>5. ASSUME NEW r \in Run, SpawnLoaders(r) PROVE TypeOK'
  <2>1. [t \in Target |-> "delayed"] \in [Target -> LinkPhase]
    OBVIOUS
  <2>2. link' \in [Run -> [Target -> LinkPhase]]
    BY <1>5, <2>1 DEF SpawnLoaders
  <2> QED
    BY <1>5, <2>2 DEF SpawnLoaders
<1>6. ASSUME NEW r \in Run, SpawnLifecycle(r) PROVE TypeOK'
  BY <1>6 DEF SpawnLifecycle
<1>7. ASSUME NEW r \in Run, NEW t \in Target, EndDelay(r, t) PROVE TypeOK'
  <2>1. SetLink(r, t, "done") \/ SetLink(r, t, "head")
    BY <1>7 DEF EndDelay
  <2>2. link' \in [Run -> [Target -> LinkPhase]]
    BY <2>1, LinkType
  <2> QED
    BY <1>7, <2>2 DEF EndDelay, LoaderFrame
<1>8. ASSUME NEW r \in Run, NEW t \in Target, BeginChunk(r, t) PROVE TypeOK'
  BY <1>8 DEF BeginChunk, SetLink, LoaderFrame
<1>9. ASSUME NEW r \in Run, NEW t \in Target, EndChunkStopped(r, t) PROVE TypeOK'
  BY <1>9 DEF EndChunkStopped, SetLink, LoaderFrame
<1>10. ASSUME NEW r \in Run, NEW t \in Target, EndChunkOk(r, t) PROVE TypeOK'
  BY <1>10 DEF EndChunkOk, SetLink, LoaderFrame
<1>11. ASSUME NEW r \in Run, NEW t \in Target, EndChunkError(r, t) PROVE TypeOK'
  <2>1. link' \in [Run -> [Target -> LinkPhase]]
    BY <1>11, LinkType DEF EndChunkError, GiveUp
  <2>2. consec' \in [Run -> [Target -> Nat]]
    BY <1>11 DEF EndChunkError
  <2>3. aborted' \subseteq [run: Run, target: Target]
    BY <1>11 DEF EndChunkError
  <2> QED
    BY <1>11, <2>1, <2>2, <2>3 DEF EndChunkError, LoaderFrame
<1>12. ASSUME NEW r \in Run, TimerFires(r) PROVE TypeOK'
  BY <1>12 DEF TimerFires, TimerCancels, AdvanceLife
<1>13. ASSUME NEW r \in Run, StopSeen(r) PROVE TypeOK'
  BY <1>13 DEF StopSeen, AdvanceLife
<1>14. ASSUME NEW r \in Run, Drain(r) PROVE TypeOK'
  BY <1>14 DEF Drain, AdvanceLife
<1>15. ASSUME NEW r \in Run, NEW p \in Port, CloseListener(r, p) PROVE TypeOK'
  BY <1>15 DEF CloseListener
<1>16. ASSUME NEW r \in Run, FreeSlot(r) PROVE TypeOK'
  BY <1>16 DEF FreeSlot, AdvanceLife
<1>17. ASSUME NEW r \in Run, RecordEnded(r) PROVE TypeOK'
  BY <1>17 DEF RecordEnded, AdvanceLife, Write
<1>18. ASSUME NEW id \in Run \cup {AnyRun}, StopRequest(id) PROVE TypeOK'
  BY <1>18 DEF StopRequest, Reads, Stopper
<1>19. CASE StopCancel
  BY <1>19 DEF StopCancel, NoStop, Stopper
<1>20. CASE Quit
  BY <1>20 DEF Quit, Reads, CurrentRun, AppFrame, Stopper
<1>21. CASE AppStopsRun
  BY <1>21 DEF AppStopsRun, NoStop, AppFrame, Stopper
<1>22. CASE AppWaits \/ AppShutsServer \/ AppClosesStore
  BY <1>22 DEF AppWaits, AppShutsServer, AppClosesStore, AppFrame
<1>23. CASE UNCHANGED vars
  BY <1>23 DEF vars
<1> QED
  BY <1>1, <1>2, <1>3, <1>4, <1>5, <1>6, <1>7, <1>8, <1>9, <1>10, <1>11, <1>12, <1>13,
     <1>14, <1>15, <1>16, <1>17, <1>18, <1>19, <1>20, <1>21, <1>22, <1>23
     DEF Next, StartHandler, Loader, Lifecycle, AppStop

-----------------------------------------------------------------------------
(* NodeInv is inductive, one lemma for each of its parts. *)

\* The busy flag follows the run from the claim of the slot to its release.
LEMMA SlotInductive ==
  ASSUME TypeOK, NodeInv, [Next]_vars
  PROVE  SlotInv'
<1> USE DEF NodeInv, SlotInv, Pending, Opening, TypeOK, loaders, journal
<1>1. ASSUME NEW r \in Run, StartRequest(r) PROVE SlotInv'
  <2>1. CASE Busy
    BY <1>1, <2>1 DEF StartRequest
  <2>2. CASE ~Busy
    <3>1. \A s \in Run : ~running[s]
      BY <2>2, RunAssumption DEF Busy
    <3> QED
      BY <1>1, <2>2, <3>1 DEF StartRequest
  <2> QED
    BY <2>1, <2>2
<1>2. ASSUME NEW r \in Run, NEW p \in Port, OpenListener(r, p) PROVE SlotInv'
  BY <1>2 DEF OpenListener
<1>3. ASSUME NEW r \in Run, ListenersUp(r) PROVE SlotInv'
  BY <1>3 DEF ListenersUp
<1>4. ASSUME NEW r \in Run, RecordStarted(r) PROVE SlotInv'
  BY <1>4 DEF RecordStarted, Write
<1>5. ASSUME NEW r \in Run, SpawnLoaders(r) PROVE SlotInv'
  BY <1>5 DEF SpawnLoaders
<1>6. ASSUME NEW r \in Run, SpawnLifecycle(r) PROVE SlotInv'
  BY <1>6 DEF SpawnLifecycle
<1>7. ASSUME NEW r \in Run, NEW t \in Target, EndDelay(r, t) PROVE SlotInv'
  BY <1>7 DEF EndDelay, SetLink, LoaderFrame
<1>8. ASSUME NEW r \in Run, NEW t \in Target, BeginChunk(r, t) PROVE SlotInv'
  BY <1>8 DEF BeginChunk, SetLink, LoaderFrame
<1>9. ASSUME NEW r \in Run, NEW t \in Target, EndChunkStopped(r, t) PROVE SlotInv'
  BY <1>9 DEF EndChunkStopped, SetLink, LoaderFrame
<1>10. ASSUME NEW r \in Run, NEW t \in Target, EndChunkOk(r, t) PROVE SlotInv'
  BY <1>10 DEF EndChunkOk, SetLink, LoaderFrame
<1>11. ASSUME NEW r \in Run, NEW t \in Target, EndChunkError(r, t) PROVE SlotInv'
  BY <1>11 DEF EndChunkError, GiveUp, SetLink, LoaderFrame
<1>12. ASSUME NEW r \in Run, TimerFires(r) PROVE SlotInv'
  BY <1>12 DEF TimerFires, AdvanceLife
<1>13. ASSUME NEW r \in Run, StopSeen(r) PROVE SlotInv'
  BY <1>13 DEF StopSeen, AdvanceLife
<1>14. ASSUME NEW r \in Run, Drain(r) PROVE SlotInv'
  BY <1>14 DEF Drain, Drained, AdvanceLife
<1>15. ASSUME NEW r \in Run, NEW p \in Port, CloseListener(r, p) PROVE SlotInv'
  BY <1>15 DEF CloseListener
<1>16. ASSUME NEW r \in Run, FreeSlot(r) PROVE SlotInv'
  BY <1>16 DEF FreeSlot, ListenersDown, AdvanceLife
<1>17. ASSUME NEW r \in Run, RecordEnded(r) PROVE SlotInv'
  BY <1>17 DEF RecordEnded, AdvanceLife, Write
<1>18. ASSUME NEW id \in Run \cup {AnyRun}, StopRequest(id) PROVE SlotInv'
  BY <1>18 DEF StopRequest
<1>19. CASE StopCancel
  BY <1>19 DEF StopCancel
<1>20. CASE Quit
  BY <1>20 DEF Quit, AppFrame
<1>21. CASE AppStopsRun
  BY <1>21 DEF AppStopsRun, AppFrame
<1>22. CASE AppWaits
  BY <1>22 DEF AppWaits, AppFrame
<1>23. CASE AppShutsServer
  BY <1>23 DEF AppShutsServer, AppFrame
<1>24. CASE AppClosesStore
  BY <1>24 DEF AppClosesStore, AppFrame
<1>25. CASE UNCHANGED vars
  BY <1>25 DEF vars
<1> QED
  BY <1>1, <1>2, <1>3, <1>4, <1>5, <1>6, <1>7, <1>8, <1>9, <1>10, <1>11, <1>12, <1>13,
     <1>14, <1>15, <1>16, <1>17, <1>18, <1>19, <1>20, <1>21, <1>22, <1>23, <1>24, <1>25
     DEF Next, StartHandler, Loader, Lifecycle, AppStop

\* Loaders and listeners live within the run's own phases.
LEMMA LoadInductive ==
  ASSUME TypeOK, NodeInv, [Next]_vars
  PROVE  LoadInv'
<1> USE DEF NodeInv, SlotInv, LoadInv, Pending, Opening, TypeOK, loaders, journal
<1>1. ASSUME NEW r \in Run, StartRequest(r) PROVE LoadInv'
  <2>1. handler' = [handler EXCEPT ![r] = "busy"] \/ handler' = [handler EXCEPT ![r] = "listen"]
    BY <1>1 DEF StartRequest
  <2>2. handler[r] = "none" /\ UNCHANGED <<link, listeners, life>>
    BY <1>1 DEF StartRequest
  <2>3. life[r] = "none" /\ \A u \in Target : link[r][u] = "none"
    BY <2>2
  <2>4. \A s \in Run : s # r => handler'[s] = handler[s]
    BY <2>1
  <2>5. \A l \in listeners : l.run \in Run /\ l.run # r
    BY <2>2, <2>3
  <2>6. handler'[r] \in {"busy", "listen"}
    BY <2>1
  <2> HIDE DEF TypeOK
  <2> QED
    BY <2>2, <2>3, <2>4, <2>5, <2>6
<1>2. ASSUME NEW r \in Run, NEW p \in Port, OpenListener(r, p) PROVE LoadInv'
  BY <1>2 DEF OpenListener
<1>3. ASSUME NEW r \in Run, ListenersUp(r) PROVE LoadInv'
  BY <1>3 DEF ListenersUp
<1>4. ASSUME NEW r \in Run, RecordStarted(r) PROVE LoadInv'
  BY <1>4 DEF RecordStarted, Write
<1>5. ASSUME NEW r \in Run, SpawnLoaders(r) PROVE LoadInv'
  BY <1>5 DEF SpawnLoaders
<1>6. ASSUME NEW r \in Run, SpawnLifecycle(r) PROVE LoadInv'
  BY <1>6 DEF SpawnLifecycle
<1>7. ASSUME NEW r \in Run, NEW t \in Target, EndDelay(r, t) PROVE LoadInv'
  <2>1. PICK w \in {"done", "head"} : SetLink(r, t, w)
    BY <1>7 DEF EndDelay
  <2>2. \A s \in Run, u \in Target :
          link'[s][u] = IF s = r /\ u = t THEN w ELSE link[s][u]
    BY <2>1, LinkAt
  <2>3. link[r][t] \notin {"none", "done"} /\ UNCHANGED <<handler, life, listeners>>
    BY <1>7 DEF EndDelay, LoaderFrame
  <2> QED
    BY <2>2, <2>3
<1>8. ASSUME NEW r \in Run, NEW t \in Target, BeginChunk(r, t) PROVE LoadInv'
  BY <1>8 DEF BeginChunk, SetLink, LoaderFrame
<1>9. ASSUME NEW r \in Run, NEW t \in Target, EndChunkStopped(r, t) PROVE LoadInv'
  BY <1>9 DEF EndChunkStopped, SetLink, LoaderFrame
<1>10. ASSUME NEW r \in Run, NEW t \in Target, EndChunkOk(r, t) PROVE LoadInv'
  BY <1>10 DEF EndChunkOk, SetLink, LoaderFrame
<1>11. ASSUME NEW r \in Run, NEW t \in Target, EndChunkError(r, t) PROVE LoadInv'
  <2>1. PICK w \in {"done", "head"} : SetLink(r, t, w)
    BY <1>11 DEF EndChunkError, GiveUp
  <2>2. \A s \in Run, u \in Target :
          link'[s][u] = IF s = r /\ u = t THEN w ELSE link[s][u]
    BY <2>1, LinkAt
  <2>3. link[r][t] \notin {"none", "done"} /\ UNCHANGED <<handler, life, listeners>>
    BY <1>11 DEF EndChunkError, GiveUp, LoaderFrame
  <2> QED
    BY <2>2, <2>3
<1>12. ASSUME NEW r \in Run, TimerFires(r) PROVE LoadInv'
  BY <1>12 DEF TimerFires, AdvanceLife
<1>13. ASSUME NEW r \in Run, StopSeen(r) PROVE LoadInv'
  BY <1>13 DEF StopSeen, AdvanceLife
<1>14. ASSUME NEW r \in Run, Drain(r) PROVE LoadInv'
  BY <1>14 DEF Drain, Drained, AdvanceLife
<1>15. ASSUME NEW r \in Run, NEW p \in Port, CloseListener(r, p) PROVE LoadInv'
  BY <1>15 DEF CloseListener
<1>16. ASSUME NEW r \in Run, FreeSlot(r) PROVE LoadInv'
  BY <1>16 DEF FreeSlot, ListenersDown, AdvanceLife
<1>17. ASSUME NEW r \in Run, RecordEnded(r) PROVE LoadInv'
  BY <1>17 DEF RecordEnded, AdvanceLife, Write
<1>18. ASSUME NEW id \in Run \cup {AnyRun}, StopRequest(id) PROVE LoadInv'
  BY <1>18 DEF StopRequest
<1>19. CASE StopCancel
  BY <1>19 DEF StopCancel
<1>20. CASE Quit
  BY <1>20 DEF Quit, AppFrame
<1>21. CASE AppStopsRun
  BY <1>21 DEF AppStopsRun, AppFrame
<1>22. CASE AppWaits
  BY <1>22 DEF AppWaits, AppFrame
<1>23. CASE AppShutsServer
  BY <1>23 DEF AppShutsServer, AppFrame
<1>24. CASE AppClosesStore
  BY <1>24 DEF AppClosesStore, AppFrame
<1>25. CASE UNCHANGED vars
  BY <1>25 DEF vars
<1> QED
  BY <1>1, <1>2, <1>3, <1>4, <1>5, <1>6, <1>7, <1>8, <1>9, <1>10, <1>11, <1>12, <1>13,
     <1>14, <1>15, <1>16, <1>17, <1>18, <1>19, <1>20, <1>21, <1>22, <1>23, <1>24, <1>25
     DEF Next, StartHandler, Loader, Lifecycle, AppStop

\* The journal follows the handler and the lifecycle of each run.
LEMMA JournalInductive ==
  ASSUME TypeOK, NodeInv, [Next]_vars
  PROVE  JournalInv'
<1> USE DEF NodeInv, SlotInv, JournalInv, TypeOK, loaders, journal
<1>1. ASSUME NEW r \in Run, StartRequest(r) PROVE JournalInv'
  BY <1>1 DEF StartRequest, Busy
<1>2. ASSUME NEW r \in Run, NEW p \in Port, OpenListener(r, p) PROVE JournalInv'
  BY <1>2 DEF OpenListener
<1>3. ASSUME NEW r \in Run, ListenersUp(r) PROVE JournalInv'
  BY <1>3 DEF ListenersUp
<1>4. ASSUME NEW r \in Run, RecordStarted(r) PROVE JournalInv'
  BY <1>4 DEF RecordStarted, Write
<1>5. ASSUME NEW r \in Run, SpawnLoaders(r) PROVE JournalInv'
  BY <1>5 DEF SpawnLoaders
<1>6. ASSUME NEW r \in Run, SpawnLifecycle(r) PROVE JournalInv'
  BY <1>6 DEF SpawnLifecycle
<1>7. ASSUME NEW r \in Run, NEW t \in Target, EndDelay(r, t) PROVE JournalInv'
  BY <1>7 DEF EndDelay, SetLink, LoaderFrame
<1>8. ASSUME NEW r \in Run, NEW t \in Target, BeginChunk(r, t) PROVE JournalInv'
  BY <1>8 DEF BeginChunk, SetLink, LoaderFrame
<1>9. ASSUME NEW r \in Run, NEW t \in Target, EndChunkStopped(r, t) PROVE JournalInv'
  BY <1>9 DEF EndChunkStopped, SetLink, LoaderFrame
<1>10. ASSUME NEW r \in Run, NEW t \in Target, EndChunkOk(r, t) PROVE JournalInv'
  BY <1>10 DEF EndChunkOk, SetLink, LoaderFrame
<1>11. ASSUME NEW r \in Run, NEW t \in Target, EndChunkError(r, t) PROVE JournalInv'
  BY <1>11 DEF EndChunkError, GiveUp, SetLink, LoaderFrame
<1>12. ASSUME NEW r \in Run, TimerFires(r) PROVE JournalInv'
  BY <1>12 DEF TimerFires, AdvanceLife
<1>13. ASSUME NEW r \in Run, StopSeen(r) PROVE JournalInv'
  BY <1>13 DEF StopSeen, AdvanceLife
<1>14. ASSUME NEW r \in Run, Drain(r) PROVE JournalInv'
  BY <1>14 DEF Drain, Drained, AdvanceLife
<1>15. ASSUME NEW r \in Run, NEW p \in Port, CloseListener(r, p) PROVE JournalInv'
  BY <1>15 DEF CloseListener
<1>16. ASSUME NEW r \in Run, FreeSlot(r) PROVE JournalInv'
  BY <1>16 DEF FreeSlot, ListenersDown, AdvanceLife
<1>17. ASSUME NEW r \in Run, RecordEnded(r) PROVE JournalInv'
  BY <1>17 DEF RecordEnded, AdvanceLife, Write
<1>18. ASSUME NEW id \in Run \cup {AnyRun}, StopRequest(id) PROVE JournalInv'
  BY <1>18 DEF StopRequest
<1>19. CASE StopCancel
  BY <1>19 DEF StopCancel
<1>20. CASE Quit
  BY <1>20 DEF Quit, AppFrame
<1>21. CASE AppStopsRun
  BY <1>21 DEF AppStopsRun, AppFrame
<1>22. CASE AppWaits
  BY <1>22 DEF AppWaits, AppFrame
<1>23. CASE AppShutsServer
  BY <1>23 DEF AppShutsServer, AppFrame
<1>24. CASE AppClosesStore
  BY <1>24 DEF AppClosesStore, AppFrame
<1>25. CASE UNCHANGED vars
  BY <1>25 DEF vars
<1> QED
  BY <1>1, <1>2, <1>3, <1>4, <1>5, <1>6, <1>7, <1>8, <1>9, <1>10, <1>11, <1>12, <1>13,
     <1>14, <1>15, <1>16, <1>17, <1>18, <1>19, <1>20, <1>21, <1>22, <1>23, <1>24, <1>25
     DEF Next, StartHandler, Loader, Lifecycle, AppStop

\* A loader whose link runs has not reached the limit of errors.
LEMMA ErrorInductive ==
  ASSUME TypeOK, NodeInv, [Next]_vars
  PROVE  ErrorInv'
<1> USE DEF NodeInv, LoadInv, ErrorInv, AbortedLinkSilent, TypeOK, loaders, journal
<1>1. ASSUME NEW r \in Run, StartRequest(r) PROVE ErrorInv'
  BY <1>1 DEF StartRequest, Busy
<1>2. ASSUME NEW r \in Run, NEW p \in Port, OpenListener(r, p) PROVE ErrorInv'
  BY <1>2 DEF OpenListener
<1>3. ASSUME NEW r \in Run, ListenersUp(r) PROVE ErrorInv'
  BY <1>3 DEF ListenersUp
<1>4. ASSUME NEW r \in Run, RecordStarted(r) PROVE ErrorInv'
  BY <1>4 DEF RecordStarted, Write
<1>5. ASSUME NEW r \in Run, SpawnLoaders(r) PROVE ErrorInv'
  <2>1. \A s \in Run, u \in Target :
          link'[s][u] = IF s = r THEN "delayed" ELSE link[s][u]
    BY <1>5 DEF SpawnLoaders
  <2>2. /\ \A u \in Target : link[r][u] = "none"
        /\ UNCHANGED <<consec, aborted>>
    BY <1>5 DEF SpawnLoaders, LoadInv
  <2>3. \A a \in aborted : a.run \in Run /\ a.target \in Target /\ a.run # r
    BY <2>2
  <2>4. \A u \in Target : consec[r][u] < StressAbortAfter
    BY <2>2
  <2> HIDE DEF TypeOK
  <2> QED
    BY <2>1, <2>2, <2>3, <2>4
<1>6. ASSUME NEW r \in Run, SpawnLifecycle(r) PROVE ErrorInv'
  BY <1>6 DEF SpawnLifecycle
<1>7. ASSUME NEW r \in Run, NEW t \in Target, EndDelay(r, t) PROVE ErrorInv'
  <2>1. PICK w \in {"done", "head"} : SetLink(r, t, w)
    BY <1>7 DEF EndDelay
  <2>2. \A s \in Run, u \in Target :
          link'[s][u] = IF s = r /\ u = t THEN w ELSE link[s][u]
    BY <2>1, LinkAt
  <2>3. link[r][t] # "done" /\ UNCHANGED <<consec, aborted>>
    BY <1>7 DEF EndDelay
  <2> QED
    BY <2>2, <2>3
<1>8. ASSUME NEW r \in Run, NEW t \in Target, BeginChunk(r, t) PROVE ErrorInv'
  BY <1>8 DEF BeginChunk, SetLink, LoaderFrame
<1>9. ASSUME NEW r \in Run, NEW t \in Target, EndChunkStopped(r, t) PROVE ErrorInv'
  BY <1>9 DEF EndChunkStopped, SetLink, LoaderFrame
<1>10. ASSUME NEW r \in Run, NEW t \in Target, EndChunkOk(r, t) PROVE ErrorInv'
  <2>1. \A s \in Run, u \in Target :
          link'[s][u] = IF s = r /\ u = t THEN "head" ELSE link[s][u]
    BY <1>10, LinkAt DEF EndChunkOk
  <2>2. \A s \in Run, u \in Target :
          consec'[s][u] = IF s = r /\ u = t THEN 0 ELSE consec[s][u]
    BY <1>10 DEF EndChunkOk
  <2>3. link[r][t] = "chunk" /\ UNCHANGED aborted
    BY <1>10 DEF EndChunkOk
  <2>4. \A a \in aborted :
          a.run \in Run /\ a.target \in Target /\ ~(a.run = r /\ a.target = t)
    BY <2>3
  <2>5. 0 < StressAbortAfter
    BY AbortAssumption
  <2> HIDE DEF TypeOK
  <2> QED
    BY <2>1, <2>2, <2>3, <2>4, <2>5
<1>11. ASSUME NEW r \in Run, NEW t \in Target, EndChunkError(r, t) PROVE ErrorInv'
  <2> DEFINE last == consec[r][t] + 1 >= StressAbortAfter
  <2>1. \A s \in Run, u \in Target :
          link'[s][u] = IF s = r /\ u = t THEN IF last THEN "done" ELSE "head"
                        ELSE link[s][u]
    BY <1>11, LinkAt DEF EndChunkError, GiveUp
  <2>2. \A s \in Run, u \in Target :
          consec'[s][u] = IF s = r /\ u = t THEN consec[r][t] + 1 ELSE consec[s][u]
    BY <1>11 DEF EndChunkError
  <2>3. /\ link[r][t] = "chunk"
        /\ aborted' = IF last THEN aborted \cup {[run |-> r, target |-> t]} ELSE aborted
    BY <1>11 DEF EndChunkError
  <2>4. consec[r][t] \in Nat /\ consec[r][t] < StressAbortAfter
    BY <2>3
  <2>5. last => consec[r][t] + 1 = StressAbortAfter
    BY <2>4, AbortAssumption
  <2>6. ~last => consec[r][t] + 1 < StressAbortAfter
    BY <2>4, AbortAssumption
  <2> HIDE DEF last
  <2>7. AbortedLinkSilent'
    BY <2>1, <2>2, <2>3, <2>5
  <2> QED
    BY <2>1, <2>2, <2>6, <2>7
<1>12. ASSUME NEW r \in Run, TimerFires(r) PROVE ErrorInv'
  BY <1>12 DEF TimerFires, AdvanceLife
<1>13. ASSUME NEW r \in Run, StopSeen(r) PROVE ErrorInv'
  BY <1>13 DEF StopSeen, AdvanceLife
<1>14. ASSUME NEW r \in Run, Drain(r) PROVE ErrorInv'
  BY <1>14 DEF Drain, Drained, AdvanceLife
<1>15. ASSUME NEW r \in Run, NEW p \in Port, CloseListener(r, p) PROVE ErrorInv'
  BY <1>15 DEF CloseListener
<1>16. ASSUME NEW r \in Run, FreeSlot(r) PROVE ErrorInv'
  BY <1>16 DEF FreeSlot, ListenersDown, AdvanceLife
<1>17. ASSUME NEW r \in Run, RecordEnded(r) PROVE ErrorInv'
  BY <1>17 DEF RecordEnded, AdvanceLife, Write
<1>18. ASSUME NEW id \in Run \cup {AnyRun}, StopRequest(id) PROVE ErrorInv'
  BY <1>18 DEF StopRequest
<1>19. CASE StopCancel
  BY <1>19 DEF StopCancel
<1>20. CASE Quit
  BY <1>20 DEF Quit, AppFrame
<1>21. CASE AppStopsRun
  BY <1>21 DEF AppStopsRun, AppFrame
<1>22. CASE AppWaits
  BY <1>22 DEF AppWaits, AppFrame
<1>23. CASE AppShutsServer
  BY <1>23 DEF AppShutsServer, AppFrame
<1>24. CASE AppClosesStore
  BY <1>24 DEF AppClosesStore, AppFrame
<1>25. CASE UNCHANGED vars
  BY <1>25 DEF vars
<1> QED
  BY <1>1, <1>2, <1>3, <1>4, <1>5, <1>6, <1>7, <1>8, <1>9, <1>10, <1>11, <1>12, <1>13,
     <1>14, <1>15, <1>16, <1>17, <1>18, <1>19, <1>20, <1>21, <1>22, <1>23, <1>24, <1>25
     DEF Next, StartHandler, Loader, Lifecycle, AppStop

\* In a quiet shutdown nothing of a run outlives the wait.
LEMMA ShutdownInductive ==
  ASSUME TypeOK, NodeInv, [Next]_vars
  PROVE  ShutdownInv'
<1> USE DEF NodeInv, SlotInv, ShutdownInv, LifecyclesOver, Pending, Opening, TypeOK, loaders, journal
<1>1. ASSUME NEW r \in Run, StartRequest(r) PROVE ShutdownInv'
  BY <1>1 DEF StartRequest, Busy
<1>2. ASSUME NEW r \in Run, NEW p \in Port, OpenListener(r, p) PROVE ShutdownInv'
  BY <1>2 DEF OpenListener
<1>3. ASSUME NEW r \in Run, ListenersUp(r) PROVE ShutdownInv'
  BY <1>3 DEF ListenersUp
<1>4. ASSUME NEW r \in Run, RecordStarted(r) PROVE ShutdownInv'
  BY <1>4 DEF RecordStarted, Write
<1>5. ASSUME NEW r \in Run, SpawnLoaders(r) PROVE ShutdownInv'
  BY <1>5 DEF SpawnLoaders
<1>6. ASSUME NEW r \in Run, SpawnLifecycle(r) PROVE ShutdownInv'
  BY <1>6 DEF SpawnLifecycle
<1>7. ASSUME NEW r \in Run, NEW t \in Target, EndDelay(r, t) PROVE ShutdownInv'
  BY <1>7 DEF EndDelay, SetLink, LoaderFrame
<1>8. ASSUME NEW r \in Run, NEW t \in Target, BeginChunk(r, t) PROVE ShutdownInv'
  BY <1>8 DEF BeginChunk, SetLink, LoaderFrame
<1>9. ASSUME NEW r \in Run, NEW t \in Target, EndChunkStopped(r, t) PROVE ShutdownInv'
  BY <1>9 DEF EndChunkStopped, SetLink, LoaderFrame
<1>10. ASSUME NEW r \in Run, NEW t \in Target, EndChunkOk(r, t) PROVE ShutdownInv'
  BY <1>10 DEF EndChunkOk, SetLink, LoaderFrame
<1>11. ASSUME NEW r \in Run, NEW t \in Target, EndChunkError(r, t) PROVE ShutdownInv'
  BY <1>11 DEF EndChunkError, GiveUp, SetLink, LoaderFrame
<1>12. ASSUME NEW r \in Run, TimerFires(r) PROVE ShutdownInv'
  BY <1>12 DEF TimerFires, AdvanceLife
<1>13. ASSUME NEW r \in Run, StopSeen(r) PROVE ShutdownInv'
  BY <1>13 DEF StopSeen, AdvanceLife
<1>14. ASSUME NEW r \in Run, Drain(r) PROVE ShutdownInv'
  BY <1>14 DEF Drain, Drained, AdvanceLife
<1>15. ASSUME NEW r \in Run, NEW p \in Port, CloseListener(r, p) PROVE ShutdownInv'
  BY <1>15 DEF CloseListener
<1>16. ASSUME NEW r \in Run, FreeSlot(r) PROVE ShutdownInv'
  BY <1>16 DEF FreeSlot, ListenersDown, AdvanceLife
<1>17. ASSUME NEW r \in Run, RecordEnded(r) PROVE ShutdownInv'
  BY <1>17 DEF RecordEnded, AdvanceLife, Write
<1>18. ASSUME NEW id \in Run \cup {AnyRun}, StopRequest(id) PROVE ShutdownInv'
  BY <1>18 DEF StopRequest
<1>19. CASE StopCancel
  BY <1>19 DEF StopCancel
<1>20. CASE Quit
  BY <1>20 DEF Quit, AppFrame
<1>21. CASE AppStopsRun
  BY <1>21 DEF AppStopsRun, AppFrame
<1>22. CASE AppWaits
  BY <1>22 DEF AppWaits, AppFrame
<1>23. CASE AppShutsServer
  BY <1>23 DEF AppShutsServer, AppFrame
<1>24. CASE AppClosesStore
  BY <1>24 DEF AppClosesStore, AppFrame
<1>25. CASE UNCHANGED vars
  BY <1>25 DEF vars
<1> QED
  BY <1>1, <1>2, <1>3, <1>4, <1>5, <1>6, <1>7, <1>8, <1>9, <1>10, <1>11, <1>12, <1>13,
     <1>14, <1>15, <1>16, <1>17, <1>18, <1>19, <1>20, <1>21, <1>22, <1>23, <1>24, <1>25
     DEF Next, StartHandler, Loader, Lifecycle, AppStop

\* The initial state satisfies both invariants.
LEMMA InvInit == Init => TypeOK /\ NodeInv
  BY AbortAssumption
     DEF Init, TypeOK, HandlerPhase, LinkPhase, LifePhase, AppPhase, Stopper, NoStop,
         NodeInv, SlotInv, LoadInv, JournalInv, ErrorInv, AbortedLinkSilent, ShutdownInv,
         LifecyclesOver, Pending, Opening

-----------------------------------------------------------------------------
(* The theorems. *)

\* Every variable of the node stays within its type.
THEOREM TypeInvariant == SafeSpec => []TypeOK
  BY InvInit, TypeInductive, PTL DEF SafeSpec

\* The slot, the goroutines, the listeners and the journal of every run agree in
\* every reachable state.
THEOREM NodeInvariant == SafeSpec => []NodeInv
<1>1. TypeOK /\ NodeInv /\ [Next]_vars => NodeInv'
  BY SlotInductive, LoadInductive, JournalInductive, ErrorInductive, ShutdownInductive
     DEF NodeInv
<1> QED
  BY <1>1, InvInit, TypeInvariant, PTL DEF SafeSpec

\* A status is honest: what loads is the run in the slot, and it says running.
THEOREM Honest == SafeSpec => []StatusHonest
<1>1. TypeOK /\ NodeInv => StatusHonest
  <2> SUFFICES ASSUME TypeOK, NodeInv, NEW r \in Run, Loads(r)
               PROVE  slot = r /\ running[r]
    BY DEF StatusHonest
  <2>1. Pending(r) \/ life[r] \in {"timer", "drain", "listeners"}
    <3>1. ASSUME NEW p \in Port, [run |-> r, port |-> p] \in listeners
          PROVE  Pending(r) \/ life[r] \in {"timer", "drain", "listeners"}
      BY <3>1 DEF NodeInv, LoadInv
    <3>2. ASSUME NEW t \in Target, link[r][t] \in {"delayed", "head", "chunk"}
          PROVE  Pending(r) \/ life[r] \in {"timer", "drain", "listeners"}
      <4>1. life[r] \in LifePhase
        BY DEF TypeOK
      <4>2. handler[r] \in {"adopt", "accepted"}
        BY <3>2 DEF NodeInv, LoadInv
      <4>3. life[r] \notin {"listeners", "books", "done"}
        BY <3>2 DEF NodeInv, LoadInv
      <4>4. handler[r] = "accepted" => life[r] # "none"
        BY DEF NodeInv, SlotInv
      <4> QED
        BY <4>1, <4>2, <4>3, <4>4 DEF Pending, Opening, LifePhase
    <3> QED
      BY <3>1, <3>2 DEF Loads
  <2> QED
    BY <2>1 DEF NodeInv, SlotInv
<1> QED
  BY <1>1, NodeInvariant, TypeInvariant, PTL

\* Two runs never load the network or hold a listener at the same time.
THEOREM OneRunAtATime == SafeSpec => []SingleRun
<1>1. StatusHonest => SingleRun
  BY DEF StatusHonest, SingleRun
<1> QED
  BY <1>1, Honest, PTL

\* A run is closed in the journal only after it was opened there and only when
\* nothing of it is left.
THEOREM OrderedJournal == SafeSpec => []JournalOrdered
<1>1. TypeOK /\ NodeInv /\ StatusHonest => JournalOrdered
  <2> SUFFICES ASSUME TypeOK, NodeInv, StatusHonest, NEW r \in ended
               PROVE  r \in started /\ span[r] = "closed" /\ ~Loads(r) /\ ~running[r]
    BY DEF JournalOrdered
  <2>1. r \in Run /\ life[r] = "done"
    BY DEF TypeOK, NodeInv, JournalInv
  <2>2. r \in started /\ span[r] = "closed"
    BY <2>1 DEF NodeInv, SlotInv, JournalInv
  <2>3. ~running[r]
    BY <2>1 DEF NodeInv, SlotInv, Pending, Opening
  <2> QED
    BY <2>1, <2>2, <2>3 DEF StatusHonest
<1> QED
  BY <1>1, Honest, NodeInvariant, TypeInvariant, PTL

\* An aborted link has seen its errors in a row and its loader is gone.
THEOREM AbortedSilent == SafeSpec => []AbortedLinkSilent
<1>1. NodeInv => AbortedLinkSilent
  BY DEF NodeInv, ErrorInv
<1> QED
  BY <1>1, NodeInvariant, PTL

\* Whoever is about to cancel a run was asked to stop that run or any run.
LEMMA HeldInvariant == SafeSpec => []HeldInv
<1>1. Init => HeldInv
  BY DEF Init, HeldInv, NoStop
<1>2. TypeOK /\ HeldInv /\ [Next]_vars => HeldInv'
  <2> SUFFICES ASSUME TypeOK, HeldInv, [Next]_vars PROVE HeldInv'
    OBVIOUS
  <2>1. held \in [Stopper -> [id: Run \cup {AnyRun}, run: Run \cup {NoRun}]]
    BY DEF TypeOK
  <2>2. ASSUME NEW id \in Run \cup {AnyRun}, StopRequest(id) PROVE HeldInv'
    <3>1. id \in {AnyRun, slot} /\ held' = [held EXCEPT !["http"] = Reads(id, slot)]
      BY <2>2 DEF StopRequest, StopMatches
    <3> QED
      BY <2>1, <3>1 DEF HeldInv, Stopper, Reads
  <2>3. ASSUME StopCancel PROVE HeldInv'
    BY <2>1, <2>3 DEF StopCancel, HeldInv, Stopper, NoStop
  <2>4. ASSUME Quit PROVE HeldInv'
    BY <2>1, <2>4 DEF Quit, HeldInv, Stopper, Reads
  <2>5. ASSUME AppStopsRun PROVE HeldInv'
    BY <2>1, <2>5 DEF AppStopsRun, HeldInv, Stopper, NoStop
  <2>6. ASSUME NEW r \in Run, StartRequest(r) \/ StartHandler(r) \/ TimerFires(r) \/ Lifecycle(r)
        PROVE  held' = held
    BY <2>6 DEF StartRequest, StartHandler, OpenListener, ListenersUp, RecordStarted,
       SpawnLoaders, SpawnLifecycle, TimerFires, Lifecycle, StopSeen, Drain, CloseListener,
       FreeSlot, RecordEnded
  <2>7. ASSUME NEW r \in Run, NEW t \in Target, Loader(r, t) PROVE held' = held
    BY <2>7 DEF Loader, EndDelay, BeginChunk, EndChunkStopped, EndChunkOk, EndChunkError,
       LoaderFrame
  <2>8. ASSUME AppWaits \/ AppShutsServer \/ AppClosesStore PROVE held' = held
    BY <2>8 DEF AppWaits, AppShutsServer, AppClosesStore
  <2>9. CASE UNCHANGED vars
    BY <2>9 DEF vars, HeldInv
  <2> QED
    BY <2>2, <2>3, <2>4, <2>5, <2>6, <2>7, <2>8, <2>9 DEF Next, AppStop, HeldInv
<1> QED
  BY <1>1, <1>2, TypeInvariant, PTL DEF SafeSpec

\* A run is cancelled by its own timer, by a stop meant for it or by the
\* shutdown, and by nothing else.
THEOREM StopsHit == SafeSpec => StopHitsItsRun
<1> DEFINE Hit(r) == cancelled'[r] /\ ~cancelled[r] =>
                       \/ life[r] = "timer" /\ life'[r] = "drain"
                       \/ \E c \in Stopper : held[c] \in {Reads(r, r), Reads(AnyRun, r)}
<1>1. TypeOK /\ HeldInv /\ [Next]_vars => [\A r \in Run : Hit(r)]_vars
  <2> SUFFICES ASSUME TypeOK, HeldInv, Next, NEW r \in Run,
                      cancelled'[r], ~cancelled[r]
               PROVE  \/ life[r] = "timer" /\ life'[r] = "drain"
                      \/ \E c \in Stopper : held[c] \in {Reads(r, r), Reads(AnyRun, r)}
    OBVIOUS
  <2>1. /\ cancelled \in [Run -> BOOLEAN]
        /\ life \in [Run -> LifePhase]
        /\ held \in [Stopper -> [id: Run \cup {AnyRun}, run: Run \cup {NoRun}]]
    BY DEF TypeOK
  <2>2. \A c \in Stopper : held[c].run = r => held[c] \in {Reads(r, r), Reads(AnyRun, r)}
    BY <2>1 DEF HeldInv, Reads
  <2>3. ASSUME NEW s \in Run, TimerFires(s)
        PROVE  life[r] = "timer" /\ life'[r] = "drain"
    BY <2>1, <2>3 DEF TimerFires, TimerCancels, AdvanceLife
  <2>4. ASSUME StopCancel PROVE held["http"].run = r
    BY <2>1, <2>4 DEF StopCancel
  <2>5. ASSUME AppStopsRun PROVE held["app"].run = r
    BY <2>1, <2>5 DEF AppStopsRun
  <2>6. ASSUME NEW s \in Run, StartRequest(s) \/ StartHandler(s) \/ Lifecycle(s) PROVE FALSE
    BY <2>6 DEF StartRequest, StartHandler, OpenListener, ListenersUp, RecordStarted,
       SpawnLoaders, SpawnLifecycle, Lifecycle, StopSeen, Drain, CloseListener,
       FreeSlot, RecordEnded
  <2>7. ASSUME NEW s \in Run, NEW t \in Target, Loader(s, t) PROVE FALSE
    BY <2>7 DEF Loader, EndDelay, BeginChunk, EndChunkStopped, EndChunkOk, EndChunkError,
       LoaderFrame
  <2>8. ASSUME NEW id \in Run \cup {AnyRun}, StopRequest(id) PROVE FALSE
    BY <2>8 DEF StopRequest
  <2>9. ASSUME Quit \/ AppWaits \/ AppShutsServer \/ AppClosesStore PROVE FALSE
    BY <2>9 DEF Quit, AppWaits, AppShutsServer, AppClosesStore
  <2> QED
    BY <2>2, <2>3, <2>4, <2>5, <2>6, <2>7, <2>8, <2>9 DEF Next, AppStop, Stopper
<1> QED
  BY <1>1, HeldInvariant, TypeInvariant, PTL DEF SafeSpec, StopHitsItsRun

\* When no start request is pending or arrives during App.Stop, nothing is
\* written to the closed store and a node that is down is silent.
THEOREM QuietShutdownCompletes == QuietShutdown => (SafeSpec => []ShutdownComplete)
<1> SUFFICES ASSUME QuietShutdown PROVE SafeSpec => []ShutdownComplete
  OBVIOUS
<1>1. NodeInv /\ StatusHonest => ShutdownComplete
  BY DEF NodeInv, SlotInv, ShutdownInv, ShutdownComplete, StatusHonest, LifecyclesOver
<1> QED
  BY <1>1, Honest, NodeInvariant, PTL
=============================================================================
