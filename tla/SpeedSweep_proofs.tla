-------------------------- MODULE SpeedSweep_proofs --------------------------
(***************************************************************************)
(* Proofs about SpeedSweep for a mesh of any size and any channel          *)
(* capacity: the type invariant and the safety invariants of the runs.     *)
(***************************************************************************)
EXTENDS SpeedSweep, FiniteSetTheorems, TLAPS

\* The values a sweep starts from.
LEMMA EmptyValues ==
  /\ DOMAIN NoCells = {}
  /\ NoProgress \in Progress
  /\ \A S : <<>> \in Seq(S)
  /\ Len(<<>>) = 0
<1>1. DOMAIN NoCells = {}
  BY DEF NoCells
<1>2. NoProgress \in Progress
  BY DEF NoProgress, Progress
<1> QED
  BY <1>1, <1>2

\* What report() hands to the UI is well formed.
LEMMA ReportType ==
  ASSUME Report, CellsTypeOK', SchedTypeOK'
  PROVE  shown' \in Progress
BY DEF Report, Progress, CellsTypeOK, SchedTypeOK

\* Sending on a channel and receiving from it keep the type of its elements.
LEMMA ChannelType ==
  ASSUME NEW S, NEW s \in Seq(S), NEW e \in S
  PROVE  /\ Append(s, e) \in Seq(S)
         /\ Len(Append(s, e)) = Len(s) + 1
OBVIOUS

LEMMA ReceiveType ==
  ASSUME NEW S, NEW s \in Seq(S), s # <<>>
  PROVE  /\ Head(s) \in S
         /\ Tail(s) \in Seq(S)
         /\ Len(Tail(s)) = Len(s) - 1
         /\ Len(s) \in Nat
OBVIOUS

\* A step keeps the types of what it leaves alone.
LEMMA FrameTypes ==
  ASSUME TypeOK
  PROVE  /\ UNCHANGED sched => SchedTypeOK' /\ CellsTypeOK'
         /\ UNCHANGED cells => CellsTypeOK'
         /\ UNCHANGED <<testing, ch, liveCh>> => ChannelTypeOK'
         /\ UNCHANGED shown => shown' \in Progress
BY DEF TypeOK, SchedTypeOK, CellsTypeOK, ChannelTypeOK, sched

\* The type invariant of the speed sweep is inductive.
LEMMA TypeInductive == TypeOK /\ [Next]_vars => TypeOK'
<1> SUFFICES ASSUME TypeOK, [Next]_vars PROVE TypeOK'
  OBVIOUS
<1> USE FrameTypes DEF TypeOK
<1>1. ASSUME NEW d \in Directions, ClickRun(d) PROVE TypeOK'
  <2>1. ControlTypeOK'
    BY <1>1, DirectionsAssumption DEF ClickRun, ControlTypeOK
  <2>2. SchedTypeOK'
    BY <1>1 DEF ClickRun, SchedTypeOK
  <2>3. CellsTypeOK'
    BY <1>1, EmptyValues DEF ClickRun, CellsTypeOK
  <2>4. ch' \in Seq(Message) /\ liveCh' \in Seq(Pairs) /\ Len(liveCh') =< LiveCap
    BY <1>1, EmptyValues, LiveCapAssumption DEF ClickRun
  <2> QED
    BY <1>1, <2>1, <2>2, <2>3, <2>4 DEF ClickRun, ChannelTypeOK
<1>2. CASE ClickStop
  BY <1>2 DEF ClickStop, ControlTypeOK, ui
<1>3. CASE StartSweep
  BY <1>3 DEF StartSweep, EnterLaunch, ControlTypeOK, ui
<1>4. ASSUME NEW p \in Pairs, SkipPair(p) PROVE TypeOK'
  BY <1>4 DEF SkipPair, ControlTypeOK, SchedTypeOK, ui
<1>5. ASSUME NEW p \in Pairs, LaunchPair(p) PROVE TypeOK'
  <2>1. Ends(p) \subseteq Node
    BY DEF Ends, Pairs
  <2>2. SchedTypeOK'
    BY <1>5, <2>1 DEF LaunchPair, Unqueued, SchedTypeOK
  <2> QED
    BY <1>5, <2>2 DEF LaunchPair, ControlTypeOK, ChannelTypeOK, ui
<1>6. CASE EndLaunch
  <2>1. SchedTypeOK' /\ CellsTypeOK'
    BY <1>6 DEF EndLaunch, SchedTypeOK
  <2>2. shown' \in Progress
    BY <1>6, <2>1, ReportType DEF EndLaunch
  <2> QED
    BY <1>6, <2>1, <2>2 DEF EndLaunch, ControlTypeOK, ui
<1>7. ASSUME NEW p \in Pairs, EmitReading(p) PROVE TypeOK'
  <2>1. liveCh \in Seq(Pairs) /\ liveCh' = Append(liveCh, p) /\ ~(Len(liveCh) >= LiveCap)
    BY <1>7 DEF EmitReading, LiveChFull, ChannelTypeOK
  <2>2. liveCh' \in Seq(Pairs) /\ Len(liveCh') =< LiveCap
    BY <2>1, LiveCapAssumption, ChannelType
  <2> QED
    BY <1>7, <2>2 DEF EmitReading, ControlTypeOK, ChannelTypeOK, ui
<1>8. ASSUME NEW p \in Pairs, FinishTest(p) PROVE TypeOK'
  <2>1. PICK r \in Outcomes(dir) : ch' = Append(ch, [pair |-> p, res |-> r])
    BY <1>8 DEF FinishTest
  <2>2. [pair |-> p, res |-> r] \in Message
    BY DEF Message, Outcomes
  <2>3. ch' \in Seq(Message)
    BY <2>1, <2>2, ChannelType DEF ChannelTypeOK
  <2> QED
    BY <1>8, <2>3 DEF FinishTest, ControlTypeOK, ChannelTypeOK, ui
<1>9. CASE RecvReading
  <2>1. liveCh \in Seq(Pairs) /\ liveCh # <<>> /\ liveCh' = Tail(liveCh) /\ Len(liveCh) =< LiveCap
    BY <1>9 DEF RecvReading, ChannelTypeOK
  <2>2. Head(liveCh) \in Pairs /\ liveCh' \in Seq(Pairs) /\ Len(liveCh') =< LiveCap
    BY <2>1, ReceiveType, LiveCapAssumption
  <2>3. live' \subseteq Pairs
    BY <1>9, <2>2 DEF RecvReading, SchedTypeOK
  <2>4. SchedTypeOK' /\ CellsTypeOK'
    BY <1>9, <2>3 DEF RecvReading, SchedTypeOK
  <2>5. shown' \in Progress
    BY <1>9, <2>4, ReportType DEF RecvReading
  <2> QED
    BY <1>9, <2>2, <2>4, <2>5 DEF RecvReading, ControlTypeOK, ChannelTypeOK, ui
<1>10. CASE RecvResult
  <2>1. ch \in Seq(Message) /\ ch # <<>> /\ ch' = Tail(ch)
    BY <1>10 DEF RecvResult, ChannelTypeOK
  <2>2. Head(ch) \in Message /\ ch' \in Seq(Message)
    BY <2>1, ReceiveType
  <2>3. Head(ch).pair \in Pairs /\ Head(ch).res \in Result
    BY <2>2 DEF Message
  <2>4. CellsTypeOK'
    BY <1>10, <2>3 DEF RecvResult, CellsTypeOK
  <2>5. inFlight' = inFlight - 1 /\ inFlight # 0
    BY <1>10 DEF RecvResult, Drained, Countdown
  <2>6. inFlight' \in Nat
    BY <2>5 DEF SchedTypeOK
  <2>7. SchedTypeOK'
    BY <1>10, <2>6 DEF RecvResult, SchedTypeOK
  <2> QED
    BY <1>10, <2>2, <2>4, <2>7 DEF RecvResult, EnterLaunch, ControlTypeOK, ChannelTypeOK, ui
<1>11. CASE EndSweep
  BY <1>11 DEF EndSweep, NotStopped, Summarised, ControlTypeOK, ui
<1>12. CASE ShowMatrix
  BY <1>12, EmptyValues DEF ShowMatrix, ControlTypeOK
<1>13. CASE UNCHANGED vars
  BY <1>13 DEF vars, ControlTypeOK, ui
<1> QED
  BY <1>1, <1>2, <1>3, <1>4, <1>5, <1>6, <1>7, <1>8, <1>9, <1>10, <1>11, <1>12, <1>13
     DEF Next, Scheduler

\* The initial state is well typed.
LEMMA TypeInit == Init => TypeOK
<1> SUFFICES ASSUME Init PROVE TypeOK
  OBVIOUS
<1>1. ControlTypeOK /\ SchedTypeOK
  BY DEF Init, ControlTypeOK, SchedTypeOK
<1>2. CellsTypeOK
  BY EmptyValues DEF Init, CellsTypeOK
<1>3. ChannelTypeOK
  <2>1. <<>> \in Seq(Message) /\ <<>> \in Seq(Pairs) /\ Len(<<>>) =< LiveCap
    BY EmptyValues, LiveCapAssumption
  <2> QED
    BY <2>1 DEF Init, ChannelTypeOK
<1> QED
  BY <1>1, <1>2, <1>3, EmptyValues DEF Init, TypeOK

\* Every variable of the sweep stays within its type, whatever the mesh.
THEOREM TypeInvariant == SafeSpec => []TypeOK
  BY TypeInit, TypeInductive, PTL DEF SafeSpec

-----------------------------------------------------------------------------
(* The channel of results as a set of pairs. *)

\* Sending the result of a pair that has none in the channel.
LEMMA SendOne ==
  ASSUME NEW c \in Seq(Message), NEW m \in Message, SentOnce(c), m.pair \notin Sent(c)
  PROVE  /\ Sent(Append(c, m)) = Sent(c) \cup {m.pair}
         /\ SentOnce(Append(c, m))
<1> DEFINE d == Append(c, m)
<1>1. /\ DOMAIN c = 1..Len(c) /\ Len(c) \in Nat
      /\ DOMAIN d = 1..(Len(c) + 1)
      /\ \A i \in 1..Len(c) : d[i] = c[i]
      /\ d[Len(c) + 1] = m
  OBVIOUS
<1>2. DOMAIN d = DOMAIN c \cup {Len(c) + 1} /\ Len(c) + 1 \notin DOMAIN c
  BY <1>1
<1> HIDE DEF d
<1>3. Sent(d) = Sent(c) \cup {m.pair}
  BY <1>1, <1>2 DEF Sent
<1>4. SentOnce(d)
  BY <1>1, <1>2 DEF Sent, SentOnce
<1> QED
  BY <1>3, <1>4 DEF d

\* Receiving takes exactly the received pair out of the channel.
LEMMA ReceiveOne ==
  ASSUME NEW c \in Seq(Message), c # <<>>, SentOnce(c)
  PROVE  /\ Head(c).pair \in Sent(c)
         /\ Sent(Tail(c)) = Sent(c) \ {Head(c).pair}
         /\ SentOnce(Tail(c))
<1> DEFINE d == Tail(c)
<1>1. /\ DOMAIN c = 1..Len(c) /\ Len(c) \in Nat /\ Len(c) > 0
      /\ DOMAIN d = 1..(Len(c) - 1)
      /\ \A i \in 1..(Len(c) - 1) : d[i] = c[i + 1]
      /\ Head(c) = c[1]
  OBVIOUS
<1> HIDE DEF d
<1>2. 1 \in DOMAIN c
  BY <1>1
<1>3. \A i \in DOMAIN d : i + 1 \in DOMAIN c /\ i + 1 # 1 /\ d[i] = c[i + 1]
  BY <1>1
<1>4. \A i \in DOMAIN c : i # 1 => i - 1 \in DOMAIN d /\ d[i - 1] = c[i]
  BY <1>1
<1>5. Sent(d) = Sent(c) \ {c[1].pair}
  BY <1>2, <1>3, <1>4 DEF Sent, SentOnce
<1>6. SentOnce(d)
  <2> SUFFICES ASSUME NEW i \in DOMAIN d, NEW j \in DOMAIN d, d[i].pair = d[j].pair
               PROVE  i = j
    BY DEF SentOnce
  <2>1. i + 1 = j + 1
    BY <1>3 DEF SentOnce
  <2> QED
    BY <2>1, <1>1
<1> QED
  BY <1>1, <1>2, <1>5, <1>6 DEF Sent, d

\* An empty channel holds no result.
LEMMA NothingSent == Sent(<<>>) = {} /\ SentOnce(<<>>)
  BY DEF Sent, SentOnce

-----------------------------------------------------------------------------
(* SweepInv is inductive, one lemma for each of its parts. *)

\* Launched pairs are exactly those under test or waiting in the channel.
LEMMA InFlightInductive ==
  ASSUME TypeOK, SweepInv, [Next]_vars
  PROVE  InFlightInv'
<1> USE DEF SweepInv
<1>1. CASE UNCHANGED <<active, testing, ch, inFlight>>
  BY <1>1 DEF InFlightInv
<1>2. ASSUME NEW d \in Directions, ClickRun(d) PROVE InFlightInv'
  <2>1. active = {}
    BY <1>2 DEF ClickRun, PhaseInv
  <2>2. testing' = {} /\ active' = {} /\ inFlight' = 0 /\ ch' = <<>>
    BY <1>2, <2>1 DEF ClickRun, InFlightInv
  <2> QED
    BY <2>2, NothingSent, FS_EmptySet DEF InFlightInv
<1>3. ASSUME NEW p \in Pairs, LaunchPair(p) PROVE InFlightInv'
  <2>1. p \in pending /\ p \notin active
    BY <1>3 DEF LaunchPair, NextPair, PhaseInv, EveryPairAccounted
  <2>2. IsFiniteSet(active') /\ Cardinality(active') = Cardinality(active) + 1
    BY <1>3, <2>1, FS_AddElement DEF LaunchPair, InFlightInv
  <2> QED
    BY <1>3, <2>1, <2>2 DEF LaunchPair, InFlightInv
<1>4. ASSUME NEW p \in Pairs, FinishTest(p) PROVE InFlightInv'
  <2>1. PICK r \in Outcomes(dir) : ch' = Append(ch, [pair |-> p, res |-> r])
    BY <1>4 DEF FinishTest
  <2> DEFINE m == [pair |-> p, res |-> r]
  <2>2. m \in Message /\ m.pair = p
    BY DEF Message, Outcomes
  <2>3. ch \in Seq(Message) /\ SentOnce(ch) /\ p \in testing /\ p \notin Sent(ch)
    BY <1>4 DEF FinishTest, InFlightInv, TypeOK, ChannelTypeOK
  <2> HIDE DEF m
  <2>4. Sent(ch') = Sent(ch) \cup {p} /\ SentOnce(ch')
    BY <2>1, <2>2, <2>3, SendOne DEF m
  <2>5. testing' = testing \ {p} /\ UNCHANGED <<active, inFlight>>
    BY <1>4 DEF FinishTest, sched
  <2> QED
    BY <2>3, <2>4, <2>5 DEF InFlightInv
<1>5. CASE RecvResult
  <2> DEFINE p == Head(ch).pair
  <2>1. ch \in Seq(Message) /\ ch # <<>> /\ SentOnce(ch) /\ ch' = Tail(ch)
    BY <1>5 DEF RecvResult, InFlightInv, TypeOK, ChannelTypeOK
  <2>2. p \in Sent(ch) /\ Sent(ch') = Sent(ch) \ {p} /\ SentOnce(ch')
    BY <2>1, ReceiveOne
  <2>3. active' = active \ {p} /\ UNCHANGED testing /\ inFlight' = inFlight - 1
    BY <1>5 DEF RecvResult, Countdown
  <2> HIDE DEF p
  <2>4. IsFiniteSet(active') /\ Cardinality(active') = Cardinality(active) - 1
    BY <2>2, <2>3, FS_RemoveElement DEF InFlightInv
  <2> QED
    BY <2>2, <2>3, <2>4 DEF InFlightInv
<1>6. CASE ClickStop
  BY <1>1, <1>6 DEF ClickStop, sched
<1>7. CASE StartSweep
  BY <1>1, <1>7 DEF StartSweep, sched
<1>8. ASSUME NEW p \in Pairs, SkipPair(p) \/ EmitReading(p) PROVE InFlightInv'
  BY <1>1, <1>8 DEF SkipPair, EmitReading, sched
<1>9. CASE EndLaunch \/ RecvReading \/ EndSweep \/ ShowMatrix
  BY <1>1, <1>9 DEF EndLaunch, RecvReading, EndSweep, ShowMatrix, sched
<1>10. CASE UNCHANGED vars
  BY <1>1, <1>10 DEF vars, sched
<1> QED
  BY <1>2, <1>3, <1>4, <1>5, <1>6, <1>7, <1>8, <1>9, <1>10 DEF Next, Scheduler

\* The busy map mirrors the launched pairs, so no two of them collide.
LEMMA BusyInductive ==
  ASSUME TypeOK, SweepInv, [Next]_vars
  PROVE  BusyInv'
<1> USE DEF SweepInv
<1>1. CASE UNCHANGED <<active, busy>>
  BY <1>1 DEF BusyInv
<1>2. ASSUME NEW d \in Directions, ClickRun(d) PROVE BusyInv'
  BY <1>2 DEF ClickRun, BusyInv
<1>3. ASSUME NEW p \in Pairs, LaunchPair(p) PROVE BusyInv'
  <2>1. busy' = busy \cup Ends(p) /\ active' = active \cup {p}
    BY <1>3 DEF LaunchPair
  <2>2. Ends(p) \cap busy = {}
    BY <1>3 DEF LaunchPair, Blocked, Ends
  <2>3. \A q \in active : ~Collide(p, q) /\ ~Collide(q, p)
    BY <2>2 DEF BusyInv, Collide
  <2> QED
    BY <2>1, <2>3 DEF BusyInv
<1>4. CASE RecvResult
  <2> DEFINE p == Head(ch).pair
  <2>1. ch \in Seq(Message) /\ ch # <<>> /\ SentOnce(ch)
    BY <1>4 DEF RecvResult, InFlightInv, TypeOK, ChannelTypeOK
  <2>2. p \in active
    BY <2>1, ReceiveOne DEF InFlightInv
  <2>3. active' = active \ {p} /\ busy' = busy \ Ends(p)
    BY <1>4 DEF RecvResult, Frees
  <2> HIDE DEF p
  <2>4. \A q \in active \ {p} : Ends(q) \cap Ends(p) = {}
    BY <2>2 DEF BusyInv, Collide
  <2>5. busy' = UNION {Ends(q) : q \in active'}
    BY <2>3, <2>4 DEF BusyInv
  <2> QED
    BY <2>3, <2>5 DEF BusyInv
<1>5. CASE ClickStop
  BY <1>1, <1>5 DEF ClickStop, sched
<1>6. CASE StartSweep
  BY <1>1, <1>6 DEF StartSweep, sched
<1>7. ASSUME NEW p \in Pairs, SkipPair(p) \/ EmitReading(p) \/ FinishTest(p) PROVE BusyInv'
  BY <1>1, <1>7 DEF SkipPair, EmitReading, FinishTest, sched
<1>8. CASE EndLaunch \/ RecvReading \/ EndSweep \/ ShowMatrix
  BY <1>1, <1>8 DEF EndLaunch, RecvReading, EndSweep, ShowMatrix, sched
<1>9. CASE UNCHANGED vars
  BY <1>1, <1>9 DEF vars, sched
<1> QED
  BY <1>2, <1>3, <1>4, <1>5, <1>6, <1>7, <1>8, <1>9 DEF Next, Scheduler

\* While a sweep runs no pair is lost or duplicated.
LEMMA AccountedInductive ==
  ASSUME TypeOK, SweepInv, [Next]_vars
  PROVE  EveryPairAccounted'
<1> USE DEF SweepInv, EveryPairAccounted
<1>1. CASE UNCHANGED <<running, pending, active, cells>>
  BY <1>1
<1>2. ASSUME NEW d \in Directions, ClickRun(d) PROVE EveryPairAccounted'
  BY <1>2, EmptyValues DEF ClickRun
<1>3. ASSUME NEW p \in Pairs, LaunchPair(p) PROVE EveryPairAccounted'
  <2>1. p \in pending /\ pending' = pending \ {p} /\ active' = active \cup {p}
    BY <1>3 DEF LaunchPair, NextPair, Unqueued
  <2>2. UNCHANGED <<running, cells>>
    BY <1>3 DEF LaunchPair, ui
  <2> QED
    BY <2>1, <2>2
<1>4. CASE RecvResult
  <2> DEFINE p == Head(ch).pair
  <2>1. ch \in Seq(Message) /\ ch # <<>> /\ SentOnce(ch)
    BY <1>4 DEF RecvResult, InFlightInv, TypeOK, ChannelTypeOK
  <2>2. p \in active
    BY <2>1, ReceiveOne DEF InFlightInv
  <2>3. /\ active' = active \ {p} /\ DOMAIN cells' = DOMAIN cells \cup {p}
        /\ UNCHANGED <<running, pending>>
    BY <1>4 DEF RecvResult, ui
  <2> HIDE DEF p
  <2> QED
    BY <2>2, <2>3
<1>5. CASE ShowMatrix
  BY <1>5 DEF ShowMatrix
<1>6. CASE ClickStop
  BY <1>1, <1>6 DEF ClickStop, ui, sched
<1>7. CASE StartSweep
  BY <1>1, <1>7 DEF StartSweep, ui, sched
<1>8. ASSUME NEW p \in Pairs, SkipPair(p) \/ EmitReading(p) \/ FinishTest(p)
      PROVE  EveryPairAccounted'
  BY <1>1, <1>8 DEF SkipPair, EmitReading, FinishTest, ui, sched
<1>9. CASE EndLaunch \/ RecvReading \/ EndSweep
  BY <1>1, <1>9 DEF EndLaunch, RecvReading, EndSweep, ui, sched
<1>10. CASE UNCHANGED vars
  BY <1>1, <1>10 DEF vars, ui, sched
<1> QED
  BY <1>2, <1>3, <1>4, <1>5, <1>6, <1>7, <1>8, <1>9, <1>10 DEF Next, Scheduler

\* A launch pass leaves no free pair behind: what it skipped stays blocked
\* because it only ever adds busy nodes.
LEMMA PassInductive ==
  ASSUME TypeOK, SweepInv, [Next]_vars
  PROVE  PassInv'
<1> USE DEF SweepInv
<1>1. CASE UNCHANGED <<pc, pending, scanned, busy, cancelled>>
  BY <1>1 DEF PassInv, Blocked
<1>2. ASSUME NEW d \in Directions, ClickRun(d) PROVE PassInv'
  BY <1>2 DEF ClickRun, PassInv
<1>3. CASE ClickStop
  BY <1>3 DEF ClickStop, PassInv, Blocked, sched
<1>4. CASE StartSweep
  BY <1>4 DEF StartSweep, EnterLaunch, PassInv, Blocked, sched
<1>5. ASSUME NEW p \in Pairs, SkipPair(p) PROVE PassInv'
  BY <1>5 DEF SkipPair, NextPair, PassInv, Blocked
<1>6. ASSUME NEW p \in Pairs, LaunchPair(p) PROVE PassInv'
  <2>1. /\ pc = "launch" /\ pc' = pc /\ scanned' = scanned
        /\ p \notin scanned /\ pending' = pending \ {p}
        /\ busy \subseteq busy'
    BY <1>6 DEF LaunchPair, NextPair, Unqueued
  <2> QED
    BY <2>1 DEF PassInv, Blocked
<1>7. CASE EndLaunch
  <2>1. pc' = "wait" /\ scanned' = {} /\ UNCHANGED <<pending, busy, cancelled>>
    BY <1>7 DEF EndLaunch
  <2>2. cancelled \/ pending \subseteq scanned
    BY <1>7 DEF EndLaunch, PassInv
  <2> QED
    BY <2>1, <2>2 DEF PassInv, Blocked
<1>8. CASE RecvResult
  <2>1. /\ pc = "wait" /\ pc' = IF cancelled THEN "report" ELSE "launch"
        /\ UNCHANGED <<pending, scanned, cancelled>>
    BY <1>8 DEF RecvResult, EnterLaunch
  <2> QED
    BY <2>1 DEF PassInv, Blocked
<1>9. CASE EndSweep \/ ShowMatrix
  BY <1>9 DEF EndSweep, ShowMatrix, PassInv, Blocked, sched
<1>10. ASSUME NEW p \in Pairs, EmitReading(p) \/ FinishTest(p) PROVE PassInv'
  BY <1>1, <1>10 DEF EmitReading, FinishTest, sched
<1>11. CASE RecvReading
  BY <1>1, <1>11 DEF RecvReading
<1>12. CASE UNCHANGED vars
  BY <1>1, <1>12 DEF vars, sched
<1> QED
  BY <1>2, <1>3, <1>4, <1>5, <1>6, <1>7, <1>8, <1>9, <1>10, <1>11, <1>12
     DEF Next, Scheduler

\* The outcome of a sweep is fixed only when nothing is in flight, and a sweep
\* nobody stopped has then covered the matrix.
LEMMA PhaseInductive ==
  ASSUME TypeOK, SweepInv, [Next]_vars
  PROVE  PhaseInv'
<1> USE DEF SweepInv
<1>1. CASE UNCHANGED <<running, status, cancelled, pc, pending, active, cells, recorded>>
  BY <1>1 DEF PhaseInv
<1>2. ASSUME NEW d \in Directions, ClickRun(d) PROVE PhaseInv'
  BY <1>2 DEF ClickRun, PhaseInv
<1>3. CASE ClickStop
  BY <1>3 DEF ClickStop, PhaseInv, ui, sched
<1>4. CASE StartSweep
  BY <1>4 DEF StartSweep, EnterLaunch, PhaseInv, ui, sched
<1>5. ASSUME NEW p \in Pairs, LaunchPair(p) PROVE PhaseInv'
  BY <1>5 DEF LaunchPair, PhaseInv, ui
<1>6. CASE EndLaunch
  BY <1>6 DEF EndLaunch, PhaseInv, ui
<1>7. CASE RecvResult
  <2>1. /\ pc = "wait" /\ pc' \in {"report", "launch"}
        /\ UNCHANGED <<running, status, recorded>>
    BY <1>7 DEF RecvResult, EnterLaunch, ui
  <2> QED
    BY <2>1 DEF PhaseInv
<1>8. CASE EndSweep
  <2>1. /\ pc = "wait" /\ pc' = "finish" /\ inFlight = 0
        /\ UNCHANGED <<running, status, cancelled, active, cells>>
        /\ recorded' => ~cancelled
    BY <1>8 DEF EndSweep, Drained, NotStopped, ui, sched
  <2>2. active = {} /\ busy = {}
    BY <2>1, FS_EmptySet DEF InFlightInv, BusyInv
  <2>3. ~cancelled => DOMAIN cells = Pairs
    BY <2>1, <2>2 DEF PassInv, Blocked, PhaseInv, EveryPairAccounted
  <2> QED
    BY <2>1, <2>2, <2>3 DEF PhaseInv
<1>9. CASE ShowMatrix
  BY <1>9 DEF ShowMatrix, PhaseInv, EveryPairAccounted, sched
<1>10. ASSUME NEW p \in Pairs, SkipPair(p) \/ EmitReading(p) \/ FinishTest(p)
       PROVE  PhaseInv'
  BY <1>1, <1>10 DEF SkipPair, EmitReading, FinishTest, ui, sched
<1>11. CASE RecvReading
  BY <1>1, <1>11 DEF RecvReading, ui
<1>12. CASE UNCHANGED vars
  BY <1>1, <1>12 DEF vars, ui, sched
<1> QED
  BY <1>2, <1>3, <1>4, <1>5, <1>6, <1>7, <1>8, <1>9, <1>10, <1>11, <1>12
     DEF Next, Scheduler

\* What the UI was handed is consistent, and so is the live map behind it.
LEMMA ProgressInductive ==
  ASSUME TypeOK, SweepInv, [Next]_vars
  PROVE  ProgressConsistent'
<1> USE DEF SweepInv, ProgressConsistent
<1>1. CASE UNCHANGED <<live, active, shown>>
  BY <1>1
<1>2. ASSUME NEW d \in Directions, ClickRun(d) PROVE ProgressConsistent'
  BY <1>2 DEF ClickRun
<1>3. ASSUME NEW p \in Pairs, LaunchPair(p) PROVE ProgressConsistent'
  BY <1>3 DEF LaunchPair
<1>4. CASE EndLaunch
  <2>1. running /\ UNCHANGED <<active, live, cells>>
    BY <1>4 DEF EndLaunch, PhaseInv
  <2> QED
    BY <1>4, <2>1 DEF EndLaunch, Report, EveryPairAccounted
<1>5. CASE RecvReading
  <2>1. running /\ UNCHANGED <<active, cells>>
    BY <1>5 DEF RecvReading, PhaseInv
  <2>2. live' \subseteq active
    BY <1>5 DEF RecvReading, StillActive
  <2>3. CASE UNCHANGED shown
    BY <2>1, <2>2, <2>3
  <2>4. CASE Report
    BY <2>1, <2>2, <2>4 DEF Report, EveryPairAccounted
  <2> QED
    BY <1>5, <2>3, <2>4 DEF RecvReading
<1>6. CASE RecvResult
  BY <1>6 DEF RecvResult
<1>7. CASE ShowMatrix
  BY <1>7 DEF ShowMatrix, NoProgress, sched
<1>8. ASSUME NEW p \in Pairs, SkipPair(p) \/ EmitReading(p) \/ FinishTest(p)
      PROVE  ProgressConsistent'
  BY <1>1, <1>8 DEF SkipPair, EmitReading, FinishTest, sched
<1>9. CASE ClickStop \/ StartSweep \/ EndSweep
  BY <1>1, <1>9 DEF ClickStop, StartSweep, EndSweep, sched
<1>10. CASE UNCHANGED vars
  BY <1>1, <1>10 DEF vars, sched
<1> QED
  BY <1>2, <1>3, <1>4, <1>5, <1>6, <1>7, <1>8, <1>9, <1>10 DEF Next, Scheduler

\* SweepInv holds initially.
LEMMA SweepInit == Init => SweepInv
<1> SUFFICES ASSUME Init PROVE SweepInv
  OBVIOUS
<1>1. InFlightInv
  BY NothingSent, FS_EmptySet DEF Init, InFlightInv
<1>2. BusyInv /\ PassInv /\ PhaseInv /\ EveryPairAccounted
  BY DEF Init, BusyInv, PassInv, PhaseInv, EveryPairAccounted
<1>3. ProgressConsistent
  BY DEF Init, ProgressConsistent, NoProgress
<1> QED
  BY <1>1, <1>2, <1>3 DEF SweepInv

-----------------------------------------------------------------------------
(* The theorems. *)

\* The scheduler's bookkeeping agrees with its goroutines and channels in every
\* reachable state: the busy map, the counter, the queue and the channel.
THEOREM Bookkeeping == SafeSpec => []SweepInv
<1>1. TypeOK /\ SweepInv /\ [Next]_vars => SweepInv'
  BY InFlightInductive, BusyInductive, AccountedInductive, PassInductive, PhaseInductive,
     ProgressInductive DEF SweepInv
<1> QED
  BY <1>1, SweepInit, TypeInvariant, PTL DEF SafeSpec

\* No machine is ever an endpoint of two tests that run at the same moment.
THEOREM Exclusion == SafeSpec => []EndpointExclusive
<1>1. SweepInv => EndpointExclusive
  BY DEF SweepInv, InFlightInv, BusyInv, EndpointExclusive
<1> QED
  BY <1>1, Bookkeeping, PTL

\* A sweep nobody stopped never waits while a pair could run.
THEOREM WorkConserving == SafeSpec => []NoIdleCapacity
<1>1. SweepInv => NoIdleCapacity
  <2> SUFFICES ASSUME SweepInv, pc = "wait", ~cancelled, NEW p \in pending
               PROVE  \E q \in active : Collide(p, q)
    BY DEF NoIdleCapacity
  <2>1. p.from \in busy \/ p.to \in busy
    BY DEF SweepInv, PassInv, Blocked
  <2>2. PICK q \in active : p.from \in Ends(q) \/ p.to \in Ends(q)
    BY <2>1 DEF SweepInv, BusyInv
  <2> QED
    BY <2>2 DEF Collide, Ends
<1> QED
  BY <1>1, Bookkeeping, PTL

\* No pair of the mesh is lost or tested twice.
THEOREM Accounted == SafeSpec => []EveryPairAccounted
<1>1. SweepInv => EveryPairAccounted
  BY DEF SweepInv
<1> QED
  BY <1>1, Bookkeeping, PTL

\* What the user is shown never mixes finished pairs with pairs under test.
THEOREM Consistent == SafeSpec => []ProgressConsistent
<1>1. SweepInv => ProgressConsistent
  BY DEF SweepInv
<1> QED
  BY <1>1, Bookkeeping, PTL

\* A sweep is recorded or called completed only when every pair has a result.
THEOREM NoPartialRecord == SafeSpec => []OnlyCompleteSweepsCount
<1>1. SweepInv => OnlyCompleteSweepsCount
  BY DEF SweepInv, PhaseInv, OnlyCompleteSweepsCount
<1> QED
  BY <1>1, Bookkeeping, PTL

\* A sweep that is over has no test on any machine and no result unread, however
\* it ended.
THEOREM NothingLeft == SafeSpec => []SweepLeavesNothing
<1>1. TypeOK /\ SweepInv => SweepLeavesNothing
  <2> SUFFICES ASSUME TypeOK, SweepInv, ~running PROVE SweepLeavesNothing
    BY DEF SweepLeavesNothing
  <2>1. pc = "idle" /\ active = {}
    BY DEF SweepInv, PhaseInv
  <2>2. testing = {} /\ Sent(ch) = {}
    BY <2>1 DEF SweepInv, InFlightInv
  <2>3. ch \in Seq(Message) /\ SentOnce(ch)
    BY DEF SweepInv, InFlightInv, TypeOK, ChannelTypeOK
  <2>4. ch = <<>>
    BY <2>2, <2>3, ReceiveOne
  <2> QED
    BY <2>1, <2>2, <2>4 DEF SweepInv, PhaseInv, SweepLeavesNothing
<1> QED
  BY <1>1, Bookkeeping, TypeInvariant, PTL

\* The scheduler implements the abstract sweep: every step of it is a step of
\* SweepPlan or leaves the plan's state alone.
THEOREM Refinement == SafeSpec => ImplementsPlan
<1> DEFINE planned == <<pending, active, DOMAIN cells, cancelled, pc \in {"idle", "finish"},
                        recorded>>
<1>1. Init => Plan!Init
  BY EmptyValues DEF Init, Plan!Init
<1>2. TypeOK /\ SweepInv /\ [Next]_vars => [Plan!Next]_(Plan!vars)
  <2> SUFFICES ASSUME TypeOK, SweepInv, [Next]_vars PROVE Plan!Next \/ UNCHANGED planned
    BY DEF Plan!vars
  <2>1. ASSUME NEW d \in Directions, ClickRun(d) PROVE Plan!Begin
    <3>1. pc = "idle"
      BY <2>1 DEF ClickRun, SweepInv, PhaseInv
    <3> QED
      BY <2>1, <3>1, EmptyValues DEF ClickRun, Plan!Begin
  <2>2. ASSUME ClickStop PROVE Plan!Stop
    BY <2>2 DEF ClickStop, Plan!Stop, sched
  <2>3. ASSUME NEW p \in Pairs, LaunchPair(p) PROVE Plan!Start(p)
    <3>1. \A q \in active : ~Plan!Collide(p, q)
      BY <2>3 DEF LaunchPair, Blocked, Plan!Collide, SweepInv, BusyInv, Ends
    <3> QED
      BY <2>3, <3>1 DEF LaunchPair, NextPair, Unqueued, Plan!Start
  <2>4. ASSUME RecvResult PROVE \E p \in Pairs : Plan!Finish(p)
    <3> DEFINE p == Head(ch).pair
    <3>1. ch \in Seq(Message) /\ ch # <<>> /\ SentOnce(ch)
      BY <2>4 DEF RecvResult, SweepInv, InFlightInv, TypeOK, ChannelTypeOK
    <3>2. p \in active /\ p \in Pairs
      BY <3>1, ReceiveOne DEF SweepInv, InFlightInv, TypeOK, SchedTypeOK
    <3>3. /\ active' = active \ {p} /\ DOMAIN cells' = DOMAIN cells \cup {p}
          /\ UNCHANGED <<pending, cancelled, recorded>>
          /\ pc = "wait" /\ pc' \in {"report", "launch"}
      BY <2>4 DEF RecvResult, EnterLaunch
    <3> HIDE DEF p
    <3> QED
      BY <3>2, <3>3 DEF Plan!Finish
  <2>5. ASSUME EndSweep PROVE Plan!Close
    <3>1. /\ pc = "wait" /\ pc' = "finish" /\ inFlight = 0
          /\ UNCHANGED <<pending, cancelled, active, cells>>
          /\ recorded' \in {FALSE, ~cancelled}
      BY <2>5 DEF EndSweep, Drained, NotStopped, Summarised, sched
    <3>2. active = {}
      BY <3>1, FS_EmptySet DEF SweepInv, InFlightInv
    <3>3. cancelled \/ DOMAIN cells = Pairs
      BY <3>1, <3>2 DEF SweepInv, BusyInv, PassInv, Blocked, PhaseInv, EveryPairAccounted
    <3> QED
      BY <3>1, <3>2, <3>3 DEF Plan!Close
  <2>6. ASSUME NEW p \in Pairs, SkipPair(p) \/ EmitReading(p) \/ FinishTest(p)
        PROVE  UNCHANGED planned
    BY <2>6 DEF SkipPair, EmitReading, FinishTest, sched
  <2>7. ASSUME StartSweep \/ EndLaunch \/ RecvReading \/ ShowMatrix
        PROVE  UNCHANGED planned
    BY <2>7 DEF StartSweep, EnterLaunch, EndLaunch, RecvReading, ShowMatrix, sched
  <2>8. CASE UNCHANGED vars
    BY <2>8 DEF vars, sched
  <2> QED
    BY <2>1, <2>2, <2>3, <2>4, <2>5, <2>6, <2>7, <2>8 DEF Next, Scheduler, Plan!Next
<1> QED
  BY <1>1, <1>2, Bookkeeping, TypeInvariant, PTL DEF SafeSpec, ImplementsPlan, Plan!Spec
=============================================================================
