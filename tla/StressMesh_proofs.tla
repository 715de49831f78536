------------------------- MODULE StressMesh_proofs -------------------------
(***************************************************************************)
(* Theorems about the port plan of a full-mesh stress run, and about the   *)
(* runs and stops of the Tests tab, for a mesh of any size, any number of  *)
(* clicks, and any of the peers flaky.                                     *)
(***************************************************************************)
EXTENDS StressMesh, FiniteSetTheorems, TLAPS

\* The index of a client is its rank among the machines other than the target.
LEMMA ClientRank ==
  ASSUME NEW c \in Node, NEW t \in Node, c # t
  PROVE  ClientIndex(c, t) = IF c < t THEN c - 1 ELSE c - 2
<1>. DEFINE Earlier == 1..(c - 1)
<1>1. IsFiniteSet(Earlier) /\ Cardinality(Earlier) = c - 1
  BY FS_Interval, MeshAssumption DEF Node
<1>2. CASE c < t
  <2>1. {d \in Earlier : d # t} = Earlier
    BY <1>2, MeshAssumption DEF Node
  <2>. QED
    BY <2>1, <1>1, <1>2 DEF ClientIndex
<1>3. CASE t < c
  <2>1. t \in Earlier
    BY <1>3, MeshAssumption DEF Node
  <2>2. {d \in Earlier : d # t} = Earlier \ {t}
    OBVIOUS
  <2>3. Cardinality(Earlier \ {t}) = Cardinality(Earlier) - 1
    BY <2>1, <1>1, FS_RemoveElement
  <2>4. c - 1 - 1 = c - 2 /\ ~(c < t)
    BY <1>3, MeshAssumption DEF Node
  <2>. QED
    BY <2>2, <2>3, <2>4, <1>1 DEF ClientIndex
<1>. QED
  BY <1>2, <1>3, MeshAssumption DEF Node

\* No machine loses a target to the limit of sanitizeTargets in a mesh of up to
\* one machine more than the limit.
LEMMA NothingCut ==
  ASSUME N =< StressMaxTargets + 1, NEW c \in Node, NEW t \in Node \ {c}
  PROVE  t \in Targets(c)
<1>. DEFINE Earlier == 1..(t - 1)
<1>0. t \in Node /\ t \in Int /\ 1 =< t
  BY MeshAssumption DEF Node
<1>1. IsFiniteSet(Earlier) /\ Cardinality(Earlier) = t - 1
  BY <1>0, FS_Interval
<1>2. Cardinality({s \in Earlier : s # c}) < StressMaxTargets
  <2>1. CASE c < t
    <3>1. c \in Earlier
      BY <2>1, MeshAssumption DEF Node
    <3>2. {s \in Earlier : s # c} = Earlier \ {c}
      OBVIOUS
    <3>3. Cardinality(Earlier \ {c}) = Cardinality(Earlier) - 1
      BY <3>1, <1>1, FS_RemoveElement
    <3>4. t - 1 - 1 < StressMaxTargets
      BY MeshAssumption, MaxTargetsAssumption DEF Node
    <3>. QED
      BY <3>2, <3>3, <3>4, <1>1
  <2>2. CASE t < c
    <3>1. {s \in Earlier : s # c} = Earlier
      BY <2>2, MeshAssumption DEF Node
    <3>2. t - 1 < StressMaxTargets
      BY <2>2, MeshAssumption, MaxTargetsAssumption DEF Node
    <3>. QED
      BY <3>1, <3>2, <1>1
  <2>3. c < t \/ t < c
    BY MeshAssumption DEF Node
  <2>. QED
    BY <2>1, <2>2, <2>3
<1>. QED
  BY <1>2 DEF Targets

\* In a mesh that speaks target_ports and is within the limits, every machine
\* loads every other, no two clients share a port of one target, and each port
\* dialled is one the target serves: meshAssignments and the two sanitisers
\* agree although they run on different machines.
THEOREM PortsFit ==
  ASSUME UsePorts, N =< StressMaxTargets + 1,
         NEW t \in Node, NEW c \in Node \ {t}
  PROVE  /\ t \in Targets(c)
         /\ TargetPort(c, t) \in ServedPorts(t)
         /\ \A d \in Node \ {t} : d # c => TargetPort(c, t) # TargetPort(d, t)
<1>1. t \in Targets(c)
  BY NothingCut
<1>2. \A d \in Node \ {t} : TargetPort(d, t) = IF d < t THEN d - 1 ELSE d - 2
  BY ClientRank, MeshAssumption DEF TargetPort, DefaultServerPort, Node
<1>3. TargetPort(c, t) \in 0..StressMaxTargets
  BY <1>2, MeshAssumption, MaxTargetsAssumption DEF Node
<1>4. TargetPort(c, t) \in ServedPorts(t)
  BY <1>3, MaxTargetsAssumption DEF ServedPorts, ListenPorts, DefaultServerPort
<1>5. ASSUME NEW d \in Node \ {t}, d # c
      PROVE  TargetPort(c, t) # TargetPort(d, t)
  BY <1>2, <1>5, MeshAssumption DEF Node
<1>. QED
  BY <1>1, <1>4, <1>5

-----------------------------------------------------------------------------
(* The tab.  The runs' generations grow with them, so that the one that is   *)
(* current while the tab is on is that of the latest run.                    *)

StopRec == [pc: {"none", "posting", "done"}, todo: SUBSET Node,
            missed: SUBSET Node, last: Run \cup {Nobody}]

Generations ==
  /\ \A k \in Run : (pc[k] # "none" => k =< starts) /\ (k =< starts => own[k] =< gen)
  /\ \A k, l \in Run : k < l /\ l =< starts => own[k] < own[l]
  /\ on => starts \in Run /\ own[starts] = gen

TabInv == TypeOK /\ Generations /\ ShownIsCurrent

LEMMA TypeInit == Init => TypeOK
<1> USE BoundsAssumption, SelfAssumption
<1> SUFFICES ASSUME Init PROVE TypeOK
  OBVIOUS
<1>1. [pc |-> "none", todo |-> {}, missed |-> {}, last |-> Nobody] \in StopRec
  BY DEF StopRec
<1>2. stopper \in [Stop -> StopRec]
  BY <1>1 DEF Init
<1>3. node \in [Node -> [run: Run \cup {Nobody}, phase: RunPhase]]
  BY DEF Init, Free, RunPhase
<1>4. starts \in 0..MaxStarts /\ stops \in 0..MaxStops
  BY DEF Init
<1>5. net = {} /\ recorded = {}
  BY DEF Init
<1> QED
  BY <1>2, <1>3, <1>4, <1>5 DEF Init, TypeOK, StopRec, Nobody

LEMMA TypeNext == TypeOK /\ [Next]_vars => TypeOK'
<1> USE BoundsAssumption, SelfAssumption
<1> SUFFICES ASSUME TypeOK, [Next]_vars PROVE TypeOK'
  OBVIOUS
<1> DEFINE NodeRec == [run: Run \cup {Nobody}, phase: RunPhase]
           Msg == [kind: {"start"}, id: Run, to: Node] \cup [kind: {"stop"}, id: Stop, to: Node]
<1>0. /\ node \in [Node -> NodeRec] /\ stopper \in [Stop -> StopRec]
      /\ starts \in Nat /\ stops \in Nat
  BY DEF TypeOK, StopRec
<1>1. ASSUME NEW k \in Run, NEW n \in Node, Starts(k, n) PROVE node' \in [Node -> NodeRec]
  <2>1. [run |-> k, phase |-> "loads"] \in NodeRec
    BY DEF RunPhase
  <2> QED
    BY <1>0, <1>1, <2>1 DEF Starts
<1>2. ASSUME NEW n \in Node, Stops(n) PROVE node' \in [Node -> NodeRec]
  <2>1. [node[n] EXCEPT !.phase = "ends"] \in NodeRec
    BY <1>0 DEF RunPhase
  <2> QED
    BY <1>0, <1>2, <2>1 DEF Stops
<1>3. ASSUME NEW j \in Stop, NEW q \in StopRec, stopper' = [stopper EXCEPT ![j] = q]
      PROVE  stopper' \in [Stop -> StopRec]
  BY <1>0, <1>3
<1>4. ClickStart => TypeOK'
  <2> SUFFICES ASSUME ClickStart PROVE TypeOK'
    OBVIOUS
  <2>1. starts + 1 \in Run
    BY <1>0 DEF ClickStart, Run
  <2> QED
    BY <2>1 DEF ClickStart, TypeOK, Run
<1>5. ASSUME NEW k \in Run, NEW n \in Node, CallStart(k, n) PROVE TypeOK'
  BY <1>1, <1>5 DEF CallStart, TurnStart, TypeOK, tab
<1>6. ASSUME NEW k \in Run, NEW n \in Node, GiveUpStart(k, n) PROVE TypeOK'
  <2>1. StartRequest(k, n) \in Msg
    BY DEF Request, StartRequest, StopRequest
  <2>2. net' \subseteq Msg
    BY <1>6, <2>1 DEF GiveUpStart, TypeOK
  <2>3. node' \in [Node -> NodeRec]
    BY <1>0, <1>1, <1>6 DEF GiveUpStart
  <2> HIDE DEF Msg
  <2>4. /\ missed' \in [Run -> SUBSET Node] /\ todo' \in [Run -> SUBSET Node]
    BY <1>6 DEF GiveUpStart, TurnStart, TypeOK
  <2> USE DEF Msg
  <2> QED
    BY <1>6, <2>2, <2>3, <2>4 DEF GiveUpStart, TurnStart, TypeOK, tab
<1>7. ASSUME NEW k \in Run, NEW n \in Node, LateStart(k, n) PROVE TypeOK'
  BY <1>1, <1>7 DEF LateStart, TypeOK, tab, fan
<1>8. ASSUME NEW k \in Run, EndFanout(k) PROVE TypeOK'
  BY <1>8 DEF EndFanout, SwitchOff, TypeOK
<1>9. ASSUME NEW k \in Run, BeginPoll(k) PROVE TypeOK'
  <2>1. /\ todo' \in [Run -> SUBSET Node] /\ reached' \in [Run -> SUBSET Node]
        /\ loaded' \in [Run -> BOOLEAN]
    <3>1. CASE on /\ Current(k)
      <4>1. /\ todo' = [todo EXCEPT ![k] = Node] /\ reached' = [reached EXCEPT ![k] = {}]
            /\ loaded' = [loaded EXCEPT ![k] = FALSE]
        BY <1>9, <3>1 DEF BeginPoll
      <4> QED
        BY <4>1 DEF TypeOK
    <3>2. CASE ~(on /\ Current(k))
      BY <1>9, <3>2 DEF BeginPoll, TypeOK
    <3> QED
      BY <3>1, <3>2
  <2>2. pc' \in [Run -> {"none", "fanout", "head", "poll", "record", "done"}]
    BY <1>9 DEF BeginPoll, TypeOK
  <2> QED
    BY <1>9, <2>1, <2>2 DEF BeginPoll, TypeOK, tab
<1>10. ASSUME NEW k \in Run, NEW n \in Node, PollNode(k, n) PROVE TypeOK'
  <2>1. /\ todo' \in [Run -> SUBSET Node] /\ reached' \in [Run -> SUBSET Node]
    BY <1>10 DEF PollNode, TypeOK
  <2>2. StillLoaded(k, n) \in BOOLEAN
    <3>1. loaded[k] \in BOOLEAN
      BY DEF TypeOK
    <3> QED
      BY <3>1, Z3 DEF StillLoaded, Running
  <2>3. loaded' \in [Run -> BOOLEAN]
    BY <1>10, <2>2 DEF PollNode, TypeOK
  <2> QED
    BY <1>10, <2>1, <2>3 DEF PollNode, TypeOK, tab
<1>11. ASSUME NEW k \in Run, EndPoll(k) PROVE TypeOK'
  BY <1>11 DEF EndPoll, TypeOK
<1>12. ASSUME NEW k \in Run, RecordRun(k) PROVE TypeOK'
  BY <1>12 DEF RecordRun, TypeOK, tab
<1>13. ClickStop => TypeOK'
  <2> SUFFICES ASSUME ClickStop PROVE TypeOK'
    OBVIOUS
  <2>1. stops + 1 \in Stop
    BY <1>0 DEF ClickStop, Stop
  <2>2. [stopper[stops + 1] EXCEPT !.pc = "posting", !.todo = StopSet, !.last = starts] \in StopRec
    <3>1. starts \in Run \cup {Nobody} /\ stopper[stops + 1] \in StopRec
      BY <1>0, <2>1 DEF TypeOK, Run, Nobody
    <3> QED
      BY <3>1 DEF StopRec, StopSet
  <2>3. stopper' \in [Stop -> StopRec]
    BY <1>0, <2>1, <2>2 DEF ClickStop
  <2> QED
    <3>1. stops' \in 0..MaxStops
      BY <1>0, <2>1 DEF ClickStop, Stop
    <3>2. gen' \in Nat
      BY DEF ClickStop, TypeOK
    <3>4. on' = FALSE
      BY DEF ClickStop
    <3>3. UNCHANGED <<starts, shown, fan, node, net, recorded>>
      BY DEF ClickStop
    <3> QED
      BY <2>3, <3>1, <3>2, <3>3, <3>4 DEF TypeOK, StopRec, fan
<1>14. ASSUME NEW j \in Stop, NEW n \in Node, CallStop(j, n) PROVE TypeOK'
  <2>1. [stopper[j] EXCEPT !.todo = @ \ {n}] \in StopRec
    BY <1>0 DEF StopRec
  <2>2. stopper' \in [Stop -> StopRec]
    BY <1>0, <1>14, <2>1 DEF CallStop
  <2> QED
    BY <1>2, <1>14, <2>2 DEF CallStop, TurnStop, TypeOK, StopRec, tab, fan
<1>15. ASSUME NEW j \in Stop, NEW n \in Node, GiveUpStop(j, n) PROVE TypeOK'
  <2>1. [stopper[j] EXCEPT !.todo = @ \ {n}, !.missed = @ \cup {n}] \in StopRec
    BY <1>0 DEF StopRec
  <2>2. stopper' \in [Stop -> StopRec]
    BY <1>0, <1>15, <2>1 DEF GiveUpStop
  <2>3. StopRequest(j, n) \in Msg
    BY DEF Request, StartRequest, StopRequest
  <2>4. net' \subseteq Msg
    BY <1>15, <2>3 DEF GiveUpStop, TypeOK
  <2>5. node' \in [Node -> NodeRec]
    BY <1>0, <1>2, <1>15 DEF GiveUpStop
  <2> QED
    BY <1>15, <2>2, <2>4, <2>5 DEF GiveUpStop, TurnStop, TypeOK, StopRec, tab, fan
<1>16. ASSUME NEW j \in Stop, NEW n \in Node, LateStop(j, n) PROVE TypeOK'
  BY <1>2, <1>16 DEF LateStop, TypeOK, tab, fan
<1>17. ASSUME NEW j \in Stop, EndStop(j) PROVE TypeOK'
  <2>1. [stopper[j] EXCEPT !.pc = "done"] \in StopRec
    BY <1>0 DEF StopRec
  <2>2. stopper' \in [Stop -> StopRec]
    BY <1>0, <1>17, <2>1 DEF EndStop
  <2> QED
    BY <1>17, <2>2 DEF EndStop, TypeOK, StopRec, tab, fan
<1>18. ASSUME NEW n \in Node, TimeOver(n) \/ WoundDown(n) PROVE TypeOK'
  <2>1. Free \in NodeRec /\ [node[n] EXCEPT !.phase = "ends"] \in NodeRec
    BY <1>0 DEF Free, RunPhase
  <2>2. node' \in [Node -> NodeRec]
    BY <1>0, <1>18, <2>1 DEF TimeOver, WoundDown
  <2> QED
    BY <1>18, <2>2 DEF TimeOver, WoundDown, TypeOK, tab, fan
<1>19. CASE UNCHANGED vars
  BY <1>19 DEF vars, tab, fan, TypeOK
<1> QED
  BY <1>4, <1>5, <1>6, <1>7, <1>8, <1>9, <1>10, <1>11, <1>12, <1>13, <1>14, <1>15,
     <1>16, <1>17, <1>18, <1>19 DEF Next, Orchestrator, Stopping


LEMMA CurrentIsLatest ==
  ASSUME TabInv, on, NEW k \in Run, Current(k), pc[k] # "none"
  PROVE  k = starts
<1>1. k =< starts /\ starts \in Run /\ own[starts] = own[k]
  BY DEF TabInv, Generations, Current
<1>2. own[k] \in Nat /\ k \in Nat /\ starts \in Nat
  BY <1>1 DEF TabInv, TypeOK, Run
<1>3. k < starts => own[k] < own[starts]
  BY <1>1, <1>2 DEF TabInv, Generations
<1> QED
  BY <1>1, <1>2, <1>3

LEMMA TabNext == TabInv /\ [Next]_vars => (Generations /\ ShownIsCurrent)'
<1> USE BoundsAssumption
<1> SUFFICES ASSUME TabInv, [Next]_vars PROVE Generations' /\ ShownIsCurrent'
  OBVIOUS
<1>0. TypeOK /\ starts \in Nat /\ Run \subseteq Nat /\ gen \in Nat
      /\ Generations /\ ShownIsCurrent
  BY DEF TabInv, TypeOK, Run
<1>1. CASE ClickStart
  <2> DEFINE new == starts + 1
  <2>1. new \in Run /\ new # Nobody /\ on' = TRUE /\ starts' = new /\ gen' = gen + 1 /\ shown' = Nobody
    BY <1>0, <1>1 DEF ClickStart, Run, Nobody
  <2>2. \A l \in Run : /\ pc'[l] = IF l = new THEN "fanout" ELSE pc[l]
                       /\ own'[l] = IF l = new THEN gen + 1 ELSE own[l]
    BY <1>0, <1>1, <2>1 DEF ClickStart, TypeOK
  <2>3. \A l \in Run : own[l] \in Nat /\ (l =< starts => own[l] =< gen)
    <3> SUFFICES ASSUME NEW l \in Run PROVE own[l] \in Nat /\ (l =< starts => own[l] =< gen)
      OBVIOUS
    <3> QED
      BY <1>0, <1>1 DEF ClickStart, TypeOK, Generations
  <2> QED
    BY <1>0, <2>1, <2>2, <2>3 DEF Generations, ShownIsCurrent
<1>2. CASE ClickStop
  <2>1. /\ on' = FALSE /\ gen' = gen + 1
        /\ UNCHANGED <<starts, pc, own>>
    BY <1>2 DEF ClickStop, fan
  <2>2. \A l \in Run : own[l] \in Nat
    BY <1>0 DEF TypeOK
  <2> QED
    BY <1>0, <2>1, <2>2 DEF Generations, ShownIsCurrent
<1>3. ASSUME NEW k \in Run, EndFanout(k) \/ EndPoll(k)
      PROVE  Generations' /\ ShownIsCurrent'
  <2>1. /\ on' => on
        /\ \A l \in Run : pc[l] = "none" => pc'[l] = "none"
        /\ UNCHANGED <<gen, starts, own>>
    BY <1>0, <1>3 DEF EndFanout, EndPoll, SwitchOff, TypeOK
  <2>2. Generations'
    BY <1>0, <2>1 DEF Generations
  <2>3. UNCHANGED shown \/ (shown' = k /\ Current(k) /\ pc[k] # "none")
    BY <1>3 DEF EndFanout, EndPoll
  <2>4. ShownIsCurrent'
    BY <1>0, <2>1, <2>3, CurrentIsLatest DEF ShownIsCurrent
  <2> QED
    BY <2>2, <2>4
<1>4. ASSUME NEW k \in Run, BeginPoll(k) \/ RecordRun(k)
      PROVE  Generations' /\ ShownIsCurrent'
  <2>1. /\ \A l \in Run : pc[l] = "none" => pc'[l] = "none"
        /\ UNCHANGED <<tab, own>>
    BY <1>0, <1>4 DEF BeginPoll, RecordRun, TypeOK
  <2> QED
    BY <1>0, <2>1 DEF Generations, ShownIsCurrent, tab
<1>5. ASSUME UNCHANGED <<tab, pc, own>> PROVE Generations' /\ ShownIsCurrent'
  BY <1>0, <1>5 DEF Generations, ShownIsCurrent, tab
<1>6. ASSUME NEW k \in Run, NEW n \in Node,
             CallStart(k, n) \/ GiveUpStart(k, n) \/ PollNode(k, n) \/ LateStart(k, n)
      PROVE  UNCHANGED <<tab, pc, own>>
  BY <1>6 DEF CallStart, GiveUpStart, TurnStart, PollNode, LateStart, fan
<1>7. ASSUME NEW j \in Stop, NEW n \in Node,
             CallStop(j, n) \/ GiveUpStop(j, n) \/ LateStop(j, n) \/ EndStop(j)
      PROVE  UNCHANGED <<tab, pc, own>>
  BY <1>7 DEF CallStop, GiveUpStop, TurnStop, LateStop, EndStop, fan
<1>8. ASSUME NEW n \in Node, TimeOver(n) \/ WoundDown(n)
      PROVE  UNCHANGED <<tab, pc, own>>
  BY <1>8 DEF TimeOver, WoundDown, fan
<1>10. ASSUME NEW j \in Stop, EndStop(j) PROVE UNCHANGED <<tab, pc, own>>
  BY <1>10 DEF EndStop, fan
<1>9. CASE UNCHANGED vars
  BY <1>5, <1>9 DEF vars, tab, fan
<1> QED
  BY <1>1, <1>2, <1>3, <1>4, <1>5, <1>6, <1>7, <1>8, <1>9, <1>10
  DEF Next, Orchestrator, Stopping

THEOREM TabInvariant == SafeSpec => []TabInv
<1>1. Init => TabInv
  <2>1. Init => Generations /\ ShownIsCurrent
    BY BoundsAssumption DEF Init, Generations, ShownIsCurrent, Run, Nobody
  <2> QED
    BY <2>1, TypeInit DEF TabInv
<1>2. TabInv /\ [Next]_vars => TabInv'
  BY TypeNext, TabNext DEF TabInv
<1> QED
  BY <1>1, <1>2, PTL DEF SafeSpec

\* Every variable keeps its type.
THEOREM TypeInvariant == SafeSpec => []TypeOK
BY TabInvariant, PTL DEF TabInv

\* While a run is on, the tab shows nothing or what that run polled: a poll that
\* was under way when the user moved on never overwrites it (ui.go, stressGen).
THEOREM ShownNeverStale == SafeSpec => []ShownIsCurrent
BY TabInvariant, PTL DEF TabInv

\* The tab leaves a run only for a cause of that run's own (ui.go).
THEOREM LeavesForCause == SafeSpec => LeftForCause
<1> DEFINE Cause ==
      on /\ ~on' =>
        \/ stops' = stops + 1
        \/ pc[starts] = "fanout" /\ todo[starts] = {} /\ accepted[starts] = {}
        \/ pc[starts] = "poll" /\ todo[starts] = {} /\ ~loaded[starts]
<1>1. ASSUME TabInv, [Next]_vars PROVE [Cause]_vars
  <2> SUFFICES ASSUME on, ~on' PROVE Cause
    BY DEF Cause
  <2>1. CASE ClickStop
    BY <2>1 DEF ClickStop
  <2>2. ASSUME NEW k \in Run, EndFanout(k) \/ EndPoll(k) PROVE Cause
    <3>1. Current(k) /\ pc[k] # "none"
      BY <2>2 DEF EndFanout, EndPoll
    <3>2. k = starts
      BY <1>1, <3>1, CurrentIsLatest
    <3> QED
      BY <2>2, <3>2 DEF EndFanout, EndPoll
  <2>3. ASSUME UNCHANGED on PROVE FALSE
    BY <2>3
  <2>4. ASSUME NEW k \in Run, NEW n \in Node,
               \/ CallStart(k, n) \/ GiveUpStart(k, n) \/ PollNode(k, n)
               \/ LateStart(k, n) \/ BeginPoll(k) \/ RecordRun(k)
        PROVE  UNCHANGED on
    BY <2>4 DEF CallStart, GiveUpStart, TurnStart, PollNode, LateStart, BeginPoll,
                RecordRun, tab
  <2>5. ASSUME NEW j \in Stop, NEW n \in Node,
               CallStop(j, n) \/ GiveUpStop(j, n) \/ LateStop(j, n)
        PROVE  UNCHANGED on
    BY <2>5 DEF CallStop, GiveUpStop, TurnStop, LateStop, tab
  <2>6. ASSUME NEW j \in Stop, EndStop(j) PROVE UNCHANGED on
    BY <2>6 DEF EndStop, tab
  <2>7. ASSUME NEW n \in Node, TimeOver(n) \/ WoundDown(n) PROVE UNCHANGED on
    BY <2>7 DEF TimeOver, WoundDown, tab
  <2>8. CASE ClickStart
    BY <2>8 DEF ClickStart
  <2>9. ASSUME NEW k \in Run, BeginPoll(k) \/ RecordRun(k) PROVE UNCHANGED on
    BY <2>9 DEF BeginPoll, RecordRun, tab
  <2>10. CASE UNCHANGED vars
    BY <2>10 DEF vars, tab
  <2> QED
    BY <1>1, <2>1, <2>2, <2>3, <2>4, <2>5, <2>6, <2>7, <2>8, <2>9, <2>10
    DEF Next, Orchestrator, Stopping
<1> QED
  BY <1>1, TabInvariant, PTL DEF SafeSpec, LeftForCause


-----------------------------------------------------------------------------
(* Stops.  A stop clicked after the fan-out of every run it is meant for     *)
(* finds no call of theirs still to be made; one that is late belongs to a   *)
(* start that had no answer.                                                 *)

Late == \A k \in Run, n \in Node : StartRequest(k, n) \in net => n \in missed[k]

FannedOut ==
  /\ \A k \in Run : pc[k] = "fanout" => k = starts /\ on
  /\ \A j \in Stop : /\ stopper[j].last =< starts
                     /\ \A k \in 1..stopper[j].last : k \in Run /\ pc[k] # "fanout"

Halted(j, n) == \A k \in 1..stopper[j].last : missed[k] = {} => ~Loads(n, k)

AllHalted == \A j \in Stop, n \in Node :
  stopper[j].pc # "none" /\ n \notin stopper[j].todo \cup stopper[j].missed => Halted(j, n)

AllCalled == \A j \in Stop : stopper[j].pc = "done" => stopper[j].todo = {}

StopInv == Late /\ FannedOut /\ AllHalted /\ AllCalled

LEMMA RequestsDiffer ==
  ASSUME NEW k, NEW n, NEW l, NEW m
  PROVE  /\ StartRequest(k, n) = StartRequest(l, m) => k = l /\ n = m
         /\ StartRequest(k, n) # StopRequest(l, m)
BY DEF Request, StartRequest, StopRequest

LEMMA LateNext == TypeOK /\ Late /\ [Next]_vars => Late'
<1> SUFFICES ASSUME TypeOK, Late, [Next]_vars PROVE Late'
  OBVIOUS
<1>1. ASSUME NEW k \in Run, NEW n \in Node, GiveUpStart(k, n) PROVE Late'
  <2>1. \A l \in Run : missed[l] \subseteq missed'[l]
    BY <1>1 DEF GiveUpStart, TypeOK
  <2>2. n \in missed'[k]
    BY <1>1 DEF GiveUpStart, TypeOK
  <2>3. net' \subseteq net \cup {StartRequest(k, n)}
    BY <1>1 DEF GiveUpStart
  <2> QED
    BY <2>1, <2>2, <2>3, RequestsDiffer DEF Late
<1>2. ASSUME NEW j \in Stop, NEW n \in Node, GiveUpStop(j, n) PROVE Late'
  <2>1. net' \subseteq net \cup {StopRequest(j, n)} /\ UNCHANGED missed
    BY <1>2 DEF GiveUpStop, TurnStop, fan
  <2> QED
    BY <2>1, RequestsDiffer DEF Late
<1>3. ASSUME net' \subseteq net, UNCHANGED missed PROVE Late'
  BY <1>3 DEF Late
<1>4. ASSUME NEW k \in Run, NEW n \in Node,
             \/ CallStart(k, n) \/ PollNode(k, n) \/ LateStart(k, n)
      PROVE  net' \subseteq net /\ UNCHANGED missed
  BY <1>4 DEF CallStart, PollNode, LateStart, fan
<1>5. ASSUME NEW k \in Run, EndFanout(k) \/ BeginPoll(k) \/ EndPoll(k) \/ RecordRun(k)
      PROVE  net' \subseteq net /\ UNCHANGED missed
  BY <1>5 DEF EndFanout, BeginPoll, EndPoll, RecordRun
<1>6. ASSUME NEW j \in Stop, NEW n \in Node, CallStop(j, n) \/ LateStop(j, n)
      PROVE  net' \subseteq net /\ UNCHANGED missed
  BY <1>6 DEF CallStop, TurnStop, LateStop, fan
<1>7. ASSUME NEW j \in Stop, EndStop(j) PROVE net' \subseteq net /\ UNCHANGED missed
  BY <1>7 DEF EndStop, fan
<1>8. ASSUME NEW n \in Node, TimeOver(n) \/ WoundDown(n)
      PROVE  net' \subseteq net /\ UNCHANGED missed
  BY <1>8 DEF TimeOver, WoundDown, fan
<1>9. CASE ClickStart \/ ClickStop
  BY <1>3, <1>9 DEF ClickStart, ClickStop, fan
<1>10. CASE UNCHANGED vars
  BY <1>3, <1>10 DEF vars, fan
<1> QED
  BY <1>1, <1>2, <1>3, <1>4, <1>5, <1>6, <1>7, <1>8, <1>9, <1>10
  DEF Next, Orchestrator, Stopping

LEMMA FannedOutNext ==
  QuietStop /\ TabInv /\ FannedOut /\ [Next]_vars => FannedOut'
<1> USE BoundsAssumption
<1> SUFFICES ASSUME QuietStop, TabInv, FannedOut, [Next]_vars PROVE FannedOut'
  OBVIOUS
<1>0. TypeOK /\ starts \in Nat /\ Run \subseteq Nat
      /\ \A j \in Stop : stopper[j].last \in Nat
  <2>1. stopper \in [Stop -> StopRec]
    BY DEF TabInv, TypeOK, StopRec
  <2>2. \A j \in Stop : stopper[j].last \in Nat
    BY <2>1 DEF StopRec, Run, Nobody
  <2> QED
    BY <2>2 DEF TabInv, TypeOK, Run
<1>1. CASE ClickStart
  <2>1. \A k \in Run : pc[k] # "fanout"
    BY <1>1 DEF ClickStart, FannedOut
  <2>2. /\ starts' = starts + 1 /\ on' /\ UNCHANGED stopper
        /\ \A k \in Run : pc'[k] = IF k = starts + 1 THEN "fanout" ELSE pc[k]
    BY <1>0, <1>1 DEF ClickStart, TypeOK
  <2>3. \A k \in Run : pc'[k] = "fanout" => k = starts' /\ on'
    BY <2>1, <2>2
  <2>4. ASSUME NEW j \in Stop, NEW k \in 1..stopper[j].last
        PROVE  k \in Run /\ pc'[k] # "fanout"
    <3>1. k \in Run /\ pc[k] # "fanout" /\ stopper[j].last =< starts
      BY DEF FannedOut
    <3>2. k # starts + 1
      BY <1>0, <3>1
    <3> QED
      BY <2>2, <3>1, <3>2
  <2>5. \A j \in Stop : stopper[j].last =< starts'
    <3>1. \A j \in Stop : stopper[j].last =< starts
      BY DEF FannedOut
    <3> QED
      BY <1>0, <2>2, <3>1
  <2> QED
    BY <2>2, <2>3, <2>4, <2>5 DEF FannedOut
<1>2. CASE ClickStop
  <2>1. \A k \in Run : pc[k] # "fanout"
    BY <1>2 DEF ClickStop, FannedOut
  <2>2. UNCHANGED <<pc, starts>> /\ starts \in Run /\ stops + 1 \in Stop
    BY <1>0, <1>2 DEF ClickStop, fan, TabInv, Generations, TypeOK, Stop
  <2>3. \A j \in Stop : stopper'[j].last = IF j = stops + 1 THEN starts ELSE stopper[j].last
    BY <1>0, <1>2 DEF ClickStop, TypeOK
  <2>4. 1..starts \subseteq Run
    BY <2>2 DEF Run
  <2>5. \A k \in Run : pc'[k] # "fanout"
    BY <2>1, <2>2
  <2>6. ASSUME NEW j \in Stop
        PROVE  /\ stopper'[j].last =< starts
               /\ \A k \in 1..stopper'[j].last : k \in Run
    <3>1. CASE j = stops + 1
      BY <1>0, <2>3, <2>4, <3>1
    <3>2. CASE j # stops + 1
      BY <2>3, <3>2 DEF FannedOut
    <3> QED
      BY <3>1, <3>2
  <2> QED
    BY <2>2, <2>5, <2>6 DEF FannedOut
<1>3. ASSUME NEW k \in Run, EndFanout(k) \/ EndPoll(k) PROVE FannedOut'
  <2>1. /\ UNCHANGED <<starts, stopper>>
        /\ \A l \in Run : pc'[l] = "fanout" => pc[l] = "fanout" /\ l # k
    BY <1>0, <1>3 DEF EndFanout, EndPoll, TypeOK
  <2>2. on /\ ~on' => k = starts
    <3>1. on /\ ~on' => Current(k) /\ pc[k] # "none"
      BY <1>3 DEF EndFanout, EndPoll
    <3> QED
      BY <3>1, CurrentIsLatest
  <2> QED
    BY <2>1, <2>2 DEF FannedOut
<1>4. ASSUME UNCHANGED <<on, starts>>,
             \A l \in Run : pc'[l] = "fanout" => pc[l] = "fanout",
             \A j \in Stop : stopper'[j].last = stopper[j].last
      PROVE  FannedOut'
  BY <1>4 DEF FannedOut
<1>5. ASSUME NEW k \in Run, BeginPoll(k) \/ RecordRun(k) PROVE FannedOut'
  BY <1>0, <1>4, <1>5 DEF BeginPoll, RecordRun, TypeOK, tab
<1>6. ASSUME NEW k \in Run, NEW n \in Node,
             CallStart(k, n) \/ GiveUpStart(k, n) \/ PollNode(k, n) \/ LateStart(k, n)
      PROVE  FannedOut'
  <2>1. UNCHANGED <<on, starts, pc, stopper>>
    BY <1>6 DEF CallStart, GiveUpStart, TurnStart, PollNode, LateStart, tab, fan
  <2> QED
    BY <1>4, <2>1
<1>7. ASSUME NEW j \in Stop, NEW n \in Node,
             CallStop(j, n) \/ GiveUpStop(j, n) \/ LateStop(j, n)
      PROVE  FannedOut'
  <2>1. UNCHANGED <<on, starts, pc>>
    BY <1>7 DEF CallStop, GiveUpStop, TurnStop, LateStop, tab, fan
  <2>2. \A i \in Stop : stopper'[i].last = stopper[i].last
    BY <1>0, <1>7 DEF CallStop, GiveUpStop, LateStop, TypeOK
  <2> QED
    BY <1>4, <2>1, <2>2
<1>8. ASSUME NEW j \in Stop, EndStop(j) PROVE FannedOut'
  <2>1. UNCHANGED <<on, starts, pc>>
    BY <1>8 DEF EndStop, tab, fan
  <2>2. \A i \in Stop : stopper'[i].last = stopper[i].last
    BY <1>0, <1>8 DEF EndStop, TypeOK
  <2> QED
    BY <1>4, <2>1, <2>2
<1>9. ASSUME NEW n \in Node, TimeOver(n) \/ WoundDown(n) PROVE FannedOut'
  BY <1>4, <1>9 DEF TimeOver, WoundDown, tab, fan
<1>10. CASE UNCHANGED vars
  BY <1>4, <1>10 DEF vars, tab, fan
<1> QED
  BY <1>1, <1>2, <1>3, <1>5, <1>6, <1>7, <1>8, <1>9, <1>10 DEF Next, Orchestrator, Stopping


LEMMA HaltedNext ==
  TypeOK /\ Late /\ FannedOut /\ AllHalted /\ AllCalled /\ [Next]_vars
    => AllHalted' /\ AllCalled'
<1> SUFFICES ASSUME TypeOK, Late, FannedOut, AllHalted, AllCalled, [Next]_vars
             PROVE  AllHalted' /\ AllCalled'
  OBVIOUS
<1>0. /\ stopper \in [Stop -> StopRec]
      /\ node \in [Node -> [run : Run \cup {Nobody}, phase : RunPhase]]
      /\ missed \in [Run -> SUBSET Node]
      /\ \A j \in Stop : 1..stopper[j].last \subseteq Run
  <2>1. \A j \in Stop : 1..stopper[j].last \subseteq Run
    BY DEF FannedOut
  <2> QED
    BY <2>1 DEF TypeOK, StopRec
\* A step that gives no machine a run of before the stop, and that moves no stop.
<1>1. ASSUME UNCHANGED stopper,
             \A j \in Stop, n \in Node, k \in Run : k \in 1..stopper[j].last =>
               (Loads(n, k)' /\ missed'[k] = {} => Loads(n, k) /\ missed[k] = {})
      PROVE  AllHalted' /\ AllCalled'
  BY <1>0, <1>1 DEF AllHalted, Halted, AllCalled
<1>2. ASSUME NEW k \in Run, NEW n \in Node, Starts(k, n)
      PROVE  \A m \in Node, l \in Run : Loads(m, l)' => Loads(m, l) \/ (l = k /\ m = n)
  BY <1>0, <1>2 DEF Starts, Loads
<1>3. ASSUME NEW n \in Node, Stops(n)
      PROVE  \A m \in Node, l \in Run : Loads(m, l)' => Loads(m, l) /\ m # n
  <2> SUFFICES ASSUME NEW m \in Node, NEW l \in Run, Loads(m, l)'
               PROVE  Loads(m, l) /\ m # n
    OBVIOUS
  <2>1. node'[m].phase = "loads"
    BY DEF Loads
  <2>2. m # n
    BY <1>0, <1>3, <2>1 DEF Stops, Idle
  <2> QED
    BY <1>0, <1>3, <2>2 DEF Stops, Loads
<1>4. ASSUME NEW k \in Run, NEW n \in Node, CallStart(k, n) PROVE AllHalted' /\ AllCalled'
  <2>1. pc[k] = "fanout" /\ Starts(k, n) /\ UNCHANGED <<stopper, missed>>
    BY <1>4 DEF CallStart, TurnStart
  <2>2. \A j \in Stop : k \notin 1..stopper[j].last
    BY <2>1 DEF FannedOut
  <2> QED
    BY <1>1, <1>2, <2>1, <2>2
<1>5. ASSUME NEW k \in Run, NEW n \in Node, GiveUpStart(k, n) \/ LateStart(k, n)
      PROVE  AllHalted' /\ AllCalled'
  <2>1. UNCHANGED stopper /\ (Starts(k, n) \/ UNCHANGED node)
    BY <1>5 DEF GiveUpStart, TurnStart, LateStart
  <2>2. missed'[k] # {} /\ \A l \in Run : missed[l] \subseteq missed'[l]
    BY <1>0, <1>5 DEF GiveUpStart, LateStart, Late, fan
  <2>3. \A m \in Node, l \in Run : Loads(m, l)' => Loads(m, l) \/ l = k
    BY <1>2, <2>1 DEF Loads
  <2> QED
    BY <1>0, <1>1, <2>1, <2>2, <2>3
<1>6. CASE ClickStop
  <2>1. /\ stops + 1 \in Stop
        /\ stopper' = [stopper EXCEPT ![stops + 1] =
                        [@ EXCEPT !.pc = "posting", !.todo = StopSet, !.last = starts]]
        /\ UNCHANGED <<node, missed>>
    BY <1>6, BoundsAssumption DEF ClickStop, Stop, fan, TypeOK
  <2>2. /\ stopper'[stops + 1].todo = Node /\ stopper'[stops + 1].pc = "posting"
        /\ \A j \in Stop \ {stops + 1} : stopper'[j] = stopper[j]
    BY <1>0, <2>1 DEF StopSet, StopRec
  <2> QED
    BY <2>1, <2>2 DEF AllHalted, Halted, AllCalled, Loads
<1>7. ASSUME NEW j \in Stop, NEW n \in Node, CallStop(j, n) PROVE AllHalted' /\ AllCalled'
  <2>1. /\ stopper' = [stopper EXCEPT ![j].todo = @ \ {n}] /\ stopper[j].pc = "posting"
        /\ Stops(n) /\ UNCHANGED missed
    BY <1>7 DEF CallStop, TurnStop, fan
  <2>2. /\ \A i \in Stop : /\ stopper'[i].last = stopper[i].last
                           /\ stopper'[i].pc = stopper[i].pc
                           /\ stopper'[i].missed = stopper[i].missed
                           /\ i # j => stopper'[i].todo = stopper[i].todo
        /\ stopper'[j].todo = stopper[j].todo \ {n}
    BY <1>0, <2>1 DEF StopRec
  <2>3. \A m \in Node, l \in Run : Loads(m, l)' => Loads(m, l) /\ m # n
    BY <1>3, <2>1
  <2>4. AllCalled'
    BY <2>1, <2>2 DEF AllCalled
  <2>5. AllHalted'
    <3> SUFFICES ASSUME NEW i \in Stop, NEW m \in Node, (stopper[i].pc # "none")',
                        (m \notin stopper[i].todo \cup stopper[i].missed)',
                        NEW l \in 1..stopper[i].last, missed[l] = {}, Loads(m, l)'
                 PROVE  FALSE
      BY <2>1, <2>2 DEF AllHalted, Halted
    <3>1. l \in Run /\ Loads(m, l) /\ m # n
      BY <1>0, <2>3
    <3> QED
      BY <2>2, <3>1 DEF AllHalted, Halted
  <2> QED
    BY <2>4, <2>5
<1>8. ASSUME NEW j \in Stop, NEW n \in Node, GiveUpStop(j, n) PROVE AllHalted' /\ AllCalled'
  <2>1. /\ stopper' = [stopper EXCEPT ![j].todo = @ \ {n}, ![j].missed = @ \cup {n}]
        /\ stopper[j].pc = "posting"
        /\ Stops(n) \/ UNCHANGED node
        /\ UNCHANGED missed
    BY <1>8 DEF GiveUpStop, TurnStop, fan
  <2>2. /\ \A i \in Stop : /\ stopper'[i].last = stopper[i].last
                           /\ stopper'[i].pc = stopper[i].pc
                           /\ stopper[i].todo \cup stopper[i].missed
                                \subseteq stopper'[i].todo \cup stopper'[i].missed
                           /\ stopper[i].todo = {} => stopper'[i].todo = {}
    BY <1>0, <2>1 DEF StopRec
  <2>3. \A m \in Node, l \in Run : Loads(m, l)' => Loads(m, l)
    BY <1>3, <2>1 DEF Loads
  <2>4. AllCalled'
    BY <2>2 DEF AllCalled
  <2>5. AllHalted'
    BY <1>0, <2>1, <2>2, <2>3 DEF AllHalted, Halted
  <2> QED
    BY <2>4, <2>5
<1>9. ASSUME NEW j \in Stop, NEW n \in Node, LateStop(j, n) PROVE AllHalted' /\ AllCalled'
  <2>1. UNCHANGED <<stopper, missed>> /\ Stops(n)
    BY <1>9 DEF LateStop, fan
  <2> QED
    BY <1>1, <1>3, <2>1
<1>10. ASSUME NEW j \in Stop, EndStop(j) PROVE AllHalted' /\ AllCalled'
  <2>1. /\ stopper[j].pc = "posting" /\ stopper[j].todo = {}
        /\ stopper' = [stopper EXCEPT ![j].pc = "done"]
        /\ UNCHANGED <<node, missed>>
    BY <1>10 DEF EndStop, fan
  <2>2. \A i \in Stop : /\ stopper'[i].last = stopper[i].last
                        /\ stopper'[i].todo = stopper[i].todo
                        /\ stopper'[i].missed = stopper[i].missed
                        /\ stopper'[i].pc = IF i = j THEN "done" ELSE stopper[i].pc
    BY <1>0, <2>1 DEF StopRec
  <2> QED
    BY <2>1, <2>2 DEF AllHalted, Halted, AllCalled, Loads
<1>11. ASSUME NEW n \in Node, TimeOver(n) \/ WoundDown(n) PROVE AllHalted' /\ AllCalled'
  <2>1. UNCHANGED <<stopper, missed>>
    BY <1>11 DEF TimeOver, WoundDown, fan
  <2>2. \A m \in Node, l \in Run : Loads(m, l)' => Loads(m, l)
    BY <1>0, <1>11 DEF TimeOver, WoundDown, Free, Loads
  <2> QED
    BY <1>1, <2>1, <2>2
<1>12. ASSUME UNCHANGED <<stopper, node, missed>> PROVE AllHalted' /\ AllCalled'
  BY <1>1, <1>12 DEF Loads
<1>13. ASSUME NEW k \in Run, NEW n \in Node, PollNode(k, n) PROVE UNCHANGED <<stopper, node, missed>>
  BY <1>13 DEF PollNode
<1>14. ASSUME NEW k \in Run, EndFanout(k) \/ BeginPoll(k) \/ EndPoll(k) \/ RecordRun(k)
       PROVE  UNCHANGED <<stopper, node, missed>>
  BY <1>14 DEF EndFanout, BeginPoll, EndPoll, RecordRun
<1>15. CASE ClickStart \/ UNCHANGED vars
  BY <1>12, <1>15 DEF ClickStart, vars, fan
<1> QED
  BY <1>4, <1>5, <1>6, <1>7, <1>8, <1>9, <1>10, <1>11, <1>12, <1>13, <1>14, <1>15
  DEF Next, Orchestrator, Stopping

\* The Stop button halts every machine at once: when a stop has been answered by
\* every machine, none loads a run whose start they had all answered; provided
\* nobody clicks Stop while a start's fan-out is under way (StressMesh_stop shows
\* what happens else).
THEOREM StopHalts == QuietStop /\ SafeSpec => []StopHaltsMesh
<1> SUFFICES ASSUME QuietStop PROVE SafeSpec => []StopHaltsMesh
  OBVIOUS
<1>1. Init => StopInv
  BY BoundsAssumption DEF Init, StopInv, Late, FannedOut, AllHalted, Halted, AllCalled, Nobody
<1>2. TabInv /\ StopInv /\ [Next]_vars => StopInv'
  BY LateNext, FannedOutNext, HaltedNext DEF TabInv, StopInv
<1>3. StopInv => StopHaltsMesh
  BY DEF StopInv, AllHalted, AllCalled, Halted, StopHaltsMesh
<1> QED
  BY <1>1, <1>2, <1>3, TabInvariant, PTL DEF SafeSpec

-----------------------------------------------------------------------------
(* Recorded runs.  A machine that answered a poll as idle takes the run up   *)
(* again only by a late start.                                               *)

Polled == \A k \in Run :
  /\ pc[k] \in {"none", "fanout"} => reached[k] = {}
  /\ ~loaded[k] => \A n \in reached[k] \ missed[k] : node[n].run # k
  /\ pc[k] = "record" => ~loaded[k]
  /\ k \in recorded => pc[k] = "done" /\ ~loaded[k]

IdleFree == \A n \in Node : Idle(n) => node[n] = Free


PolledInv == Polled /\ IdleFree

LEMMA PolledNext == TabInv /\ Late /\ PolledInv /\ [Next]_vars => PolledInv'
<1> SUFFICES ASSUME TabInv, Late, PolledInv, [Next]_vars PROVE PolledInv'
  OBVIOUS
<1>0. /\ TypeOK /\ Polled /\ IdleFree /\ Run \subseteq Nat \ {Nobody}
      /\ node \in [Node -> [run : Run \cup {Nobody}, phase : RunPhase]]
      /\ reached \in [Run -> SUBSET Node] /\ missed \in [Run -> SUBSET Node]
      /\ loaded \in [Run -> BOOLEAN] /\ recorded \subseteq Run
  BY DEF TabInv, PolledInv, TypeOK, Run, Nobody
\* A step that leaves the polls alone, and gives no machine a run it was polled
\* without.
<1>1. ASSUME UNCHANGED <<reached, loaded, recorded>>,
             \A l \in Run : pc'[l] = pc[l] /\ missed[l] \subseteq missed'[l],
             \A l \in Run, m \in Node :
               node'[m].run = l => \/ node[m].run = l \/ m \in missed'[l]
                                   \/ pc[l] = "fanout"
      PROVE  Polled'
  BY <1>0, <1>1 DEF Polled
<1>2. ASSUME NEW k \in Run, NEW n \in Node, Starts(k, n)
      PROVE  /\ \A l \in Run, m \in Node : node'[m].run = l => node[m].run = l \/ (l = k /\ m = n)
             /\ IdleFree'
  BY <1>0, <1>2 DEF Starts, Idle, IdleFree
<1>3. ASSUME NEW n \in Node, Stops(n)
      PROVE  /\ \A m \in Node : node'[m].run = node[m].run
             /\ IdleFree'
  BY <1>0, <1>3 DEF Stops, Idle, IdleFree
<1>4. ASSUME UNCHANGED node PROVE IdleFree' /\ \A m \in Node : node'[m].run = node[m].run
  BY <1>0, <1>4 DEF IdleFree, Idle
<1>5. CASE ClickStart
  <2> DEFINE new == starts + 1
  <2>1. /\ new \in Run /\ UNCHANGED <<reached, missed, loaded, node, recorded>>
        /\ \A l \in Run : pc'[l] = IF l = new THEN "fanout" ELSE pc[l]
    BY <1>0, <1>5, BoundsAssumption DEF ClickStart, TypeOK, Run
  <2>2. pc[new] = "none"
    BY <1>0, <2>1 DEF TabInv, Generations, TypeOK
  <2> QED
    BY <1>0, <1>4, <2>1, <2>2 DEF Polled, PolledInv
<1>6. ASSUME NEW k \in Run, NEW n \in Node, CallStart(k, n) PROVE PolledInv'
  <2>1. pc[k] = "fanout" /\ Starts(k, n) /\ UNCHANGED <<pc, reached, loaded, recorded, missed>>
    BY <1>6 DEF CallStart, TurnStart
  <2> QED
    BY <1>1, <1>2, <2>1 DEF PolledInv
<1>7. ASSUME NEW k \in Run, NEW n \in Node, GiveUpStart(k, n) \/ LateStart(k, n)
      PROVE  PolledInv'
  <2>1. /\ UNCHANGED <<pc, reached, loaded, recorded>>
        /\ Starts(k, n) \/ UNCHANGED node
    BY <1>7 DEF GiveUpStart, TurnStart, LateStart, fan
  <2>2. n \in missed'[k] /\ \A l \in Run : missed[l] \subseteq missed'[l]
    BY <1>0, <1>7 DEF GiveUpStart, LateStart, Late, fan
  <2> QED
    BY <1>1, <1>2, <1>4, <2>1, <2>2 DEF PolledInv
<1>8. ASSUME NEW k \in Run, EndFanout(k) PROVE PolledInv'
  <2>1. /\ UNCHANGED <<reached, loaded, recorded, missed, node>>
        /\ pc[k] = "fanout" /\ pc'[k] \in {"head", "done"}
        /\ \A l \in Run \ {k} : pc'[l] = pc[l]
    BY <1>0, <1>8 DEF EndFanout, TypeOK
  <2> QED
    BY <1>0, <1>4, <2>1 DEF Polled, PolledInv
<1>9. ASSUME NEW k \in Run, BeginPoll(k) PROVE PolledInv'
  <2>1. /\ UNCHANGED <<recorded, missed, node>>
        /\ pc[k] = "head" /\ \A l \in Run \ {k} : /\ pc'[l] = pc[l] /\ reached'[l] = reached[l]
                                                  /\ loaded'[l] = loaded[l]
    BY <1>0, <1>9 DEF BeginPoll, TypeOK
  <2>2. \/ pc'[k] = "poll" /\ reached'[k] = {}
        \/ pc'[k] = "done" /\ UNCHANGED <<reached, loaded>>
    BY <1>0, <1>9 DEF BeginPoll, TypeOK
  <2> QED
    BY <1>0, <1>4, <2>1, <2>2 DEF Polled, PolledInv
<1>10. ASSUME NEW k \in Run, NEW n \in Node, PollNode(k, n) PROVE PolledInv'
  <2>1. /\ UNCHANGED <<recorded, missed, node, pc>> /\ pc[k] = "poll"
        /\ \A l \in Run \ {k} : reached'[l] = reached[l] /\ loaded'[l] = loaded[l]
        /\ \/ reached'[k] = reached[k] \cup {n} /\ loaded' = [loaded EXCEPT ![k] = StillLoaded(k, n)]
           \/ UNCHANGED <<reached, loaded>>
    BY <1>0, <1>10 DEF PollNode, TypeOK
  <2>2. ASSUME reached'[k] = reached[k] \cup {n}, loaded' = [loaded EXCEPT ![k] = StillLoaded(k, n)], ~loaded'[k]
        PROVE  ~loaded[k] /\ node[n].run # k
    <3>1. ~loaded[k] /\ Idle(n)
      BY <1>0, <2>2 DEF StillLoaded, Running, Idle
    <3> QED
      BY <1>0, <3>1 DEF IdleFree, Free
  <2>3. Polled'
    BY <1>0, <2>1, <2>2 DEF Polled
  <2> QED
    BY <1>4, <2>1, <2>3 DEF PolledInv
<1>11. ASSUME NEW k \in Run, EndPoll(k) PROVE PolledInv'
  <2>1. /\ UNCHANGED <<reached, loaded, recorded, missed, node>>
        /\ pc[k] = "poll" /\ pc'[k] \in {"head", "record", "done"}
        /\ pc'[k] = "record" => ~loaded[k]
        /\ \A l \in Run \ {k} : pc'[l] = pc[l]
    BY <1>0, <1>11 DEF EndPoll, TypeOK
  <2> QED
    BY <1>0, <1>4, <2>1 DEF Polled, PolledInv
<1>12. ASSUME NEW k \in Run, RecordRun(k) PROVE PolledInv'
  <2>1. /\ UNCHANGED <<reached, loaded, missed, node>> /\ recorded' = recorded \cup {k}
        /\ pc[k] = "record" /\ pc'[k] = "done"
        /\ \A l \in Run \ {k} : pc'[l] = pc[l]
    BY <1>0, <1>12 DEF RecordRun, TypeOK
  <2> QED
    BY <1>0, <1>4, <2>1 DEF Polled, PolledInv
<1>13. ASSUME NEW j \in Stop, NEW n \in Node,
              CallStop(j, n) \/ GiveUpStop(j, n) \/ LateStop(j, n)
       PROVE  PolledInv'
  <2>1. /\ UNCHANGED <<pc, reached, loaded, missed, recorded>>
        /\ Stops(n) \/ UNCHANGED node
    BY <1>13 DEF CallStop, GiveUpStop, TurnStop, LateStop, fan
  <2> QED
    BY <1>1, <1>3, <1>4, <2>1 DEF PolledInv
<1>14. ASSUME NEW n \in Node, TimeOver(n) \/ WoundDown(n) PROVE PolledInv'
  <2>1. UNCHANGED <<pc, reached, loaded, missed, recorded>>
    BY <1>14 DEF TimeOver, WoundDown, fan
  <2>2. \A m \in Node : node'[m].run \in {node[m].run, Nobody}
    BY <1>0, <1>14 DEF TimeOver, WoundDown, Free
  <2>3. IdleFree'
    BY <1>0, <1>14 DEF TimeOver, WoundDown, IdleFree, Idle, Free
  <2> QED
    BY <1>0, <1>1, <2>1, <2>2, <2>3 DEF PolledInv
<1>15. ASSUME UNCHANGED <<fan, node, recorded>> PROVE PolledInv'
  BY <1>1, <1>4, <1>15 DEF fan, PolledInv
<1>16. ASSUME NEW j \in Stop, EndStop(j) PROVE PolledInv'
  BY <1>15, <1>16 DEF EndStop
<1>17. CASE ClickStop \/ UNCHANGED vars
  BY <1>15, <1>17 DEF ClickStop, vars
<1> QED
  BY <1>5, <1>6, <1>7, <1>8, <1>9, <1>10, <1>11, <1>12, <1>13, <1>14, <1>16, <1>17
  DEF Next, Orchestrator, Stopping

\* A recorded run is over on every machine that answered its start and its last
\* poll: the row in the history never describes a run that still loads them
\* (ui.go; stress.go, PollStress and RecordStressRun).
THEOREM RecordedOver == SafeSpec => []RecordedRunOver
<1>1. Init => Late /\ PolledInv
  BY DEF Init, Late, PolledInv, Polled, IdleFree, Idle, Free
<1>2. TabInv /\ (Late /\ PolledInv) /\ [Next]_vars => (Late /\ PolledInv)'
  BY LateNext, PolledNext DEF TabInv
<1>3. TabInv /\ PolledInv => RecordedRunOver
  BY DEF TabInv, TypeOK, PolledInv, Polled, RecordedRunOver
<1> QED
  BY <1>1, <1>2, <1>3, TabInvariant, PTL DEF SafeSpec

=============================================================================
