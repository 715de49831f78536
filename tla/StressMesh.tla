----------------------------- MODULE StressMesh -----------------------------
(***************************************************************************)
(* A full-mesh stress run seen from the machine that orchestrates it: the  *)
(* Start and Stop buttons and the poll goroutine of the Tests tab          *)
(* (ui/ui.go), the fan-outs StartStress and StopStress and PollStress      *)
(* (appcore/stress.go).  A machine is reduced to what StressNode promises  *)
(* of it: one run at a time, a busy refusal, a run that winds down when it *)
(* is stopped or its time is over.                                         *)
(*                                                                         *)
(* A fan-out makes one call after the other, each with a client timeout.   *)
(* A call is one step, taken when the machine handles it.  On the way to a *)
(* flaky peer a request or its answer may be lost, and a request may still *)
(* be handled after its sender has given up.                               *)
(***************************************************************************)
EXTENDS MeshPorts

CONSTANTS
  Self,        \* the machine with the Tests tab
  MaxStarts,   \* bound: clicks on Start
  MaxStops,    \* bound: clicks on Stop
  MaxLosses,   \* bound: calls of the fan-outs their client gives up on
  Flaky,       \* peers to which a request may be lost, late or unanswered
  QuietStop    \* nobody clicks Stop during a start's fan-out

ASSUME SelfAssumption == Self \in Node
ASSUME BoundsAssumption == {MaxStarts, MaxStops, MaxLosses} \subseteq Nat
ASSUME FlakyAssumption == Flaky \subseteq Node \ {Self}
ASSUME QuietAssumption == QuietStop \in BOOLEAN

Run == 1..MaxStarts       \* runs, in the order of their clicks
Stop == 1..MaxStops       \* stops, in the order of their clicks
Nobody == 0               \* no node, no run

VARIABLES
  on,        \* tst.stressOn
  gen,       \* tst.stressGen
  starts,    \* number of clicks on Start so far: the latest run
  stops,     \* number of clicks on Stop so far
  shown,     \* the run whose goroutine wrote tst.stressNodes, or Nobody
  pc,        \* pc[k]: where the goroutine of run k is
  own,       \* own[k]: the generation run k was given
  todo,      \* todo[k]: nodes the fan-out or the poll has not come to
  accepted,  \* accepted[k]: nodes that said they started run k
  missed,    \* missed[k]: nodes that gave no answer to the start of run k
  reached,   \* reached[k]: nodes that answered the current poll
  loaded,    \* loaded[k]: anyRunning in the current poll
  stopper,   \* stopper[j]: the goroutine of stop j, a record
  node,      \* node[n]: the run n takes part in, and its phase
  net,       \* requests whose sender gave up on them and that may still arrive
  recorded   \* runs with a summary row in the history

tab == <<on, gen, starts, stops, shown>>
fan == <<pc, own, todo, accepted, missed, reached, loaded>>
vars == <<tab, fan, stopper, node, net, recorded>>

-----------------------------------------------------------------------------
(* Pieces of the handlers.  A definition marked "Slip" is a plausible        *)
(* mistake in the one after it; the runs are shown to notice each of them.   *)

\* Slip: only the tab's switch is looked at, not whose switch it is.
AnyGeneration(k) == TRUE

\* tst.stressGen == gen
Current(k) == own[k] = gen

\* The status of machine n: its run goes on, or is still winding down.
Running(n) == node[n].phase # "idle"

\* Slip: the last status polled decides.
LastOnly(k, n) == Running(n)

\* anyRunning = anyRunning || s.Running
StillLoaded(k, n) == loaded[k] \/ Running(n)

\* Slip: the stop goes to the peers alone.
PeersOnly == Node \ {Self}

\* StopStress: this machine and the pinned peers.
StopSet == Node

\* Slip: a start that nobody accepted leaves the switch alone.
SwitchStays == on

\* stressOn = false
SwitchOff == FALSE

\* Calls given up so far.
Losses ==
  Cardinality({m \in Run \X Node : m[2] \in missed[m[1]]})
    + Cardinality({m \in Stop \X Node : m[2] \in stopper[m[1]].missed})

\* A request on its way to machine n.
Request(kind, i, n) == [kind |-> kind, id |-> i, to |-> n]

\* What StartStress has for machine n: the run, whom to load at which ports
\* (MeshPorts), and the same instant for all machines.
StartRequest(k, n) == Request("start", k, n)
StopRequest(j, n) == Request("stop", j, n)

\* A machine that takes part in no run; any other refuses a start.
Free == [run |-> Nobody, phase |-> "idle"]
Idle(n) == node[n].phase = "idle"

-----------------------------------------------------------------------------
Init ==
  /\ on = FALSE /\ gen = 0 /\ starts = 0 /\ stops = 0 /\ shown = Nobody
  /\ pc = [k \in Run |-> "none"]
  /\ own = [k \in Run |-> 0]
  /\ todo = [k \in Run |-> {}]
  /\ accepted = [k \in Run |-> {}]
  /\ missed = [k \in Run |-> {}]
  /\ reached = [k \in Run |-> {}]
  /\ loaded = [k \in Run |-> FALSE]
  /\ stopper = [j \in Stop |-> [pc |-> "none", todo |-> {}, missed |-> {},
                                last |-> Nobody]]
  /\ node = [n \in Node |-> Free]
  /\ net = {}
  /\ recorded = {}

(* The Start button and StartStress *)

\* A run gets a generation of its own and a goroutine.
ClickStart ==
  /\ ~on
  /\ starts < MaxStarts
  /\ on' = TRUE /\ gen' = gen + 1 /\ starts' = starts + 1 /\ shown' = Nobody
  /\ pc' = [pc EXCEPT ![starts + 1] = "fanout"]
  /\ own' = [own EXCEPT ![starts + 1] = gen + 1]
  /\ todo' = [todo EXCEPT ![starts + 1] = Node]
  /\ UNCHANGED <<stops, accepted, missed, reached, loaded, stopper, node,
                 net, recorded>>

\* startStressLocal on node n takes the run unless the node is busy.
Starts(k, n) ==
  node' = IF Idle(n) THEN [node EXCEPT ![n] = [run |-> k, phase |-> "loads"]] ELSE node

\* One turn of the fan-out, which ranges over a map: the nodes come in any order.
TurnStart(k, n) ==
  /\ pc[k] = "fanout"
  /\ n \in todo[k]
  /\ todo' = [todo EXCEPT ![k] = @ \ {n}]
  /\ UNCHANGED <<tab, pc, own, reached, loaded, stopper, recorded>>

\* The node answers ...
CallStart(k, n) ==
  /\ TurnStart(k, n)
  /\ Starts(k, n)
  /\ accepted' = [accepted EXCEPT ![k] = IF Idle(n) THEN @ \cup {n} ELSE @]
  /\ UNCHANGED <<missed, net>>

\* ... or the client gives up: the answer is lost, the request is lost, or the
\* request is still to be handled.
GiveUpStart(k, n) ==
  /\ TurnStart(k, n)
  /\ n \in Flaky /\ Losses < MaxLosses
  /\ missed' = [missed EXCEPT ![k] = @ \cup {n}]
  /\ \/ Starts(k, n) /\ UNCHANGED net
     \/ UNCHANGED <<node, net>>
     \/ net' = net \cup {StartRequest(k, n)} /\ UNCHANGED node
  /\ UNCHANGED accepted

\* A request that arrives after its client has given up.
LateStart(k, n) ==
  /\ StartRequest(k, n) \in net
  /\ net' = net \ {StartRequest(k, n)}
  /\ Starts(k, n)
  /\ UNCHANGED <<tab, fan, stopper, recorded>>

\* StartStress returns.  If no node accepted, the switch goes back.
EndFanout(k) ==
  /\ pc[k] = "fanout" /\ todo[k] = {}
  /\ IF accepted[k] = {}
       THEN /\ pc' = [pc EXCEPT ![k] = "done"]
            /\ on' = IF Current(k) THEN SwitchOff ELSE on
       ELSE /\ pc' = [pc EXCEPT ![k] = "head"]
            /\ UNCHANGED on
  /\ UNCHANGED <<gen, starts, stops, shown, own, todo, accepted, missed,
                 reached, loaded, stopper, node, net, recorded>>

(* The poll loop *)

BeginPoll(k) ==
  /\ pc[k] = "head"
  /\ IF on /\ Current(k)
       THEN /\ pc' = [pc EXCEPT ![k] = "poll"]
            /\ todo' = [todo EXCEPT ![k] = Node]
            /\ reached' = [reached EXCEPT ![k] = {}]
            /\ loaded' = [loaded EXCEPT ![k] = FALSE]
       ELSE /\ pc' = [pc EXCEPT ![k] = "done"]
            /\ UNCHANGED <<todo, reached, loaded>>
  /\ UNCHANGED <<tab, own, accepted, missed, stopper, node, net, recorded>>

\* PollStress asks this machine first; a peer that does not answer is left out.
PollNode(k, n) ==
  /\ pc[k] = "poll"
  /\ n \in todo[k] /\ (n # Self => Self \notin todo[k])
  /\ todo' = [todo EXCEPT ![k] = @ \ {n}]
  /\ \/ /\ reached' = [reached EXCEPT ![k] = @ \cup {n}]
        /\ loaded' = [loaded EXCEPT ![k] = StillLoaded(k, n)]
     \/ /\ n \in Flaky
        /\ UNCHANGED <<reached, loaded>>
  /\ UNCHANGED <<tab, pc, own, accepted, missed, stopper, node, net, recorded>>

\* A newer generation owns the tab: leave without a trace.  Else show what was
\* polled, and switch off when nothing runs any more.
EndPoll(k) ==
  /\ pc[k] = "poll" /\ todo[k] = {}
  /\ IF Current(k)
       THEN /\ shown' = k
            /\ on' = (on /\ loaded[k])
            /\ pc' = [pc EXCEPT ![k] = IF loaded[k] THEN "head" ELSE "record"]
       ELSE /\ pc' = [pc EXCEPT ![k] = "done"]
            /\ UNCHANGED <<shown, on>>
  /\ UNCHANGED <<gen, starts, stops, own, todo, accepted, missed, reached,
                 loaded, stopper, node, net, recorded>>

\* RecordStressRun
RecordRun(k) ==
  /\ pc[k] = "record"
  /\ pc' = [pc EXCEPT ![k] = "done"]
  /\ recorded' = recorded \cup {k}
  /\ UNCHANGED <<tab, own, todo, accepted, missed, reached, loaded, stopper,
                 node, net>>

(* The Stop button and StopStress *)

\* The button is on the banner of a run.
ClickStop ==
  /\ on
  /\ stops < MaxStops
  /\ QuietStop => pc[starts] # "fanout"
  /\ on' = FALSE /\ gen' = gen + 1 /\ stops' = stops + 1
  /\ stopper' = [stopper EXCEPT ![stops + 1] =
                   [@ EXCEPT !.pc = "posting", !.todo = StopSet, !.last = starts]]
  /\ UNCHANGED <<starts, shown, fan, node, net, recorded>>

\* stopStressLocal("") on node n: whatever run it has begins to wind down.
Stops(n) ==
  node' = IF Idle(n) THEN node ELSE [node EXCEPT ![n].phase = "ends"]

\* One turn of StopStress: this machine first, then the peers.
TurnStop(j, n) ==
  /\ stopper[j].pc = "posting"
  /\ n \in stopper[j].todo /\ (n # Self => Self \notin stopper[j].todo)
  /\ UNCHANGED <<tab, fan, recorded>>

CallStop(j, n) ==
  /\ TurnStop(j, n)
  /\ Stops(n)
  /\ stopper' = [stopper EXCEPT ![j].todo = @ \ {n}]
  /\ UNCHANGED net

GiveUpStop(j, n) ==
  /\ TurnStop(j, n)
  /\ n \in Flaky /\ Losses < MaxLosses
  /\ stopper' = [stopper EXCEPT ![j].todo = @ \ {n}, ![j].missed = @ \cup {n}]
  /\ \/ Stops(n) /\ UNCHANGED net
     \/ UNCHANGED <<node, net>>
     \/ net' = net \cup {StopRequest(j, n)} /\ UNCHANGED node

LateStop(j, n) ==
  /\ StopRequest(j, n) \in net
  /\ net' = net \ {StopRequest(j, n)}
  /\ Stops(n)
  /\ UNCHANGED <<tab, fan, stopper, recorded>>

EndStop(j) ==
  /\ stopper[j].pc = "posting" /\ stopper[j].todo = {}
  /\ stopper' = [stopper EXCEPT ![j].pc = "done"]
  /\ UNCHANGED <<tab, fan, node, net, recorded>>

(* The machines: a run's time is over, and a run has wound down. *)

TimeOver(n) ==
  /\ node[n].phase = "loads"
  /\ node' = [node EXCEPT ![n].phase = "ends"]
  /\ UNCHANGED <<tab, fan, stopper, net, recorded>>

WoundDown(n) ==
  /\ node[n].phase = "ends"
  /\ node' = [node EXCEPT ![n] = Free]
  /\ UNCHANGED <<tab, fan, stopper, net, recorded>>

-----------------------------------------------------------------------------
Orchestrator(k) ==
  \/ \E n \in Node : CallStart(k, n) \/ GiveUpStart(k, n) \/ PollNode(k, n)
  \/ EndFanout(k) \/ BeginPoll(k) \/ EndPoll(k) \/ RecordRun(k)

Stopping(j) ==
  \/ \E n \in Node : CallStop(j, n) \/ GiveUpStop(j, n)
  \/ EndStop(j)

Next ==
  \/ ClickStart \/ ClickStop
  \/ \E k \in Run : Orchestrator(k)
  \/ \E j \in Stop : Stopping(j)
  \/ \E n \in Node :
       \/ \E k \in Run : LateStart(k, n)
       \/ \E j \in Stop : LateStop(j, n)
       \/ TimeOver(n) \/ WoundDown(n)

SafeSpec == Init /\ [][Next]_vars

\* Goroutines run, client timeouts fire, a late request is handled, and a run
\* ends after its duration.  Nobody has to click a button.
Spec ==
  /\ SafeSpec
  /\ \A k \in Run : WF_vars(Orchestrator(k))
  /\ \A j \in Stop : WF_vars(Stopping(j))
  /\ \A n \in Node :
       /\ \A k \in Run : WF_vars(LateStart(k, n))
       /\ \A j \in Stop : WF_vars(LateStop(j, n))
       /\ WF_vars(TimeOver(n)) /\ WF_vars(WoundDown(n))

-----------------------------------------------------------------------------
(* Properties *)

RunPhase == {"idle", "loads", "ends"}

TypeOK ==
  /\ on \in BOOLEAN
  /\ gen \in Nat
  /\ starts \in 0..MaxStarts /\ stops \in 0..MaxStops
  /\ shown \in Run \cup {Nobody}
  /\ pc \in [Run -> {"none", "fanout", "head", "poll", "record", "done"}]
  /\ own \in [Run -> Nat]
  /\ todo \in [Run -> SUBSET Node]
  /\ accepted \in [Run -> SUBSET Node]
  /\ missed \in [Run -> SUBSET Node]
  /\ reached \in [Run -> SUBSET Node]
  /\ loaded \in [Run -> BOOLEAN]
  /\ stopper \in [Stop -> [pc: {"none", "posting", "done"}, todo: SUBSET Node,
                           missed: SUBSET Node, last: Run \cup {Nobody}]]
  /\ node \in [Node -> [run: Run \cup {Nobody}, phase: RunPhase]]
  /\ net \subseteq [kind: {"start"}, id: Run, to: Node]
                   \cup [kind: {"stop"}, id: Stop, to: Node]
  /\ recorded \subseteq Run

Loads(n, k) == node[n] = [run |-> k, phase |-> "loads"]

\* While a run is on, the tab shows nothing or what that run's goroutine polled:
\* a poll that was under way when the user moved on never overwrites it.
ShownIsCurrent == on => shown \in {Nobody, starts}

\* The tab leaves a run only because the user stopped it, because no machine
\* accepted it, or because its own poll found no machine running; the goroutine
\* of an earlier run never ends a later one.
LeftForCause ==
  [][on /\ ~on' =>
       \/ stops' = stops + 1
       \/ pc[starts] = "fanout" /\ todo[starts] = {} /\ accepted[starts] = {}
       \/ pc[starts] = "poll" /\ todo[starts] = {} /\ ~loaded[starts]]_vars

\* A run that is recorded is over on every machine that answered its start and
\* its last poll: the row does not describe a run that still loads them.
RecordedRunOver ==
  \A k \in recorded : \A n \in reached[k] \ missed[k] : node[n].run # k

\* "the Stop button halts every machine at once": when a stop has been answered
\* by every machine, no machine loads a run that was started before it, provided
\* every machine had answered that start.
StopHaltsMesh ==
  \A j \in Stop : stopper[j].pc = "done" /\ stopper[j].missed = {} =>
    \A k \in 1..stopper[j].last : missed[k] = {} => \A n \in Node : ~Loads(n, k)

\* The tab does not stay on for ever: every run is found over, refused or stopped
\* in the end, and the Start button is back.
TabRecovers == on ~> ~on
=============================================================================
