----------------------------- MODULE SpeedSweep -----------------------------
(***************************************************************************)
(* The speed matrix: App.SpeedSweep (appcore/speedtest.go) and the Tests   *)
(* tab that starts and stops it (ui/ui.go).                                *)
(*                                                                         *)
(* One scheduler goroutine owns the slice of pending pairs, the busy and   *)
(* active maps, the per-second readings and the finished cells.  Each test *)
(* runs in a goroutine of its own and reports on two channels: readings on *)
(* liveCh, which drops when it is full, and one result on ch.  The Stop    *)
(* button cancels the context at any moment.                               *)
(*                                                                         *)
(* Nodes are the numbers 1..N in the order speedNodes sorts them; a result *)
(* keeps only whether the run failed and which directions it measured.     *)
(***************************************************************************)
EXTENDS Naturals, Sequences, FiniteSets

CONSTANTS
  N,            \* number of machines in the mesh, this one included
  LiveCap,      \* capacity of the channel of per-second readings
  Directions,   \* the directions the controls of the Tests tab offer
  Flaky         \* pairs whose test may fail, or measure nothing, without a stop

Node == 1..N

ASSUME NAssumption == N \in Nat
ASSUME LiveCapAssumption == LiveCap \in Nat
ASSUME DirectionsAssumption == Directions \subseteq {"both", "down", "up", "bidir"}
ASSUME FlakyAssumption == Flaky \subseteq [from : Node, to : Node]

VARIABLES
  running,      \* tst.running: a sweep is in progress, the Run button is inert
  status,       \* the status line: "", "running", "completed", "stopped"
  cancelled,    \* the sweep's context is done
  dir,          \* direction of the current sweep
  pc,           \* where the scheduler goroutine is
  pending,      \* pairs not launched yet
  scanned,      \* pending pairs the current launch pass has found blocked
  busy,         \* nodes the busy map holds as true
  active,       \* pairs launched whose result has not been received
  live,         \* pairs with a reading in the live map
  inFlight,     \* number of pairs launched and not received
  cells,        \* pair -> result, for the pairs received
  testing,      \* pairs whose goroutine is inside SpeedTest
  ch,           \* channel of results
  liveCh,       \* channel of readings; a reading is the pair it is about
  shown,        \* the last SweepProgress handed to the UI
  recorded      \* this sweep was written to the test history

ui == <<running, status, dir>>
sched == <<pending, scanned, busy, active, live, inFlight, cells>>
vars == <<ui, cancelled, pc, sched, testing, ch, liveCh, shown, recorded>>

-----------------------------------------------------------------------------
(* Pairs and results *)

\* speedPairs: every directed off-diagonal pair ...
Pairs == {p \in [from: Node, to: Node] : p.from # p.to}

\* ... row by row.
Before(p, q) == \/ p.from < q.from
                \/ p.from = q.from /\ p.to < q.to

Ends(p) == {p.from, p.to}

\* What of SpeedResult the sweep tells apart: Err is set, UpMbit > 0,
\* DownMbit > 0.
Result == [err: BOOLEAN, up: BOOLEAN, down: BOOLEAN]

\* runSpeedTest: the outcomes of a run in direction d.  A failed leg leaves no
\* rate behind, one that ended well may have measured zero; "both" runs the
\* upload first and keeps it when the download fails.
Outcomes(d) ==
  {r \in Result :
     /\ r.up => d # "down"
     /\ r.down => d # "up" /\ ~r.err
     /\ r.err /\ r.up => d = "both"}

\* Every leg of the run moved data.
Complete(d, r) == ~r.err /\ (d # "down" => r.up) /\ (d # "up" => r.down)

-----------------------------------------------------------------------------
(* Pieces of the scheduler.  A definition marked "Slip" is a plausible       *)
(* mistake in the one after it; the runs are shown to notice each of them.   *)

\* Slip: only the client's side of a pair is looked up.
BlockedAtFrom(p) == p.from \in busy

\* busy[pr.From.ID] || busy[pr.To.ID]
Blocked(p) == p.from \in busy \/ p.to \in busy

\* Slip: the launched pair stays in the slice.
StillQueued(p) == pending

\* pending = append(pending[:i], pending[i+1:]...)
Unqueued(p) == pending \ {p}

\* Slip: the server's side of a finished pair stays busy.
FreesFrom(p) == {p.from}

\* busy[r.from], busy[r.to] = false, false
Frees(p) == Ends(p)

\* Slip: the counter is not decremented.
Uncounted == inFlight

\* inFlight--
Countdown == inFlight - 1

\* Slip: a reading is shown whether or not its test still runs.
AnyPair(p) == p \in Pairs

\* _, still := active[lu.key]
StillActive(p) == p \in active

\* Slip: the loop ends when the queue, not the work, runs out.
NothingPending == pending = {}

\* Slip: Stop ends the loop at once.
StopEndsLoop == inFlight = 0 \/ cancelled

\* for inFlight > 0
Drained == inFlight = 0

\* The select with a default that protects a test from a full channel.
LiveChFull == Len(liveCh) >= LiveCap

\* Slip: a stopped sweep is recorded too.
AnySweep == TRUE

\* ctx.Err() == nil before the sweep is recorded
NotStopped == ~cancelled

\* sweepSummary's ok: some pair has a result without error and a download rate
Summarised == \E p \in DOMAIN cells : ~cells[p].err /\ cells[p].down

\* report(): a copy of the scheduler's state after the step
Report == shown' = [cells |-> DOMAIN cells', active |-> active', live |-> live']

NoProgress == [cells |-> {}, active |-> {}, live |-> {}]
NoCells == [p \in {} |-> [err |-> FALSE, up |-> FALSE, down |-> FALSE]]

-----------------------------------------------------------------------------
Init ==
  /\ running = FALSE /\ status = "" /\ dir = "both"
  /\ cancelled = FALSE
  /\ pc = "idle"
  /\ pending = {} /\ scanned = {} /\ busy = {} /\ active = {} /\ live = {}
  /\ inFlight = 0 /\ cells = NoCells
  /\ testing = {} /\ ch = <<>> /\ liveCh = <<>>
  /\ shown = NoProgress
  /\ recorded = FALSE

\* The Run button: ignored while a sweep runs, otherwise a new context and a
\* goroutine that calls SpeedSweep on the peers of the snapshot.
ClickRun(d) ==
  /\ ~running
  /\ running' = TRUE /\ status' = "running" /\ dir' = d
  /\ cancelled' = FALSE
  /\ pc' = "start"
  /\ pending' = Pairs
  /\ scanned' = {} /\ busy' = {} /\ active' = {} /\ live' = {}
  /\ inFlight' = 0 /\ cells' = NoCells
  /\ ch' = <<>> /\ liveCh' = <<>>
  /\ recorded' = FALSE
  /\ UNCHANGED <<testing, shown>>

\* The Stop button: sweepCancel is set exactly while a sweep runs.
ClickStop ==
  /\ running
  /\ cancelled' = TRUE
  /\ UNCHANGED <<ui, pc, sched, testing, ch, liveCh, shown, recorded>>

\* The head of launch(): a stopped sweep launches nothing new.
EnterLaunch == pc' = IF cancelled THEN "report" ELSE "launch"

\* The first launch() of a sweep.
StartSweep ==
  /\ pc = "start"
  /\ EnterLaunch
  /\ UNCHANGED <<ui, cancelled, sched, testing, ch, liveCh, shown, recorded>>

\* The pair at index i of pending: the first the pass has not looked at.
NextPair(p) ==
  /\ p \in pending \ scanned
  /\ \A q \in pending \ scanned : q = p \/ Before(p, q)

\* One turn of launch()'s loop: the pair is blocked, go on to the next ...
SkipPair(p) ==
  /\ pc = "launch"
  /\ NextPair(p)
  /\ Blocked(p)
  /\ scanned' = scanned \cup {p}
  /\ UNCHANGED <<ui, cancelled, pc, pending, busy, active, live, inFlight, cells,
                 testing, ch, liveCh, shown, recorded>>

\* ... or it is free: take it off the queue and start its goroutine.
LaunchPair(p) ==
  /\ pc = "launch"
  /\ NextPair(p)
  /\ ~Blocked(p)
  /\ busy' = busy \cup Ends(p)
  /\ pending' = Unqueued(p)
  /\ active' = active \cup {p}
  /\ inFlight' = inFlight + 1
  /\ testing' = testing \cup {p}
  /\ UNCHANGED <<ui, cancelled, pc, scanned, live, cells, ch, liveCh, shown, recorded>>

\* The loop is through; every caller of launch() reports next.
EndLaunch ==
  /\ \/ pc = "launch" /\ pending \subseteq scanned
     \/ pc = "report"
  /\ pc' = "wait"
  /\ scanned' = {}
  /\ UNCHANGED <<ui, cancelled, pending, busy, active, live, inFlight, cells,
                 testing, ch, liveCh, recorded>>
  /\ Report

\* A test goroutine's interval callback.  A reading that finds the channel full
\* is dropped, and the test goes on.
EmitReading(p) ==
  /\ p \in testing
  /\ ~LiveChFull
  /\ liveCh' = Append(liveCh, p)
  /\ UNCHANGED <<ui, cancelled, pc, sched, testing, ch, shown, recorded>>

\* SpeedTest returns and the goroutine sends the result.  ch has room for
\* every pair, so the send never blocks.
FinishTest(p) ==
  /\ p \in testing
  /\ \E r \in Outcomes(dir) :
       /\ Complete(dir, r) \/ (r.err /\ cancelled) \/ p \in Flaky
       /\ ch' = Append(ch, [pair |-> p, res |-> r])
  /\ testing' = testing \ {p}
  /\ UNCHANGED <<ui, cancelled, pc, sched, liveCh, shown, recorded>>

\* case lu := <-liveCh
RecvReading ==
  /\ pc = "wait" /\ ~Drained
  /\ liveCh # <<>>
  /\ liveCh' = Tail(liveCh)
  /\ UNCHANGED <<ui, cancelled, pc, pending, scanned, busy, active, inFlight, cells,
                 testing, ch, recorded>>
  /\ IF StillActive(Head(liveCh))
       THEN live' = live \cup {Head(liveCh)} /\ Report
       ELSE UNCHANGED <<live, shown>>

\* case r := <-ch, up to the head of launch()
RecvResult ==
  /\ pc = "wait" /\ ~Drained
  /\ ch # <<>>
  /\ ch' = Tail(ch)
  /\ LET p == Head(ch).pair IN
       /\ cells' = [q \in DOMAIN cells \cup {p} |->
                      IF q = p THEN Head(ch).res ELSE cells[q]]
       /\ active' = active \ {p}
       /\ live' = live \ {p}
       /\ busy' = busy \ Frees(p)
  /\ inFlight' = Countdown
  /\ EnterLaunch
  /\ UNCHANGED <<ui, cancelled, pending, scanned, testing, liveCh, shown, recorded>>

\* The scheduling loop ends; a complete sweep with something to say is recorded.
EndSweep ==
  /\ pc = "wait" /\ Drained
  /\ pc' = "finish"
  /\ recorded' = (NotStopped /\ Summarised)
  /\ UNCHANGED <<ui, cancelled, sched, testing, ch, liveCh, shown>>

\* The UI goroutine after SpeedSweep returns.
ShowMatrix ==
  /\ pc = "finish"
  /\ pc' = "idle"
  /\ running' = FALSE
  /\ status' = IF cancelled THEN "stopped" ELSE "completed"
  /\ shown' = NoProgress
  /\ UNCHANGED <<dir, cancelled, sched, testing, ch, liveCh, recorded>>

Scheduler ==
  \/ StartSweep
  \/ \E p \in Pairs : SkipPair(p) \/ LaunchPair(p)
  \/ EndLaunch
  \/ RecvReading
  \/ RecvResult
  \/ EndSweep
  \/ ShowMatrix

Next ==
  \/ \E d \in Directions : ClickRun(d)
  \/ ClickStop
  \/ Scheduler
  \/ \E p \in Pairs : EmitReading(p) \/ FinishTest(p)

SafeSpec == Init /\ [][Next]_vars

\* The Go scheduler runs every goroutine that can run, and a test ends: iperf3
\* stops after its duration, and a remote test is under a client timeout.
\* Nobody has to click a button.
Spec ==
  /\ SafeSpec
  /\ WF_vars(Scheduler)
  /\ \A p \in Pairs : WF_vars(FinishTest(p))

-----------------------------------------------------------------------------
(* Properties *)

ControlTypeOK ==
  /\ running \in BOOLEAN
  /\ status \in {"", "running", "completed", "stopped"}
  /\ dir \in {"both", "down", "up", "bidir"}
  /\ cancelled \in BOOLEAN
  /\ pc \in {"idle", "start", "launch", "report", "wait", "finish"}
  /\ recorded \in BOOLEAN

SchedTypeOK ==
  /\ pending \subseteq Pairs
  /\ scanned \subseteq Pairs
  /\ busy \subseteq Node
  /\ active \subseteq Pairs
  /\ live \subseteq Pairs
  /\ inFlight \in Nat

CellsTypeOK ==
  /\ DOMAIN cells \subseteq Pairs
  /\ \A p \in DOMAIN cells : cells[p] \in Result

Message == [pair: Pairs, res: Result]

ChannelTypeOK ==
  /\ testing \subseteq Pairs
  /\ ch \in Seq(Message)
  /\ liveCh \in Seq(Pairs)
  /\ Len(liveCh) =< LiveCap

Progress == [cells: SUBSET Pairs, active: SUBSET Pairs, live: SUBSET Pairs]

TypeOK ==
  /\ ControlTypeOK
  /\ SchedTypeOK
  /\ CellsTypeOK
  /\ ChannelTypeOK
  /\ shown \in Progress

Collide(p, q) == Ends(p) \cap Ends(q) # {}

\* An iperf3 server takes one test at a time, so no machine is an endpoint of
\* two tests that run at the same moment, as client or as server.
EndpointExclusive ==
  \A p, q \in testing : p # q => ~Collide(p, q)

\* No pair is lost and none is tested twice: while a sweep runs every pair is
\* in exactly one of the queue, the active map and the finished cells.
EveryPairAccounted ==
  running =>
    /\ pending \cup active \cup DOMAIN cells = Pairs
    /\ pending \cap active = {}
    /\ pending \cap DOMAIN cells = {}
    /\ active \cap DOMAIN cells = {}

\* A sweep that waits for results has launched all it could: every queued pair
\* shares a machine with a test in flight.
NoIdleCapacity ==
  pc = "wait" /\ ~cancelled =>
    \A p \in pending : \E q \in active : Collide(p, q)

\* The matrix never shows a per-second rate on a pair that is not under test,
\* and no cell as both finished and under test, although readings and results
\* arrive on different channels in any order.
ProgressConsistent ==
  /\ live \subseteq active
  /\ shown.live \subseteq shown.active
  /\ shown.active \cap shown.cells = {}

\* Only a sweep that covered the whole matrix is recorded or called completed,
\* wherever the Stop button falls.
OnlyCompleteSweepsCount ==
  recorded \/ status = "completed" => DOMAIN cells = Pairs

\* When the Run button comes back, stopped or not, the sweep has left nothing
\* behind: no test of it still loads two machines, which the next sweep would
\* take for free, no result lies unread, and every test it launched is in the
\* matrix.
SweepLeavesNothing ==
  ~running =>
    /\ testing = {} /\ ch = <<>>
    /\ status # "" => pending \cup DOMAIN cells = Pairs

\* A sweep ends, stopped or not.
SweepEnds == running ~> ~running

\* The sweep is a SweepPlan: no overlap, no early close, no partial record.
Plan == INSTANCE SweepPlan WITH
  todo <- pending,
  running <- active,
  done <- DOMAIN cells,
  stopped <- cancelled,
  over <- pc \in {"idle", "finish"}

ImplementsPlan == Plan!Spec

\* "ok is false when no pair produced a result (nothing worth recording)": a
\* sweep nobody stopped in which some pair did produce one is recorded.
MeasuredSweepRecorded ==
  status = "completed" /\ (\E p \in DOMAIN cells :
                             ~cells[p].err /\ (cells[p].up \/ cells[p].down))
    => recorded

-----------------------------------------------------------------------------
(* The inductive invariant: what ties the scheduler's own bookkeeping to the *)
(* goroutines and channels.                                                  *)

\* Pairs whose result is in the channel.
Sent(c) == {c[i].pair : i \in DOMAIN c}
SentOnce(c) == \A i, j \in DOMAIN c : c[i].pair = c[j].pair => i = j

\* A launched pair is under test or has its one result in the channel.
InFlightInv ==
  /\ active = testing \cup Sent(ch)
  /\ testing \cap Sent(ch) = {}
  /\ SentOnce(ch)
  /\ IsFiniteSet(active)
  /\ inFlight = Cardinality(active)

\* The busy map holds exactly the endpoints of the launched pairs.
BusyInv ==
  /\ busy = UNION {Ends(p) : p \in active}
  /\ \A p, q \in active : p # q => ~Collide(p, q)

\* What a launch pass has looked at stays blocked until the pass is over.
PassInv ==
  /\ scanned \subseteq pending
  /\ pc # "launch" => scanned = {}
  /\ \A p \in scanned : Blocked(p)
  /\ pc = "report" => cancelled
  /\ pc = "wait" /\ ~cancelled => \A p \in pending : Blocked(p)

\* Nothing is in flight before the first launch and after the loop, and the
\* outcome is fixed only then.
PhaseInv ==
  /\ running <=> pc # "idle"
  /\ pc \in {"idle", "start", "finish"} => active = {}
  /\ recorded => pc \in {"finish", "idle"}
  /\ status = "completed" => pc = "idle"
  /\ recorded => DOMAIN cells = Pairs
  /\ status = "completed" => DOMAIN cells = Pairs
  /\ pc = "finish" /\ ~cancelled => DOMAIN cells = Pairs
  /\ pc = "idle" /\ status # "" => pending \cup DOMAIN cells = Pairs

\* The invariant the proofs rest on.
SweepInv ==
  /\ InFlightInv
  /\ BusyInv
  /\ EveryPairAccounted
  /\ PassInv
  /\ PhaseInv
  /\ ProgressConsistent
=============================================================================
