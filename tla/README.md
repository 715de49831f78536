# TLA+ models of NetLogger

NetLogger runs the same program on every machine of a LAN. The copies discover
each other, probe each other all the time, and on request measure every link
(the speed matrix) or load all links at once (the stress test). This directory
holds TLA+ modules for the parts of it where goroutines, requests and timers
meet, TLC configurations that check them on small instances, and theorems about
them that TLAPS checks for every value of the constants. `PROJECT.json` ties each
definition to the lines it models, each property to a mutation it notices, and
each hazard of the code to the properties that would catch it.

## The system

Paths are below `src/internal/`.

| Component | Code | State | Operations |
|---|---|---|---|
| Speed sweep | `appcore/speedtest.go`, `appcore/test_history.go`, `ui/ui.go` | pending pairs, busy and active maps, live readings, cells, two channels; per measurement a request, a handler, a result | Run, Stop, launch, receive a reading or a result, record; measure on another node |
| Stress run on one node | `appcore/stress.go`, `appcore/test_events.go` | the busy slot, one loader per target, extra listeners, the run's lifecycle, journal | start, stop and status requests, abort of a link, end of a run |
| Mesh stress orchestration | `appcore/stress.go`, `appcore/stress_history.go`, `ui/ui.go` | the tab's switch, generation and statuses, two fan-outs, a poll loop | Start, Stop, poll, record |
| iperf3 server | `iperf/server.go` | restart loop, published command, stop and done channels | start, restart, Stop |
| iperf3 client | `iperf/iperf.go`, `iperf/stream.go` | a process, what it has printed | run, read, kill, retry |
| Application lifecycle | `appcore/appcore.go`, `cmd/netlogger-app/main.go` | context, two wait groups, HTTP server, store | Start, Stop |
| Discovery | `discovery/` | announce loop, peer table with times to live | announce, bye, receive, expire |
| Peer events and session reset | `appcore/events.go`, `appcore/appcore.go`, `appcore/command.go` | the `seen` set, link states, event ring, the peers' logs | probe, pull logs, snapshot, reset one or all |
| Adapter watch | `appcore/nicwatch.go` | last poll of the adapters | poll |
| Loss heatmap | `appcore/heatsync.go`, `appcore/appcore.go`, `store/store.go` | window, kick channel, cached rows | draw, sync, resample |
| Internet test | `appcore/internet.go`, `appcore/test_events.go` | phase of one test, its window, stored results | start, download, upload, store |
| Sample sync | `mesh/puller.go`, `mesh/agentapi.go`, `store/store.go` | cursor per agent, samples | tick, pull, upsert, advance |
| Clock offsets and correlation | `mesh/offset.go`, `correlate/` | none | pure |
| Fault localisation | `score/`, `classify/`, `config/` | none | pure |
| Probes | `probe/` | sockets | UDP bursts, ticks, ICMP |
| Store | `store/store.go` | SQLite tables | insert, upsert, cursor, buckets |
| Link reports and warnings | `appcore/links.go` | last reports | pure |
| User interface | `ui/` | widgets | clicks |
| OS adapters | `singleton/`, `datadir/`, `firewall/`, ... | none | system calls |

`mesh/puller.go`, `mesh/agentapi.go`, `mesh/offset.go`, `correlate/`, `classify/`,
`score/` and `config/` are library code: the application does not import them
today. They are modelled as the package comments compose them.

How they interact. The UI goroutine reads a snapshot of the engine on each frame
and starts a goroutine for anything slow. Those goroutines call the engine, which
calls peers over HTTP, one call after the other, each under a client timeout. A
peer's HTTP handlers run beside its probing loops and beside its own UI. Every
machine runs an iperf3 server for others, and a client when it measures or loads.
`App.Stop` tears all of that down while requests still come in.

What is hard about it:

- *Interleavings*: the Stop button against results in flight; a stop request
  against the run that replaced the one it was meant for; a start fan-out of
  several seconds against a stop; `App.Stop` against start requests; `Snapshot`
  and session resets against the probing loops; overlapping pulls and tests.
- *Ordering*: readings and results on different channels, announces after byes, an
  end of a run logged before its start, a zoom while a pull is under way.
- *Failure*: a peer that does not answer, answers too late or is busy; a process
  that crashes, cannot start or is killed; one call of a fan-out, one row of a
  batch or one leg of a measurement that fails; a crash between two writes.
- *Boundaries*: a full channel, a full ring, ports and target limits, integer
  division around the start of a window, rounding of clock offsets.
- *Progress*: a sweep, a run, a poll loop, a shutdown, a client that nobody waits
  for must end; a peer, a sample, a log must arrive.

What makes each component correct:

- Speed sweep: no machine in two tests at once, no pair lost or tested twice, no
  idling while a pair could run, consistent progress, only complete sweeps
  recorded, every sweep ends and leaves no test behind; a result without an error was measured to its
  end, a measurement that is given up leaves no client behind.
- Stress run on one node: one run at a time, an honest status, a stop that hits its
  run and halts it, aborted links silent, an ordered journal, a shutdown that
  leaves nothing behind.
- Mesh orchestration: the tab follows its own run, is left only for cause, records
  runs that are over; a stop halts every machine; ports fit together.
- iperf3 server: up until Stop, nothing left after it, Stop returns.
- Discovery: a live machine is found again and again, nobody stays listed at an
  address that is out of use, the own machine is not a peer.
- Session: the log tells the state of links and adapter through every reset, a
  link is reported for cause, the summary of a reset is true, peers' logs catch up.
- Sample sync and diagnosis: no sample is skipped, lost or counted twice; the
  verdicts drawn from them are sound.
- Heatmap and internet test: what happened is drawn where it happened, and tests
  are noted and stored as they ran.

## The modules

| Module | Models | Kind |
|---|---|---|
| `SpeedSweep` | `App.SpeedSweep` and the Run and Stop buttons | state machine |
| `SweepPlan` | what a sweep promises: pairs run without overlap, a plan ends with nothing running | abstract specification |
| `StressNode` | `startStressLocal`, `loadTarget`, `stopStressLocal`, `App.Stop` | state machine |
| `StressMesh` | Start and Stop of the Tests tab, `StartStress`, `StopStress`, `PollStress` | state machine |
| `MeshPorts` | `meshAssignments`, `sanitizeTargets`, `sanitizeListenPorts` | operators |
| `IperfServer` | `Server.run` and `Server.Stop` | state machine, theorems |
| `RemoteTest` | `SpeedTest`, its handler, `RunClientStream` and `RunClientCtx`, beside the servers of `IperfServer` | composition |
| `Discovery` | announce loops, byes and the peer table over an unreliable multicast | state machine |
| `PeerEvents` | `udpLoop`, `nicLoop`, `linkPullLoop`, `Snapshot`, `ResetSession`, `ResetAll` | state machine |
| `SampleLog` | what the collection of samples promises | abstract specification |
| `SampleSync` | `Tick`, `Samples`, `PullOnce` with failures, overlaps and crashes | state machine |
| `Diagnosis` | clock offsets, `DetectEvents`, `Correlate` on what `SampleSync` has collected | operators |
| `Faults` | `Validate`, `Resolve`, `path`, `Score` on the same | operators |
| `InternetTest` | `runInternet`, `runLocalInternet`, `markTestSpan` | state machine |
| `Heatmap` | `LossHeatByMachine`, `heatSyncLoop`, buckets, resampling, beside the tests of `InternetTest` | composition |
| `MC...` | scenarios and instances of the module they name | model checking |
| `..._proofs` | | theorems |

A definition marked "Slip" is never used by a specification. It is a plausible
mistake in the definition that follows it, and `PROJECT.json` lists, for each
property, the mistake that makes it fail.

### SpeedSweep

One scheduler goroutine owns `pending`, `busy`, `active`, `live`, `inFlight` and
`cells`, which are the local variables of `App.SpeedSweep` under their own names;
`pc` says where it is. `testing` is the set of test goroutines inside `SpeedTest`;
`ch` and `liveCh` are the channels. `SkipPair` and `LaunchPair` are the two
outcomes of one turn of `launch()`, in the order of the slice; `EndLaunch` is its
end with the `report()` every caller makes next. `RecvReading` and `RecvResult` are the
two cases of the select. A stop only cancels the context: `launch()` looks at it
at its head, and a test that runs may then fail. A result keeps whether it failed
and in which directions it has a rate above zero (`Outcomes` follows `runSpeedTest`,
where a leg can end well and have moved nothing). Failures without a stop, and rates of
zero, happen in the tests of the pairs in `Flaky`.

Exclusion is between requests of this orchestrator. A remote iperf3 whose HTTP
request was cut may live a little longer than the request, and two machines
that run a sweep at once can collide; `RemoteTest` has both.

### RemoteTest and IperfServer

In `IperfServer`, `loop` is where `run()` is, `process` what became of the published
command's process, `caller` where the one call of `Stop` is. `cmd.Run` is two
steps, the creation of the process and its storing in `cmd.Process`, because `Stop`
reads that field while the loop may be writing it; a `Stop` in between sees either
value.

`RemoteTest` adds calls of `SpeedTest`. `call` and `result` are the caller's side,
`handler` and `answer` the node's, `client` the iperf3 process and `seen` what
`RunClientStream` has read of it. One call stands for one request and its
connection: it may be posted and given up, and then still be taken by the node,
which notices the closed connection at some time (`Cancel`). `StartClient`,
`Outcome` and `EndLeg` are a leg: start, end of output and `Wait`, verdict. An iperf3
that does not know `--json-stream` fails without an event and is run again the
plain way (`PlainOutcome`). The clients themselves are external: a client connects
when the server is there and free, measures, fails with or without an error
line and a summary, loses its server, or is killed.

### StressNode

`slot` is `a.stress`; `running`, `cancelled`, `link` and `consec` are the fields of
a `stressRun` and the program counters of its loaders; `handler`, `life` and `app`
are the program counters of a start request, of the run's lifecycle goroutine and
of `App.Stop`. A stop takes two steps, because `stopStressLocal` reads the slot
under the lock and cancels outside it; `held` is what it carries in between. An extra
listener whose iperf3 does not start is passed over, and may be any of them. Time
is not measured: a timer may fire at any moment. `lost` collects the writes that
come after `store.Close()`.

A start request is taken as sanitised, and stopping an extra listener as a call
that returns; `IperfServer` shows when it does not, and then the lifecycle
goroutine and with it `App.Stop` wait for ever.

### StressMesh and MeshPorts

One machine, `Self`, has the Tests tab. `on`, `gen` and `shown` are `tst.stressOn`,
`tst.stressGen` and who wrote `tst.stressNodes`. Each click on Start makes a
goroutine, `pc[k]`, that fans the start out and then polls; each click on Stop one
that fans the stop out. The other machines are reduced to what `StressNode`
promises of them: one run at a time, refusal while busy, a run that winds down. A
call is one step at the moment the machine handles it: nothing can observe that
it was sent. For a peer in `Flaky` the caller may give up instead, and then the answer
was lost, the request was lost, or the request waits in `net` and is handled
later. In this model `RecordedRunOver` and `StopHaltsMesh` speak of machines that
answered; a machine that did not is out of the code's reach.

The Stop button sends an empty run id, which any run matches, so a stop that is
late at a slow peer also ends the next run there. The model has this behaviour;
nothing in the repository promises the opposite.

### Discovery

The table of one instance is followed; the others announce. `left` and `due` are
the announce loop's quick announces and its timer, `held` and `primary` the
addresses of a machine, `net` the datagrams under way. A datagram lives `MaxDelay` ticks
and may arrive any number of times in them, or never. `twins` are instances on the
own machine, which `isSelfAnnounce` tells by host name and address. Time is kept
as ages: `usedAgo[n][a]` since instance n was up at address a, `lostAgo` since the
own machine lost an address. `Leave` is a crash, or the end of a `Stop` whose
bye is out, while the announce loop may still send one last time.

### PeerEvents

`udp` is the UDP loop with the sample and the pointer it holds, `watch` the adapter
watch, `rst[r]` a call of `ResetSession`, `all` the one of `ResetAll`, `pull` the pull
loop. A step ends where a lock is released. A reset replaces `linkStates` while the
loop may hold a pointer into the old map: `udp.orphan` says so, and `udp.link` is
then what the pointer points to. `ProbeUDP` says what a burst can measure, from
everything that can come back (`Arrivals`) and what the reader makes of it
(`Heard`). A peer's log is only whether it is from before or after that peer's reset.

An event that tells of a change keeps what was and what is now, as its text does. For
the adapter these are the statuses of `Status` and the speeds of `Speed`, compared as
`nicEvents` compares them: any two statuses differ, "Disconnected" and "Unknown" too, a
speed only counts if both polls know one, and discards count on their edges. A poll
may not see the adapter, and the next that does is compared with the last that did.
`watch.blind` is history: some poll since the last change of speed did not know
the speed, so a change on either side of it was not seen.

### SampleLog, SampleSync, Diagnosis and Faults

`made[a]` are the samples in agent a's database, `rows[a]` those the coordinator
has, `cursor[a]` its cursor. `pull[a][c]` is one call of `PullOnce`: it has read the
cursor, waits for the answer, or writes rows one by one. Rows and cursors survive
a `Crash`, calls do not. Two calls for one agent may overlap in the proofs
(`Puller` is any set). `SampleLog` is the promise: samples are made, and each is
copied once.

`Diagnosis` and `Faults` are functions of these variables and are evaluated in every
reachable state, so on every prefix of every agent's samples with every pattern of
losses. The clocks, the layouts of the network and what was probed (`Targets`) are chosen
from sets at that point. `DetectEvents` looks for runs of losses path by path, so two
paths of one agent fail at the same time in two events; `Active` counts such an agent once.

### InternetTest and Heatmap

`test[r]` is a test of the UI or of a peer on this machine, `windows` is
`testWindows`, `stored` the table of results; `tests` is history. `want` is the window
the UI asked for last, `kick` the channel of one, `loop` the sync loop with the
window it read, `cache` what it filed. `Pass` is a step of time in which a peer's
probing loops log something. `Quot` is Go's division: it rounds towards zero, which
matters left of a window.

## The runs

| Run | Instance | Shows |
|---|---|---|
| `SpeedSweep` | 4 machines, one slot for readings, one pair that may fail or measure nothing | all sweep properties, and that the sweep implements `SweepPlan` |
| `SpeedSweep_upload` | 2 machines, upload only | `MeasuredSweepRecorded` fails |
| `StressNode` | 2 start requests, 2 targets, 1 extra port whose server may not start, abort after 2 errors, quiet shutdown | all node properties |
| `StressNode_shutdown` | 1 start request during `App.Stop` | `ShutdownComplete` fails |
| `StressMesh` | 2 machines, 2 starts, 1 stop, at most 2 lost calls | all mesh properties for a stop outside the fan-out |
| `StressMesh_stop` | 2 machines, nothing lost, a stop at any time | `StopHaltsMesh` fails |
| `RemoteTest` | 1 server, 2 calls of one or two legs, from here or from elsewhere, old and new iperf3, a misrouted one | `ResultWhole`, `HangUpKills`, and the server's properties with clients on it |
| `IperfServer_stop` | 1 server | `StopReturns` fails |
| `Discovery` | 2 instances on one or two machines, 2 addresses, 1 change, 2 restarts | `FreshAddress`, `OwnMachineUnlisted`, `LiveFound` |
| `PeerEvents` | 1 peer, bursts of 3 packets, a ring of 3, 3 statuses and 2 speeds of the adapter; five mixes of bursts, polls, clicks and commands | `LogHonest`, `DegradedForCause`, `AckedWereReset`, `PeerLogsCatchUp` |
| `Diagnosis` | 2 agents with 3 and 1 samples, answers of 2, a crash, 3 clocks, 4 layouts, 2 plans of targets | `StoredPrefix`, `ImplementsLog`, `VerdictSound`, `FaultNamed` |
| `Heatmap` | 1 peer, 2 zooms, up to 6 steps of time, up to 2 draws of the map, up to 2 tests of 2 callers | `CellsHonest`, `TestsTold` |

Bounds.

- *Sweep*: four machines are the smallest mesh in which two tests run at once while
  others are blocked; one slot makes `liveCh` overflow. One pair in `Flaky` fails, or
  measures nothing, while every other test runs or waits.
- *Stress*: two start requests are enough for a refusal, for a replaced run and for
  a stop that is late by one run; two targets let one link be aborted while the
  other still loads. Two starts and a stop let a goroutine outlive its generation;
  `MaxStarts`, `MaxStops` and `MaxLosses` bound the clicks and the lost calls.
- *Remote test*: two calls are enough to find the server busy or restarted; two
  legs to lose one after the other. The scenarios fix who asks for what.
- *Discovery*: a time to live of two announce intervals lets an entry survive a lost
  announce and expire; `MaxChanges` and `MaxStarts` bound the changes of address and the
  restarts. Datagrams live one tick, so they overtake each other and outlive a bye.
- *Session*: six bursts let a link degrade, recover and degrade again around a
  reset; a ring of three drops what is old. The budgets bound bursts, polls, clicks
  and commands, since all four at once tell nothing that pairs of them do not. Four
  polls show the adapter in two states, lose it, and see it again in a third; three
  statuses are the fewest with a change between two that are not up, two speeds and
  none the fewest with a change that an unknown speed hides.
  Of three packets all can be lost, one, or enough to be lossy (`LossyAt`).
- *Collection*: an agent with three samples and answers of two needs two pulls; the
  clocks are ahead, behind and level, with even and odd round trips. `Targets` has a
  sample of one path between two of another, so that events of an agent overlap, and a
  path that both ends probe. The layouts are
  a tree, a chain with an unconnected machine, a ring and machines linked to each
  other. `MaxSamples` and `MaxCrashes` are the bounds.
- *Heatmap*: a window of four steps in cells of one or two makes cached and drawn
  grids differ in width and in phase; a flap of three steps covers a cell. Six steps
  leave time for a second test after the window of the first is forgotten
  (`Retention`). A test takes two steps at the most (`TestTime`, in the code the 75 s of
  its context and 3 s for each probe). `Budgets` bounds the steps, the entries, the draws
  and the tests.

Every safety property of these runs is proved without any of these bounds; what is only
model-checked is listed below.

Deadlock is checked in the sweep, where a click is always possible. The other
runs may stop: an application that was quit, a server that was stopped, clicks,
budgets or samples that are used up.

### Fairness

- Goroutines that can run do (weak fairness for each): the Go scheduler is
  preemptive and no lock is held across a blocking call in these parts.
- In the sweep and on a stressed node an iperf3 client ends: it runs for a fixed
  time and is killed with its context. `RemoteTest` does not assume it: there a
  client may hang for ever, unless it is killed, and an answer may never arrive. A
  closed connection is noticed, by its end of file, a failing write or the
  keep-alive of the listener. A killed process ends.
- A timer is assumed to fire only where a property is about time: `RunEnds` assumes
  it in its premise, and `StressMesh` assumes that runs end after their
  duration. `StopHalts` and `ShutdownEnds` hold without it.
- Discovery: time passes, the announce loop runs, and an announce that is repeated
  for ever is heard now and then (strong fairness). Nothing is assumed of a single
  datagram or of a bye.
- Session: a listed peer answers the pull now and then.
- Collection: a pull that is repeated is answered now and then, and for each row a
  write that is tried again and again succeeds now and then. Fairness for all rows
  together is not enough: a single row that can never be written stops the cursor.
- Nobody is assumed to click a button, to call `Stop` or to send a request. The
  heatmap assumes no fairness.

## What the runs found

Four runs end in a counterexample:

1. `App.Stop` waits for the lifecycle goroutines and only later shuts the control
   server down. A start request accepted in between leaves a run that outlives the
   application's teardown and writes to a closed store (`StressNode_shutdown`).
   Without such a request the shutdown is complete: the constant `QuietShutdown`
   is that premise, and `QuietShutdownCompletes` is the theorem.
2. A `Stop` that falls between the publication of an iperf3 command and the creation
   of its process kills nothing and waits for ever (`IperfServer_stop`).
3. A Stop click during the start's fan-out leaves machines that load for the full
   two minutes with the tab off (`StressMesh_stop`). `QuietStop` excludes it elsewhere.
4. A sweep in direction "up" is never recorded, because the summary wants a
   download rate (`SpeedSweep_upload`).

Behaviour the models have and no property forbids, because nothing in the
repository promises otherwise or because a weaker promise is all the code keeps:

- *Heatmap.* Division towards zero makes the cell just before the cached window show
  its first bucket (`resampleRows`), and a flap that ended before the window show in
  its first bucket (`LinkStateBuckets`); hence the two buckets of error in
  `CellsHonest`. A flap that is not over by the end of the window is not drawn. The row
  of a peer that does not answer disappears until the next pull.
- *Internet test.* If no transfer completes and none fails before the phase is over,
  there is no error, and a result of zero rates and grade "A" is stored; the check
  that calls a defaulted "A" a lie asks for a rate first. A test that runs is noted only
  in the cell it started in, until it ends. A caller gives up after 120 s; the test goes on.
- *Session.* `Snapshot` marks listed peers as seen on every frame, so the "joined"
  event is recorded only if the UDP loop comes first. A pointer taken before a reset
  may leave one last "degraded" event of a link whose new state is fresh.
- *Probes.* The reader of a burst ends with the first error of its socket, so one
  refused packet makes the packets after it count as lost.
- *Discovery.* A second instance of the own machine can be listed for the time to live
  and the delay of a datagram after the machine has lost an address.
- *Mesh.* A late stop ends the next run, see above.
- *Remote test.* The handler accepts an omit time of 29 s with a duration of 30 s, and two
  such legs exceed the client timeout of 90 s that a comment says they fit in. The
  UI always sends an omit time of one second.
- *Collection.* An agent that loses its database starts to number from one again, and its
  samples up to the cursor are never pulled. `SampleLog` excludes it: its logs only grow.
- *Faults.* In a layout with a loop the path of a pair depends on the order of names and
  of the file, and so does the blame; `FaultNamed` promises less there.

## What is proved

All theorems of the first sections are about `SafeSpec` (no fairness) unless said
otherwise; the others about `Spec`, whose fairness they do not use. They hold for
every value of the constants that meets the named assumptions: natural numbers
for sizes, subsets for sets of machines, positive limits, model values outside the
sets they stand beside.

*Sweep.* `TypeInvariant`, then `Bookkeeping`: the inductive invariant `SweepInv`.
`EndpointExclusive` alone is not inductive: it needs that the busy map holds
exactly the ends of the active pairs (`BusyInv`), that the active pairs are those
under test or with one result in the channel (`InFlightInv`, which counts them for
`inFlight`), that what a launch pass skipped is still blocked (`PassInv`), and that
nothing is in flight outside the loop (`PhaseInv`). `Exclusion`, `WorkConserving`,
`Accounted`, `Consistent`, `NoPartialRecord` and `NothingLeft` follow, and `Refinement` shows that
each step is a step of `SweepPlan` or leaves its state alone.

*Node.* `TypeInvariant`, then `NodeInvariant`: `SlotInv` (running exactly from the claim
of the slot to its release), `LoadInv` (loaders and listeners only in that span),
`JournalInv`, `ErrorInv`, `ShutdownInv`. `Honest`, `OneRunAtATime`, `OrderedJournal`,
`AbortedSilent` and `QuietShutdownCompletes` follow. `StopsHit` is an action property; it
needs that a stopper holds an id that matches the run it holds (`HeldInv`).

*Mesh.* `PortsFit`: for any mesh within the limits, the port plan and the two
sanitisers agree. It rests on `ClientRank`, the closed form of the inner loop's index.
`TabInvariant` (types, and that generations given to runs are distinct and not
ahead of the tab's) gives `ShownNeverStale` and `LeavesForCause`. `StopHalts` needs
`StopInv`: what may still arrive of a start was given up by its sender (`Late`), a run
that has left its fan-out has asked everybody, and a machine a stop has passed does not
load a run from before it. `RecordedOver` needs `PolledInv`: a machine that answered
the poll as idle is over with its run, and a later run does not bring that one back.

*Server* (in `RemoteTest_proofs`). `TypeInvariant` and `NothingLeft`, from `ServerInv`;
`NothingLeftByTests`, the same of the composition with clients and callers.

*Remote test.* `ResultsWhole`, from `WholeInv`: the legs of the answer so far were all
measured, and whatever a client has printed that counts as a success, it printed
after it measured the leg that is under way. The second half is what makes
the first inductive, through failures, kills and the retry.

*Discovery.* `DiscoveryInvariant`: with the types, that a listed peer has an address, and
`AgesBounded`: a datagram's address was in use no longer ago than the datagram is
old, an entry's no longer ago than its age and the delay, and the same of the
own machine's lost addresses for a twin. `AddressesFresh` and `TwinUnlisted` follow.
The property of entries is not inductive without the datagrams that make them.

*Session.* `SessionInvariant`: `Counted` (the count of lossy samples of a link is never
ahead of the lossy bursts measured, in the map and in a state a reset has
orphaned) and `Acked`. `Hysteresis` and `Acknowledgements` follow. `LogInvariant` is about
the ring, which may have dropped what a state came from: of the changes it still holds of
one subject, each begins where the one before it ended, and the last ends at what holds
now (`Tells`; of a link, apart from the oldest). While an event of a link is on its way the
log says the opposite of it (`LinkLog`), except for an event from before a reset: then
there is none of any link. Up to three events of a poll wait to be recorded, one of each
kind (`Todo`): of each kind the log ends where the waiting one begins (`Told`, `SpeedTold`
in `AdapterLog`). Recording shifts the ring by at most one place (`RecordShifts`), and
that keeps `Tells`. `LogTells` is `LogHonest` for any size of the ring and any statuses and
speeds.

*Heatmap and tests.* `TestsInvariant`: the tests that have not ended are those of the
callers, one each (`Runs`); a window that is missing is of a test that ended too long ago
to be drawn (`Noted`); what is stored was measured (`Measurements`). `Told` follows. It
needs `Retention >= TestTime`, or a running test could be forgotten, and `Retention >=
Span`: the program keeps 25 hours of windows and draws 24 (`testWindowRetentionUS`,
`windowSec`).
`HeatInvariant`: the rows of the loop and of the cache are what the peers had logged when
they answered, on a grid of the zoom they are filed under. `Drawn` is then arithmetic: a
time, the cached bucket it is in and the cell that bucket is drawn in, with a division
that rounds towards zero.

*Collection* (this and the next two in `Diagnosis_proofs`). `SyncInvariant`: for each agent
some number up to which rows are there and none beyond, not less than the cursor, and for
each call under way, that what it has read of the cursor and written so far is below that
number. `StoredIsPrefix` follows, and `ImplementsLogSafety`: each step is a step of
`SampleLog` or leaves its state alone.

*Verdicts.* `VerdictsSound`, for any number of agents and samples, any sampling period and
any clocks whose requests and answers take no negative time (`ClockAssumption`,
`AgentAssumption`: the agents are those of a file). `OffsetFacts`: the estimate is wrong by
half a round trip at the most, rounded up, whatever way Go rounds. `DetectedFacts`: an
event is a run among the samples of one path, and starts no later than it ends. `GroupFacts`:
events whose intervals meet get into one group; the invariant of the loop (`JoinInv`) is
that whatever a closed group holds ends before all that is left begins. `PeakFacts`: the
sweep counts two agents just if intervals of two different ones meet, however many one of
them has open at the time; its invariant (`PassInv`) is that the open intervals are those
with one end behind and one ahead, and needs that an end that opens comes before an end
that closes at the same time.

*Faults.* `PathsAreShortest`, for every layout that `Validate` accepts
(`LayoutAssumption`): the invariant of the search (`SearchInv`) is that of every
breadth-first search, on the depth of a node (`Depth`): depths in the queue never fall and
differ by one at the most, a predecessor is one link nearer, and what has been taken
from the queue has no new neighbours. The queue holds no node twice, so as many turns as
there are nodes empty it. `FaultsNamed` follows: a pair's path holds all that the pair cannot
do without (`NeededOnPath`), and nothing else where no link has an alternative
(`OnPathNeeded`: cutting a link beside a node that could be avoided would leave a way round).

The loops of `Diagnosis` and `Faults` are recursive functions. The library's induction
theorems take an operator as a parameter, which the provers cannot instantiate; here the
hypothesis is a set of numbers (`Induction`, from `NatLessThanWellFounded` and `WFMin`),
and `Recursion` shows that a recursive function over `0..N` exists and keeps an invariant.

Only model-checked: liveness, which is out of the prover's reach: `SweepEnds`, `StopHalts` of
the node, `ShutdownEnds`, `RunEnds`, `TabRecovers`, `KeepsRunning`, `KillingStopReturns`,
`HangUpKills`, `LiveFound`, `PeerLogsCatchUp`, and the liveness part of `ImplementsLog`. Every
invariant and every action property of a passing run is a theorem.

## Not modelled

- Latency, jitter, rates and grades, and everything that only formats them: they
  decide nothing in the program but colours and texts.
- The reachability events and the token of the collection; several NTP-like
  exchanges and the choice among them; `classify`, a table of texts.
- The choice of the server of an internet test (the fastest of those that answer,
  the first if none does) and the parallel streams of one phase.
- `links.go`: the matrix and the warnings about versions and reachability are
  functions of the last reports. Reports of peers that are gone stay in them until
  a reset.
- The start of the application, the refresh of its own address, keep-awake.
- Sockets, SQL, drawing, system calls and files.

What would come next: the warnings of `links.go` over a mesh whose versions change
under a rolling update, together with the switch of `StressMesh` between ports and no
ports.
