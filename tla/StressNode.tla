----------------------------- MODULE StressNode -----------------------------
(***************************************************************************)
(* One machine's part in a stress run (appcore/stress.go) and the shutdown *)
(* of the application (App.Stop in appcore/appcore.go).                    *)
(*                                                                         *)
(* A start request claims the node's busy slot, opens the extra iperf3     *)
(* listeners, logs the start, and spawns one loader goroutine for each     *)
(* target and one lifecycle goroutine.  The lifecycle goroutine waits for  *)
(* the end of the run or a stop, drains the loaders, closes the listeners, *)
(* frees the slot and does the bookkeeping.  Start requests, stop requests *)
(* and App.Stop come from different goroutines, in any order.              *)
(*                                                                         *)
(* Time is not measured: a timer may fire at any moment, and none is       *)
(* assumed to unless a property says so.  Every request asks for the same  *)
(* targets and ports, already sanitised.                                   *)
(***************************************************************************)
EXTENDS Naturals, FiniteSets

CONSTANTS
  Run,                \* ids of the start requests that may arrive
  Target,             \* hosts to load
  Port,               \* extra listeners each run asks for
  StressAbortAfter,   \* consecutive client errors that abort a link
  NoRun,              \* the nil pointer in the slot
  AnyRun,             \* the empty run id of a stop request
  QuietShutdown       \* no start request is pending or arrives once App.Stop runs

ASSUME RunAssumption == NoRun \notin Run /\ AnyRun \notin Run
ASSUME AbortAssumption == StressAbortAfter \in Nat \ {0}
ASSUME QuietAssumption == QuietShutdown \in BOOLEAN

Stopper == {"http", "app"}    \* who may be inside stopStressLocal

VARIABLES
  slot,        \* a.stress: the latest accepted run
  handler,     \* handler[r]: where the start request is
  running,     \* running[r]: the run's busy flag
  cancelled,   \* cancelled[r]: the run's context is done
  listeners,   \* the extra iperf3 servers that are up, [run, port]
  link,        \* link[r][t]: where the loader goroutine is
  consec,      \* consec[r][t]: consecutive client errors
  aborted,     \* links given up, [run, target]
  life,        \* life[r]: where the lifecycle goroutine is
  span,        \* span[r]: the run's window in the heatmap
  held,        \* held[c]: what a stopper is about to cancel, and the id it was given
  app,         \* the phase of App.Stop
  storeOpen,   \* the store accepts writes
  started,     \* runs whose start is in the event log
  ended,       \* runs whose end is in the event log
  lost         \* runs with a write that came after the store closed

loaders == <<link, consec, aborted>>
journal == <<span, started, ended, lost>>
vars == <<slot, handler, running, cancelled, listeners, loaders, life, held, app,
          storeOpen, journal>>

-----------------------------------------------------------------------------
(* Pieces of the handlers.  A definition marked "Slip" is a plausible        *)
(* mistake in the one after it; the runs are shown to notice each of them.   *)

\* Slip: a run counts as over once it has been told to stop.
BusyUnlessStopped == slot # NoRun /\ running[slot] /\ ~cancelled[slot]

\* a.stress != nil && a.stress.running
Busy == slot # NoRun /\ running[slot]

\* Slip: any stop request stops whatever runs.
AnyStop(id, r) == TRUE

\* Whether a stop request for id is meant for run r.
StopMatches(id, r) == id = AnyRun \/ id = r

\* Slip: the lifecycle goroutine does not wait for the loaders.
NoDrain(r) == TRUE

\* run.wg.Wait() returns
Drained(r) == \A t \in Target : link[r][t] = "done"

\* Slip: the slot is freed while listeners are still up.
NoListenerWait(r) == TRUE

\* All srvStops have returned.
ListenersDown(r) == \A p \in Port : [run |-> r, port |-> p] \notin listeners

\* Slip: the link is marked aborted and its loop goes on.
KeepTrying == "head"

\* return after l.Aborted = true
GiveUp == "done"

\* Slip: the timer ends the lifecycle's wait and leaves the context alone.
TimerOnly(r) == cancelled

\* cancel() when the duration has passed
TimerCancels(r) == [cancelled EXCEPT ![r] = TRUE]

\* Slip: the lifecycle goroutine waits for its timer only.
StopUnseen(r) == FALSE

\* <-ctx.Done() in the lifecycle's select
StopVisible(r) == cancelled[r]

\* Slip: the shutdown does not wait for the lifecycle goroutines.
NoWait == TRUE

\* stressWG.Wait() returns
LifecyclesOver == \A r \in Run : life[r] \in {"none", "done"}

\* Slip: the shutdown forgets the run in the slot.
StopNothing == NoRun

\* The run App.Stop and a stop request act on.
CurrentRun == slot

\* A write to the store on behalf of run r.
Write(r) == lost' = IF storeOpen THEN lost ELSE lost \cup {r}

\* The HTTP server takes requests until linksSrv.Shutdown.
Serving == app \in {"up", "stop", "wait", "loops"}

\* No stop in progress; the slot as a stopper that was given id reads it.
NoStop == [id |-> AnyRun, run |-> NoRun]
Reads(id, r) == [id |-> id, run |-> r]

\* A start request that has claimed the slot and not returned yet.
Opening == {"listen", "event", "spawn", "adopt"}
Pending(r) == handler[r] \in Opening

-----------------------------------------------------------------------------
Init ==
  /\ slot = NoRun
  /\ handler = [r \in Run |-> "none"]
  /\ running = [r \in Run |-> FALSE]
  /\ cancelled = [r \in Run |-> FALSE]
  /\ listeners = {}
  /\ link = [r \in Run |-> [t \in Target |-> "none"]]
  /\ consec = [r \in Run |-> [t \in Target |-> 0]]
  /\ aborted = {}
  /\ life = [r \in Run |-> "none"]
  /\ span = [r \in Run |-> "none"]
  /\ held = [c \in Stopper |-> NoStop]
  /\ app = "up"
  /\ storeOpen = TRUE
  /\ started = {} /\ ended = {} /\ lost = {}

(* startStressLocal *)

\* Under stressMu: refuse while a run is active, else claim the slot.
StartRequest(r) ==
  /\ handler[r] = "none"
  /\ Serving /\ (QuietShutdown => app = "up")
  /\ IF Busy
       THEN /\ handler' = [handler EXCEPT ![r] = "busy"]
            /\ UNCHANGED <<slot, running>>
       ELSE /\ handler' = [handler EXCEPT ![r] = "listen"]
            /\ slot' = r
            /\ running' = [running EXCEPT ![r] = TRUE]
  /\ UNCHANGED <<cancelled, listeners, loaders, life, held, app, storeOpen, journal>>

\* One turn of the loop that starts the extra iperf3 servers, for a port whose
\* server starts.
OpenListener(r, p) ==
  /\ handler[r] = "listen"
  /\ [run |-> r, port |-> p] \notin listeners
  /\ listeners' = listeners \cup {[run |-> r, port |-> p]}
  /\ UNCHANGED <<slot, handler, running, cancelled, loaders, life, held, app,
                 storeOpen, journal>>

\* The end of that loop. A port whose server does not start is passed over (srv
\* returns nil): it is not among the run's listeners.
ListenersUp(r) ==
  /\ handler[r] = "listen"
  /\ handler' = [handler EXCEPT ![r] = "event"]
  /\ UNCHANGED <<slot, running, cancelled, listeners, loaders, life, held, app,
                 storeOpen, journal>>

\* recordTestEvent and markTestSpan
RecordStarted(r) ==
  /\ handler[r] = "event"
  /\ handler' = [handler EXCEPT ![r] = "spawn"]
  /\ started' = started \cup {r}
  /\ span' = [span EXCEPT ![r] = "open"]
  /\ Write(r)
  /\ UNCHANGED <<slot, running, cancelled, listeners, loaders, life, held, app,
                 storeOpen, ended>>

\* run.wg.Add(1) and go, for each target.
SpawnLoaders(r) ==
  /\ handler[r] = "spawn"
  /\ handler' = [handler EXCEPT ![r] = "adopt"]
  /\ link' = [link EXCEPT ![r] = [t \in Target |-> "delayed"]]
  /\ UNCHANGED <<slot, running, cancelled, listeners, consec, aborted, life, held,
                 app, storeOpen, journal>>

\* stressWG.Add(1) and the lifecycle goroutine.
SpawnLifecycle(r) ==
  /\ handler[r] = "adopt"
  /\ handler' = [handler EXCEPT ![r] = "accepted"]
  /\ life' = [life EXCEPT ![r] = "timer"]
  /\ UNCHANGED <<slot, running, cancelled, listeners, loaders, held, app, storeOpen,
                 journal>>

StartHandler(r) ==
  \/ \E p \in Port : OpenListener(r, p)
  \/ ListenersUp(r) \/ RecordStarted(r) \/ SpawnLoaders(r) \/ SpawnLifecycle(r)

-----------------------------------------------------------------------------
(* A loader goroutine: the delay, then loadTarget. *)

SetLink(r, t, where) == link' = [link EXCEPT ![r][t] = where]

LoaderFrame == UNCHANGED <<slot, handler, running, cancelled, listeners, life, held,
                           app, storeOpen, journal>>

\* The scheduled start has come, or the run was stopped before it.
EndDelay(r, t) ==
  /\ link[r][t] = "delayed"
  /\ \/ cancelled[r] /\ SetLink(r, t, "done")
     \/ SetLink(r, t, "head")
  /\ UNCHANGED <<consec, aborted>>
  /\ LoaderFrame

\* The head of the loop.
BeginChunk(r, t) ==
  /\ link[r][t] = "head"
  /\ SetLink(r, t, IF cancelled[r] THEN "done" ELSE "chunk")
  /\ UNCHANGED <<consec, aborted>>
  /\ LoaderFrame

\* The client returns.  A stopped run ends here whatever the client says.
EndChunkStopped(r, t) ==
  /\ link[r][t] = "chunk"
  /\ cancelled[r]
  /\ SetLink(r, t, "done")
  /\ UNCHANGED <<consec, aborted>>
  /\ LoaderFrame

EndChunkOk(r, t) ==
  /\ link[r][t] = "chunk"
  /\ ~cancelled[r]
  /\ SetLink(r, t, "head")
  /\ consec' = [consec EXCEPT ![r][t] = 0]
  /\ UNCHANGED aborted
  /\ LoaderFrame

EndChunkError(r, t) ==
  /\ link[r][t] = "chunk"
  /\ ~cancelled[r]
  /\ consec' = [consec EXCEPT ![r][t] = @ + 1]
  /\ IF consec[r][t] + 1 >= StressAbortAfter
       THEN /\ SetLink(r, t, GiveUp)
            /\ aborted' = aborted \cup {[run |-> r, target |-> t]}
       ELSE /\ SetLink(r, t, "head")
            /\ UNCHANGED aborted
  /\ LoaderFrame

Loader(r, t) ==
  \/ EndDelay(r, t) \/ BeginChunk(r, t)
  \/ EndChunkStopped(r, t) \/ EndChunkOk(r, t) \/ EndChunkError(r, t)

-----------------------------------------------------------------------------
(* The lifecycle goroutine *)

AdvanceLife(r, from, to) ==
  /\ life[r] = from
  /\ life' = [life EXCEPT ![r] = to]

\* The duration has passed: the goroutine cancels the run itself.
TimerFires(r) ==
  /\ AdvanceLife(r, "timer", "drain")
  /\ cancelled' = TimerCancels(r)
  /\ UNCHANGED <<slot, handler, running, listeners, loaders, held, app, storeOpen,
                 journal>>

\* The run was stopped from outside.
StopSeen(r) ==
  /\ StopVisible(r)
  /\ AdvanceLife(r, "timer", "drain")
  /\ UNCHANGED <<slot, handler, running, cancelled, listeners, loaders, held, app,
                 storeOpen, journal>>

Drain(r) ==
  /\ Drained(r)
  /\ AdvanceLife(r, "drain", "listeners")
  /\ UNCHANGED <<slot, handler, running, cancelled, listeners, loaders, held, app,
                 storeOpen, journal>>

\* One turn of the loop over srvStops.
CloseListener(r, p) ==
  /\ life[r] = "listeners"
  /\ [run |-> r, port |-> p] \in listeners
  /\ listeners' = listeners \ {[run |-> r, port |-> p]}
  /\ UNCHANGED <<slot, handler, running, cancelled, loaders, life, held, app,
                 storeOpen, journal>>

\* Under stressMu and run.mu.
FreeSlot(r) ==
  /\ ListenersDown(r)
  /\ AdvanceLife(r, "listeners", "books")
  /\ running' = [running EXCEPT ![r] = FALSE]
  /\ UNCHANGED <<slot, handler, cancelled, listeners, loaders, held, app, storeOpen,
                 journal>>

\* finalize, then the "ended" event
RecordEnded(r) ==
  /\ AdvanceLife(r, "books", "done")
  /\ span' = [span EXCEPT ![r] = "closed"]
  /\ ended' = ended \cup {r}
  /\ Write(r)
  /\ UNCHANGED <<slot, handler, running, cancelled, listeners, loaders, held, app,
                 storeOpen, started>>

Lifecycle(r) ==
  \/ StopSeen(r) \/ Drain(r)
  \/ \E p \in Port : CloseListener(r, p)
  \/ FreeSlot(r) \/ RecordEnded(r)

-----------------------------------------------------------------------------
(* stopStressLocal, from the HTTP handler and from App.Stop *)

\* Read the slot under stressMu and leave it; the id is checked outside.
StopRequest(id) ==
  /\ Serving
  /\ held["http"] = NoStop
  /\ slot # NoRun /\ StopMatches(id, slot)
  /\ held' = [held EXCEPT !["http"] = Reads(id, slot)]
  /\ UNCHANGED <<slot, handler, running, cancelled, listeners, loaders, life, app,
                 storeOpen, journal>>

\* run.cancel()
StopCancel ==
  /\ held["http"] # NoStop
  /\ cancelled' = [cancelled EXCEPT ![held["http"].run] = TRUE]
  /\ held' = [held EXCEPT !["http"] = NoStop]
  /\ UNCHANGED <<slot, handler, running, listeners, loaders, life, app, storeOpen,
                 journal>>

(* App.Stop *)

AppFrame == UNCHANGED <<slot, handler, running, listeners, loaders, life, journal>>

Quit ==
  /\ app = "up"
  /\ QuietShutdown => \A r \in Run : ~Pending(r)
  /\ app' = "stop"
  /\ held' = [held EXCEPT !["app"] = Reads(AnyRun, CurrentRun)]
  /\ UNCHANGED <<cancelled, storeOpen>>
  /\ AppFrame

\* stopStressLocal("")
AppStopsRun ==
  /\ app = "stop"
  /\ app' = "wait"
  /\ cancelled' = [r \in Run |-> cancelled[r] \/ r = held["app"].run]
  /\ held' = [held EXCEPT !["app"] = NoStop]
  /\ UNCHANGED storeOpen
  /\ AppFrame

\* stressWG.Wait()
AppWaits ==
  /\ app = "wait"
  /\ LifecyclesOver
  /\ app' = "loops"
  /\ UNCHANGED <<cancelled, held, storeOpen>>
  /\ AppFrame

\* a.cancel(), wg.Wait() for the probing loops, then linksSrv.Shutdown, which
\* gives the requests in progress two seconds and no more.
AppShutsServer ==
  /\ app = "loops"
  /\ app' = "shutdown"
  /\ UNCHANGED <<cancelled, held, storeOpen>>
  /\ AppFrame

\* The rest of the teardown, store.Close() last.
AppClosesStore ==
  /\ app = "shutdown"
  /\ app' = "down"
  /\ storeOpen' = FALSE
  /\ UNCHANGED <<cancelled, held>>
  /\ AppFrame

AppStop == AppStopsRun \/ AppWaits \/ AppShutsServer \/ AppClosesStore

-----------------------------------------------------------------------------
Next ==
  \/ \E r \in Run : StartRequest(r) \/ StartHandler(r) \/ TimerFires(r) \/ Lifecycle(r)
  \/ \E r \in Run, t \in Target : Loader(r, t)
  \/ \E id \in Run \cup {AnyRun} : StopRequest(id)
  \/ StopCancel
  \/ Quit
  \/ AppStop

SafeSpec == Init /\ [][Next]_vars

\* Every goroutine that can run does: handlers, loaders (an iperf3 client ends
\* with its chunk or is killed with the context), lifecycles, App.Stop.
GoFairness ==
  /\ \A r \in Run : WF_vars(StartHandler(r)) /\ WF_vars(Lifecycle(r))
  /\ \A r \in Run, t \in Target : WF_vars(Loader(r, t))
  /\ WF_vars(StopCancel)
  /\ WF_vars(AppStop)

\* No timer is assumed to fire: what a stop must achieve by itself.
Spec == SafeSpec /\ GoFairness

\* The duration of every run passes.
TimePasses == \A r \in Run : WF_vars(TimerFires(r))

-----------------------------------------------------------------------------
(* Properties *)

HandlerPhase == {"none", "busy", "listen", "event", "spawn", "adopt", "accepted"}
LinkPhase == {"none", "delayed", "head", "chunk", "done"}
LifePhase == {"none", "timer", "drain", "listeners", "books", "done"}
AppPhase == {"up", "stop", "wait", "loops", "shutdown", "down"}

TypeOK ==
  /\ slot \in Run \cup {NoRun}
  /\ handler \in [Run -> HandlerPhase]
  /\ running \in [Run -> BOOLEAN]
  /\ cancelled \in [Run -> BOOLEAN]
  /\ listeners \subseteq [run: Run, port: Port]
  /\ link \in [Run -> [Target -> LinkPhase]]
  /\ consec \in [Run -> [Target -> Nat]]
  /\ aborted \subseteq [run: Run, target: Target]
  /\ life \in [Run -> LifePhase]
  /\ span \in [Run -> {"none", "open", "closed"}]
  /\ held \in [Stopper -> [id: Run \cup {AnyRun}, run: Run \cup {NoRun}]]
  /\ app \in AppPhase
  /\ storeOpen \in BOOLEAN
  /\ started \subseteq Run /\ ended \subseteq Run /\ lost \subseteq Run

\* A run puts load on the network or holds a port.
Loads(r) ==
  \/ \E t \in Target : link[r][t] \in {"delayed", "head", "chunk"}
  \/ \E p \in Port : [run |-> r, port |-> p] \in listeners

\* Two runs never load the network or hold a listener at once: a new run is
\* refused until the last one's loaders and listeners are gone, and a refused
\* start leaves nothing behind.
SingleRun == \A r, s \in Run : Loads(r) /\ Loads(s) => r = s

\* A status that says the run is over is true: nothing of it is left.  The
\* status of a run that loads says running.
StatusHonest == \A r \in Run : Loads(r) => slot = r /\ running[r]

\* A link is aborted only after StressAbortAfter errors in a row, and an aborted
\* link carries no load any more.
AbortedLinkSilent ==
  \A a \in aborted :
    /\ consec[a.run][a.target] = StressAbortAfter
    /\ link[a.run][a.target] = "done"

\* Only the run's own timer, a stop request for it, or the shutdown cancels it;
\* a stop meant for an earlier run does not touch the one that replaced it.
StopHitsItsRun ==
  [][\A r \in Run :
       cancelled'[r] /\ ~cancelled[r] =>
         \/ life[r] = "timer" /\ life'[r] = "drain"
         \/ \E c \in Stopper : held[c] \in {Reads(r, r), Reads(AnyRun, r)}]_vars

\* The journal is well formed: a run ends in the log after it started there, and
\* only once nothing of it is left.
JournalOrdered ==
  \A r \in ended : r \in started /\ span[r] = "closed" /\ ~Loads(r) /\ ~running[r]

\* "lifecycle goroutines write the store; wait before Close": nothing is written
\* after the store has closed, and a node that is down neither loads nor listens.
ShutdownComplete ==
  /\ lost = {}
  /\ app = "down" => \A r \in Run : ~Loads(r)

\* A stopped run ends without waiting for its time: its loaders stop, its
\* listeners close and the slot is free again.
StopHalts == \A r \in Run : cancelled[r] ~> ~running[r] /\ ~Loads(r)

\* App.Stop returns.
ShutdownEnds == app = "stop" ~> app = "down"

\* As time passes an accepted run ends by itself, in the journal too, even when
\* every link has been aborted or nobody ever stops it.
RunEnds == TimePasses => \A r \in Run : running[r] ~> r \in ended

-----------------------------------------------------------------------------
(* The inductive invariant *)

\* The run in the slot is the only one that may be running, and it is running
\* from the claim of the slot to its release.
SlotInv ==
  \A r \in Run :
    /\ running[r] => slot = r
    /\ running[r] <=> Pending(r) \/ life[r] \in {"timer", "drain", "listeners"}
    /\ life[r] # "none" <=> handler[r] = "accepted"

\* Loaders live from their spawn to the drain, listeners from the first one
\* opened until the last is closed.
LoadInv ==
  /\ \A r \in Run, t \in Target :
       /\ handler[r] \notin {"adopt", "accepted"} => link[r][t] = "none"
       /\ life[r] \in {"listeners", "books", "done"} => link[r][t] \in {"none", "done"}
  /\ \A l \in listeners :
       Pending(l.run) \/ life[l.run] \in {"timer", "drain", "listeners"}

\* What the journal holds follows the two goroutines of the run.
JournalInv ==
  \A r \in Run :
    /\ handler[r] \in {"spawn", "adopt", "accepted"} => r \in started
    /\ r \in ended <=> life[r] = "done"
    /\ r \in ended => span[r] = "closed"

\* In a quiet shutdown every request is through when App.Stop begins and every
\* lifecycle goroutine when it moves past the wait, so the store closes last.
ShutdownInv ==
  QuietShutdown =>
    /\ app # "up" => \A r \in Run : ~Pending(r)
    /\ app \in {"loops", "shutdown", "down"} => LifecyclesOver
    /\ storeOpen <=> app # "down"
    /\ lost = {}

\* The error counter of a link stays below the limit while its loader runs.
ErrorInv ==
  /\ \A r \in Run, t \in Target :
       link[r][t] # "done" => consec[r][t] < StressAbortAfter
  /\ AbortedLinkSilent

\* A stopper holds an id that is empty or that of the run it is about to cancel.
HeldInv == \A c \in Stopper : held[c].id \in {AnyRun, held[c].run}

NodeInv == SlotInv /\ LoadInv /\ JournalInv /\ ErrorInv /\ ShutdownInv
=============================================================================
