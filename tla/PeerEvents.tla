----------------------------- MODULE PeerEvents -----------------------------
(***************************************************************************)
(* The session of one machine (appcore/appcore.go, events.go, nicwatch.go, *)
(* command.go): the UDP bursts to the listed peers (probe/udp.go) and the  *)
(* events they make, the adapter watch, the pull of the peers' logs, the   *)
(* UI's snapshots, and the resets that clear all of it while these run.    *)
(*                                                                         *)
(* A goroutine is a program counter and what it holds.  A step ends where  *)
(* a lock is released or a call leaves the process.  ResetSession takes    *)
(* one lock after the other; pointers into the maps it clears stay with    *)
(* those who hold them.                                                    *)
(***************************************************************************)
EXTENDS Integers, Sequences, FiniteSets

CONSTANTS
  Peer,            \* the other machines
  Nobody,          \* no peer
  UdpProbeCount,   \* udpProbeCount: packets of a burst
  LossyAt,         \* how many of them are degradeEnterPct; one is degradeExitPct
  DegradeEnterN,   \* degradeEnterN: lossy samples in a row
  EventRingCap,    \* eventRingCap
  Status,          \* statuses nicstat reports of an adapter, as it words them
  Speed,           \* link speeds it reports, "none" (empty in the program) if it knows none
  Reset,           \* calls of ResetSession that may come
  Click,           \* the one of the UI's ResetAll; the others are commands
  Budgets          \* bounds: bursts, polls of the adapter, clicks on Reset and
                   \* commands to reset, one record for each scenario

ASSUME NobodyAssumption == Nobody \notin Peer
ASSUME CapAssumption ==
  {UdpProbeCount, LossyAt, DegradeEnterN, EventRingCap} \subseteq Nat \ {0}
ASSUME ClickAssumption == Click \in Reset
Bounded == {"bursts", "polls", "clicks", "commands"}
ASSUME BudgetAssumption == Budgets \subseteq [Bounded -> Nat]

VARIABLES
  listed,     \* Discovery.Peers()
  seen,       \* keys of a.firstSeen
  link,       \* a.linkStates; an absent entry is a fresh one
  events,     \* a.events
  udp,        \* the UDP loop: where it is and what it holds
  lossy,      \* lossy[p]: lossy bursts to p in a row, as measured
  watch,      \* nicLoop: prev, discarding, and the events of a poll; blind: since
              \* it last told of a change of speed, a poll did not know the speed
  rst,        \* rst[r]: how far reset r is
  all,        \* ResetAll: peers still to ask, peers that acknowledged
  restarted,  \* peers that went through a reset of ResetAll
  late,       \* peers whose reset is on its way although ResetAll gave up
  log,        \* log[p]: a.peerEvents[p], from before or after p's reset
  pull,       \* linkPullLoop: the peer asked and the answer
  left        \* what is left of the scenario's budget

own == <<seen, link, events, udp, lossy, watch>>
mesh == <<restarted, late, pull>>
vars == <<listed, own, mesh, rst, all, log, left>>

-----------------------------------------------------------------------------
(* Data.  A definition marked "Slip" is a plausible mistake in the one after *)
(* it; the runs are shown to notice each of them.                            *)

Fresh == [degraded |-> FALSE, hi |-> 0]
LinkState == [degraded : BOOLEAN, hi : 0..DegradeEnterN - 1]

\* Loss of a burst as step() tells it: below degradeExitPct, between the
\* thresholds, at least degradeEnterPct.
Loss == {"none", "some", "high"}
LossOf(lost) == IF lost = 0 THEN "none" ELSE IF lost < LossyAt THEN "some" ELSE "high"

\* What comes back of a burst, in the order it does: echoes, by the number of the
\* packet, some of them twice, some never, some after the others; and a 0 where
\* the peer's machine says that nobody listens on the port.
Arrivals == UNION {[1..n -> 0..UdpProbeCount] : n \in 0..UdpProbeCount + 1}

\* The packets ProbeUDP()'s reader has seen the echo of: it ends with the first
\* error of its socket.
Heard(a) ==
  {i \in 1..UdpProbeCount : \E k \in DOMAIN a : a[k] = i /\ \A j \in 1..k : a[j] # 0}

\* ProbeUDP(): the losses a burst can end with.
ProbeUDP == {LossOf(UdpProbeCount - Cardinality(Heard(a))) : a \in Arrivals}

\* An event is about a peer, or about the adapter or the session.  One that tells of
\* a change tells what was and what is now: a status, a speed, or whether packets
\* are lost, "degraded" and "recovered", "began" and "cleared" in the program.
Event == [of : Peer \cup {Nobody},
          what : {"joined", "loss", "status", "speed", "discards", "session reset"},
          was : {"none", "good", "bad"} \cup Status \cup Speed,
          now : {"none", "good", "bad"} \cup Status \cup Speed]
Change(p, what, was, now) == [of |-> p, what |-> what, was |-> was, now |-> now]
About(p, what) == Change(p, what, "none", "none")
Level(isBad) == IF isBad THEN "bad" ELSE "good"

\* Slip: a good sample does not end a row of lossy ones.
StepKeepsCount(s, loss) ==
  CASE ~s.degraded /\ loss # "high" -> s
    [] ~s.degraded /\ loss = "high" /\ s.hi + 1 < DegradeEnterN -> [s EXCEPT !.hi = @ + 1]
    [] s.degraded /\ loss = "none" -> Fresh
    [] OTHER -> [degraded |-> TRUE, hi |-> 0]

\* linkState.step(): hysteresis over the samples of one link.
Stepped(s, loss) ==
  CASE ~s.degraded /\ loss # "high" -> Fresh
    [] ~s.degraded /\ loss = "high" /\ s.hi + 1 < DegradeEnterN -> [s EXCEPT !.hi = @ + 1]
    [] s.degraded /\ loss = "none" -> Fresh
    [] OTHER -> [degraded |-> TRUE, hi |-> 0]

\* step() reports changes only.
Changed(s, t) == s.degraded # t.degraded

\* recordEvent(): the ring keeps the latest events.
Record(e) ==
  events' = IF Len(events) < EventRingCap THEN Append(events, e)
            ELSE Append(Tail(events), e)

\* Slip: any answer counts, whatever its status.
AnyAnswer(outcome) == outcome # "given up"

\* postCommand(): an answer with status 200 within the client's timeout.
Acknowledged(outcome) == outcome = "ok"

\* Slip: what is known of a peer is not asked for again.
AskOnce(p) == log[p] = "none"

\* linkPullLoop(): every listed peer is asked, every round.
Ask(p) == p \in listed

-----------------------------------------------------------------------------
Init ==
  /\ listed \in SUBSET Peer
  /\ seen = {}
  /\ link = [p \in Peer |-> Fresh]
  /\ events = <<>>
  /\ udp = [at |-> "idle", peer |-> Nobody, loss |-> "none",
            orphan |-> FALSE, link |-> Fresh]
  /\ lossy = [p \in Peer |-> 0]
  /\ watch = [known |-> FALSE, status |-> "none", speed |-> "none", discarding |-> FALSE,
              blind |-> FALSE, todo |-> <<>>]
  /\ rst = [r \in Reset |-> "idle"]
  /\ all = [at |-> "idle", todo |-> {}, acked |-> {}]
  /\ restarted = {} /\ late = {}
  /\ log = [p \in Peer |-> "none"]
  /\ pull = [peer |-> Nobody, log |-> "none"]
  /\ left \in Budgets

\* One burst, poll, click or command less.
Spend(what) == left[what] > 0 /\ left' = [left EXCEPT ![what] = @ - 1]

\* Peers come and go.
Discover ==
  /\ \E L \in SUBSET Peer : L # listed /\ listed' = L
  /\ UNCHANGED <<own, mesh, rst, all, log, left>>

-----------------------------------------------------------------------------
(* The UDP loop.  A burst that fails altogether leaves no trace.             *)

Burst(p) ==
  /\ udp.at = "idle" /\ p \in listed
  /\ \E loss \in ProbeUDP :
       /\ udp' = [udp EXCEPT !.at = "mark", !.peer = p, !.loss = loss]
       /\ lossy' = [lossy EXCEPT ![p] =
            IF loss # "high" THEN 0 ELSE IF @ < DegradeEnterN THEN @ + 1 ELSE @]
  /\ Spend("bursts")
  /\ UNCHANGED <<listed, seen, link, events, watch, mesh, rst, all, log>>

\* markSeen(), under peerMu.
Mark ==
  /\ udp.at = "mark"
  /\ seen' = seen \cup {udp.peer}
  /\ udp' = [udp EXCEPT !.at = IF udp.peer \in seen THEN "link" ELSE "joined"]
  /\ UNCHANGED <<listed, link, events, lossy, watch, mesh, rst, all, log, left>>

RecordJoined ==
  /\ udp.at = "joined"
  /\ Record(About(udp.peer, "joined"))
  /\ udp' = [udp EXCEPT !.at = "link"]
  /\ UNCHANGED <<listed, seen, link, lossy, watch, mesh, rst, all, log, left>>

\* linkStateFor(): the pointer leaves the lock.
TakeLink ==
  /\ udp.at = "link"
  /\ udp' = [udp EXCEPT !.at = "step", !.orphan = FALSE]
  /\ UNCHANGED <<listed, seen, link, events, lossy, watch, mesh, rst, all, log, left>>

\* step() on what the pointer points to, which a reset may have orphaned.
Step ==
  /\ udp.at = "step"
  /\ LET s == IF udp.orphan THEN udp.link ELSE link[udp.peer]
         t == Stepped(s, udp.loss)
     IN  /\ link' = IF udp.orphan THEN link ELSE [link EXCEPT ![udp.peer] = t]
         /\ udp' = [udp EXCEPT !.at = IF Changed(s, t) THEN "record" ELSE "idle",
                               !.orphan = FALSE, !.link = t]
  /\ UNCHANGED <<listed, seen, events, lossy, watch, mesh, rst, all, log, left>>

RecordStep ==
  /\ udp.at = "record"
  /\ Record(Change(udp.peer, "loss", Level(~udp.link.degraded), Level(udp.link.degraded)))
  /\ udp' = [udp EXCEPT !.at = "idle"]
  /\ UNCHANGED <<listed, seen, link, lossy, watch, mesh, rst, all, log, left>>

\* Snapshot(), for every frame of the window, marks the listed peers too.
Frame ==
  /\ seen' = seen \cup listed
  /\ UNCHANGED <<listed, link, events, udp, lossy, watch, mesh, rst, all, log, left>>

-----------------------------------------------------------------------------
(* The adapter watch.                                                        *)

\* A new speed counts if both are known.
SpeedChanged(speed) == "none" \notin {watch.speed, speed} /\ watch.speed # speed

\* nicEvents(): changes against the previous poll that saw the adapter, status
\* before speed before discards; the counters show discards since, or not.
AdapterEvents(status, speed, bad) ==
  (IF watch.status = status THEN <<>>
   ELSE <<Change(Nobody, "status", watch.status, status)>>)
  \o
  (IF ~SpeedChanged(speed) THEN <<>>
   ELSE <<Change(Nobody, "speed", watch.speed, speed)>>)
  \o
  (IF watch.discarding = bad THEN <<>>
   ELSE <<Change(Nobody, "discards", Level(watch.discarding), Level(bad))>>)

WatchState == [known : BOOLEAN, status : Status \cup {"none"}, speed : Speed \cup {"none"},
               discarding : BOOLEAN, blind : BOOLEAN, todo : Seq(Event)]

\* Slip: prev is made anew from every poll.
ForgetAbsent == [watch EXCEPT !.known = FALSE]

\* A poll without the adapter: its entries in prev and in discarding stay.
KeepAbsent == watch

\* A poll with the adapter; the first has nothing to compare it with.
Seen(status, speed, bad) ==
  [known |-> TRUE, status |-> status, speed |-> speed,
   discarding |-> IF watch.known THEN bad ELSE watch.discarding,
   blind |-> speed = "none" \/ (watch.blind /\ ~(watch.known /\ SpeedChanged(speed))),
   todo |-> IF watch.known THEN AdapterEvents(status, speed, bad) ELSE <<>>]

Poll ==
  /\ watch.todo = <<>>
  /\ \/ watch' = KeepAbsent
     \/ \E status \in Status, speed \in Speed, bad \in BOOLEAN :
          watch' = Seen(status, speed, bad)
  /\ Spend("polls")
  /\ UNCHANGED <<listed, seen, link, events, udp, lossy, mesh, rst, all, log>>

RecordPoll ==
  /\ watch.todo # <<>>
  /\ Record(Head(watch.todo))
  /\ watch' = [watch EXCEPT !.todo = Tail(@)]
  /\ UNCHANGED <<listed, seen, link, udp, lossy, mesh, rst, all, log, left>>

-----------------------------------------------------------------------------
(* Resets.  The sections under a.mu and nicMu touch nothing that is kept     *)
(* here.                                                                     *)

\* The section under peerMu; the UDP loop may hold a pointer into linkStates.
ClearPeers(r) ==
  /\ rst[r] = "idle"
  /\ IF r = Click THEN all.at = "resetting" /\ UNCHANGED left
     ELSE Spend("commands")
  /\ seen' = {}
  /\ link' = [p \in Peer |-> Fresh]
  /\ udp' = IF udp.at = "step" /\ ~udp.orphan
            THEN [udp EXCEPT !.orphan = TRUE, !.link = link[udp.peer]] ELSE udp
  /\ rst' = [rst EXCEPT ![r] = "reports"]
  /\ UNCHANGED <<listed, events, lossy, watch, mesh, all, log>>

ClearReports(r) ==
  /\ rst[r] = "reports"
  /\ log' = [p \in Peer |-> "none"]
  /\ rst' = [rst EXCEPT ![r] = "events"]
  /\ UNCHANGED <<listed, own, mesh, all, left>>

ClearEvents(r) ==
  /\ rst[r] = "events"
  /\ events' = <<>>
  /\ rst' = [rst EXCEPT ![r] = "record"]
  /\ UNCHANGED <<listed, seen, link, udp, lossy, watch, mesh, all, log, left>>

RecordReset(r) ==
  /\ rst[r] = "record"
  /\ Record(About(Nobody, "session reset"))
  /\ rst' = [rst EXCEPT ![r] = "done"]
  /\ UNCHANGED <<listed, seen, link, udp, lossy, watch, mesh, all, log, left>>

\* The Reset button: ResetAll asks the listed peers, one after the other.
ClickReset ==
  /\ all.at = "idle"
  /\ all' = [all EXCEPT !.at = "posting", !.todo = listed]
  /\ Spend("clicks")
  /\ UNCHANGED <<listed, own, mesh, rst, log>>

\* A peer resets and says so; answers something else; or the client gives up, and
\* the request is lost or still handled later.
PostReset(p) ==
  /\ all.at = "posting" /\ p \in all.todo
  /\ \E outcome \in {"ok", "other status", "given up"} :
       /\ all' = [all EXCEPT !.todo = @ \ {p},
                             !.acked = IF Acknowledged(outcome) THEN @ \cup {p} ELSE @]
       /\ \/ outcome = "ok" /\ restarted' = restarted \cup {p} /\ UNCHANGED late
          \/ outcome = "given up" /\ late' = late \cup {p} /\ UNCHANGED restarted
          \/ outcome # "ok" /\ UNCHANGED <<restarted, late>>
  /\ UNCHANGED <<listed, own, pull, rst, log, left>>

HandleLate(p) ==
  /\ p \in late
  /\ late' = late \ {p}
  /\ restarted' = restarted \cup {p}
  /\ UNCHANGED <<listed, own, pull, rst, all, log, left>>

ResetSelf ==
  /\ all.at = "posting" /\ all.todo = {}
  /\ all' = [all EXCEPT !.at = "resetting"]
  /\ UNCHANGED <<listed, own, mesh, rst, log, left>>

\* lastReset: this machine and the peers that acknowledged.
Summarise ==
  /\ all.at = "resetting" /\ rst[Click] = "done"
  /\ all' = [all EXCEPT !.at = "done"]
  /\ UNCHANGED <<listed, own, mesh, rst, log, left>>

-----------------------------------------------------------------------------
(* The pull of the peers' reports and events.                                *)

\* What a peer serves of its log: the events since its last reset.
Served(p) == IF p \in restarted THEN "new" ELSE "old"

Fetch(p) ==
  /\ pull.peer = Nobody /\ Ask(p)
  /\ pull' = [peer |-> p, log |-> Served(p)]
  /\ UNCHANGED <<listed, own, restarted, late, rst, all, log, left>>

Store ==
  /\ pull.peer # Nobody
  /\ log' = [log EXCEPT ![pull.peer] = pull.log]
  /\ pull' = [pull EXCEPT !.peer = Nobody]
  /\ UNCHANGED <<listed, own, restarted, late, rst, all, left>>

Udp == Mark \/ RecordJoined \/ TakeLink \/ Step \/ RecordStep
ResetSession(r) == ClearPeers(r) \/ ClearReports(r) \/ ClearEvents(r) \/ RecordReset(r)

Next ==
  \/ Discover \/ Udp \/ Frame \/ Poll \/ RecordPoll
  \/ ClickReset \/ ResetSelf \/ Summarise \/ Store
  \/ \E p \in Peer : Burst(p) \/ PostReset(p) \/ HandleLate(p) \/ Fetch(p)
  \/ \E r \in Reset : ResetSession(r)

\* The pull loop runs, and in every round asks each listed peer; a peer that
\* stays listed answers now and then.
Fairness == WF_vars(Store) /\ \A p \in Peer : SF_vars(Fetch(p))

Spec == Init /\ [][Next]_vars /\ Fairness

-----------------------------------------------------------------------------
(* Properties.                                                               *)

TypeOK ==
  /\ listed \subseteq Peer /\ seen \subseteq Peer
  /\ link \in [Peer -> LinkState]
  /\ events \in Seq(Event) /\ Len(events) =< EventRingCap
  /\ udp.at \in {"idle", "mark", "joined", "link", "step", "record"}
  /\ udp \in [at : {"idle", "mark", "joined", "link", "step", "record"},
              peer : Peer \cup {Nobody}, loss : Loss, orphan : BOOLEAN,
              link : LinkState]
  /\ udp.at # "idle" => udp.peer \in Peer
  /\ lossy \in [Peer -> 0..DegradeEnterN]
  /\ watch \in WatchState
  /\ rst \in [Reset -> {"idle", "reports", "events", "record", "done"}]
  /\ all \in [at : {"idle", "posting", "resetting", "done"},
              todo : SUBSET Peer, acked : SUBSET Peer]
  /\ restarted \subseteq Peer /\ late \subseteq Peer
  /\ log \in [Peer -> {"none", "old", "new"}]
  /\ pull \in [peer : Peer \cup {Nobody}, log : {"none", "old", "new"}]
  /\ left \in [Bounded -> Nat]

\* Places in the log of the changes of one thing, the first of them perhaps not
\* counted.
Places(of, what) == {i \in 1..Len(events) : events[i].of = of /\ events[i].what = what}
Counts(i, of, what, first) == first \/ \E h \in Places(of, what) : h < i

\* Each change begins where the one before it ended.
Chained(of, what, first) ==
  \A i, j \in Places(of, what) :
    /\ Counts(i, of, what, first) /\ i < j
    /\ \A k \in Places(of, what) : k =< i \/ k >= j
    => events[i].now = events[j].was

\* The last one ended where things are.
Current(of, what, first, now) ==
  \A j \in Places(of, what) :
    Counts(j, of, what, first) /\ (\A k \in Places(of, what) : k =< j)
      => events[j].now = now

\* The log tells the state of every link and of the adapter, although resets clear
\* it and orphan the states the loops hold, the ring drops what is old and the
\* adapter goes and comes (events.go, nicwatch.go): no change is missing between
\* two, none is told twice, and the last is what holds now.  Of a link, that is so
\* with no reset between its sections and no event on its way, and apart from the
\* first event, which may be from before a reset.  Of the adapter it is so after
\* every poll; of its speed the last change is what holds now unless a poll since
\* did not know it.
LogHonest ==
  /\ (\A r \in Reset : rst[r] \notin {"reports", "events"}) /\ udp.at # "record" =>
       \A p \in Peer : /\ Chained(p, "loss", FALSE)
                       /\ Current(p, "loss", FALSE, Level(link[p].degraded))
  /\ watch.todo = <<>> =>
       /\ Chained(Nobody, "status", TRUE) /\ Chained(Nobody, "discards", TRUE)
       /\ Current(Nobody, "status", TRUE, watch.status)
       /\ Current(Nobody, "discards", TRUE, Level(watch.discarding))
       /\ ~watch.blind => Current(Nobody, "speed", TRUE, watch.speed)

\* A link is reported degraded only after degradeEnterN lossy bursts to that
\* peer in a row, whatever was reset in between (events.go, step).
DegradedForCause ==
  udp.at = "record" /\ udp.link.degraded => lossy[udp.peer] >= DegradeEnterN

\* What the status line reports after a reset of the mesh is true: this machine
\* and each peer counted have begun a new session (appcore.go, ResetAll).
AckedWereReset ==
  all.at = "done" => all.acked \subseteq restarted /\ rst[Click] = "done"

\* A log that was fetched before the peer's reset and stored after this one's is
\* replaced, as long as the peer stays listed (appcore.go, linkPullLoop).
PeerLogsCatchUp ==
  \A p \in Peer :
    <>[](p \in listed /\ p \in restarted) => <>[](log[p] # "old")

=============================================================================
