---------------------------- MODULE InternetTest ----------------------------
(***************************************************************************)
(* The internet test of one machine (appcore/internet.go, test_events.go,  *)
(* test_history.go, the "Run" button in ui.go): it is started by the UI or *)
(* by a peer's POST /api/internet, downloads, uploads, and is graded by    *)
(* the latency seen meanwhile.  While it runs a window is open in the test *)
(* windows that the heatmap shows; a result without an error is stored.    *)
(*                                                                         *)
(* Rates and latencies are abstracted to whether there was one.  Time is   *)
(* moved on by the module that extends this one.                           *)
(***************************************************************************)
EXTENDS Integers, FiniteSets

CONSTANTS
  Runner,      \* who may have a test under way here: the UI, peers
  Retention,   \* testWindowRetentionUS
  TestTime,    \* no test takes longer: its transfers end with the context of
               \* runInternet, its pings with pingTimeout
  Budgets      \* bounds: steps of time, things logged, tests, and drawings of the
               \* map, by scenario

Bounded == {"steps", "events", "tests", "draws"}
ASSUME TestAssumption == /\ TestTime \in Nat /\ Retention \in Nat
                         /\ Retention >= TestTime
                         /\ Budgets \subseteq [Bounded -> Nat]

VARIABLES
  now,
  left,      \* what is left of the scenario's budget
  test,      \* test[r]: where the test of r is, and what it measured so far
  windows,   \* testWindows: [id, from, to]
  stored,    \* the results in the database: [id, down, up, loaded]
  tests      \* history: tests so far, with the time each began and ended

testVars == <<now, left, test, windows, stored, tests>>

-----------------------------------------------------------------------------
(* Data.                                                                     *)

Off == [at |-> "off"]

\* streamThroughput(): whether a transfer was completed, one failed, bytes moved
\* after the warm-up, and a latency probe was answered.
Outcome == [completed : BOOLEAN, failed : BOOLEAN, moved : BOOLEAN, probed : BOOLEAN]

NoneCompleted(o) == ~o.completed /\ o.failed

Throughput(o) ==
  [rate   |-> o.moved /\ ~NoneCompleted(o),
   loaded |-> o.probed,
   err    |-> NoneCompleted(o) \/ (~o.moved /\ o.failed)]

Measured == {Throughput(o) : o \in Outcome}

\* runInternet(): what is wrong with the result of the two phases.
Unreliable(down, up) == ~down.loaded /\ ~up.loaded /\ (down.rate \/ up.rate)
ErrOf(down, up) == down.err \/ up.err \/ Unreliable(down, up)

\* Slip: a test with an error leaves its window as it was opened.
ClosedIfGood(id, down, up) ==
  {IF w.id = id /\ ~ErrOf(down, up) THEN [w EXCEPT !.to = now] ELSE w : w \in windows}

\* The function markTestSpan() returns: the window ends now.
Closed(id, down, up) ==
  {IF w.id = id THEN [w EXCEPT !.to = now] ELSE w : w \in windows}

\* Old windows are forgotten when a new one is opened.
Kept == {w \in windows : w.to >= now - Retention}

-----------------------------------------------------------------------------
TestInit ==
  /\ now = 0 /\ left \in Budgets
  /\ test = [r \in Runner |-> Off]
  /\ windows = {} /\ stored = {} /\ tests = {}

\* A click of "Run", or a request: the test is logged, its window opened with
\* no length, old windows are forgotten; a server is picked, and the latency of
\* the idle line measured.  The UI has one test at a time (internetOn).
Begin(r) ==
  LET id == Cardinality(tests) + 1
  IN  /\ test[r].at = "off"
      /\ left["tests"] > 0 /\ left' = [left EXCEPT !["tests"] = @ - 1]
      /\ test' = [test EXCEPT ![r] = [at |-> "download", id |-> id]]
      /\ windows' = Kept \cup {[id |-> id, from |-> now, to |-> now]}
      /\ tests' = tests \cup {[id |-> id, began |-> now, ended |-> -1]}
      /\ UNCHANGED <<now, stored>>

Download(r) ==
  /\ test[r].at = "download"
  /\ \E down \in Measured :
       test' = [test EXCEPT ![r] = [at |-> "upload", id |-> @.id, down |-> down]]
  /\ UNCHANGED <<now, left, windows, stored, tests>>

\* The last phase, the grade, the end of the window, and the result.
Upload(r) ==
  /\ test[r].at = "upload"
  /\ \E up \in Measured :
       LET id == test[r].id
           down == test[r].down
       IN  /\ windows' = Closed(id, down, up)
           /\ stored' = IF ErrOf(down, up) THEN stored
                        ELSE stored \cup {[id |-> id, down |-> down.rate, up |-> up.rate,
                                           loaded |-> down.loaded \/ up.loaded]}
           /\ tests' = {IF t.id = id THEN [t EXCEPT !.ended = now] ELSE t : t \in tests}
  /\ test' = [test EXCEPT ![r] = Off]
  /\ UNCHANGED <<now, left>>

\* Time passes, but not beyond the end of a test.
InTime == \A t \in tests : t.ended = -1 => now < t.began + TestTime

TestNext == \E r \in Runner : Begin(r) \/ Download(r) \/ Upload(r)

=============================================================================
