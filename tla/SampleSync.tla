----------------------------- MODULE SampleSync -----------------------------
(***************************************************************************)
(* The collection of samples (mesh/puller.go, agentapi.go, auth.go, the    *)
(* cursors and the upsert of store/store.go, probe/runner.go).  An agent   *)
(* numbers its samples in its database; a puller asks for what comes after *)
(* the stored cursor, upserts the answer row by row and moves the cursor.  *)
(*                                                                         *)
(* Requests and answers are lost, writes fail, pulls of the same agent     *)
(* overlap, and the coordinator's process dies between any two steps; its  *)
(* database survives.  Who is online (AgentState and its log) is left out: *)
(* the collection never reads it.                                          *)
(***************************************************************************)
EXTENDS SampleLog

CONSTANTS
  Puller,       \* calls of PullOnce that may be under way at once
  Limit,        \* samples in one answer
  MaxCrashes    \* bound: deaths of the coordinator's process

ASSUME LimitAssumption == Limit \in Nat \ {0}
ASSUME BoundAssumption == MaxSamples \in [Agent -> Nat] /\ MaxCrashes \in Nat

VARIABLES
  cursor,    \* cursor[a]: sync_cursors
  pull,      \* pull[a][c]: where call c of PullOnce for a is
  crashes

vars == <<log, cursor, pull, crashes>>

-----------------------------------------------------------------------------
(* Data.  A definition marked "Slip" is a plausible mistake in the one after *)
(* it; the runs are shown to notice each of them.                            *)

Smaller(m, n) == IF m < n THEN m ELSE n

\* A call: the cursor it read, and the samples of the answer still to upsert.
Idle == [at |-> "idle", from |-> 0, next |-> 1, last |-> 0]

\* Slip: the cursor moves past the number of the next sample.
OneMore(a, c) == pull[a][c].last + 1

\* maxSeq: the number of the last sample of the answer.
MaxSeq(a, c) == pull[a][c].last

\* Slip: the rows that could be written are enough.
AnyUpserted(a, c) == TRUE

\* The loop over the answer is through.
AllUpserted(a, c) == pull[a][c].next > pull[a][c].last

At(a, c, where) == pull[a][c].at = where
Ends(a, c) == pull' = [pull EXCEPT ![a][c] = Idle]

-----------------------------------------------------------------------------
Init ==
  /\ Nothing
  /\ cursor = [a \in Agent |-> 0]
  /\ pull = [a \in Agent |-> [c \in Puller |-> Idle]]
  /\ crashes = 0

\* Runner.Tick(): one sample, lost or not; the database gives the number.
Tick(a) ==
  /\ Len(made[a]) < MaxSamples[a]
  /\ Sample(a)
  /\ UNCHANGED <<rows, cursor, pull, crashes>>

\* PullOnce() reads the cursor; no row is cursor 0.
ReadCursor(a, c) ==
  /\ At(a, c, "idle")
  /\ pull' = [pull EXCEPT ![a][c] = [Idle EXCEPT !.at = "get", !.from = cursor[a]]]
  /\ UNCHANGED <<made, rows, cursor, crashes>>

\* The request, the answer or its body fails.
GetFails(a, c) ==
  /\ At(a, c, "get")
  /\ Ends(a, c)
  /\ UNCHANGED <<made, rows, cursor, crashes>>

\* AgentAPI.Samples(): what follows the cursor, at most Limit samples.
Get(a, c) ==
  /\ At(a, c, "get")
  /\ pull' = [pull EXCEPT
       ![a][c] = [at |-> "upsert", from |-> @.from, next |-> @.from + 1,
                  last |-> Smaller(@.from + Limit, Len(made[a]))]]
  /\ UNCHANGED <<made, rows, cursor, crashes>>

\* Upsert(): a row that is there already is left alone.
Upsert(a, c) ==
  /\ At(a, c, "upsert") /\ pull[a][c].next =< pull[a][c].last
  /\ rows' = [rows EXCEPT ![a] = @ \cup {pull[a][c].next}]
  /\ pull' = [pull EXCEPT ![a][c].next = @ + 1]
  /\ UNCHANGED <<made, cursor, crashes>>

\* A write of the coordinator's database fails; the cursor stays.
WriteFails(a, c) ==
  /\ At(a, c, "upsert") /\ pull[a][c].last > pull[a][c].from
  /\ Ends(a, c)
  /\ UNCHANGED <<made, rows, cursor, crashes>>

\* SetCursor(), if the answer had samples.
Finish(a, c) ==
  /\ At(a, c, "upsert") /\ AllUpserted(a, c)
  /\ cursor' = IF pull[a][c].last > pull[a][c].from
               THEN [cursor EXCEPT ![a] = MaxSeq(a, c)] ELSE cursor
  /\ Ends(a, c)
  /\ UNCHANGED <<made, rows, crashes>>

\* The process dies: its calls are gone, the database stays.
Crash ==
  /\ crashes < MaxCrashes
  /\ crashes' = crashes + 1
  /\ pull' = [a \in Agent |-> [c \in Puller |-> Idle]]
  /\ UNCHANGED <<made, rows, cursor>>

Call(a, c) == \/ ReadCursor(a, c) \/ GetFails(a, c) \/ Get(a, c)
              \/ Upsert(a, c) \/ WriteFails(a, c) \/ Finish(a, c)

Next == \/ \E a \in Agent : Tick(a) \/ \E c \in Puller : Call(a, c)
        \/ Crash

\* Pulls are repeated; an agent that is asked for ever answers now and then,
\* and so do writes succeed, those of every row: one row that can never be
\* written would hold up all that follow.
Fairness ==
  \A a \in Agent, c \in Puller :
    /\ WF_vars(ReadCursor(a, c)) /\ SF_vars(Get(a, c)) /\ SF_vars(Finish(a, c))
    /\ \A n \in 1..MaxSamples[a] : SF_vars(Upsert(a, c) /\ pull[a][c].next = n)

Spec == Init /\ [][Next]_vars /\ Fairness

-----------------------------------------------------------------------------
(* Properties.                                                               *)

TypeOK ==
  /\ made \in [Agent -> Seq(BOOLEAN)]
  /\ rows \in [Agent -> SUBSET Nat]
  /\ cursor \in [Agent -> Nat]
  /\ pull \in [Agent -> [Puller -> [at : {"idle", "get", "upsert"},
                                    from : Nat, next : Nat, last : Nat]]]
  /\ crashes \in 0..MaxCrashes

\* Whatever is lost, overlaps or dies: what the coordinator has of an agent is
\* the samples up to some number, without a gap, and the cursor is not ahead of
\* them (puller.go, PullOnce: "advances the cursor only after successful
\* upserts").
StoredPrefix ==
  \A a \in Agent :
    \E m \in cursor[a]..Len(made[a]) : rows[a] = 1..m

\* Every sample gets to the coordinator, once and for good (SampleLog).
ImplementsLog == LogSpec

=============================================================================
