------------------------------ MODULE SweepPlan ------------------------------
(***************************************************************************)
(* What a speed sweep promises, without its scheduler: every directed pair *)
(* of the mesh is tested at most once, two tests that share a node never   *)
(* overlap, the sweep closes only when nothing is running and, unless it   *)
(* was stopped, only when nothing is left to test; a sweep enters the      *)
(* history only when it covers the whole matrix.                           *)
(* SpeedSweep is shown to implement this.                                  *)
(***************************************************************************)
EXTENDS Naturals

CONSTANT Pairs          \* the directed pairs, records with fields from and to

VARIABLES
  todo,                 \* pairs not started
  running,              \* pairs under test
  done,                 \* pairs with a result
  stopped,              \* the user pressed Stop
  over,                 \* the sweep has returned
  recorded              \* the sweep is in the history

vars == <<todo, running, done, stopped, over, recorded>>

\* Two tests collide when they have an endpoint in common.
Collide(p, q) == {p.from, p.to} \cap {q.from, q.to} # {}

Init ==
  /\ todo = {} /\ running = {} /\ done = {}
  /\ stopped = FALSE /\ over = TRUE /\ recorded = FALSE

\* A new sweep starts once the last one is over.
Begin ==
  /\ over
  /\ todo' = Pairs /\ running' = {} /\ done' = {}
  /\ stopped' = FALSE /\ over' = FALSE /\ recorded' = FALSE

Start(p) ==
  /\ ~over
  /\ p \in todo
  /\ \A q \in running : ~Collide(p, q)
  /\ todo' = todo \ {p}
  /\ running' = running \cup {p}
  /\ UNCHANGED <<done, stopped, over, recorded>>

Finish(p) ==
  /\ p \in running
  /\ running' = running \ {p}
  /\ done' = done \cup {p}
  /\ UNCHANGED <<todo, stopped, over, recorded>>

Stop ==
  /\ stopped' = TRUE
  /\ UNCHANGED <<todo, running, done, over, recorded>>

Close ==
  /\ ~over
  /\ running = {}
  /\ stopped \/ done = Pairs
  /\ over' = TRUE
  /\ recorded' \in {FALSE, ~stopped}
  /\ UNCHANGED <<todo, running, done, stopped>>

Next ==
  \/ Begin
  \/ \E p \in Pairs : Start(p) \/ Finish(p)
  \/ Stop
  \/ Close

Spec == Init /\ [][Next]_vars
=============================================================================
