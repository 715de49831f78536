----------------------------- MODULE MCHeatmap -----------------------------
(* Scenarios: a short history of a peer, a longer one with fewer entries, both*)
(* drawn at two zooms; and two tests, of the UI and of a peer, so long after  *)
(* each other that the window of the first is forgotten.                      *)
EXTENDS Heatmap

Budget(steps, events, n, draws) ==
  [b \in Bounded |-> CASE b = "steps" -> steps [] b = "events" -> events
                     [] b = "tests" -> n [] b = "draws" -> draws]

MCBudgets == {Budget(3, 3, 0, 2), Budget(4, 2, 0, 2), Budget(6, 0, 2, 0)}

=============================================================================
