----------------------------- MODULE SampleLog -----------------------------
(***************************************************************************)
(* What the collection of samples promises: every sample an agent makes    *)
(* gets to the coordinator's store, none is lost again, none is invented.  *)
(***************************************************************************)
EXTENDS Naturals, Sequences

CONSTANTS
  Agent,
  MaxSamples   \* bound: MaxSamples[a] samples of a

VARIABLES
  made,   \* made[a]: a's samples, in the order of their numbers; lost or not
  rows    \* rows[a]: the numbers of those the coordinator has

log == <<made, rows>>

Nothing == /\ made = [a \in Agent |-> <<>>]
           /\ rows = [a \in Agent |-> {}]

Sample(a) == \E lost \in BOOLEAN : made' = [made EXCEPT ![a] = Append(@, lost)]
Measure(a) == Sample(a) /\ UNCHANGED rows

Copy(a, n) ==
  /\ n \in DOMAIN made[a] \ rows[a]
  /\ rows' = [rows EXCEPT ![a] = @ \cup {n}]
  /\ UNCHANGED made

LogNext == \E a \in Agent : Measure(a) \/ \E n \in DOMAIN made[a] : Copy(a, n)

LogSafety == Nothing /\ [][LogNext]_log
LogSpec == LogSafety /\ \A a \in Agent : \A n \in 1..MaxSamples[a] : WF_log(Copy(a, n))

=============================================================================
