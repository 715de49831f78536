---------------------------- MODULE MCDiagnosis ----------------------------
(* Clocks that are ahead and behind, measured with delays that differ; one   *)
(* agent that can fail twice while the other fails once.                     *)
EXTENDS Faults

MCClock == {[theta |-> 0, out |-> 0, back |-> 1], [theta |-> -1, out |-> 1, back |-> 0],
            [theta |-> 1, out |-> 1, back |-> 1]}
MCSamples == (1 :> 3) @@ (2 :> 1)

\* Two switches with two machines each; a chain of switches with a machine in its
\* middle and one that is not connected; a ring of switches; machines that are
\* linked to each other, listed out of order.
MCLayouts ==
  {[nodes |-> <<1, 2, 3, 4, 5, 6>>, addressed |-> 1..4,
    links |-> {<<1, 5>>, <<2, 5>>, <<3, 6>>, <<6, 4>>, <<5, 6>>}],
   [nodes |-> <<5, 1, 6, 3, 2, 4>>, addressed |-> 1..4,
    links |-> {<<1, 5>>, <<5, 6>>, <<6, 2>>, <<3, 6>>}],
   [nodes |-> <<4, 3, 2, 1, 5, 6, 7, 8>>, addressed |-> 1..4,
    links |-> {<<5, 6>>, <<6, 7>>, <<7, 8>>, <<8, 5>>, <<1, 5>>, <<2, 6>>, <<3, 7>>, <<4, 8>>}],
   [nodes |-> <<3, 1, 4, 2>>, addressed |-> 1..4, links |-> {<<4, 2>>, <<1, 3>>, <<3, 4>>}]}

\* A path between two samples of another; a path several times and from both ends.
MCTargets == {(1 :> <<2, 3, 2>>) @@ (2 :> <<3>>), (1 :> <<2, 2, 4>>) @@ (2 :> <<1>>)}

=============================================================================
