---------------------------- MODULE MCPeerEvents ----------------------------
(* Scenarios of PeerEvents: enough bursts for a link to degrade, recover and *)
(* degrade again across a reset; an adapter that changes in every respect,   *)
(* is gone and comes back, and one that does so across a reset; link and     *)
(* adapter at once; a reset of the mesh that crosses one a peer asks for.    *)
EXTENDS PeerEvents

MCBudgets ==
  {[bursts |-> 6, polls |-> 0, clicks |-> 0, commands |-> 1],
   [bursts |-> 0, polls |-> 4, clicks |-> 0, commands |-> 0],
   [bursts |-> 0, polls |-> 3, clicks |-> 0, commands |-> 1],
   [bursts |-> 2, polls |-> 2, clicks |-> 0, commands |-> 0],
   [bursts |-> 2, polls |-> 0, clicks |-> 1, commands |-> 1]}

=============================================================================
