---------------------------- MODULE MCRemoteTest ----------------------------
(* One server and two calls.  Two of them meet at it: two legs asked of a    *)
(* peer and one run here; the others, from here or with an old iperf3, have  *)
(* it to themselves.                                                         *)
EXTENDS RemoteTest

CONSTANTS s1, c1, c2

Both == [target |-> s1, legs |-> <<"up", "down">>, here |-> FALSE, modern |-> TRUE]
OwnDown == [target |-> s1, legs |-> <<"down">>, here |-> TRUE, modern |-> TRUE]
AtItself == [target |-> Loopback, legs |-> <<"down">>, here |-> FALSE, modern |-> TRUE]

Pair(q, r) == [c \in {c1, c2} |-> IF c = c1 THEN q ELSE r]

MCRequests ==
  {Pair(Both, OwnDown)}
    \cup {Pair([Both EXCEPT !.here = h, !.modern = FALSE], AtItself) : h \in BOOLEAN}
=============================================================================
