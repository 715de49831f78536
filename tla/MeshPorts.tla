----------------------------- MODULE MeshPorts -----------------------------
(***************************************************************************)
(* Who loads whom in a full-mesh stress run, and on which port:            *)
(* meshAssignments and the two sanitisers of a start request               *)
(* (appcore/stress.go).  An iperf3 server takes one test at a time, so the *)
(* clients of one target each need a port of their own.                    *)
(*                                                                         *)
(* Machines are numbered in the order meshAssignments sorts them, a        *)
(* machine stands for its address, and a port for its distance from 5201.  *)
(***************************************************************************)
EXTENDS Naturals, FiniteSets

CONSTANTS
  N,                  \* number of machines in the mesh
  StressMaxTargets,   \* longest target list a machine accepts
  UsePorts            \* every machine speaks target_ports

Node == 1..N

ASSUME MeshAssumption == N \in Nat
ASSUME MaxTargetsAssumption == StressMaxTargets \in Nat
ASSUME UsePortsAssumption == UsePorts \in BOOLEAN

DefaultServerPort == 0

\* Slip: the index counts targets instead of the clients of one target.
SameForAll(c, t) == Cardinality({s \in 1..(t - 1) : s # c})

\* idx when the inner loop reaches client c of target t: one for each client
\* before it, the target itself skipped.
ClientIndex(c, t) == Cardinality({d \in 1..(c - 1) : d # t})

\* The port at which c loads t.
TargetPort(c, t) ==
  IF UsePorts THEN DefaultServerPort + ClientIndex(c, t) ELSE DefaultServerPort

\* What sanitizeTargets leaves of c's list, which is in the order of the nodes.
Targets(c) ==
  {t \in Node \ {c} : Cardinality({s \in 1..(t - 1) : s # c}) < StressMaxTargets}

\* What sanitizeListenPorts leaves of t's extra listeners.
ListenPorts(t) ==
  {TargetPort(c, t) : c \in Node \ {t}} \cap
    (DefaultServerPort + 1)..(DefaultServerPort + StressMaxTargets)

\* The ports of t a client finds open while t takes part in the run.
ServedPorts(t) == {DefaultServerPort} \cup ListenPorts(t)
=============================================================================
