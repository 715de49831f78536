------------------------------- MODULE Faults -------------------------------
(***************************************************************************)
(* Which component of the network is at fault (score/score.go), from the   *)
(* layout of the network (config/config.go) and the pairs of endpoints     *)
(* that were tested and that failed.                                       *)
(*                                                                         *)
(* Nothing in the program calls Score any more.  A pair counts as tested   *)
(* if the coordinator has a sample of it and as failing if one of its      *)
(* samples was lost, as the plan of the package has it.                    *)
(*                                                                         *)
(* A layout is [nodes, addressed, links]: the nodes in the order of the    *)
(* file, those with an address, and pairs of linked nodes.  Nodes are      *)
(* numbers, ordered as their names are; the agents are nodes too.          *)
(***************************************************************************)
EXTENDS Diagnosis

CONSTANT Layouts   \* layouts of the network

\* Validate(): nodes have names of their own, and links join two of them.
Valid(net) ==
  /\ net \in [nodes : Seq(Nat), addressed : SUBSET Nat, links : SUBSET (Nat \X Nat)]
  /\ IsInjective(net.nodes)
  /\ \A l \in net.links : Range(l) \subseteq Range(net.nodes)

\* Resolve(): whom the agent on node a probes, the nodes with an address but for
\* its own.
Resolve(net, a) == net.addressed \ {a}

\* The agents probe what any of the layouts has them probe.
ASSUME LayoutAssumption ==
  \A net \in Layouts :
    /\ Valid(net) /\ net.addressed \subseteq Range(net.nodes)
    /\ \A a \in Agent : a \in net.addressed
    /\ \A target \in Targets, a \in Agent : \A n \in 1..MaxSamples[a] :
         target[a][n] \in Resolve(net, a)

-----------------------------------------------------------------------------
\* buildGraph(): a link goes both ways.
Joined(net, n, m) == <<n, m>> \in net.links \/ <<m, n>> \in net.links

Neighbours(net, n) == {m \in Range(net.nodes) : Joined(net, n, m)}

\* sort.Strings()
Sorted(S) == CHOOSE s \in [1..Cardinality(S) -> S] : \A i, j \in DOMAIN s : i < j => s[i] < s[j]

\* One turn of the loop of path(): the next node of the queue is the predecessor
\* of those of its neighbours that have none yet, which join the queue in order.
Turn(net, s, i) ==
  IF i > Len(s.queue) THEN s
  ELSE LET new == Neighbours(net, s.queue[i]) \ DOMAIN s.prev
       IN  [prev |-> [n \in DOMAIN s.prev \cup new |->
                        IF n \in new THEN s.queue[i] ELSE s.prev[n]],
            queue |-> s.queue \o Sorted(new)]

\* The predecessors of a search that starts at src.
Predecessors(net, src) ==
  LET Search[i \in 0..Len(net.nodes)] ==
        IF i = 0 THEN [prev |-> [n \in {src} |-> src], queue |-> <<src>>]
        ELSE Turn(net, Search[i - 1], i)
  IN  Search[Len(net.nodes)].prev

\* path() and rebuild(): the nodes from src to dst, none if dst is unreachable.
Path(net, src, dst) ==
  LET prev == Predecessors(net, src)
      Back[k \in 0..Len(net.nodes)] ==
        IF k = 0 THEN <<dst>>
        ELSE LET rev == Back[k - 1]
             IN  IF rev[1] = src THEN rev ELSE <<prev[rev[1]]>> \o rev
  IN  IF dst \in DOMAIN prev THEN Back[Len(net.nodes)] ELSE <<>>

\* The paths Score() walks: that of each pair of endpoints, from the one that comes
\* first in the file.
Pairs(net) == kSubset(2, net.addressed)
Place(net, n) == CHOOSE i \in 1..Len(net.nodes) : net.nodes[i] = n
Paths(net) ==
  [p \in Pairs(net) |->
     LET src == CHOOSE n \in p : \A m \in p : Place(net, n) =< Place(net, m)
     IN  Path(net, src, CHOOSE n \in p : n # src)]
AllPaths == [net \in Layouts |-> Paths(net)]

\* Slip: one failing path is enough.
AnyFails(tp, fp) == fp > 0

AllFail(tp, fp) == fp = tp

\* Score(): the health of component n.
Health(net, tested, failing, n) ==
  LET paths == AllPaths[net]
      through == {p \in tested : n \in Range(paths[p])}
      tp == Cardinality(through)
      fp == Cardinality(through \cap failing)
  IN  CASE tp = 0          -> "untested"
        [] tp # 0 /\ fp = 0 -> "good"
        [] fp # 0 /\ AllFail(tp, fp) -> "poor"
        [] OTHER           -> "fair"

-----------------------------------------------------------------------------
\* Key(): a pair, whoever of the two took the sample.
Tested(target) == UNION {{{a, target[a][n]} : n \in rows[a]} : a \in Agent}
Failing(target) ==
  UNION {{{a, target[a][n]} : n \in {m \in rows[a] : made[a][m]}} : a \in Agent}

-----------------------------------------------------------------------------
(* The reference: what can be reached without a component.                   *)

Grown(net, from, without) ==
  from \cup {m \in Range(net.nodes) \ without : \E n \in from : Joined(net, n, m)}

\* Within[k]: what is at most k links away from src.
Within(net, src, without) ==
  LET W[k \in 0..Len(net.nodes)] ==
        IF k = 0 THEN {src} \ without ELSE Grown(net, W[k - 1], without)
  IN  W

Linked(net, p, without) ==
  \E a \in p : p \subseteq Within(net, a, without)[Len(net.nodes)]

\* The components pair p cannot do without; none if it is not connected at all.
NeededBy ==
  [net \in Layouts |->
    [p \in Pairs(net) |->
      {n \in Range(net.nodes) : Linked(net, p, {}) /\ ~Linked(net, p, {n})}]]

\* No link has an alternative.
LoopFree ==
  [net \in Layouts |->
    \A l \in net.links : ~Linked([net EXCEPT !.links = @ \ {l}], Range(l), {})]

\* The path of every pair leads over links and is as short as any; there is none
\* only between nodes that are not connected.
ShortestPaths ==
  \A net \in Layouts : \A p \in Pairs(net) :
    LET path == AllPaths[net][p]
        Reach(k) == Within(net, path[1], {})[k]
    IN  IF path = <<>> THEN ~Linked(net, p, {})
        ELSE /\ path \in Seq(Range(net.nodes)) /\ p = {path[1], Last(path)}
             /\ \A i \in DOMAIN path :
                  /\ path[i] \in Reach(i - 1)
                  /\ i > 1 => Joined(net, path[i - 1], path[i]) /\ path[i] \notin Reach(i - 2)

\* The labels point at the fault, in every layout and whatever was probed so far
\* (score.go).  A component that a working pair cannot do without is never poor,
\* one that a failing pair cannot do without never good, and one that a tested
\* pair cannot do without never untested; and where no path has an alternative,
\* a component whose outage explains the failures exactly is poor.
FaultNamed ==
  /\ ShortestPaths
  /\ BetweenPulls => \A net \in Layouts, target \in Targets :
       LET tested == Tested(target)
           failing == Failing(target)
           needed == NeededBy[net]
           Needs(p) == needed[p]
           health == [n \in Range(net.nodes) |-> Health(net, tested, failing, n)]
           Labelled(h) == {n \in DOMAIN health : health[n] = h}
           untested == Labelled("untested")
           good == Labelled("good")
           poor == Labelled("poor")
       IN  /\ \A p \in tested : Needs(p) \cap untested = {}
           /\ \A p \in tested \ failing : Needs(p) \cap poor = {}
           /\ \A p \in failing : Needs(p) \cap good = {}
           /\ LoopFree[net] /\ failing # {} =>
                {n \in Range(net.nodes) : {p \in tested : n \in Needs(p)} = failing}
                  \subseteq poor
=============================================================================
