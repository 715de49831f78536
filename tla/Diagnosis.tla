----------------------------- MODULE Diagnosis -----------------------------
(***************************************************************************)
(* What the coordinator concludes from the samples it has collected: the   *)
(* failure events of each agent (correlate/events.go), shifted into the    *)
(* coordinator's time and widened by what is not known of the agent's      *)
(* clock (mesh/offset.go), grouped where they overlap, and the verdict     *)
(* that a group hit several agents at once (correlate/correlate.go).       *)
(*                                                                         *)
(* Agents sample every Period units of time.  A clock is [theta, out,      *)
(* back]: how far it is ahead of the coordinator's, and the delays of the  *)
(* request and the answer its offset was measured with.                    *)
(***************************************************************************)
EXTENDS SampleSync, Integers, FiniteSets, FiniteSetsExt, SequencesExt

CONSTANTS
  Period,   \* time between two samples
  Clock,    \* clocks an agent may have
  Targets   \* what the agents probe: target[a][n] is that of sample n of a

ASSUME ClockAssumption ==
  Period \in Nat /\ Clock \subseteq [theta : Int, out : Nat, back : Nat]

\* The agents are those of the file.
ASSUME AgentAssumption == IsFiniteSet(Agent)

-----------------------------------------------------------------------------
(* Clock offsets, measured with one round trip that starts at time 0.        *)

\* Division as Go does it, towards zero.
Halved(x) == IF x < 0 THEN -((-x) \div 2) ELSE x \div 2

\* MeasureOffset(): t1 = 0, t2 = t3 = out + theta, t4 = out + back.
OffsetUS(k) == Halved((k.out + k.theta) + (k.out + k.theta - (k.out + k.back)))
RTTus(k) == k.out + k.back

\* HalfUncUS() rounds up.
HalfUncUS(k) == (RTTus(k) + 1) \div 2

-----------------------------------------------------------------------------
(* Events.                                                                   *)

\* The longest runs of losses among samples of one path, as pairs of first and last.
Runs(path, lost) ==
  LET Covered(r) == {n \in path : r[1] =< n /\ n =< r[2]}
      runs == {r \in path \X path : r[1] =< r[2] /\ Covered(r) \subseteq lost}
  IN  {r \in runs : \A q \in runs : Covered(r) \subseteq Covered(q) => q = r}

\* DetectEvents(): those of the samples that are there, by destination, in the agent's
\* time.  A sample of another path does not end a run, and two paths may fail at once.
DetectEvents(a, k, target) ==
  LET Probes(dst) == {n \in rows[a] : target[a][n] = dst}
      lost == {n \in rows[a] : made[a][n]}
      Time(n) == Period * n + k.theta
  IN  UNION {{[agent |-> a, dst |-> dst, start |-> Time(r[1]), end |-> Time(r[2])] :
                r \in Runs(Probes(dst), lost)} : dst \in {target[a][n] : n \in rows[a]}}

\* Into the coordinator's time, and widened.
Corrected(e, k) ==
  [agent |-> e.agent, dst |-> e.dst,
   lo |-> e.start - OffsetUS(k) - HalfUncUS(k),
   hi |-> e.end - OffsetUS(k) + HalfUncUS(k)]

\* sort.Slice(): what comes first in S; of those that are equal, any.
First(S, key) == CHOOSE x \in S : \A y \in S : key[x] =< key[y]

\* One turn of the loop of Correlate(): the event that starts next joins the latest
\* group if it begins before that ends, and opens a group if not.
Join(corrected, s) ==
  LET c == First(s.left, [d \in corrected |-> d.lo])
      joins == \E d \in s.latest : c.lo =< d.hi
  IN  [left |-> s.left \ {c},
       closed |-> s.closed \cup (IF joins THEN {} ELSE {s.latest} \ {{}}),
       latest |-> {c} \cup (IF joins THEN s.latest ELSE {})]

Groups(corrected) ==
  LET Sweep[n \in 0..Cardinality(corrected)] ==
        IF n = 0 THEN [left |-> corrected, closed |-> {}, latest |-> {}]
        ELSE Join(corrected, Sweep[n - 1])
      end == Sweep[Cardinality(corrected)]
  IN  end.closed \cup ({end.latest} \ {{}})

\* peakConcurrentAgents(): a sweep over the ends of the intervals, those that open
\* before those that close.
Points(g) == [c : g, close : {0, 1}]

\* Slip: every event counts.
ActiveEvents(on) == Cardinality(on)

\* Of the events that are open, those of one agent count once.
Active(on) == Cardinality({c.agent : c \in on})

Pass(g, s) ==
  LET p == First(s.left, [q \in Points(g) |-> IF q.close = 0 THEN 2 * q.c.lo
                                              ELSE 2 * q.c.hi + 1])
      on == IF p.close = 0 THEN s.on \cup {p.c} ELSE s.on \ {p.c}
  IN  [left |-> s.left \ {p}, on |-> on, peak |-> IF Active(on) > s.peak THEN Active(on) ELSE s.peak]

PeakAgents(g) ==
  LET Sweep[n \in 0..Cardinality(Points(g))] ==
        IF n = 0 THEN [left |-> Points(g), on |-> {}, peak |-> 0]
        ELSE Pass(g, Sweep[n - 1])
  IN  Sweep[Cardinality(Points(g))].peak

Simultaneous(g) == PeakAgents(g) > 1

-----------------------------------------------------------------------------
(* Property.                                                                 *)

\* No rows are missed between pulls: one that is under way may fail at each row.
BetweenPulls == \A a \in Agent, c \in Puller : At(a, c, "idle")

\* Whatever has been collected so far, of whatever paths, and whatever the clocks:
\* if two agents failed at one instant, their events are in a group that says so;
\* and a group that says so has events of two agents no further apart than the
\* round trips of their clocks: two paths of one agent are not enough
\* (events.go, correlate.go, offset.go).
VerdictSound ==
  BetweenPulls => \A target \in Targets, clock \in [Agent -> Clock] :
    LET Events == UNION {DetectEvents(a, clock[a], target) : a \in Agent}
        In(e) == Corrected(e, clock[e.agent])
        From(e) == e.start - clock[e.agent].theta    \* in the coordinator's time
        To(e) == e.end - clock[e.agent].theta
        groups == Groups({In(e) : e \in Events})
        Apart(e, f) == Max({0, From(e) - To(f), From(f) - To(e)})
    IN  /\ \A e, f \in Events :
             e.agent # f.agent /\ Apart(e, f) = 0
               => \E g \in groups : {In(e), In(f)} \subseteq g /\ Simultaneous(g)
        /\ \A g \in groups :
             Simultaneous(g) => \E e, f \in Events :
               /\ e.agent # f.agent /\ {In(e), In(f)} \subseteq g
               /\ Apart(e, f) =< 2 * (HalfUncUS(clock[e.agent]) + HalfUncUS(clock[f.agent]))

=============================================================================
