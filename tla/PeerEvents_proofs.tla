------------------------- MODULE PeerEvents_proofs -------------------------
(***************************************************************************)
(* Theorems about the session of one machine, for any peers, thresholds,   *)
(* ring capacity and number of resets.                                     *)
(***************************************************************************)
EXTENDS PeerEvents, SequenceTheorems, TLAPS

\* The UDP loop has measured a burst and not folded it in yet.
Pending == udp.at \in {"mark", "joined", "link", "step"}

\* A count of lossy samples never runs ahead of the lossy bursts measured, in
\* the map and in a state a reset has orphaned.
Counted ==
  /\ \A p \in Peer : ~(Pending /\ udp.peer = p)
                       => link[p].degraded \/ link[p].hi =< lossy[p]
  /\ Pending /\ udp.loss = "high" =>
       /\ lossy[udp.peer] >= 1
       /\ link[udp.peer].degraded \/ link[udp.peer].hi + 1 =< lossy[udp.peer]
       /\ udp.orphan => udp.link.degraded \/ udp.link.hi + 1 =< lossy[udp.peer]
  /\ udp.orphan => udp.at = "step" /\ link[udp.peer] = Fresh
  /\ DegradedForCause

\* What ResetAll counts has happened.
Acked ==
  /\ all.acked \subseteq restarted
  /\ all.at = "done" => rst[Click] = "done"

SessionInv == TypeOK /\ Counted /\ Acked

LEMMA CapFacts == /\ DegradeEnterN \in Nat /\ DegradeEnterN >= 1
                  /\ EventRingCap \in Nat /\ EventRingCap >= 1
  BY CapAssumption

LEMMA FreshFacts == Fresh \in LinkState /\ Fresh.hi = 0 /\ ~Fresh.degraded
  BY CapFacts DEF Fresh, LinkState

LEMMA RecordType ==
  ASSUME TypeOK, NEW e \in Event, Record(e)
  PROVE  events' \in Seq(Event) /\ Len(events') =< EventRingCap
<1>1. events \in Seq(Event) /\ Len(events) =< EventRingCap
  BY DEF TypeOK
<1>2. CASE Len(events) < EventRingCap
  <2>1. events' = Append(events, e)
    BY <1>2 DEF Record
  <2>. QED
    BY <2>1, <1>1, <1>2, CapFacts
<1>3. CASE ~(Len(events) < EventRingCap)
  <2>1. events' = Append(Tail(events), e)
    BY <1>3 DEF Record
  <2>2. events # <<>>
    BY <1>1, <1>3, CapFacts
  <2>3. Tail(events) \in Seq(Event) /\ Len(Tail(events)) = Len(events) - 1
    BY <1>1, <2>2
  <2>. QED
    BY <2>1, <2>3, <1>1, CapFacts
<1>. QED
  BY <1>2, <1>3

LEMMA SpendType ==
  ASSUME TypeOK, NEW what \in Bounded, Spend(what)
  PROVE  left' \in [Bounded -> Nat]
  BY DEF TypeOK, Spend

\* What step() does with one sample.
LEMMA SteppedFacts ==
  ASSUME NEW s \in LinkState, NEW loss \in Loss
  PROVE  /\ Stepped(s, loss) \in LinkState
         /\ ~Stepped(s, loss).degraded =>
              \/ Stepped(s, loss).hi = 0
              \/ loss = "high" /\ ~s.degraded /\ Stepped(s, loss).hi = s.hi + 1
         /\ ~s.degraded /\ Stepped(s, loss).degraded =>
              loss = "high" /\ s.hi + 1 >= DegradeEnterN
<1>0. s.degraded \in BOOLEAN /\ s.hi \in 0..DegradeEnterN - 1
  BY DEF LinkState
<1>1. CASE ~s.degraded /\ loss # "high"
  BY <1>1, FreshFacts DEF Stepped
<1>2. CASE ~s.degraded /\ loss = "high" /\ s.hi + 1 < DegradeEnterN
  <2>1. Stepped(s, loss) = [s EXCEPT !.hi = s.hi + 1]
    BY <1>2 DEF Stepped, Loss
  <2>. QED
    BY <2>1, <1>0, <1>2, CapFacts DEF LinkState
<1>3. CASE ~s.degraded /\ loss = "high" /\ ~(s.hi + 1 < DegradeEnterN)
  <2>1. Stepped(s, loss) = [degraded |-> TRUE, hi |-> 0]
    BY <1>3 DEF Stepped, Loss
  <2>. QED
    BY <2>1, <1>0, <1>3, CapFacts DEF LinkState
<1>4. CASE s.degraded /\ loss = "none"
  BY <1>4, FreshFacts DEF Stepped
<1>5. CASE s.degraded /\ loss # "none"
  <2>1. Stepped(s, loss) = [degraded |-> TRUE, hi |-> 0]
    BY <1>5 DEF Stepped
  <2>. QED
    BY <2>1, <1>5, CapFacts DEF LinkState
<1>. QED
  BY <1>0, <1>1, <1>2, <1>3, <1>4, <1>5

LEMMA InitInv == Init => SessionInv
<1>. SUFFICES ASSUME Init PROVE SessionInv
  OBVIOUS
<1>1. TypeOK
  <2>1. link \in [Peer -> LinkState] /\ udp.link \in LinkState
    BY FreshFacts DEF Init
  <2>2. udp \in [at : {"idle", "mark", "joined", "link", "step", "record"},
                 peer : Peer \cup {Nobody}, loss : Loss, orphan : BOOLEAN,
                 link : LinkState]
    BY FreshFacts DEF Init, Loss
  <2>3. events \in Seq(Event) /\ Len(events) =< EventRingCap
    BY CapFacts DEF Init
  <2>4. lossy \in [Peer -> 0..DegradeEnterN]
    BY CapFacts DEF Init
  <2>5. watch \in WatchState
    BY DEF Init, WatchState
  <2>6. all \in [at : {"idle", "posting", "resetting", "done"},
                 todo : SUBSET Peer, acked : SUBSET Peer]
    BY DEF Init
  <2>7. left \in [Bounded -> Nat]
    BY BudgetAssumption DEF Init
  <2>. QED
    BY <2>1, <2>2, <2>3, <2>4, <2>5, <2>6, <2>7 DEF Init, TypeOK
<1>2. Counted
  BY FreshFacts, CapFacts DEF Init, Counted, Pending, DegradedForCause
<1>3. Acked
  BY DEF Init, Acked
<1>. QED
  BY <1>1, <1>2, <1>3 DEF SessionInv

LEMMA BurstInv ==
  ASSUME SessionInv, NEW p \in Peer, Burst(p)
  PROVE  SessionInv'
<1>. USE DEF SessionInv
<1>1. PICK loss \in Loss :
        /\ udp' = [udp EXCEPT !.at = "mark", !.peer = p, !.loss = loss]
        /\ lossy' = [lossy EXCEPT ![p] =
             IF loss # "high" THEN 0
             ELSE IF lossy[p] < DegradeEnterN THEN lossy[p] + 1 ELSE lossy[p]]
  <2>1. ProbeUDP \subseteq Loss
    BY DEF ProbeUDP, LossOf, Loss
  <2>. QED
    BY <2>1 DEF Burst
<1>2. /\ udp'.at = "mark" /\ udp'.peer = p /\ udp'.loss = loss
      /\ udp'.orphan = udp.orphan /\ udp'.link = udp.link
      /\ udp' \in [at : {"idle", "mark", "joined", "link", "step", "record"},
                   peer : Peer \cup {Nobody}, loss : Loss, orphan : BOOLEAN,
                   link : LinkState]
  BY <1>1 DEF TypeOK
<1>3. /\ lossy' \in [Peer -> 0..DegradeEnterN]
      /\ \A q \in Peer \ {p} : lossy'[q] = lossy[q]
      /\ loss = "high" => lossy'[p] = IF lossy[p] < DegradeEnterN THEN lossy[p] + 1
                                      ELSE lossy[p]
  BY <1>1, CapFacts DEF TypeOK
<1>4. left' \in [Bounded -> Nat]
  BY SpendType DEF Burst, Bounded
<1>5. TypeOK'
  BY <1>2, <1>3, <1>4 DEF TypeOK, Burst, mesh
<1>6. udp.at = "idle" /\ ~udp.orphan /\ ~Pending
  BY DEF Burst, Pending, Counted, TypeOK
<1>7. link[p].degraded \/ link[p].hi =< lossy[p]
  BY <1>6 DEF Counted
<1>8. link[p].hi \in 0..DegradeEnterN - 1 /\ lossy[p] \in 0..DegradeEnterN
  BY DEF TypeOK, LinkState
<1>9. loss = "high" => link[p].degraded \/ link[p].hi + 1 =< lossy'[p]
  BY <1>3, <1>7, <1>8, CapFacts
<1>10. link' = link /\ all' = all /\ restarted' = restarted /\ rst' = rst
  BY DEF Burst, mesh
<1>11. Counted'
  <2>1. \A q \in Peer \ {p} : link[q].degraded \/ link[q].hi =< lossy[q]
    BY <1>6 DEF Counted
  <2>2. \A q \in Peer \ {p} : link'[q].degraded \/ link'[q].hi =< lossy'[q]
    BY <2>1, <1>3, <1>10
  <2>3. loss = "high" => lossy'[p] >= 1
    BY <1>3, <1>8, CapFacts
  <2>. QED
    BY <2>2, <2>3, <1>2, <1>6, <1>9, <1>10 DEF Counted, Pending, DegradedForCause
<1>. QED
  BY <1>5, <1>10, <1>11 DEF Acked

\* The loop's other steps up to the folding in keep the counts.
LEMMA WaitInv ==
  ASSUME SessionInv, Mark \/ RecordJoined \/ TakeLink
  PROVE  SessionInv'
<1>. USE DEF SessionInv
<1>1. /\ udp.at \in {"mark", "joined", "link"} /\ ~udp.orphan
  BY DEF Mark, RecordJoined, TakeLink, Pending, Counted
<1>2. /\ udp'.at \in {"joined", "link", "step"}
      /\ udp'.peer = udp.peer /\ udp'.loss = udp.loss /\ ~udp'.orphan
      /\ udp'.link = udp.link
      /\ udp' \in [at : {"idle", "mark", "joined", "link", "step", "record"},
                   peer : Peer \cup {Nobody}, loss : Loss, orphan : BOOLEAN,
                   link : LinkState]
  BY <1>1 DEF Mark, RecordJoined, TakeLink, TypeOK
<1>3. udp.peer \in Peer
  BY <1>1 DEF TypeOK
<1>4. events' \in Seq(Event) /\ Len(events') =< EventRingCap
  <2>1. CASE RecordJoined
    <3>1. About(udp.peer, "joined") \in Event
      BY <1>3 DEF About, Change, Event
    <3>. QED
      BY <2>1, <3>1, RecordType DEF RecordJoined
  <2>2. CASE Mark \/ TakeLink
    BY <2>2 DEF Mark, TakeLink, TypeOK
  <2>. QED
    BY <2>1, <2>2
<1>5. /\ link' = link /\ lossy' = lossy /\ listed' = listed /\ watch' = watch
      /\ rst' = rst /\ all' = all /\ restarted' = restarted /\ late' = late
      /\ log' = log /\ pull' = pull /\ left' = left /\ seen' \subseteq Peer
  BY <1>3 DEF Mark, RecordJoined, TakeLink, mesh, TypeOK
<1>6. TypeOK'
  BY <1>2, <1>3, <1>4, <1>5 DEF TypeOK
<1>7. Counted'
  BY <1>1, <1>2, <1>5 DEF Counted, Pending, DegradedForCause
<1>. QED
  BY <1>5, <1>6, <1>7 DEF Acked

LEMMA StepInv ==
  ASSUME SessionInv, Step
  PROVE  SessionInv'
<1>. USE DEF SessionInv
<1>. DEFINE p == udp.peer
            s == IF udp.orphan THEN udp.link ELSE link[p]
            t == Stepped(s, udp.loss)
<1>1. p \in Peer /\ udp.at = "step" /\ udp.loss \in Loss /\ udp.link \in LinkState
  BY DEF Step, TypeOK
<1>2. s \in LinkState
  BY <1>1 DEF TypeOK
<1>3. /\ t \in LinkState
      /\ ~t.degraded => t.hi = 0 \/ (udp.loss = "high" /\ ~s.degraded /\ t.hi = s.hi + 1)
      /\ ~s.degraded /\ t.degraded => udp.loss = "high" /\ s.hi + 1 >= DegradeEnterN
  BY <1>1, <1>2, SteppedFacts
<1>. HIDE DEF t
<1>4. /\ link' = IF udp.orphan THEN link ELSE [link EXCEPT ![p] = t]
      /\ udp' = [udp EXCEPT !.at = IF Changed(s, t) THEN "record" ELSE "idle",
                            !.orphan = FALSE, !.link = t]
  BY DEF Step, t
<1>5. /\ udp'.at \in {"record", "idle"} /\ udp'.peer = p /\ ~udp'.orphan
      /\ udp'.link = t /\ (udp'.at = "record" => Changed(s, t))
      /\ udp' \in [at : {"idle", "mark", "joined", "link", "step", "record"},
                   peer : Peer \cup {Nobody}, loss : Loss, orphan : BOOLEAN,
                   link : LinkState]
  BY <1>3, <1>4 DEF TypeOK
<1>6. /\ link' \in [Peer -> LinkState]
      /\ \A q \in Peer \ {p} : link'[q] = link[q]
      /\ link'[p] = IF udp.orphan THEN link[p] ELSE t
  BY <1>1, <1>3, <1>4 DEF TypeOK
<1>7. /\ lossy' = lossy /\ listed' = listed /\ watch' = watch /\ events' = events
      /\ rst' = rst /\ all' = all /\ restarted' = restarted /\ late' = late
      /\ log' = log /\ pull' = pull /\ left' = left /\ seen' = seen
  BY DEF Step, mesh
<1>8. TypeOK'
  BY <1>1, <1>5, <1>6, <1>7 DEF TypeOK
<1>9. /\ udp.loss = "high" => s.degraded \/ s.hi + 1 =< lossy[p]
      /\ s.hi \in Nat /\ lossy[p] \in 0..DegradeEnterN
  BY <1>1, <1>2, CapFacts DEF Counted, Pending, TypeOK, LinkState
<1>10. link'[p].degraded \/ link'[p].hi =< lossy[p]
  <2>1. CASE udp.orphan
    BY <2>1, <1>6, <1>9, FreshFacts DEF Counted
  <2>2. CASE ~udp.orphan
    BY <2>2, <1>3, <1>6, <1>9
  <2>. QED
    BY <2>1, <2>2
<1>11. udp'.at = "record" /\ t.degraded => lossy[p] >= DegradeEnterN
  <2>. SUFFICES ASSUME udp'.at = "record", t.degraded PROVE lossy[p] >= DegradeEnterN
    OBVIOUS
  <2>1. ~s.degraded
    BY <1>2, <1>3, <1>5 DEF Changed, LinkState
  <2>. QED
    BY <2>1, <1>3, <1>9, CapFacts
<1>12. Counted'
  <2>1. ~Pending'
    BY <1>5 DEF Pending
  <2>2. \A q \in Peer \ {p} : link[q].degraded \/ link[q].hi =< lossy[q]
    BY DEF Counted
  <2>3. \A q \in Peer : link'[q].degraded \/ link'[q].hi =< lossy'[q]
    BY <2>2, <1>6, <1>7, <1>10
  <2>4. DegradedForCause'
    BY <1>5, <1>7, <1>11 DEF DegradedForCause
  <2>. QED
    BY <2>1, <2>3, <2>4, <1>5 DEF Counted
<1>. QED
  BY <1>7, <1>8, <1>12 DEF Acked

LEMMA RecordStepInv ==
  ASSUME SessionInv, RecordStep
  PROVE  SessionInv'
<1>. USE DEF SessionInv
<1>1. udp.at = "record" /\ udp.peer \in Peer /\ ~udp.orphan
  BY DEF RecordStep, TypeOK, Counted
<1>2. Change(udp.peer, "loss", Level(~udp.link.degraded), Level(udp.link.degraded)) \in Event
  BY <1>1 DEF Change, Level, Event
<1>3. events' \in Seq(Event) /\ Len(events') =< EventRingCap
  BY <1>2, RecordType DEF RecordStep
<1>4. /\ udp'.at = "idle" /\ ~udp'.orphan
      /\ udp' \in [at : {"idle", "mark", "joined", "link", "step", "record"},
                   peer : Peer \cup {Nobody}, loss : Loss, orphan : BOOLEAN,
                   link : LinkState]
  BY <1>1 DEF RecordStep, TypeOK
<1>5. /\ lossy' = lossy /\ listed' = listed /\ watch' = watch /\ link' = link
      /\ rst' = rst /\ all' = all /\ restarted' = restarted /\ late' = late
      /\ log' = log /\ pull' = pull /\ left' = left /\ seen' = seen
  BY DEF RecordStep, mesh
<1>6. TypeOK'
  BY <1>3, <1>4, <1>5 DEF TypeOK
<1>7. Counted'
  BY <1>1, <1>4, <1>5 DEF Counted, Pending, DegradedForCause
<1>. QED
  BY <1>5, <1>6, <1>7 DEF Acked

LEMMA WatchFacts ==
  ASSUME TypeOK
  PROVE  /\ watch.known \in BOOLEAN /\ watch.discarding \in BOOLEAN
         /\ watch.blind \in BOOLEAN /\ watch.todo \in Seq(Event)
         /\ watch.status \in Status \cup {"none"} /\ watch.speed \in Speed \cup {"none"}
<1>1. watch \in WatchState
  BY DEF TypeOK
<1>. QED
  BY <1>1 DEF WatchState

LEMMA AtMostOne ==
  ASSUME NEW a \in Event, NEW A \in {<<>>, <<a>>}
  PROVE  /\ A \in Seq(Event) /\ Len(A) \in 0..1
         /\ (A = <<>>) <=> (Len(A) = 0)
         /\ A # <<>> => A[1] = a
<1>1. CASE A = <<>>
  BY <1>1
<1>2. CASE A = <<a>>
  <2>1. A \in Seq(Event) /\ Len(A) = 1 /\ A[1] = a
    BY <1>2
  <2>. QED
    BY <2>1, <1>2
<1>. QED
  BY <1>1, <1>2

\* The events of a poll: at most one of each kind.
AtMostThree(s, A, a, B, b, C, c) ==
  /\ s \in Seq(Event)
  /\ \A i \in 1..Len(s) : \/ A # <<>> /\ s[i] = a
                          \/ B # <<>> /\ s[i] = b
                          \/ C # <<>> /\ s[i] = c
  /\ \A i, j \in 1..Len(s) : s[i].what = s[j].what => i = j
  /\ A # <<>> => \E i \in 1..Len(s) : s[i] = a
  /\ B # <<>> => \E i \in 1..Len(s) : s[i] = b
  /\ C # <<>> => \E i \in 1..Len(s) : s[i] = c

LEMMA ThreeEvents ==
  ASSUME NEW a \in Event, NEW b \in Event, NEW c \in Event,
         a.what = "status", b.what = "speed", c.what = "discards",
         NEW A \in {<<>>, <<a>>}, NEW B \in {<<>>, <<b>>}, NEW C \in {<<>>, <<c>>},
         NEW s, s = (A \o B) \o C
  PROVE  AtMostThree(s, A, a, B, b, C, c)
<1>. DEFINE AB == A \o B
<1>1. /\ A \in Seq(Event) /\ Len(A) \in 0..1 /\ ((A = <<>>) <=> (Len(A) = 0))
      /\ A # <<>> => A[1] = a
  BY AtMostOne
<1>2. /\ B \in Seq(Event) /\ Len(B) \in 0..1 /\ ((B = <<>>) <=> (Len(B) = 0))
      /\ B # <<>> => B[1] = b
  BY AtMostOne
<1>3. /\ C \in Seq(Event) /\ Len(C) \in 0..1 /\ ((C = <<>>) <=> (Len(C) = 0))
      /\ C # <<>> => C[1] = c
  BY AtMostOne
<1>4. /\ AB \in Seq(Event) /\ Len(AB) = Len(A) + Len(B)
      /\ \A i \in 1..Len(A) + Len(B) :
            AB[i] = IF i =< Len(A) THEN A[i] ELSE B[i - Len(A)]
  BY <1>1, <1>2, ConcatProperties
<1>. HIDE DEF AB
<1>5. /\ s \in Seq(Event) /\ Len(s) = Len(AB) + Len(C)
      /\ \A i \in 1..Len(AB) + Len(C) :
            s[i] = IF i =< Len(AB) THEN AB[i] ELSE C[i - Len(AB)]
  <2>1. s = AB \o C
    BY DEF AB
  <2>. QED
    BY <1>3, <1>4, <2>1, ConcatProperties
<1>6. \A i \in 1..Len(s) :
        \/ Len(A) = 1 /\ i = 1 /\ s[i] = a
        \/ Len(B) = 1 /\ i = Len(A) + 1 /\ s[i] = b
        \/ Len(C) = 1 /\ i = Len(A) + Len(B) + 1 /\ s[i] = c
  <2>. SUFFICES ASSUME NEW i \in 1..Len(s)
                PROVE  \/ Len(A) = 1 /\ i = 1 /\ s[i] = a
                       \/ Len(B) = 1 /\ i = Len(A) + 1 /\ s[i] = b
                       \/ Len(C) = 1 /\ i = Len(A) + Len(B) + 1 /\ s[i] = c
    OBVIOUS
  <2>0. i \in Int /\ Len(A) \in 0..1 /\ Len(B) \in 0..1 /\ Len(C) \in 0..1
        /\ 1 =< i /\ i =< Len(A) + Len(B) + Len(C)
    <3>1. Len(A) \in 0..1 /\ Len(B) \in 0..1 /\ Len(C) \in 0..1
      BY <1>1, <1>2, <1>3
    <3>2. Len(s) = Len(A) + Len(B) + Len(C)
      BY <1>4, <1>5
    <3>. QED
      BY <3>1, <3>2
  <2>1. CASE i =< Len(A)
    <3>1. s[i] = A[1] /\ i = 1 /\ Len(A) = 1
      BY <2>0, <2>1, <1>4, <1>5
    <3>. QED
      BY <3>1, <1>1
  <2>2. CASE Len(A) < i /\ i =< Len(A) + Len(B)
    <3>1. i = Len(A) + 1 /\ Len(B) = 1
      BY <2>0, <2>2
    <3>2. s[i] = B[i - Len(A)] /\ i - Len(A) = 1
      <4>1. i \in 1..Len(A) + Len(B) /\ ~(i =< Len(A)) /\ i - Len(A) = 1
        BY <2>0, <2>2, <3>1
      <4>2. AB[i] = B[i - Len(A)]
        BY <1>4, <4>1
      <4>3. i \in 1..Len(AB) + Len(C) /\ i =< Len(AB)
        BY <1>4, <2>0, <4>1
      <4>4. s[i] = AB[i]
        BY <1>5, <4>3
      <4>. QED
        BY <4>1, <4>2, <4>4
    <3>. QED
      BY <3>1, <3>2, <1>2
  <2>3. CASE Len(A) + Len(B) < i
    <3>1. i = Len(A) + Len(B) + 1 /\ Len(C) = 1
      BY <2>0, <2>3
    <3>2. s[i] = C[i - Len(AB)] /\ i - Len(AB) = 1
      BY <2>0, <2>3, <3>1, <1>4, <1>5
    <3>. QED
      BY <3>1, <3>2, <1>3
  <2>. QED
    BY <2>0, <2>1, <2>2, <2>3
<1>7. /\ Len(A) = 1 => 1 \in 1..Len(s)
      /\ Len(B) = 1 => Len(A) + 1 \in 1..Len(s)
      /\ Len(C) = 1 => Len(A) + Len(B) + 1 \in 1..Len(s)
  <2>1. Len(A) \in 0..1 /\ Len(B) \in 0..1 /\ Len(C) \in 0..1
    BY <1>1, <1>2, <1>3
  <2>2. Len(s) = Len(A) + Len(B) + Len(C)
    BY <1>4, <1>5
  <2>. QED
    BY <2>1, <2>2
<1>8. \A i, j \in 1..Len(s) : s[i].what = s[j].what => i = j
  BY <1>6
<1>9. /\ A # <<>> => s[1] = a
      /\ B # <<>> => s[Len(A) + 1] = b
      /\ C # <<>> => s[Len(A) + Len(B) + 1] = c
  <2>1. Len(A) \in 0..1 /\ Len(B) \in 0..1 /\ Len(C) \in 0..1
    BY <1>1, <1>2, <1>3
  <2>2. /\ A # <<>> => Len(A) = 1
        /\ B # <<>> => Len(B) = 1
        /\ C # <<>> => Len(C) = 1
    BY <1>1, <1>2, <1>3
  <2>. QED
    BY <2>1, <2>2, <1>6, <1>7
<1>10. /\ A # <<>> => Len(A) = 1
       /\ B # <<>> => Len(B) = 1
       /\ C # <<>> => Len(C) = 1
  BY <1>1, <1>2, <1>3
<1>11. \A i \in 1..Len(s) : \/ A # <<>> /\ s[i] = a
                            \/ B # <<>> /\ s[i] = b
                            \/ C # <<>> /\ s[i] = c
  BY <1>1, <1>2, <1>3, <1>6
<1>. QED
  BY <1>5, <1>7, <1>8, <1>9, <1>10, <1>11 DEF AtMostThree

\* What nicEvents() returns.
LEMMA AdapterEventsFacts ==
  ASSUME TypeOK, NEW status \in Status, NEW speed \in Speed, NEW bad \in BOOLEAN
  PROVE  LET s == AdapterEvents(status, speed, bad)
             a == Change(Nobody, "status", watch.status, status)
             b == Change(Nobody, "speed", watch.speed, speed)
             c == Change(Nobody, "discards", Level(watch.discarding), Level(bad))
         IN  /\ s \in Seq(Event)
             /\ \A i \in 1..Len(s) : \/ watch.status # status /\ s[i] = a
                                     \/ SpeedChanged(speed) /\ s[i] = b
                                     \/ watch.discarding # bad /\ s[i] = c
             /\ \A i, j \in 1..Len(s) : s[i].what = s[j].what => i = j
             /\ watch.status # status => \E i \in 1..Len(s) : s[i] = a
             /\ SpeedChanged(speed) => \E i \in 1..Len(s) : s[i] = b
             /\ watch.discarding # bad => \E i \in 1..Len(s) : s[i] = c
<1>1. watch.status \in Status \cup {"none"} /\ watch.speed \in Speed \cup {"none"}
  BY WatchFacts
<1>2. PICK a : a = Change(Nobody, "status", watch.status, status)
  OBVIOUS
<1>3. PICK b : b = Change(Nobody, "speed", watch.speed, speed)
  OBVIOUS
<1>4. PICK c : c = Change(Nobody, "discards", Level(watch.discarding), Level(bad))
  OBVIOUS
<1>5. a \in Event /\ b \in Event /\ c \in Event
  BY <1>1, <1>2, <1>3, <1>4 DEF Change, Level, Event
<1>6. a.what = "status" /\ b.what = "speed" /\ c.what = "discards"
  BY <1>2, <1>3, <1>4 DEF Change
<1>7. PICK A : A = IF watch.status = status THEN <<>> ELSE <<a>>
  OBVIOUS
<1>8. PICK B : B = IF ~SpeedChanged(speed) THEN <<>> ELSE <<b>>
  OBVIOUS
<1>9. PICK C : C = IF watch.discarding = bad THEN <<>> ELSE <<c>>
  OBVIOUS
<1>10. A \in {<<>>, <<a>>} /\ B \in {<<>>, <<b>>} /\ C \in {<<>>, <<c>>}
  BY <1>7, <1>8, <1>9
<1>11. /\ ((A # <<>>) <=> (watch.status # status))
       /\ ((B # <<>>) <=> SpeedChanged(speed))
       /\ ((C # <<>>) <=> (watch.discarding # bad))
  BY <1>7, <1>8, <1>9
<1>12. PICK s : s = AdapterEvents(status, speed, bad)
  OBVIOUS
<1>13. s = (A \o B) \o C
  BY <1>2, <1>3, <1>4, <1>7, <1>8, <1>9, <1>12 DEF AdapterEvents
<1>14. AtMostThree(s, A, a, B, b, C, c)
  BY <1>5, <1>6, <1>10, <1>13, ThreeEvents
<1>. QED
  BY <1>2, <1>3, <1>4, <1>11, <1>12, <1>14 DEF AtMostThree

LEMMA WatchInv ==
  ASSUME SessionInv, Poll \/ RecordPoll
  PROVE  SessionInv'
<1>. USE DEF SessionInv
<1>1. \A status \in Status, speed \in Speed, bad \in BOOLEAN :
        AdapterEvents(status, speed, bad) \in Seq(Event)
  BY AdapterEventsFacts
<1>2. /\ watch' \in WatchState
      /\ events' \in Seq(Event) /\ Len(events') =< EventRingCap
  <2>1. CASE Poll
    <3>1. CASE watch' = KeepAbsent
      BY <2>1, <3>1 DEF Poll, KeepAbsent, TypeOK
    <3>2. ASSUME NEW status \in Status, NEW speed \in Speed, NEW bad \in BOOLEAN,
                 watch' = Seen(status, speed, bad)
          PROVE  watch' \in WatchState
      <4>1. /\ (IF watch.known THEN bad ELSE watch.discarding) \in BOOLEAN
            /\ (speed = "none" \/ (watch.blind /\ ~(watch.known /\ SpeedChanged(speed)))) \in BOOLEAN
            /\ (IF watch.known THEN AdapterEvents(status, speed, bad) ELSE <<>>) \in Seq(Event)
        BY <1>1, WatchFacts
      <4>. QED
        BY <3>2, <4>1 DEF Seen, WatchState
    <3>. QED
      BY <2>1, <3>1, <3>2 DEF Poll, TypeOK
  <2>2. CASE RecordPoll
    <3>1. watch.todo \in Seq(Event) /\ watch.todo # <<>>
      BY <2>2, WatchFacts DEF RecordPoll
    <3>2. Head(watch.todo) \in Event /\ Tail(watch.todo) \in Seq(Event)
      BY <3>1
    <3>3. events' \in Seq(Event) /\ Len(events') =< EventRingCap
      BY <2>2, <3>2, RecordType DEF RecordPoll
    <3>4. watch \in WatchState /\ watch' = [watch EXCEPT !.todo = Tail(watch.todo)]
      BY <2>2 DEF RecordPoll, TypeOK
    <3>5. watch' \in WatchState
      BY <3>2, <3>4 DEF WatchState
    <3>. QED
      BY <3>3, <3>5
  <2>. QED
    BY <2>1, <2>2
<1>3. left' \in [Bounded -> Nat]
  BY SpendType DEF Poll, RecordPoll, Bounded, TypeOK
<1>4. /\ lossy' = lossy /\ listed' = listed /\ udp' = udp /\ link' = link
      /\ rst' = rst /\ all' = all /\ restarted' = restarted /\ late' = late
      /\ log' = log /\ pull' = pull /\ seen' = seen
  BY DEF Poll, RecordPoll, mesh
<1>5. TypeOK'
  BY <1>2, <1>3, <1>4 DEF TypeOK
<1>. QED
  BY <1>4, <1>5 DEF Counted, Pending, DegradedForCause, Acked

LEMMA ResetInv ==
  ASSUME SessionInv, NEW r \in Reset, ResetSession(r)
  PROVE  SessionInv'
<1>. USE DEF SessionInv
<1>0. rst' \in [Reset -> {"idle", "reports", "events", "record", "done"}]
      /\ (rst[Click] = "done" => rst'[Click] = "done")
  BY ClickAssumption DEF ResetSession, ClearPeers, ClearReports, ClearEvents,
                         RecordReset, TypeOK
<1>1. CASE ClearPeers(r)
  <2>1. left' \in [Bounded -> Nat]
    BY <1>1, SpendType DEF ClearPeers, Bounded, TypeOK
  <2>2. link' = [q \in Peer |-> Fresh] /\ link' \in [Peer -> LinkState]
    BY <1>1, FreshFacts DEF ClearPeers
  <2>3. /\ lossy' = lossy /\ listed' = listed /\ watch' = watch /\ events' = events
        /\ all' = all /\ restarted' = restarted /\ late' = late
        /\ log' = log /\ pull' = pull /\ seen' = {}
    BY <1>1 DEF ClearPeers, mesh
  <2>4. /\ udp'.at = udp.at /\ udp'.peer = udp.peer /\ udp'.loss = udp.loss
        /\ udp' \in [at : {"idle", "mark", "joined", "link", "step", "record"},
                     peer : Peer \cup {Nobody}, loss : Loss, orphan : BOOLEAN,
                     link : LinkState]
        /\ udp'.orphan = (udp.at = "step" \/ udp.orphan)
        /\ udp.at # "step" => udp' = udp
        /\ udp'.orphan => udp'.link = IF udp.orphan THEN udp.link ELSE link[udp.peer]
    <3>1. CASE udp.at = "step" /\ ~udp.orphan
      <4>1. udp' = [udp EXCEPT !.orphan = TRUE, !.link = link[udp.peer]]
        BY <1>1, <3>1 DEF ClearPeers
      <4>2. link[udp.peer] \in LinkState
        BY <3>1 DEF TypeOK
      <4>. QED
        BY <3>1, <4>1, <4>2 DEF TypeOK
    <3>2. CASE ~(udp.at = "step" /\ ~udp.orphan)
      BY <1>1, <3>2 DEF ClearPeers, TypeOK
    <3>. QED
      BY <3>1, <3>2
  <2>5. TypeOK'
    BY <1>0, <2>1, <2>2, <2>3, <2>4 DEF TypeOK
  <2>6. Pending' <=> Pending
    BY <2>4 DEF Pending
  <2>7. \A q \in Peer : link'[q] = Fresh /\ lossy[q] \in Nat
    BY <2>2, CapFacts DEF TypeOK
  <2>8. udp.at # "idle" => udp.peer \in Peer
    BY DEF TypeOK
  <2>9. udp.orphan => udp.at = "step"
    BY DEF Counted
  <2>10. Pending /\ udp.loss = "high" =>
           (udp'.orphan => udp'.link.degraded \/ udp'.link.hi + 1 =< lossy[udp.peer])
    BY <2>4, <2>8 DEF Counted, TypeOK, LinkState, Pending
  <2>11. Counted'
    <3>1. Pending /\ udp.loss = "high" => lossy[udp.peer] >= 1
      BY DEF Counted
    <3>2. \A q \in Peer : link'[q].degraded \/ link'[q].hi =< lossy'[q]
      BY <2>3, <2>7, FreshFacts
    <3>3. Pending /\ udp.loss = "high" =>
             link'[udp.peer].degraded \/ link'[udp.peer].hi + 1 =< lossy'[udp.peer]
      BY <3>1, <2>3, <2>7, <2>8, FreshFacts DEF Pending
    <3>4. udp'.orphan => udp'.at = "step" /\ link'[udp'.peer] = Fresh
      BY <2>4, <2>7, <2>8, <2>9
    <3>5. DegradedForCause'
      BY <2>3, <2>4 DEF DegradedForCause, Counted
    <3>. QED
      BY <3>2, <3>3, <3>4, <3>5, <2>3, <2>4, <2>6, <2>10 DEF Counted
  <2>. QED
    BY <1>0, <2>3, <2>5, <2>11 DEF Acked
<1>2. CASE ClearReports(r) \/ ClearEvents(r) \/ RecordReset(r)
  <2>1. About(Nobody, "session reset") \in Event
    BY DEF About, Change, Event
  <2>2. events' \in Seq(Event) /\ Len(events') =< EventRingCap
    <3>1. CASE ClearReports(r)
      BY <3>1 DEF ClearReports, own, TypeOK
    <3>2. CASE ClearEvents(r)
      <4>1. events' = <<>>
        BY <3>2 DEF ClearEvents
      <4>. QED
        BY <4>1, CapFacts
    <3>3. CASE RecordReset(r)
      BY <3>3, <2>1, RecordType DEF RecordReset
    <3>. QED
      BY <1>2, <3>1, <3>2, <3>3
  <2>3. /\ lossy' = lossy /\ listed' = listed /\ watch' = watch /\ link' = link
        /\ all' = all /\ restarted' = restarted /\ late' = late /\ udp' = udp
        /\ pull' = pull /\ seen' = seen /\ left' = left
        /\ log' \in [Peer -> {"none", "old", "new"}]
    <3>1. CASE ClearReports(r)
      BY <3>1 DEF ClearReports, own, mesh
    <3>2. CASE ClearEvents(r) \/ RecordReset(r)
      <4>1. log' = log
        BY <3>2 DEF ClearEvents, RecordReset
      <4>2. log \in [Peer -> {"none", "old", "new"}]
        BY DEF TypeOK
      <4>. QED
        BY <3>2, <4>1, <4>2 DEF ClearEvents, RecordReset, mesh
    <3>. QED
      BY <1>2, <3>1, <3>2
  <2>4. TypeOK'
    BY <1>0, <2>2, <2>3 DEF TypeOK
  <2>. QED
    BY <1>0, <2>3, <2>4 DEF Counted, Pending, DegradedForCause, Acked
<1>. QED
  BY <1>1, <1>2 DEF ResetSession

\* Peers that come and go, frames, the steps of ResetAll and of the pull.
LEMMA MeshInv ==
  ASSUME SessionInv,
         \/ Discover \/ Frame \/ ClickReset \/ ResetSelf \/ Summarise \/ Store
         \/ \E p \in Peer : PostReset(p) \/ HandleLate(p) \/ Fetch(p)
  PROVE  SessionInv'
<1>. USE DEF SessionInv
<1>1. /\ link' = link /\ events' = events /\ udp' = udp /\ lossy' = lossy
      /\ watch' = watch /\ rst' = rst /\ restarted \subseteq restarted'
  BY DEF Discover, Frame, ClickReset, ResetSelf, Summarise, Store, PostReset,
         HandleLate, Fetch, own, mesh
<1>2. listed' \subseteq Peer /\ seen' \subseteq Peer
  BY DEF Discover, Frame, ClickReset, ResetSelf, Summarise, Store, PostReset,
         HandleLate, Fetch, own, mesh, TypeOK
<1>3. restarted' \subseteq Peer /\ late' \subseteq Peer
  BY DEF Discover, Frame, ClickReset, ResetSelf, Summarise, Store, PostReset,
         HandleLate, Fetch, own, mesh, TypeOK
<1>4. /\ log' \in [Peer -> {"none", "old", "new"}]
      /\ pull' \in [peer : Peer \cup {Nobody}, log : {"none", "old", "new"}]
      /\ left' \in [Bounded -> Nat]
  <2>1. CASE Store
    <3>1. /\ log' = [log EXCEPT ![pull.peer] = pull.log]
          /\ pull' = [pull EXCEPT !.peer = Nobody] /\ left' = left
      BY <2>1 DEF Store
    <3>. QED
      BY <3>1 DEF TypeOK
  <2>2. CASE ClickReset
    BY <2>2, SpendType DEF ClickReset, Bounded, mesh, TypeOK
  <2>3. CASE \E p \in Peer : Fetch(p)
    <3>1. PICK p \in Peer : Fetch(p)
      BY <2>3
    <3>. QED
      BY <3>1 DEF Fetch, Served, TypeOK
  <2>4. CASE \/ Discover \/ Frame \/ ResetSelf \/ Summarise
             \/ \E p \in Peer : PostReset(p) \/ HandleLate(p)
    BY <2>4 DEF Discover, Frame, ResetSelf, Summarise, PostReset, HandleLate,
                mesh, TypeOK
  <2>. QED
    BY <2>1, <2>2, <2>3, <2>4
<1>5. /\ all' \in [at : {"idle", "posting", "resetting", "done"},
                   todo : SUBSET Peer, acked : SUBSET Peer]
      /\ all'.acked \subseteq restarted'
      /\ all'.at = "done" => rst[Click] = "done"
  <2>1. CASE \E p \in Peer : PostReset(p)
    <3>1. PICK p \in Peer, outcome \in {"ok", "other status", "given up"} :
            /\ all' = [all EXCEPT !.todo = all.todo \ {p},
                 !.acked = IF Acknowledged(outcome) THEN all.acked \cup {p} ELSE all.acked]
            /\ outcome = "ok" => restarted' = restarted \cup {p}
            /\ all.at = "posting"
      BY <2>1 DEF PostReset
    <3>2. /\ all'.acked = IF outcome = "ok" THEN all.acked \cup {p} ELSE all.acked
          /\ all'.at = all.at
          /\ all' \in [at : {"idle", "posting", "resetting", "done"},
                       todo : SUBSET Peer, acked : SUBSET Peer]
      BY <3>1 DEF Acknowledged, TypeOK
    <3>. QED
      BY <3>1, <3>2, <1>1 DEF Acked
  <2>2. CASE ClickReset \/ ResetSelf \/ Summarise
    BY <2>2, <1>1, <1>2 DEF ClickReset, ResetSelf, Summarise, Acked, TypeOK
  <2>3. CASE Discover \/ Frame \/ Store \/ \E p \in Peer : HandleLate(p) \/ Fetch(p)
    BY <2>3, <1>1 DEF Discover, Frame, Store, HandleLate, Fetch, mesh, Acked, TypeOK
  <2>. QED
    BY <2>1, <2>2, <2>3
<1>6. TypeOK'
  BY <1>1, <1>2, <1>3, <1>4, <1>5 DEF TypeOK
<1>. QED
  BY <1>1, <1>5, <1>6 DEF Counted, Pending, DegradedForCause, Acked

\* The inductive invariant of the session (events.go, appcore.go).
THEOREM SessionInvariant == Spec => []SessionInv
<1>1. SessionInv /\ [Next]_vars => SessionInv'
  <2>. SUFFICES ASSUME SessionInv, [Next]_vars PROVE SessionInv'
    OBVIOUS
  <2>1. CASE Udp
    BY <2>1, WaitInv, StepInv, RecordStepInv DEF Udp
  <2>2. CASE \E p \in Peer : Burst(p)
    BY <2>2, BurstInv
  <2>3. CASE Poll \/ RecordPoll
    BY <2>3, WatchInv
  <2>4. CASE \E r \in Reset : ResetSession(r)
    BY <2>4, ResetInv
  <2>5. CASE \/ Discover \/ Frame \/ ClickReset \/ ResetSelf \/ Summarise \/ Store
             \/ \E p \in Peer : PostReset(p) \/ HandleLate(p) \/ Fetch(p)
    BY <2>5, MeshInv
  <2>6. CASE UNCHANGED vars
    BY <2>6 DEF vars, own, mesh, SessionInv, TypeOK, Counted, Pending,
                DegradedForCause, Acked
  <2>. QED
    BY <2>1, <2>2, <2>3, <2>4, <2>5, <2>6 DEF Next
<1>. QED
  BY <1>1, InitInv, PTL DEF Spec

\* The variables of the session keep their types, the ring its capacity.
THEOREM TypeInvariant == Spec => []TypeOK
  BY SessionInvariant, PTL DEF SessionInv

\* A degraded event follows degradeEnterN lossy bursts in a row, across resets.
THEOREM Hysteresis == Spec => []DegradedForCause
  BY SessionInvariant, PTL DEF SessionInv, Counted

\* The peers a reset of the mesh counts have begun a new session.
THEOREM Acknowledgements == Spec => []AckedWereReset
<1>1. SessionInv => AckedWereReset
  BY DEF SessionInv, Acked, AckedWereReset
<1>. QED
  BY <1>1, SessionInvariant, PTL

-----------------------------------------------------------------------------
(* The log tells the states.                                                 *)

\* Places of s that tell of the changes of one thing; each begins where the one
\* before it ended, and the last ends at what holds now, apart from the first if
\* that does not count.
Telling(s, of, what) == {i \in 1..Len(s) : s[i].of = of /\ s[i].what = what}

Weighs(its, i, first) == first \/ \E h \in its : h < i

Links(s, its, first) ==
  \A i, j \in its :
    Weighs(its, i, first) /\ i < j /\ (\A k \in its : k =< i \/ k >= j)
      => s[i].now = s[j].was

LastSays(s, its, first, now) ==
  \A j \in its : Weighs(its, j, first) /\ (\A k \in its : k =< j) => s[j].now = now

Ends(s, of, what, first, now) == LastSays(s, Telling(s, of, what), first, now)

Tells(s, of, what, first, now) ==
  Links(s, Telling(s, of, what), first) /\ Ends(s, of, what, first, now)

\* No reset has cleared the states and not yet the log.
Cleared == \A r \in Reset : rst[r] \notin {"reports", "events"}

\* The events of one link.  While one is on its way the log says the opposite of it,
\* unless it was measured before a reset: then there is none of any link.
OfLinks == UNION {Telling(events, p, "loss") : p \in Peer}

Says(p, degraded) == Tells(events, p, "loss", FALSE, Level(degraded))

LinkLog ==
  Cleared =>
    /\ udp.orphan => OfLinks = {}
    /\ \A p \in Peer :
         \/ ~(udp.at = "record" /\ udp.peer = p) /\ Says(p, link[p].degraded)
         \/ /\ udp.at = "record" /\ udp.peer = p
            /\ \/ OfLinks = {}
               \/ /\ udp.link.degraded = link[p].degraded
                  /\ Says(p, ~link[p].degraded)

\* The adapter.  The change of a poll that is still to be recorded begins where the
\* log ends; where none is, the log ends at what holds.
ToTell(what) == Telling(watch.todo, Nobody, what)

Told(what, now) ==
  /\ ToTell(what) = {} => Tells(events, Nobody, what, TRUE, now)
  /\ \A i \in ToTell(what) : /\ watch.todo[i].now = now
                            /\ Tells(events, Nobody, what, TRUE, watch.todo[i].was)

SpeedTold ==
  ~watch.blind =>
    /\ ToTell("speed") = {} => Ends(events, Nobody, "speed", TRUE, watch.speed)
    /\ \A i \in ToTell("speed") : watch.todo[i].now = watch.speed

Todo ==
  /\ \A i \in 1..Len(watch.todo) :
       watch.todo[i].of = Nobody /\ watch.todo[i].what \in {"status", "speed", "discards"}
  /\ \A i, j \in 1..Len(watch.todo) : watch.todo[i].what = watch.todo[j].what => i = j

\* Before the first poll that sees the adapter the log is silent on it, and a speed
\* that is not known is one the watch is blind to.
Unseen ==
  /\ ~watch.known => /\ watch.todo = <<>>
                     /\ Telling(events, Nobody, "status") = {}
                     /\ Telling(events, Nobody, "speed") = {}
  /\ watch.known /\ watch.speed = "none" => watch.blind

AdapterLog ==
  /\ Unseen /\ Todo /\ SpeedTold
  /\ Told("status", watch.status) /\ Told("discards", Level(watch.discarding))

LogInv == LinkLog /\ AdapterLog

\* t is s with e at its end and d places dropped at its front.
Shifted(s, t, e, d) ==
  /\ d \in {0, 1} /\ d =< Len(s) /\ Len(t) = Len(s) + 1 - d
  /\ \A i \in 1..(Len(s) - d) : t[i] = s[i + d]
  /\ t[Len(t)] = e

LEMMA RecordShifts ==
  ASSUME TypeOK, NEW e \in Event, Record(e)
  PROVE  \E d \in {0, 1} : Shifted(events, events', e, d)
<1>1. events \in Seq(Event) /\ Len(events) =< EventRingCap /\ Len(events) \in Nat
  BY DEF TypeOK
<1>2. CASE Len(events) < EventRingCap
  <2>1. events' = Append(events, e)
    BY <1>2 DEF Record
  <2>2. Shifted(events, events', e, 0)
    BY <1>1, <2>1 DEF Shifted
  <2>. QED
    BY <2>2
<1>3. CASE ~(Len(events) < EventRingCap)
  <2>1. events' = Append(Tail(events), e) /\ events # <<>>
    BY <1>1, <1>3, CapFacts DEF Record
  <2>2. /\ Tail(events) \in Seq(Event) /\ Len(Tail(events)) = Len(events) - 1
        /\ \A i \in 1..(Len(events) - 1) : Tail(events)[i] = events[i + 1]
    BY <1>1, <2>1
  <2>3. Shifted(events, events', e, 1)
    <3>1. Len(events') = Len(events) /\ events'[Len(events')] = e
      BY <1>1, <2>1, <2>2
    <3>2. \A i \in 1..(Len(events) - 1) : events'[i] = Tail(events)[i]
      BY <1>1, <2>1, <2>2
    <3>. QED
      BY <2>2, <3>1, <3>2, <1>1 DEF Shifted
  <2>. QED
    BY <2>3
<1>. QED
  BY <1>2, <1>3

\* Places before and after an event is recorded.
LEMMA ShiftedPlaces ==
  ASSUME NEW s \in Seq(Event), NEW t \in Seq(Event), NEW e, NEW d \in {0, 1}, Shifted(s, t, e, d),
         NEW of, NEW what
  PROVE  LET S == Telling(s, of, what)
             T == Telling(t, of, what)
         IN  /\ \A i \in T : i = Len(t) \/ (i + d \in S /\ t[i] = s[i + d] /\ i < Len(t))
             /\ \A k \in S : k =< d \/ k - d \in T
             /\ ((Len(t) \in T) <=> (e.of = of /\ e.what = what))
             /\ S \subseteq Nat \ {0} /\ T \subseteq Nat \ {0} /\ \A k \in S : k - d < Len(t)
             /\ Len(t) \in Nat
<1>. DEFINE S == Telling(s, of, what)
            T == Telling(t, of, what)
<1>1. Len(s) \in Nat /\ Len(t) \in Nat /\ d =< Len(s) /\ Len(t) = Len(s) + 1 - d /\ t[Len(t)] = e
  BY DEF Shifted
<1>2. \A i \in 1..(Len(s) - d) : t[i] = s[i + d]
  BY DEF Shifted
<1>3. ASSUME NEW i \in T PROVE i = Len(t) \/ (i + d \in S /\ t[i] = s[i + d] /\ i < Len(t))
  BY <1>1, <1>2 DEF Telling
<1>4. ASSUME NEW k \in S PROVE k =< d \/ k - d \in T
  <2>. SUFFICES ASSUME k > d PROVE k - d \in T
    BY <1>1 DEF Telling
  <2>1. k \in 1..Len(s) /\ k - d \in 1..(Len(s) - d) /\ (k - d) + d = k
    BY <1>1 DEF Telling
  <2>2. t[k - d] = s[k]
    BY <1>2, <2>1
  <2>. QED
    BY <1>1, <2>1, <2>2 DEF Telling
<1>5. (Len(t) \in T) <=> (e.of = of /\ e.what = what)
  <2>1. Len(t) >= 1
    BY <1>1 DEF Shifted, Telling
  <2>. QED
    BY <1>1, <2>1 DEF Telling
<1>6. S \subseteq Nat \ {0} /\ T \subseteq Nat \ {0} /\ \A k \in S : k - d < Len(t)
  BY <1>1 DEF Telling
<1>. QED
  BY <1>1, <1>3, <1>4, <1>5, <1>6

\* An event of another subject leaves what the log says of this one ...
LEMMA OtherTold ==
  ASSUME NEW s \in Seq(Event), NEW t \in Seq(Event), NEW e, NEW d \in {0, 1}, Shifted(s, t, e, d),
         NEW of, NEW what, NEW first, NEW now, ~(e.of = of /\ e.what = what)
  PROVE  /\ Ends(s, of, what, first, now) => Ends(t, of, what, first, now)
         /\ Tells(s, of, what, first, now) => Tells(t, of, what, first, now)
<1>. DEFINE S == Telling(s, of, what)
            T == Telling(t, of, what)
<1>1. /\ \A i \in T : i + d \in S /\ t[i] = s[i + d]
      /\ \A k \in S : k =< d \/ k - d \in T
      /\ S \subseteq Nat \ {0} /\ T \subseteq Nat \ {0}
  BY ShiftedPlaces
<1>. HIDE DEF S, T
<1>2. \A i \in T : Weighs(T, i, first) => Weighs(S, i + d, first)
  BY <1>1 DEF Weighs
<1>3. Links(s, S, first) => Links(t, T, first)
  <2>. SUFFICES ASSUME Links(s, S, first), NEW i \in T, NEW j \in T, Weighs(T, i, first), i < j,
                       \A k \in T : k =< i \/ k >= j
                PROVE  t[i].now = t[j].was
    BY DEF Links
  <2>1. \A k \in S : k =< i + d \/ k >= j + d
    <3>. TAKE k \in S
    <3>1. CASE k =< d
      BY <1>1, <3>1
    <3>2. CASE k - d \in T
      BY <1>1, <3>2
    <3>. QED
      BY <1>1, <3>1, <3>2
  <2>2. i + d \in S /\ j + d \in S /\ t[i] = s[i + d] /\ t[j] = s[j + d]
    BY <1>1
  <2>3. Weighs(S, i + d, first)
    BY <1>2
  <2>4. i \in Nat /\ j \in Nat
    BY <1>1
  <2>5. i + d < j + d
    BY <2>4
  <2>6. s[i + d].now = s[j + d].was
    BY <2>1, <2>2, <2>3, <2>5 DEF Links
  <2>. QED
    BY <2>2, <2>6
<1>4. LastSays(s, S, first, now) => LastSays(t, T, first, now)
  <2>. SUFFICES ASSUME LastSays(s, S, first, now), NEW j \in T, Weighs(T, j, first),
                       \A k \in T : k =< j
                PROVE  t[j].now = now
    BY DEF LastSays
  <2>1. \A k \in S : k =< j + d
    <3>. TAKE k \in S
    <3>1. CASE k =< d
      BY <1>1, <3>1
    <3>2. CASE k - d \in T
      BY <1>1, <3>2
    <3>. QED
      BY <1>1, <3>1, <3>2
  <2>2. Weighs(S, j + d, first) /\ j + d \in S
    BY <1>1, <1>2
  <2>. QED
    BY <1>1, <2>1, <2>2 DEF LastSays
<1>. QED
  BY <1>3, <1>4 DEF Tells, Ends, S, T

LEMMA OtherSilent ==
  ASSUME NEW s \in Seq(Event), NEW t \in Seq(Event), NEW e, NEW d \in {0, 1}, Shifted(s, t, e, d),
         NEW of, NEW what,
         ~(e.of = of /\ e.what = what), Telling(s, of, what) = {}
  PROVE  Telling(t, of, what) = {}
<1>1. \A i \in Telling(t, of, what) : i = Len(t) \/ i + d \in Telling(s, of, what)
  BY ShiftedPlaces
<1>2. ~(Len(t) \in Telling(t, of, what))
  BY ShiftedPlaces
<1>. QED
  BY <1>1, <1>2

\* ... and one of this subject is its last word,
LEMMA OwnEnds ==
  ASSUME NEW s \in Seq(Event), NEW t \in Seq(Event), NEW e, NEW d \in {0, 1}, Shifted(s, t, e, d),
         NEW of, NEW what, NEW first, e.of = of, e.what = what
  PROVE  Ends(t, of, what, first, e.now)
<1>. DEFINE T == Telling(t, of, what)
            m == Len(t)
<1>1. /\ \A i \in T : i = m \/ i < m
      /\ ((m \in T) <=> (e.of = of /\ e.what = what))
      /\ T \subseteq Nat \ {0} /\ m \in Nat
  BY ShiftedPlaces
<1>2. t[m] = e
  BY DEF Shifted
<1>. HIDE DEF T, m
<1>3. \A j \in T : (\A k \in T : k =< j) => j = m
  BY <1>1
<1>. QED
  BY <1>2, <1>3 DEF Ends, LastSays, T

\* which goes with those before if it begins where they ended.
LEMMA OwnTold ==
  ASSUME NEW s \in Seq(Event), NEW t \in Seq(Event), NEW e, NEW d \in {0, 1}, Shifted(s, t, e, d),
         NEW of, NEW what, NEW first, e.of = of, e.what = what,
         Tells(s, of, what, first, e.was)
  PROVE  Tells(t, of, what, first, e.now)
<1>. DEFINE S == Telling(s, of, what)
            T == Telling(t, of, what)
            m == Len(t)
<1>1. /\ \A i \in T : i = m \/ (i + d \in S /\ t[i] = s[i + d] /\ i < m)
      /\ \A k \in S : k =< d \/ k - d \in T
      /\ S \subseteq Nat \ {0} /\ T \subseteq Nat \ {0} /\ m \in Nat
      /\ \A k \in S : k - d < m
  BY ShiftedPlaces
<1>2. t[m] = e
  BY DEF Shifted
<1>3. Links(s, S, first) /\ LastSays(s, S, first, e.was)
  BY DEF Tells, Ends
<1>. HIDE DEF S, T, m
<1>4. \A i \in T \ {m} : Weighs(T, i, first) => Weighs(S, i + d, first)
  BY <1>1 DEF Weighs
<1>5. Links(t, T, first)
  <2>. SUFFICES ASSUME NEW i \in T, NEW j \in T, Weighs(T, i, first), i < j,
                       \A k \in T : k =< i \/ k >= j
                PROVE  t[i].now = t[j].was
    BY DEF Links
  <2>1. i # m /\ i + d \in S /\ t[i] = s[i + d] /\ Weighs(S, i + d, first)
    BY <1>1, <1>4
  <2>2. \A k \in S : k =< i + d \/ (k - d \in T /\ k >= j + d)
    <3>. TAKE k \in S
    <3>1. CASE k =< d
      BY <1>1, <3>1
    <3>2. CASE k - d \in T
      BY <1>1, <3>2
    <3>. QED
      BY <1>1, <3>1, <3>2
  <2>3. CASE j = m
    <3>1. \A k \in S : k =< i + d
      BY <1>1, <2>2, <2>3
    <3>2. s[i + d].now = e.was
      BY <1>3, <2>1, <3>1 DEF LastSays
    <3>. QED
      BY <1>2, <2>1, <2>3, <3>2
  <2>4. CASE j # m
    <3>1. j + d \in S /\ t[j] = s[j + d]
      BY <1>1, <2>4
    <3>2. i + d < j + d
      <4>1. i \in Nat /\ j \in Nat
        BY <1>1
      <4>. QED
        BY <4>1
    <3>3. \A k \in S : k =< i + d \/ k >= j + d
      BY <2>2
    <3>. QED
      BY <1>3, <2>1, <3>1, <3>2, <3>3 DEF Links
  <2>. QED
    BY <2>3, <2>4
<1>6. Ends(t, of, what, first, e.now)
  BY OwnEnds
<1>. QED
  BY <1>5, <1>6 DEF Tells, T

\* The first event of a subject says nothing if it does not count.
LEMMA FirstTold ==
  ASSUME NEW s \in Seq(Event), NEW t \in Seq(Event), NEW e, NEW d \in {0, 1}, Shifted(s, t, e, d),
         NEW of, NEW what, NEW now, Telling(s, of, what) = {}
  PROVE  Tells(t, of, what, FALSE, now)
<1>. DEFINE T == Telling(t, of, what)
<1>1. \A i \in T : i = Len(t)
  BY ShiftedPlaces
<1>2. T \subseteq Nat
  BY ShiftedPlaces
<1>. HIDE DEF T
<1>3. \A i \in T : ~Weighs(T, i, FALSE)
  BY <1>1, <1>2 DEF Weighs
<1>. QED
  BY <1>3 DEF Tells, Ends, Links, LastSays, T

LEMMA SilentTells ==
  ASSUME NEW s, NEW of, NEW what, NEW first, NEW now, Telling(s, of, what) = {}
  PROVE  Tells(s, of, what, first, now) /\ Ends(s, of, what, first, now)
  BY DEF Tells, Ends, Links, LastSays

LEMMA EmptyTells ==
  \A of, what, first, now : /\ Tells(<<>>, of, what, first, now)
                            /\ Ends(<<>>, of, what, first, now)
                            /\ Telling(<<>>, of, what) = {}
  BY DEF Tells, Ends, Telling, Links, LastSays

\* The same of the ring.
LEMMA OthersKept ==
  ASSUME TypeOK, TypeOK', NEW e \in Event, Record(e), NEW of, NEW what,
         ~(e.of = of /\ e.what = what)
  PROVE  /\ \A first, now : /\ Tells(events, of, what, first, now)
                               => Tells(events', of, what, first, now)
                            /\ Ends(events, of, what, first, now)
                               => Ends(events', of, what, first, now)
         /\ Telling(events, of, what) = {} => Telling(events', of, what) = {}
<1>1. PICK k \in {0, 1} : Shifted(events, events', e, k)
  BY RecordShifts
<1>2. events \in Seq(Event) /\ events' \in Seq(Event)
  BY DEF TypeOK
<1>3. ASSUME NEW first, NEW now
      PROVE  /\ Tells(events, of, what, first, now) => Tells(events', of, what, first, now)
             /\ Ends(events, of, what, first, now) => Ends(events', of, what, first, now)
  BY <1>1, <1>2, OtherTold
<1>4. Telling(events, of, what) = {} => Telling(events', of, what) = {}
  BY <1>1, <1>2, OtherSilent
<1>. QED
  BY <1>3, <1>4

LEMMA OwnRecorded ==
  ASSUME TypeOK, TypeOK', NEW e \in Event, Record(e), NEW first
  PROVE  /\ Ends(events', e.of, e.what, first, e.now)
         /\ Tells(events, e.of, e.what, first, e.was) => Tells(events', e.of, e.what, first, e.now)
<1>1. PICK k \in {0, 1} : Shifted(events, events', e, k)
  BY RecordShifts
<1>2. events \in Seq(Event) /\ events' \in Seq(Event)
  BY DEF TypeOK
<1>3. Ends(events', e.of, e.what, first, e.now)
  BY <1>1, <1>2, OwnEnds
<1>4. Tells(events, e.of, e.what, first, e.was) => Tells(events', e.of, e.what, first, e.now)
  BY <1>1, <1>2, OwnTold
<1>. QED
  BY <1>3, <1>4

\* Steps that do not touch the log, or only with an event of another kind.
LEMMA AdapterKept ==
  ASSUME TypeOK, TypeOK', AdapterLog, watch' = watch,
         \/ events' = events
         \/ events' = <<>>
         \/ \E e \in Event : Record(e) /\ (e.of = Nobody => e.what = "session reset")
  PROVE  AdapterLog'
<1>1. ASSUME NEW what \in {"status", "speed", "discards"}
      PROVE  /\ \A now : /\ Tells(events, Nobody, what, TRUE, now)
                            => Tells(events', Nobody, what, TRUE, now)
                         /\ Ends(events, Nobody, what, TRUE, now)
                            => Ends(events', Nobody, what, TRUE, now)
             /\ Telling(events, Nobody, what) = {} => Telling(events', Nobody, what) = {}
  <2>1. CASE events' = events
    BY <2>1
  <2>2. CASE events' = <<>>
    BY <2>2, EmptyTells
  <2>3. ASSUME NEW e \in Event, Record(e), e.of = Nobody => e.what = "session reset"
        PROVE  /\ \A now : /\ Tells(events, Nobody, what, TRUE, now)
                              => Tells(events', Nobody, what, TRUE, now)
                           /\ Ends(events, Nobody, what, TRUE, now)
                              => Ends(events', Nobody, what, TRUE, now)
               /\ Telling(events, Nobody, what) = {} => Telling(events', Nobody, what) = {}
    <3>1. ~(e.of = Nobody /\ e.what = what)
      BY <2>3
    <3>. QED
      BY <2>3, <3>1, OthersKept
  <2>. QED
    BY <2>1, <2>2, <2>3
<1>2. \A what \in {"status", "speed", "discards"} : ToTell(what)' = ToTell(what)
  BY DEF ToTell
<1>3. Unseen'
  BY <1>1 DEF AdapterLog, Unseen
<1>4. Todo'
  BY DEF AdapterLog, Todo
<1>5. SpeedTold'
  BY <1>1, <1>2 DEF AdapterLog, SpeedTold
<1>6. Told("status", watch.status)'
  BY <1>1, <1>2 DEF AdapterLog, Told
<1>7. Told("discards", Level(watch.discarding))'
  BY <1>1, <1>2 DEF AdapterLog, Told
<1>. QED
  BY <1>3, <1>4, <1>5, <1>6, <1>7 DEF AdapterLog

\* Steps of others, and those of the UDP loop that neither find nor record a change.
LEMMA LinksKept ==
  ASSUME TypeOK, TypeOK', LinkLog, link' = link, Cleared' => Cleared,
         \/ udp.at # "record" /\ udp'.at # "record" /\ (udp'.orphan => udp.orphan)
         \/ udp' = udp,
         \/ events' = events
         \/ \E e \in Event : Record(e) /\ e.what # "loss"
  PROVE  LinkLog'
<1>1. \A p \in Peer : \A now :
        Tells(events, p, "loss", FALSE, now) => Tells(events', p, "loss", FALSE, now)
  <2>1. CASE events' = events
    BY <2>1
  <2>2. CASE \E e \in Event : Record(e) /\ e.what # "loss"
    BY <2>2, OthersKept
  <2>. QED
    BY <2>1, <2>2
<1>2. OfLinks = {} => OfLinks' = {}
  <2>1. CASE events' = events
    BY <2>1 DEF OfLinks
  <2>2. CASE \E e \in Event : Record(e) /\ e.what # "loss"
    <3>1. \A p \in Peer : Telling(events, p, "loss") = {} => Telling(events', p, "loss") = {}
      BY <2>2, OthersKept
    <3>. QED
      BY <3>1 DEF OfLinks
  <2>. QED
    BY <2>1, <2>2
<1>3. CASE udp' = udp
  BY <1>1, <1>2, <1>3 DEF LinkLog, Says
<1>4. CASE udp.at # "record" /\ udp'.at # "record" /\ (udp'.orphan => udp.orphan)
  BY <1>1, <1>2, <1>4 DEF LinkLog, Says
<1>. QED
  BY <1>3, <1>4

LEMMA LogInit == Init => LogInv
<1>. SUFFICES ASSUME Init PROVE LogInv
  OBVIOUS
<1>1. events = <<>> /\ watch.todo = <<>> /\ ~watch.known
  BY DEF Init
<1>2. OfLinks = {}
  BY <1>1, EmptyTells DEF OfLinks
<1>3. LinkLog
  BY <1>1, <1>2, EmptyTells DEF Init, LinkLog, Says
<1>4. \A what : ToTell(what) = {}
  BY <1>1, EmptyTells DEF ToTell
<1>5. Unseen /\ Todo
  BY <1>1, EmptyTells DEF Unseen, Todo
<1>6. AdapterLog
  BY <1>1, <1>4, <1>5, EmptyTells DEF AdapterLog, SpeedTold, Told
<1>. QED
  BY <1>3, <1>6 DEF LogInv

\* The steps that find no change of a link or of the adapter.
LEMMA QuietLog ==
  ASSUME SessionInv, SessionInv', LogInv,
         \/ Discover \/ Frame \/ ClickReset \/ ResetSelf \/ Summarise \/ Store
         \/ \E p \in Peer : Burst(p) \/ PostReset(p) \/ HandleLate(p) \/ Fetch(p)
         \/ Mark \/ RecordJoined \/ TakeLink
  PROVE  LogInv'
<1>1. TypeOK /\ TypeOK' /\ LinkLog /\ AdapterLog
  BY DEF SessionInv, LogInv
<1>2. link' = link /\ watch' = watch /\ rst' = rst
  BY DEF Discover, Frame, ClickReset, ResetSelf, Summarise, Store, PostReset, HandleLate,
         Fetch, Burst, Mark, RecordJoined, TakeLink, own, mesh
<1>3. \/ udp.at # "record" /\ udp'.at # "record" /\ (udp'.orphan => udp.orphan)
      \/ udp' = udp
  <2>1. CASE (\E p \in Peer : Burst(p)) \/ Mark \/ RecordJoined \/ TakeLink
    <3>1. ASSUME NEW p \in Peer, Burst(p)
          PROVE  udp.at # "record" /\ udp'.at # "record" /\ (udp'.orphan => udp.orphan)
      <4>1. PICK loss \in ProbeUDP : udp' = [udp EXCEPT !.at = "mark", !.peer = p, !.loss = loss]
        BY <3>1 DEF Burst
      <4>. QED
        BY <1>1, <3>1, <4>1 DEF Burst, TypeOK
    <3>2. ASSUME Mark \/ RecordJoined \/ TakeLink
          PROVE  udp.at # "record" /\ udp'.at # "record" /\ (udp'.orphan => udp.orphan)
      <4>1. /\ udp.at \in {"mark", "joined", "link"}
            /\ \E at \in {"link", "joined", "step"} :
                 \/ udp' = [udp EXCEPT !.at = at]
                 \/ udp' = [udp EXCEPT !.at = at, !.orphan = FALSE]
        BY <3>2 DEF Mark, RecordJoined, TakeLink
      <4>2. udp \in [at : {"idle", "mark", "joined", "link", "step", "record"},
                     peer : Peer \cup {Nobody}, loss : Loss, orphan : BOOLEAN,
                     link : LinkState]
        BY <1>1 DEF TypeOK
      <4>. QED
        BY <4>1, <4>2
    <3>. QED
      BY <2>1, <3>1, <3>2
  <2>2. CASE \/ Discover \/ Frame \/ ClickReset \/ ResetSelf \/ Summarise \/ Store
             \/ \E p \in Peer : PostReset(p) \/ HandleLate(p) \/ Fetch(p)
    BY <2>2 DEF Discover, Frame, ClickReset, ResetSelf, Summarise, Store, PostReset,
                HandleLate, Fetch, own
  <2>. QED
    BY <2>1, <2>2
<1>4. \/ events' = events
      \/ \E e \in Event : Record(e) /\ e.what = "joined" /\ e.of \in Peer
  <2>1. CASE RecordJoined
    <3>1. udp.peer \in Peer /\ Record(About(udp.peer, "joined"))
      BY <1>1, <2>1 DEF RecordJoined, TypeOK
    <3>2. /\ About(udp.peer, "joined") \in Event
          /\ About(udp.peer, "joined").what = "joined"
          /\ About(udp.peer, "joined").of = udp.peer
      BY <3>1 DEF About, Change, Event
    <3>. QED
      BY <3>1, <3>2
  <2>2. CASE ~RecordJoined
    BY <2>2 DEF Discover, Frame, ClickReset, ResetSelf, Summarise, Store, PostReset,
                HandleLate, Fetch, Burst, Mark, TakeLink, own, mesh
  <2>. QED
    BY <2>1, <2>2
<1>5. LinkLog'
  <2>1. Cleared' => Cleared
    BY <1>2 DEF Cleared
  <2>2. \/ events' = events
        \/ \E e \in Event : Record(e) /\ e.what # "loss"
    BY <1>4
  <2>. QED
    BY <1>1, <1>2, <1>3, <2>1, <2>2, LinksKept
<1>6. AdapterLog'
  <2>1. \/ events' = events
        \/ \E e \in Event : Record(e) /\ (e.of = Nobody => e.what = "session reset")
    BY <1>4, NobodyAssumption
  <2>. QED
    BY <1>1, <1>2, <2>1, AdapterKept
<1>. QED
  BY <1>5, <1>6 DEF LogInv

\* A sample that changes the state of its link puts an event on its way.  A state that a
\* reset has orphaned is not in the map any more: the link's is a fresh one.
LEMMA StepLog ==
  ASSUME SessionInv, SessionInv', LogInv, Step
  PROVE  LogInv'
<1>. DEFINE p == udp.peer
            s == IF udp.orphan THEN udp.link ELSE link[p]
            t == Stepped(s, udp.loss)
<1>1. TypeOK /\ TypeOK' /\ LinkLog /\ AdapterLog /\ Counted
  BY DEF SessionInv, LogInv
<1>2. /\ udp.at = "step" /\ p \in Peer /\ s \in LinkState /\ udp.loss \in Loss
      /\ link \in [Peer -> LinkState]
  BY <1>1 DEF Step, TypeOK
<1>3. /\ events' = events /\ watch' = watch /\ rst' = rst
      /\ link' = IF udp.orphan THEN link ELSE [link EXCEPT ![p] = t]
      /\ udp' = [udp EXCEPT !.at = IF Changed(s, t) THEN "record" ELSE "idle",
                            !.orphan = FALSE, !.link = t]
  BY DEF Step
<1>4. t \in LinkState
  BY <1>2, SteppedFacts
<1>. HIDE DEF s, t
<1>5. /\ udp'.at = (IF s.degraded # t.degraded THEN "record" ELSE "idle")
      /\ udp'.peer = p /\ udp'.link = t /\ ~udp'.orphan
  BY <1>1, <1>3 DEF Changed, TypeOK
<1>6. OfLinks' = OfLinks
  BY <1>3 DEF OfLinks
<1>. DEFINE Log(q, b) == Tells(events, q, "loss", FALSE, Level(b))
<1>7. ASSUME Cleared', NEW q \in Peer
      PROVE  \/ ~(udp'.at = "record" /\ udp'.peer = q)
                /\ Log(q, link'[q].degraded)
             \/ /\ udp'.at = "record" /\ udp'.peer = q
                /\ \/ OfLinks' = {}
                   \/ /\ udp'.link.degraded = link'[q].degraded
                      /\ Log(q, ~link'[q].degraded)
  <2>1. Cleared
    BY <1>3, <1>7 DEF Cleared
  <2>2. Log(q, link[q].degraded)
    BY <1>1, <1>2, <2>1 DEF LinkLog, Says
  <2>. HIDE DEF Log
  <2>3. CASE udp.orphan
    <3>1. OfLinks = {} /\ link' = link
      BY <1>1, <1>3, <2>1, <2>3 DEF LinkLog
    <3>. QED
      BY <1>3, <1>5, <1>6, <2>2, <3>1
  <2>4. CASE ~udp.orphan /\ q # p
    <3>1. link'[q] = link[q]
      BY <1>2, <1>3, <2>4
    <3>. QED
      BY <1>3, <1>5, <2>2, <2>4, <3>1
  <2>5. CASE ~udp.orphan /\ q = p
    <3>1. link'[q] = t /\ s = link[q]
      BY <1>2, <1>3, <2>5 DEF s
    <3>2. CASE s.degraded = t.degraded
      BY <1>3, <1>5, <2>2, <3>1, <3>2
    <3>3. CASE s.degraded # t.degraded
      <4>1. link[q].degraded = ~link'[q].degraded
        BY <1>2, <1>4, <3>1, <3>3 DEF LinkState
      <4>. QED
        BY <1>3, <1>5, <2>2, <2>5, <3>1, <3>3, <4>1
    <3>. QED
      BY <3>2, <3>3
  <2>. QED
    BY <2>3, <2>4, <2>5
<1>8. LinkLog'
  BY <1>3, <1>5, <1>7 DEF LinkLog, Says
<1>9. AdapterLog'
  BY <1>1, <1>3, AdapterKept
<1>. QED
  BY <1>8, <1>9 DEF LogInv

\* The event of a change is recorded.
LEMMA RecordStepLog ==
  ASSUME SessionInv, SessionInv', LogInv, RecordStep
  PROVE  LogInv'
<1>. DEFINE p == udp.peer
            e == Change(p, "loss", Level(~udp.link.degraded), Level(udp.link.degraded))
<1>1. TypeOK /\ TypeOK' /\ LinkLog /\ AdapterLog /\ Counted
  BY DEF SessionInv, LogInv
<1>2. /\ udp.at = "record" /\ p \in Peer /\ udp.link \in LinkState /\ ~udp.orphan
      /\ link \in [Peer -> LinkState]
  BY <1>1 DEF RecordStep, TypeOK, Counted
<1>3. /\ Record(e) /\ e \in Event /\ e.of = p /\ e.what = "loss"
      /\ e.was = Level(~udp.link.degraded) /\ e.now = Level(udp.link.degraded)
  BY <1>2 DEF RecordStep, Change, Level, Event
<1>4. link' = link /\ watch' = watch /\ rst' = rst /\ udp' = [udp EXCEPT !.at = "idle"]
  BY DEF RecordStep
<1>. HIDE DEF e
<1>5. udp'.at = "idle" /\ ~udp'.orphan
  BY <1>1, <1>2, <1>4 DEF TypeOK
<1>6. ASSUME Cleared', NEW q \in Peer
      PROVE  Tells(events', q, "loss", FALSE, Level(link[q].degraded))
  <2>1. Cleared
    BY <1>4, <1>6 DEF Cleared
  <2>2. CASE q # p
    <3>1. Tells(events, q, "loss", FALSE, Level(link[q].degraded))
      BY <1>1, <2>1, <2>2 DEF LinkLog, Says
    <3>. QED
      BY <1>1, <1>3, <2>2, <3>1, OthersKept
  <2>3. CASE q = p
    <3>1. CASE OfLinks = {}
      <4>1. Telling(events, p, "loss") = {}
        BY <1>2, <3>1 DEF OfLinks
      <4>2. PICK k \in {0, 1} : Shifted(events, events', e, k)
        BY <1>1, <1>3, RecordShifts
      <4>3. events \in Seq(Event) /\ events' \in Seq(Event)
        BY <1>1 DEF TypeOK
      <4>. QED
        BY <2>3, <4>1, <4>2, <4>3, FirstTold
    <3>2. CASE OfLinks # {}
      <4>1. /\ udp.link.degraded = link[p].degraded
            /\ Tells(events, p, "loss", FALSE, Level(~link[p].degraded))
        BY <1>1, <1>2, <2>1, <3>2 DEF LinkLog, Says
      <4>2. Tells(events, e.of, e.what, FALSE, e.was)
        BY <1>3, <4>1
      <4>3. Tells(events', e.of, e.what, FALSE, e.now)
        BY <1>1, <1>3, <4>2, OwnRecorded
      <4>. QED
        BY <1>3, <2>3, <4>1, <4>3
    <3>. QED
      BY <3>1, <3>2
  <2>. QED
    BY <2>2, <2>3
<1>7. LinkLog'
  BY <1>4, <1>5, <1>6 DEF LinkLog, Says
<1>8. AdapterLog'
  <2>1. e.of # Nobody
    BY <1>2, <1>3, NobodyAssumption
  <2>. QED
    BY <1>1, <1>3, <1>4, <2>1, AdapterKept
<1>. QED
  BY <1>7, <1>8 DEF LogInv

\* A poll that sees changes puts their events on their way.
LEMMA PollLog ==
  ASSUME SessionInv, SessionInv', LogInv, Poll
  PROVE  LogInv'
<1>1. TypeOK /\ TypeOK' /\ LinkLog /\ AdapterLog
  BY DEF SessionInv, LogInv
<1>2. /\ events' = events /\ link' = link /\ udp' = udp /\ rst' = rst
      /\ watch.todo = <<>>
  BY DEF Poll
<1>3. LinkLog'
  BY <1>1, <1>2, LinksKept DEF Cleared
<1>4. \A what : ToTell(what) = {}
  BY <1>2, EmptyTells DEF ToTell
<1>5. /\ Tells(events, Nobody, "status", TRUE, watch.status)
      /\ Tells(events, Nobody, "discards", TRUE, Level(watch.discarding))
      /\ ~watch.blind => Ends(events, Nobody, "speed", TRUE, watch.speed)
  BY <1>1, <1>4 DEF AdapterLog, Told, SpeedTold
<1>6. CASE watch' = KeepAbsent
  BY <1>1, <1>2, <1>3, <1>6, AdapterKept DEF KeepAbsent, LogInv
<1>7. ASSUME NEW status \in Status, NEW speed \in Speed, NEW bad \in BOOLEAN,
             watch' = Seen(status, speed, bad)
      PROVE  AdapterLog'
  <2>1. /\ watch'.known /\ watch'.status = status /\ watch'.speed = speed
        /\ watch'.discarding = (IF watch.known THEN bad ELSE watch.discarding)
        /\ watch'.blind = (speed = "none" \/ (watch.blind /\ ~(watch.known /\ SpeedChanged(speed))))
        /\ watch'.todo = IF watch.known THEN AdapterEvents(status, speed, bad) ELSE <<>>
    BY <1>7 DEF Seen
  <2>2. Unseen'
    BY <2>1 DEF Unseen
  <2>3. CASE ~watch.known
    <3>1. \A what : ToTell(what)' = {}
      BY <2>1, <2>3, EmptyTells DEF ToTell
    <3>2. /\ Telling(events, Nobody, "status") = {} /\ Telling(events, Nobody, "speed") = {}
      BY <1>1, <2>3 DEF AdapterLog, Unseen
    <3>3. /\ Tells(events, Nobody, "status", TRUE, status)
          /\ Ends(events, Nobody, "speed", TRUE, speed)
      BY <3>2, SilentTells
    <3>4. Todo'
      BY <2>1, <2>3 DEF Todo
    <3>. QED
      BY <1>2, <1>5, <2>1, <2>2, <2>3, <3>1, <3>3, <3>4 DEF AdapterLog, Told, SpeedTold
  <2>4. CASE watch.known
    <3>. DEFINE t == AdapterEvents(status, speed, bad)
                a == Change(Nobody, "status", watch.status, status)
                b == Change(Nobody, "speed", watch.speed, speed)
                c == Change(Nobody, "discards", Level(watch.discarding), Level(bad))
    <3>1. /\ \A i \in 1..Len(t) : \/ watch.status # status /\ t[i] = a
                                  \/ SpeedChanged(speed) /\ t[i] = b
                                  \/ watch.discarding # bad /\ t[i] = c
          /\ \A i, j \in 1..Len(t) : t[i].what = t[j].what => i = j
          /\ watch.status # status => \E i \in 1..Len(t) : t[i] = a
          /\ SpeedChanged(speed) => \E i \in 1..Len(t) : t[i] = b
          /\ watch.discarding # bad => \E i \in 1..Len(t) : t[i] = c
      BY <1>1, AdapterEventsFacts
    <3>2. /\ a.of = Nobody /\ a.what = "status" /\ a.was = watch.status /\ a.now = status
          /\ b.of = Nobody /\ b.what = "speed" /\ b.now = speed
          /\ c.of = Nobody /\ c.what = "discards"
          /\ c.was = Level(watch.discarding) /\ c.now = Level(bad)
      BY DEF Change
    <3>3. watch'.todo = t
      BY <2>1, <2>4
    <3>. HIDE DEF a, b, c, t
    <3>4. Todo'
      BY <3>1, <3>2, <3>3 DEF Todo
    <3>5. \A what : ToTell(what)' = {i \in 1..Len(t) : t[i].of = Nobody /\ t[i].what = what}
      BY <3>3 DEF ToTell, Telling
    <3>6. Told("status", watch.status)'
      <4>1. \A i \in ToTell("status")' : t[i] = a
        BY <3>1, <3>2, <3>5
      <4>2. ToTell("status")' = {} => watch.status = status
        <5>. SUFFICES ASSUME watch.status # status PROVE ToTell("status")' # {}
          OBVIOUS
        <5>1. PICK i \in 1..Len(t) : t[i] = a
          BY <3>1
        <5>2. i \in ToTell("status")'
          BY <3>2, <3>5, <5>1
        <5>. QED
          BY <5>2
      <4>. QED
        BY <1>2, <1>5, <2>1, <3>2, <3>3, <4>1, <4>2 DEF Told
    <3>7. Told("discards", Level(watch.discarding))'
      <4>1. \A i \in ToTell("discards")' : t[i] = c
        BY <3>1, <3>2, <3>5
      <4>2. ToTell("discards")' = {} => watch.discarding = bad
        <5>. SUFFICES ASSUME watch.discarding # bad PROVE ToTell("discards")' # {}
          OBVIOUS
        <5>1. PICK i \in 1..Len(t) : t[i] = c
          BY <3>1
        <5>2. i \in ToTell("discards")'
          BY <3>2, <3>5, <5>1
        <5>. QED
          BY <5>2
      <4>3. watch'.discarding = bad
        BY <2>1, <2>4
      <4>. QED
        BY <1>2, <1>5, <3>2, <3>3, <4>1, <4>2, <4>3 DEF Told
    <3>8. SpeedTold'
      <4>1. \A i \in ToTell("speed")' : t[i] = b
        BY <3>1, <3>2, <3>5
      <4>2. ToTell("speed")' = {} => ~SpeedChanged(speed)
        <5>. SUFFICES ASSUME SpeedChanged(speed) PROVE ToTell("speed")' # {}
          OBVIOUS
        <5>1. PICK i \in 1..Len(t) : t[i] = b
          BY <3>1
        <5>2. i \in ToTell("speed")'
          BY <3>2, <3>5, <5>1
        <5>. QED
          BY <5>2
      <4>3. ASSUME ~watch'.blind, ToTell("speed")' = {}
            PROVE  Ends(events, Nobody, "speed", TRUE, speed)
        <5>1. speed # "none" /\ ~watch.blind
          BY <2>1, <2>4, <4>2, <4>3
        <5>2. watch.speed # "none"
          BY <1>1, <2>4, <5>1 DEF AdapterLog, Unseen
        <5>3. watch.speed = speed
          BY <4>2, <4>3, <5>1, <5>2 DEF SpeedChanged
        <5>. QED
          BY <1>5, <5>1, <5>3
      <4>. QED
        BY <1>2, <2>1, <3>2, <3>3, <4>1, <4>3 DEF SpeedTold
    <3>. QED
      BY <2>2, <3>4, <3>6, <3>7, <3>8 DEF AdapterLog
  <2>. QED
    BY <2>3, <2>4
<1>. QED
  BY <1>3, <1>6, <1>7 DEF Poll, LogInv

\* The events of a poll are recorded one after the other.
LEMMA RecordPollLog ==
  ASSUME SessionInv, SessionInv', LogInv, RecordPoll
  PROVE  LogInv'
<1>a. PICK s : s = watch.todo
  OBVIOUS
<1>b. PICK e : e = Head(s)
  OBVIOUS
<1>c. PICK t : t = Tail(s)
  OBVIOUS
<1>1. TypeOK /\ TypeOK' /\ LinkLog /\ AdapterLog
  BY DEF SessionInv, LogInv
<1>2. /\ s # <<>> /\ s \in Seq(Event) /\ Record(e) /\ e \in Event
      /\ link' = link /\ udp' = udp /\ rst' = rst
  <2>1. s \in Seq(Event)
    BY <1>a, <1>1, WatchFacts
  <2>2. s # <<>> /\ Record(e) /\ link' = link /\ udp' = udp /\ rst' = rst
    BY <1>a, <1>b DEF RecordPoll
  <2>. QED
    BY <1>b, <2>1, <2>2
<1>3. /\ watch'.status = watch.status /\ watch'.speed = watch.speed
      /\ watch'.discarding = watch.discarding /\ watch'.blind = watch.blind
      /\ watch'.known = watch.known /\ watch'.todo = t
  <2>1. watch \in WatchState /\ watch' = [watch EXCEPT !.todo = t]
    BY <1>a, <1>c, <1>1 DEF RecordPoll, TypeOK
  <2>. QED
    BY <2>1 DEF WatchState
<1>4. /\ Len(s) \in Nat /\ Len(s) >= 1 /\ Len(t) = Len(s) - 1 /\ e = s[1]
      /\ \A i \in 1..Len(t) : t[i] = s[i + 1]
  BY <1>b, <1>c, <1>2
<1>5. /\ \A i \in 1..Len(s) : s[i].of = Nobody /\ s[i].what \in {"status", "speed", "discards"}
      /\ \A i, j \in 1..Len(s) : s[i].what = s[j].what => i = j
  BY <1>a, <1>1 DEF AdapterLog, Todo
<1>6. /\ \A what : ToTell(what) = {i \in 1..Len(s) : s[i].of = Nobody /\ s[i].what = what}
      /\ \A what : ToTell(what)' = {i \in 1..Len(t) : t[i].of = Nobody /\ t[i].what = what}
  BY <1>a, <1>3 DEF ToTell, Telling
<1>7. watch.known
  BY <1>a, <1>1, <1>2 DEF AdapterLog, Unseen
<1>8. e.of = Nobody /\ e.what \in {"status", "speed", "discards"} /\ 1 \in 1..Len(s)
  BY <1>4, <1>5
<1>9. \A i \in 1..Len(t) : i + 1 \in 1..Len(s) /\ i + 1 # 1 /\ t[i] = s[i + 1]
  BY <1>4
<1>10. ToTell(e.what)' = {} /\ 1 \in ToTell(e.what)
  BY <1>4, <1>5, <1>6, <1>8, <1>9
<1>11. ASSUME NEW what, what # e.what
       PROVE  /\ \A i \in ToTell(what)' : i + 1 \in ToTell(what)
              /\ ToTell(what)' = {} => ToTell(what) = {}
  <2>1. \A i \in ToTell(what)' : i + 1 \in ToTell(what)
    BY <1>6, <1>9
  <2>2. \A i \in ToTell(what) : i - 1 \in ToTell(what)'
    <3>. TAKE i \in ToTell(what)
    <3>1. i \in 1..Len(s) /\ i # 1 /\ s[i].of = Nobody /\ s[i].what = what
      BY <1>4, <1>6, <1>11
    <3>2. i - 1 \in 1..Len(t) /\ t[i - 1] = s[i]
      BY <1>4, <3>1
    <3>. QED
      BY <1>6, <3>1, <3>2
  <2>. QED
    BY <2>1, <2>2
<1>12. ASSUME NEW what \in {"status", "discards"}, NEW now, Told(what, now)
       PROVE  /\ ToTell(what)' = {} => Tells(events', Nobody, what, TRUE, now)
              /\ \A i \in ToTell(what)' : /\ t[i].now = now
                                         /\ Tells(events', Nobody, what, TRUE, t[i].was)
  <2>1. CASE e.what = what
    <3>1. e.now = now /\ Tells(events, e.of, e.what, TRUE, e.was)
      BY <1>4, <1>8, <1>10, <1>a, <1>12, <2>1 DEF Told
    <3>2. Tells(events', e.of, e.what, TRUE, e.now)
      BY <1>1, <1>2, <3>1, OwnRecorded
    <3>. QED
      BY <1>8, <1>10, <2>1, <3>1, <3>2
  <2>2. CASE e.what # what
    <3>1. \A x : Tells(events, Nobody, what, TRUE, x) => Tells(events', Nobody, what, TRUE, x)
      BY <1>1, <1>2, <2>2, OthersKept
    <3>2. \A i \in ToTell(what)' : i + 1 \in ToTell(what) /\ t[i] = s[i + 1]
      BY <1>6, <1>9, <1>11, <2>2
    <3>3. \A i \in ToTell(what) : s[i].now = now /\ Tells(events, Nobody, what, TRUE, s[i].was)
      BY <1>a, <1>12 DEF Told
    <3>4. ToTell(what)' = {} => Tells(events, Nobody, what, TRUE, now)
      BY <1>11, <1>12, <2>2 DEF Told
    <3>. QED
      BY <3>1, <3>2, <3>3, <3>4
  <2>. QED
    BY <2>1, <2>2
<1>13. Told("status", watch.status)' /\ Told("discards", Level(watch.discarding))'
  <2>1. Told("status", watch.status) /\ Told("discards", Level(watch.discarding))
    BY <1>1 DEF AdapterLog
  <2>2. /\ ToTell("status")' = {} => Tells(events', Nobody, "status", TRUE, watch.status)
        /\ \A i \in ToTell("status")' : /\ t[i].now = watch.status
                                       /\ Tells(events', Nobody, "status", TRUE, t[i].was)
    BY <1>12, <2>1
  <2>. DEFINE level == Level(watch.discarding)
  <2>. HIDE DEF level
  <2>3. /\ ToTell("discards")' = {} => Tells(events', Nobody, "discards", TRUE, level)
        /\ \A i \in ToTell("discards")' : /\ t[i].now = level
                                         /\ Tells(events', Nobody, "discards", TRUE, t[i].was)
    BY <1>12, <2>1 DEF level
  <2>. QED
    BY <1>3, <2>2, <2>3 DEF Told, level
<1>14. SpeedTold'
  <2>. SUFFICES ASSUME ~watch.blind
                PROVE  /\ ToTell("speed")' = {} => Ends(events', Nobody, "speed", TRUE, watch.speed)
                       /\ \A i \in ToTell("speed")' : t[i].now = watch.speed
    BY <1>3 DEF SpeedTold
  <2>1. /\ ToTell("speed") = {} => Ends(events, Nobody, "speed", TRUE, watch.speed)
        /\ \A i \in ToTell("speed") : s[i].now = watch.speed
    BY <1>a, <1>1 DEF AdapterLog, SpeedTold
  <2>2. CASE e.what = "speed"
    <3>1. e.now = watch.speed
      BY <1>4, <1>10, <2>1, <2>2
    <3>2. Ends(events', e.of, e.what, TRUE, e.now)
      BY <1>1, <1>2, OwnRecorded
    <3>. QED
      BY <1>8, <1>10, <2>2, <3>1, <3>2
  <2>3. CASE e.what # "speed"
    <3>1. \A x : Ends(events, Nobody, "speed", TRUE, x) => Ends(events', Nobody, "speed", TRUE, x)
      BY <1>1, <1>2, <2>3, OthersKept
    <3>2. \A i \in ToTell("speed")' : i + 1 \in ToTell("speed") /\ t[i] = s[i + 1]
      BY <1>6, <1>9, <1>11, <2>3
    <3>. QED
      BY <1>11, <2>1, <2>3, <3>1, <3>2
  <2>. QED
    BY <2>2, <2>3
<1>15. Todo'
  <2>1. \A i \in 1..Len(t) : t[i].of = Nobody /\ t[i].what \in {"status", "speed", "discards"}
    BY <1>5, <1>9
  <2>2. ASSUME NEW i \in 1..Len(t), NEW j \in 1..Len(t), t[i].what = t[j].what
        PROVE  i = j
    <3>1. i + 1 = j + 1
      BY <1>5, <1>9, <2>2
    <3>. QED
      BY <3>1
  <2>. QED
    BY <1>3, <2>1, <2>2 DEF Todo
<1>16. Unseen'
  BY <1>1, <1>3, <1>7 DEF AdapterLog, Unseen
<1>17. AdapterLog'
  BY <1>13, <1>14, <1>15, <1>16 DEF AdapterLog
<1>18. LinkLog'
  <2>1. e.what # "loss"
    BY <1>8
  <2>. QED
    BY <1>1, <1>2, <2>1, LinksKept DEF Cleared
<1>. QED
  BY <1>17, <1>18 DEF LogInv

\* A reset clears the states, and later the log; in between nothing is claimed.
LEMMA ResetLog ==
  ASSUME SessionInv, SessionInv', LogInv, NEW r \in Reset, ResetSession(r)
  PROVE  LogInv'
<1>1. TypeOK /\ TypeOK' /\ LinkLog /\ AdapterLog /\ Counted
  BY DEF SessionInv, LogInv
<1>2. rst \in [Reset -> {"idle", "reports", "events", "record", "done"}]
  BY <1>1 DEF TypeOK
<1>3. CASE ClearPeers(r)
  <2>1. events' = events /\ watch' = watch /\ rst'[r] = "reports"
    BY <1>2, <1>3 DEF ClearPeers
  <2>. QED
    BY <1>1, <2>1, AdapterKept DEF LinkLog, Cleared, LogInv
<1>4. CASE ClearReports(r)
  <2>1. events' = events /\ watch' = watch /\ rst'[r] = "events"
    BY <1>2, <1>4 DEF ClearReports, own
  <2>. QED
    BY <1>1, <2>1, AdapterKept DEF LinkLog, Cleared, LogInv
<1>5. CASE ClearEvents(r)
  <2>1. events' = <<>> /\ watch' = watch
    BY <1>5 DEF ClearEvents
  <2>2. OfLinks' = {}
    BY <2>1, EmptyTells DEF OfLinks
  <2>. QED
    BY <1>1, <2>1, <2>2, AdapterKept, EmptyTells DEF LinkLog, Says, LogInv
<1>6. CASE RecordReset(r)
  <2>. DEFINE e == About(Nobody, "session reset")
  <2>1. e \in Event /\ e.what = "session reset" /\ e.of = Nobody
    BY DEF About, Change, Event
  <2>2. Record(e) /\ link' = link /\ udp' = udp /\ watch' = watch /\ rst' = [rst EXCEPT ![r] = "done"]
    BY <1>6 DEF RecordReset
  <2>3. Cleared' => Cleared
    <3>. SUFFICES ASSUME Cleared', NEW q \in Reset PROVE rst[q] \notin {"reports", "events"}
      BY DEF Cleared
    <3>1. rst[r] = "record"
      BY <1>6 DEF RecordReset
    <3>. QED
      BY <1>2, <2>2, <3>1 DEF Cleared
  <2>. HIDE DEF e
  <2>4. LinkLog'
    BY <1>1, <2>1, <2>2, <2>3, LinksKept
  <2>5. AdapterLog'
    BY <1>1, <2>1, <2>2, AdapterKept
  <2>. QED
    BY <2>4, <2>5 DEF LogInv
<1>. QED
  BY <1>3, <1>4, <1>5, <1>6 DEF ResetSession

\* What the log says of the links and of the adapter, and what is on its way to it
\* (events.go, nicwatch.go, appcore.go ResetSession).
THEOREM LogInvariant == Spec => []LogInv
<1>1. SessionInv /\ SessionInv' /\ LogInv /\ [Next]_vars => LogInv'
  <2>. SUFFICES ASSUME SessionInv, SessionInv', LogInv, [Next]_vars PROVE LogInv'
    OBVIOUS
  <2>1. CASE Step
    BY <2>1, StepLog
  <2>2. CASE RecordStep
    BY <2>2, RecordStepLog
  <2>3. CASE Poll \/ RecordPoll
    BY <2>3, PollLog, RecordPollLog
  <2>4. CASE \E r \in Reset : ResetSession(r)
    BY <2>4, ResetLog
  <2>5. CASE \/ Discover \/ Frame \/ ClickReset \/ ResetSelf \/ Summarise \/ Store
             \/ \E p \in Peer : Burst(p) \/ PostReset(p) \/ HandleLate(p) \/ Fetch(p)
             \/ Mark \/ RecordJoined \/ TakeLink
    BY <2>5, QuietLog
  <2>6. CASE UNCHANGED vars
    <3>1. /\ events' = events /\ watch' = watch /\ link' = link /\ udp' = udp /\ rst' = rst
      BY <2>6 DEF vars, own
    <3>2. TypeOK /\ TypeOK' /\ LinkLog /\ AdapterLog
      BY DEF SessionInv, LogInv
    <3>3. LinkLog'
      BY <3>1, <3>2, LinksKept DEF Cleared
    <3>4. AdapterLog'
      BY <3>1, <3>2, AdapterKept
    <3>. QED
      BY <3>3, <3>4 DEF LogInv
  <2>. QED
    BY <2>1, <2>2, <2>3, <2>4, <2>5, <2>6 DEF Next, Udp
<1>2. Init => LogInv
  BY LogInit
<1>. QED
  BY <1>1, <1>2, SessionInvariant, PTL DEF Spec

\* The log tells the state of every link and of the adapter: no change is missing in
\* it between two, none is told twice, and the last is what holds (events.go,
\* nicwatch.go).
THEOREM LogTells == Spec => []LogHonest
<1>1. SessionInv /\ LogInv => LogHonest
  <2>. SUFFICES ASSUME TypeOK, LinkLog, AdapterLog PROVE LogHonest
    BY DEF SessionInv, LogInv
  <2>1. ASSUME NEW of, NEW what, NEW first, NEW now
        PROVE  /\ Tells(events, of, what, first, now) => Chained(of, what, first)
               /\ Ends(events, of, what, first, now) => Current(of, what, first, now)
    <3>1. Places(of, what) = Telling(events, of, what)
      BY DEF Places, Telling
    <3>. QED
      BY <3>1 DEF Tells, Ends, Links, LastSays, Weighs, Chained, Current, Counts
  <2>2. ASSUME Cleared, udp.at # "record", NEW p \in Peer
        PROVE  /\ Chained(p, "loss", FALSE)
               /\ Current(p, "loss", FALSE, Level(link[p].degraded))
    <3>1. Tells(events, p, "loss", FALSE, Level(link[p].degraded))
      BY <2>2 DEF LinkLog, Says
    <3>. QED
      BY <2>1, <3>1 DEF Tells
  <2>3. ASSUME watch.todo = <<>>
        PROVE  /\ Chained(Nobody, "status", TRUE) /\ Chained(Nobody, "discards", TRUE)
               /\ Current(Nobody, "status", TRUE, watch.status)
               /\ Current(Nobody, "discards", TRUE, Level(watch.discarding))
               /\ ~watch.blind => Current(Nobody, "speed", TRUE, watch.speed)
    <3>1. \A what : ToTell(what) = {}
      BY <2>3, EmptyTells DEF ToTell
    <3>2. /\ Tells(events, Nobody, "status", TRUE, watch.status)
          /\ Tells(events, Nobody, "discards", TRUE, Level(watch.discarding))
          /\ ~watch.blind => Ends(events, Nobody, "speed", TRUE, watch.speed)
      BY <3>1 DEF AdapterLog, Told, SpeedTold
    <3>3. /\ Ends(events, Nobody, "status", TRUE, watch.status)
          /\ Ends(events, Nobody, "discards", TRUE, Level(watch.discarding))
      BY <3>2 DEF Tells
    <3>. QED
      BY <2>1, <3>2, <3>3
  <2>. QED
    BY <2>2, <2>3 DEF LogHonest, Cleared
<1>. QED
  BY <1>1, SessionInvariant, LogInvariant, PTL

=============================================================================
