-------------------------- MODULE Diagnosis_proofs --------------------------
(***************************************************************************)
(* Proofs about the collection of samples and about what is concluded from *)
(* them, for any number of agents, pulls at once, samples and crashes, any *)
(* clocks and any layouts of the network:                                  *)
(*                                                                         *)
(*   - what is stored of an agent is a prefix of its samples, and the      *)
(*     collection implements SampleLog;                                    *)
(*   - the verdicts are sound: the grouping of the events never separates  *)
(*     two that overlap, and the sweep over the ends of a group's          *)
(*     intervals finds two agents at once just if there are such;          *)
(*   - the labels name the fault: the search finds shortest paths, and a   *)
(*     pair's path holds all that the pair cannot do without.              *)
(*                                                                         *)
(* The loops are recursive functions.  Each has an invariant, and the      *)
(* induction over the turns is Induction below: its hypothesis is a set of *)
(* numbers, where the library's would be an operator.                      *)
(***************************************************************************)
EXTENDS Faults, FiniteSetTheorems, WellFoundedInduction, TLAPS

-----------------------------------------------------------------------------
(* The collection.  StoredPrefix is not inductive: it says nothing of the    *)
(* answers that are being upserted.  Held(a, m) adds that the cursor a call  *)
(* started from is behind what is stored, and that its next row follows it.  *)

\* The samples of a that are stored are the first m, whatever is under way.
Held(a, m) ==
  /\ cursor[a] =< m /\ m =< Len(made[a])
  /\ rows[a] = 1..m
  /\ \A c \in Puller :
       LET p == pull[a][c]
       IN  /\ p.from =< m
           /\ p.at = "upsert" => /\ p.from < p.next /\ p.next =< m + 1
                                 /\ p.from =< p.last /\ p.last =< Len(made[a])

IInv == TypeOK /\ \A a \in Agent : \E m \in Nat : Held(a, m)

\* What a step of agent a leaves alone in every other agent, and what keeps
\* Held for one number.
LEMMA OthersKeep ==
  ASSUME NEW a \in Agent, IInv,
         \A b \in Agent \ {a} : /\ made'[b] = made[b] /\ rows'[b] = rows[b]
                                /\ cursor'[b] = cursor[b] /\ pull'[b] = pull[b],
         \E m \in Nat : Held(a, m)'
  PROVE  \A b \in Agent : \E m \in Nat : Held(b, m)'
<1> SUFFICES ASSUME NEW b \in Agent, b # a
             PROVE  \E m \in Nat : Held(b, m)'
  OBVIOUS
<1>1. PICK m \in Nat : Held(b, m)
  BY DEF IInv
<1>2. Held(b, m)'
  BY <1>1 DEF Held
<1> QED
  BY <1>2

-----------------------------------------------------------------------------
\* A fresh database is in step.
LEMMA InitHolds == Init => IInv
<1> SUFFICES ASSUME Init PROVE IInv
  OBVIOUS
<1> USE DEF Init, Nothing, Idle
<1>1. TypeOK
  BY BoundAssumption DEF TypeOK
<1>2. ASSUME NEW a \in Agent PROVE Held(a, 0)
  BY DEF Held
<1> QED
  BY <1>1, <1>2 DEF IInv

\* Every step of a pull, and every crash, keeps the types.
LEMMA TypePreserved == IInv /\ [Next]_vars => TypeOK'
<1> SUFFICES ASSUME IInv, [Next]_vars PROVE TypeOK'
  OBVIOUS
<1> USE BoundAssumption, LimitAssumption DEF TypeOK
<1>0. TypeOK
  BY DEF IInv
<1>1. ASSUME NEW a \in Agent, Tick(a) PROVE TypeOK'
  BY <1>0, <1>1 DEF Tick, Sample
<1> DEFINE Call0 == [at : {"idle", "get", "upsert"}, from : Nat, next : Nat, last : Nat]
<1>2. ASSUME NEW a \in Agent, NEW c \in Puller PROVE /\ pull[a][c] \in Call0
                                                   /\ Len(made[a]) \in Nat
  BY <1>0
<1>3. ASSUME NEW a \in Agent, NEW c \in Puller, NEW q \in Call0,
             pull' = [pull EXCEPT ![a][c] = q]
      PROVE  pull' \in [Agent -> [Puller -> Call0]]
  BY <1>0, <1>3
<1>4. Idle \in Call0
  BY DEF Idle
<1>5. ASSUME NEW a \in Agent, NEW c \in Puller, ReadCursor(a, c) PROVE TypeOK'
  <2>1. [Idle EXCEPT !.at = "get", !.from = cursor[a]] \in Call0
    BY <1>0 DEF Idle
  <2> QED
    BY <1>0, <1>3, <1>5, <2>1 DEF ReadCursor
<1>6. ASSUME NEW a \in Agent, NEW c \in Puller, GetFails(a, c) \/ WriteFails(a, c)
      PROVE  TypeOK'
  BY <1>0, <1>3, <1>4, <1>6 DEF GetFails, WriteFails, Ends
<1>7. ASSUME NEW a \in Agent, NEW c \in Puller, Get(a, c) PROVE TypeOK'
  <2> DEFINE q == [at |-> "upsert", from |-> pull[a][c].from, next |-> pull[a][c].from + 1,
                   last |-> Smaller(pull[a][c].from + Limit, Len(made[a]))]
  <2>1. q \in Call0
    BY <1>2 DEF Smaller
  <2>2. pull' = [pull EXCEPT ![a][c] = q]
    BY <1>7 DEF Get
  <2> HIDE DEF q
  <2> QED
    BY <1>0, <1>3, <1>7, <2>1, <2>2 DEF Get
<1>8. ASSUME NEW a \in Agent, NEW c \in Puller, Upsert(a, c) PROVE TypeOK'
  <2>1. pull' = [pull EXCEPT ![a][c] = [pull[a][c] EXCEPT !.next = @ + 1]]
    BY <1>0, <1>8 DEF Upsert
  <2>2. [pull[a][c] EXCEPT !.next = @ + 1] \in Call0
    BY <1>2
  <2>3. rows' \in [Agent -> SUBSET Nat]
    BY <1>0, <1>2, <1>8 DEF Upsert
  <2> QED
    BY <1>0, <1>3, <1>8, <2>1, <2>2, <2>3 DEF Upsert
<1>9. ASSUME NEW a \in Agent, NEW c \in Puller, Finish(a, c) PROVE TypeOK'
  <2>1. cursor' \in [Agent -> Nat]
    BY <1>0, <1>2, <1>9 DEF Finish, MaxSeq
  <2> QED
    BY <1>0, <1>3, <1>4, <1>9, <2>1 DEF Finish, Ends
<1>10. CASE Crash
  BY <1>0, <1>4, <1>10 DEF Crash
<1>11. CASE UNCHANGED vars
  BY <1>0, <1>11 DEF vars, log
<1> QED
  BY <1>1, <1>5, <1>6, <1>7, <1>8, <1>9, <1>10, <1>11 DEF Next, Call

\* Every step keeps the stored samples in step with the cursor and the calls.
LEMMA HeldPreserved ==
  IInv /\ [Next]_vars => \A a \in Agent : (\E m \in Nat : Held(a, m))'
<1> SUFFICES ASSUME IInv, [Next]_vars
             PROVE  \A a \in Agent : \E m \in Nat : Held(a, m)'
  OBVIOUS
<1> USE BoundAssumption, LimitAssumption DEF TypeOK
<1>0. TypeOK /\ \A a \in Agent : \E m \in Nat : Held(a, m)
  BY DEF IInv
<1>1. ASSUME NEW a \in Agent, Tick(a)
      PROVE  \A b \in Agent : \E m \in Nat : Held(b, m)'
  <2>1. PICK m \in Nat : Held(a, m)
    BY <1>0
  <2>2. PICK lost \in BOOLEAN : made' = [made EXCEPT ![a] = Append(@, lost)]
    BY <1>1 DEF Tick, Sample
  <2>3. Len(made'[a]) = Len(made[a]) + 1
    BY <1>0, <2>2
  <2>4. Held(a, m)'
    BY <1>0, <1>1, <2>1, <2>3 DEF Tick, Held
  <2> QED
    BY <1>0, <1>1, <2>2, <2>4, OthersKeep DEF Tick
<1>2. ASSUME NEW a \in Agent, NEW c \in Puller, ReadCursor(a, c)
      PROVE  \A b \in Agent : \E m \in Nat : Held(b, m)'
  <2>1. PICK m \in Nat : Held(a, m)
    BY <1>0
  <2>2. Held(a, m)'
    BY <1>0, <1>2, <2>1 DEF ReadCursor, Idle, Held
  <2> QED
    BY <1>0, <1>2, <2>2, OthersKeep DEF ReadCursor
<1>3. ASSUME NEW a \in Agent, NEW c \in Puller, GetFails(a, c) \/ WriteFails(a, c)
      PROVE  \A b \in Agent : \E m \in Nat : Held(b, m)'
  <2>1. PICK m \in Nat : Held(a, m)
    BY <1>0
  <2>2. /\ pull'[a] = [pull[a] EXCEPT ![c] = Idle]
        /\ UNCHANGED <<made, rows, cursor>>
    BY <1>0, <1>3 DEF GetFails, WriteFails, Ends
  <2>3. Held(a, m)'
    BY <1>0, <2>1, <2>2 DEF Idle, Held
  <2> QED
    BY <1>0, <1>3, <2>3, OthersKeep DEF GetFails, WriteFails, Ends
<1>4. ASSUME NEW a \in Agent, NEW c \in Puller, Get(a, c)
      PROVE  \A b \in Agent : \E m \in Nat : Held(b, m)'
  <2>1. PICK m \in Nat : Held(a, m)
    BY <1>0
  <2>2. Held(a, m)'
    BY <1>0, <1>4, <2>1 DEF Get, Smaller, Held
  <2> QED
    BY <1>0, <1>4, <2>2, OthersKeep DEF Get
<1>5. ASSUME NEW a \in Agent, NEW c \in Puller, Upsert(a, c)
      PROVE  \A b \in Agent : \E m \in Nat : Held(b, m)'
  <2> DEFINE next == pull[a][c].next
  <2>1. PICK m \in Nat : Held(a, m)
    BY <1>0
  <2>2. /\ next \in Nat /\ 1 =< next /\ next =< m + 1 /\ next =< Len(made[a])
        /\ rows'[a] = (1..m) \cup {next}
    <3> DEFINE p == pull[a][c]
    <3>1. p.from \in Nat /\ p.next \in Nat /\ p.last \in Nat /\ Len(made[a]) \in Nat
      BY <1>0
    <3>2. /\ p.from < p.next /\ p.next =< m + 1
          /\ p.next =< p.last /\ p.last =< Len(made[a])
      BY <1>5, <2>1 DEF Upsert, At, Held
    <3>3. rows'[a] = (1..m) \cup {next}
      BY <1>0, <1>5, <2>1 DEF Upsert, Held
    <3> HIDE DEF p
    <3>4. p.next \in Nat /\ 1 =< p.next /\ p.next =< Len(made[a])
      BY <3>1, <3>2
    <3> QED
      BY <3>2, <3>3, <3>4 DEF p
  <2>3. /\ made' = made /\ cursor' = cursor
        /\ \A d \in Puller : LET p == pull[a][d]
                                q == pull'[a][d]
                            IN  /\ q.at = p.at /\ q.from = p.from /\ q.last = p.last
                                /\ q.next = IF d = c THEN p.next + 1 ELSE p.next
    BY <1>0, <1>5 DEF Upsert
  <2>4. ASSUME NEW n \in Nat, m =< n, next =< n, n =< m + 1, n =< Len(made[a]), rows'[a] = 1..n
        PROVE  Held(a, n)'
    <3>1. cursor[a] \in Nat /\ cursor[a] =< n
      BY <1>0, <2>1, <2>4 DEF Held
    <3>2. ASSUME NEW d \in Puller
          PROVE  LET q == pull'[a][d]
                 IN  /\ q.from =< n
                     /\ q.at = "upsert" => /\ q.from < q.next /\ q.next =< n + 1
                                           /\ q.from =< q.last /\ q.last =< Len(made[a])
      <4> DEFINE p == pull[a][d]
                 q == pull'[a][d]
      <4>1. /\ p.from \in Nat /\ p.next \in Nat /\ p.last \in Nat
            /\ p.from =< m
            /\ p.at = "upsert" => /\ p.from < p.next /\ p.next =< m + 1
                                  /\ p.from =< p.last /\ p.last =< Len(made[a])
        BY <1>0, <2>1 DEF Held
      <4>2. /\ q.at = p.at /\ q.from = p.from /\ q.last = p.last
            /\ q.next = IF d = c THEN p.next + 1 ELSE p.next
        BY <2>3
      <4>3. d = c => p.next = next
        OBVIOUS
      <4> HIDE DEF p, q, next
      <4>4. q.at = "upsert" => q.from < q.next /\ q.next =< n + 1
        BY <2>2, <2>4, <4>1, <4>2, <4>3
      <4>5. q.from =< n
        BY <2>4, <4>1, <4>2
      <4> QED
        BY <4>1, <4>2, <4>4, <4>5 DEF q
    <3> QED
      BY <2>3, <2>4, <3>1, <3>2 DEF Held
  <2>5. \E n \in Nat : Held(a, n)'
    <3>1. CASE next =< m
      <4>1. rows'[a] = 1..m /\ m =< Len(made[a])
        BY <2>1, <2>2, <3>1 DEF Held
      <4> QED
        BY <2>4, <3>1, <4>1
    <3>2. CASE next = m + 1
      <4>1. rows'[a] = 1..next /\ next = m + 1
        BY <2>2, <3>2
      <4> QED
        BY <2>2, <2>4, <4>1
    <3> QED
      BY <2>2, <3>1, <3>2
  <2> QED
    BY <1>0, <1>5, <2>5, OthersKeep DEF Upsert
<1>6. ASSUME NEW a \in Agent, NEW c \in Puller, Finish(a, c)
      PROVE  \A b \in Agent : \E m \in Nat : Held(b, m)'
  <2>1. PICK m \in Nat : Held(a, m)
    BY <1>0
  <2>2. pull[a][c].last =< m
    BY <1>0, <1>6, <2>1 DEF Finish, At, AllUpserted, Held
  <2>3. cursor'[a] =< m
    BY <1>0, <1>6, <2>1, <2>2 DEF Finish, MaxSeq, Held
  <2>4. Held(a, m)'
    BY <1>0, <1>6, <2>1, <2>3 DEF Finish, Ends, Idle, Held
  <2> QED
    BY <1>0, <1>6, <2>4, OthersKeep DEF Finish, Ends
<1>7. CASE Crash
  <2> SUFFICES ASSUME NEW a \in Agent PROVE \E m \in Nat : Held(a, m)'
    OBVIOUS
  <2>1. PICK m \in Nat : Held(a, m)
    BY <1>0
  <2>2. Held(a, m)'
    BY <1>0, <1>7, <2>1 DEF Crash, Idle, Held
  <2> QED
    BY <2>2
<1>8. CASE UNCHANGED vars
  BY <1>0, <1>8 DEF vars, log, Held
<1> QED
  BY <1>1, <1>2, <1>3, <1>4, <1>5, <1>6, <1>7, <1>8 DEF Next, Call

\* The inductive invariant of the collection.
THEOREM SyncInvariant == Spec => []IInv
<1>1. Init => IInv
  BY InitHolds
<1>2. IInv /\ [Next]_vars => IInv'
  BY TypePreserved, HeldPreserved DEF IInv
<1> QED
  BY <1>1, <1>2, PTL DEF Spec

\* What is stored of an agent has no gap and reaches at least the cursor,
\* whatever is lost, overlaps or dies (puller.go, PullOnce).
THEOREM StoredIsPrefix == Spec => []StoredPrefix
<1>1. ASSUME IInv PROVE StoredPrefix
  <2> SUFFICES ASSUME NEW a \in Agent
               PROVE  \E m \in cursor[a]..Len(made[a]) : rows[a] = 1..m
    BY DEF StoredPrefix
  <2>1. PICK m \in Nat : Held(a, m)
    BY <1>1 DEF IInv
  <2>2. m \in cursor[a]..Len(made[a]) /\ rows[a] = 1..m
    BY <1>1, <2>1 DEF IInv, TypeOK, Held
  <2> QED
    BY <2>2
<1> QED
  BY <1>1, SyncInvariant, PTL

-----------------------------------------------------------------------------
\* The collection implements the safety of the abstract log: no step invents a
\* sample, takes one back or counts one twice (PullOnce, Upsert).
THEOREM ImplementsLogSafety == Spec => LogSafety
<1>1. Init => Nothing
  BY DEF Init
<1>2. ASSUME IInv, [Next]_vars PROVE [LogNext]_log
  <2>1. ASSUME NEW a \in Agent, Tick(a) PROVE LogNext
    BY <2>1 DEF Tick, Measure, LogNext
  <2>2. ASSUME NEW a \in Agent, NEW c \in Puller, Upsert(a, c) PROVE [LogNext]_log
    <3> DEFINE n == pull[a][c].next
    <3>1. PICK m \in Nat : Held(a, m)
      BY <1>2 DEF IInv
    <3>2. n \in 1..Len(made[a]) /\ made[a] \in Seq(BOOLEAN)
      BY <1>2, <2>2, <3>1 DEF IInv, TypeOK, Upsert, At, Held
    <3>3. n \in DOMAIN made[a]
      BY <3>2
    <3>4. CASE n \in rows[a]
      <4>1. rows' = rows
        BY <1>2, <2>2, <3>4 DEF Upsert, IInv, TypeOK
      <4> QED
        BY <2>2, <4>1 DEF Upsert, log
    <3>5. CASE n \notin rows[a]
      <4>1. Copy(a, n)
        BY <2>2, <3>3, <3>5 DEF Upsert, Copy
      <4> QED
        BY <3>3, <4>1 DEF LogNext
    <3> QED
      BY <3>4, <3>5
  <2>3. ASSUME NEW a \in Agent, NEW c \in Puller,
               \/ ReadCursor(a, c) \/ GetFails(a, c) \/ Get(a, c)
               \/ WriteFails(a, c) \/ Finish(a, c)
        PROVE  UNCHANGED log
    BY <2>3 DEF ReadCursor, GetFails, Get, WriteFails, Finish, log
  <2>4. CASE Crash \/ UNCHANGED vars
    BY <2>4 DEF Crash, vars, log
  <2> QED
    BY <1>2, <2>1, <2>2, <2>3, <2>4 DEF Next, Call
<1> QED
  BY <1>1, <1>2, SyncInvariant, PTL DEF Spec, LogSafety

-----------------------------------------------------------------------------
(* Induction, with sets in the place of predicates.                          *)

\* A set of numbers has a least one.
LEMMA LeastNat ==
  ASSUME NEW S \in SUBSET Nat, S # {}
  PROVE  \E n \in S : \A m \in S : n =< m
<1>. DEFINE R == OpToRel(<, Nat)
<1>1. IsWellFoundedOn(R, Nat)
  BY NatLessThanWellFounded
<1>. HIDE DEF R
<1>2. PICK n \in S : \A m \in S : <<m, n>> \notin R
  BY <1>1, WFMin
<1>3. \A m, k \in Nat : m < k => <<m, k>> \in R
  BY DEF R, OpToRel
<1>4. ASSUME NEW m \in S PROVE n =< m
  <2>1. m \in Nat /\ n \in Nat /\ ~(m < n)
    BY <1>2, <1>3
  <2>. QED
    BY <2>1
<1>. QED
  BY <1>4

\* A set of numbers that holds 0 and every successor of its own holds all.
LEMMA Induction ==
  ASSUME NEW S, 0 \in S, \A n \in Nat : n \in S => n + 1 \in S
  PROVE  Nat \subseteq S
<1>1. SUFFICES ASSUME Nat \ S # {} PROVE FALSE
  OBVIOUS
<1>2. PICK n \in Nat \ S : \A m \in Nat \ S : n =< m
  BY <1>1, LeastNat
<1>3. n # 0 /\ n - 1 \in Nat /\ n - 1 \in S
  BY <1>2
<1>. QED
  BY <1>2, <1>3

\* N steps, the k-th from a state in St[k - 1] to one in St[k].
Stepwise(N, St, first, step, All) ==
  /\ N \in Nat /\ St \in [0..N -> SUBSET All] /\ first \in St[0]
  /\ \A k \in 1..N : \A s \in St[k - 1] : step[k][s] \in St[k]

\* The states on the way.
States(f, N, St, first, step, All) ==
  /\ f \in [0..N -> All] /\ f[0] = first
  /\ \A k \in 0..N : f[k] \in St[k]
  /\ \A k \in 1..N : f[k] = step[k][f[k - 1]]

\* A recursive function exists: N steps lead somewhere.
LEMMA Recursion ==
  ASSUME NEW N, NEW St, NEW first, NEW step, NEW All, Stepwise(N, St, first, step, All)
  PROVE  \E f : States(f, N, St, first, step, All)
<1>. USE DEF Stepwise, States
<1>. DEFINE Run(f, n) == /\ f = [k \in 0..n |-> f[k]] /\ f[0] = first
                         /\ \A k \in 0..n : f[k] \in St[k]
                         /\ \A k \in 1..n : f[k] = step[k][f[k - 1]]
            S == {n \in Nat : n =< N => \E f : Run(f, n)}
<1>1. 0 \in S
  <2>. DEFINE f == [k \in 0..0 |-> first]
  <2>1. f = [k \in 0..0 |-> f[k]] /\ f[0] = first /\ \A k \in 0..0 : k = 0
    OBVIOUS
  <2>. HIDE DEF f
  <2>2. Run(f, 0)
    BY <2>1
  <2>. QED
    BY <2>2
<1>2. ASSUME NEW n \in Nat, n \in S PROVE n + 1 \in S
  <2>. SUFFICES ASSUME n + 1 =< N PROVE \E f : Run(f, n + 1)
    OBVIOUS
  <2>1. PICK f : Run(f, n)
    BY <1>2
  <2>. DEFINE g == [k \in 0..(n + 1) |-> IF k = n + 1 THEN step[n + 1][f[n]] ELSE f[k]]
  <2>2. \A k \in 0..n : f[k] \in St[k] /\ g[k] = f[k]
    BY <2>1
  <2>3. g[n + 1] = step[n + 1][f[n]]
    OBVIOUS
  <2>4. n \in 0..n /\ n + 1 \in 1..N /\ n + 1 - 1 = n
    OBVIOUS
  <2>5. g[n + 1] \in St[n + 1]
    <3>. DEFINE i == n + 1
    <3>1. i \in 1..N /\ i - 1 = n
      BY <2>4
    <3>. HIDE DEF i
    <3>2. step[i][f[n]] \in St[i]
      BY <2>2, <2>4, <3>1
    <3>. QED
      BY <2>3, <3>2 DEF i
  <2>6. g = [k \in 0..(n + 1) |-> g[k]]
    OBVIOUS
  <2>. HIDE DEF g
  <2>7. ASSUME NEW k \in 0..(n + 1) PROVE g[k] \in St[k]
    <3>1. CASE k = n + 1
      BY <2>5, <3>1
    <3>2. CASE k # n + 1
      <4>1. k \in 0..n
        BY <3>2
      <4>. QED
        BY <2>2, <4>1
    <3>. QED
      BY <3>1, <3>2
  <2>8. \A k \in 0..(n + 1) : g[k] \in St[k]
    BY <2>7
  <2>9. \A k \in 1..(n + 1) : g[k] = step[k][g[k - 1]]
    <3>. SUFFICES ASSUME NEW k \in 1..(n + 1) PROVE g[k] = step[k][g[k - 1]]
      OBVIOUS
    <3>1. CASE k = n + 1
      BY <2>2, <2>3, <2>4, <3>1
    <3>2. CASE k # n + 1
      <4>1. k \in 1..n /\ k \in 0..n /\ k - 1 \in 0..n
        BY <3>2
      <4>. QED
        BY <2>1, <2>2, <4>1
    <3>. QED
      BY <3>1, <3>2
  <2>10. g[0] = first
    BY <2>1, <2>2
  <2>11. Run(g, n + 1)
    BY <2>6, <2>8, <2>9, <2>10
  <2>. QED
    BY <2>11
<1>3. N \in S
  <2>. HIDE DEF S
  <2>. QED
    BY <1>1, <1>2, Induction
<1>4. PICK f : Run(f, N)
  BY <1>3
<1>5. f \in [0..N -> All]
  BY <1>4
<1>. QED
  BY <1>4, <1>5

-----------------------------------------------------------------------------
(* What can be reached in a layout (the reference of Faults).                *)

\* A layout has finitely many nodes, no more than the file lists.
LEMMA NodeFacts ==
  ASSUME NEW net, Valid(net)
  PROVE  /\ Len(net.nodes) \in Nat /\ IsFiniteSet(Range(net.nodes))
         /\ Cardinality(Range(net.nodes)) =< Len(net.nodes)
<1>. DEFINE f == net.nodes
<1>1. f \in Seq(Nat)
  BY DEF Valid
<1>2. Len(f) \in Nat /\ DOMAIN f = 1..Len(f)
  BY <1>1
<1>3. IsFiniteSet(1..Len(f)) /\ Cardinality(1..Len(f)) = Len(f)
  BY <1>2, FS_Interval
<1>4. f \in Surjection(1..Len(f), Range(f))
  BY <1>1, <1>2 DEF Surjection, Range
<1>. HIDE DEF f
<1>5. IsFiniteSet(Range(f)) /\ Cardinality(Range(f)) =< Cardinality(1..Len(f))
  BY <1>3, <1>4, FS_Surjection
<1>. QED
  BY <1>2, <1>3, <1>5 DEF f

\* The recursion of Within is well defined.
LEMMA WithinSteps ==
  ASSUME NEW net, NEW src, NEW without, Len(net.nodes) \in Nat
  PROVE  LET W == Within(net, src, without)
         IN  /\ W[0] = {src} \ without
             /\ \A k \in 1..Len(net.nodes) : W[k] = Grown(net, W[k - 1], without)
<1>. DEFINE N == Len(net.nodes)
            St == SUBSET ({src} \cup Range(net.nodes))
            step == [k \in 1..N |-> [s \in St |-> Grown(net, s, without)]]
            Good(f) == f = [k \in 0..N |-> IF k = 0 THEN {src} \ without
                                           ELSE Grown(net, f[k - 1], without)]
            kinds == [k \in 0..N |-> St]
<1>1. Stepwise(N, kinds, {src} \ without, step, St)
  BY DEF Grown, Stepwise
<1>2. \E f : Good(f)
  <2>1. PICK f : States(f, N, kinds, {src} \ without, step, St)
    <3>. HIDE DEF N, St, step, kinds
    <3>. QED
      BY <1>1, Recursion
  <2>2. \A k \in 1..N : f[k - 1] \in St
    BY <2>1 DEF States
  <2>3. \A k \in 1..N : f[k] = Grown(net, f[k - 1], without)
    BY <2>1, <2>2 DEF States
  <2>4. f = [k \in 0..N |-> f[k]] /\ f[0] = {src} \ without
    BY <2>1 DEF States
  <2>. HIDE DEF St, step, kinds
  <2>5. \A k \in 0..N : f[k] = IF k = 0 THEN {src} \ without ELSE Grown(net, f[k - 1], without)
    <3>1. \A k \in 0..N : k # 0 => k \in 1..N
      OBVIOUS
    <3>. QED
      BY <2>3, <2>4, <3>1
  <2>6. Good(f)
    BY <2>4, <2>5
  <2>. QED
    BY <2>6
<1>3. Within(net, src, without) = CHOOSE f : Good(f)
  BY DEF Within
<1>. HIDE DEF Good
<1>4. Good(Within(net, src, without))
  BY <1>2, <1>3
<1>. DEFINE W == Within(net, src, without)
<1>5. W = [k \in 0..N |-> IF k = 0 THEN {src} \ without ELSE Grown(net, W[k - 1], without)]
  BY <1>4 DEF Good
<1>. HIDE DEF W, step
<1>6. W[0] = {src} \ without
  BY <1>5
<1>7. \A k \in 1..N : W[k] = Grown(net, W[k - 1], without)
  <2>1. \A k \in 1..N : k \in 0..N /\ k # 0
    OBVIOUS
  <2>. QED
    BY <1>5, <2>1
<1>. QED
  BY <1>6, <1>7 DEF W

\* What can be reached from src at all.
Reached(net, src, without) == Within(net, src, without)[Len(net.nodes)]

\* Within grows link by link, until nothing is added.
LEMMA WithinGrows ==
  ASSUME NEW net, Valid(net), NEW src \in Range(net.nodes), NEW without
  PROVE  LET W == Within(net, src, without)
             N == Len(net.nodes)
         IN  /\ \A k \in 0..N : W[k] \subseteq Range(net.nodes) \ without
             /\ \A k, l \in 0..N : k =< l => W[k] \subseteq W[l]
             /\ \A k \in 0..N : \/ Grown(net, W[k], without) = W[k]
                                \/ Cardinality(W[k]) > k
<1>. DEFINE W == Within(net, src, without)
            N == Len(net.nodes)
            V == Range(net.nodes)
<1>1. /\ N \in Nat /\ IsFiniteSet(V)
      /\ W[0] = {src} \ without /\ \A k \in 1..N : W[k] = Grown(net, W[k - 1], without)
  BY NodeFacts, WithinSteps
<1>. HIDE DEF W, N
<1>2. \A k \in 0..N : W[k] \subseteq V \ without
  <2>. DEFINE S == {k \in Nat : k =< N => W[k] \subseteq V \ without}
  <2>1. 0 \in S
    BY <1>1
  <2>2. ASSUME NEW n \in Nat, n \in S PROVE n + 1 \in S
    <3>1. n + 1 =< N => W[n + 1] = Grown(net, W[n], without)
      BY <1>1
    <3>. QED
      BY <1>1, <2>2, <3>1 DEF Grown
  <2>3. Nat \subseteq S
    <3>. HIDE DEF S
    <3>. QED
      BY <2>1, <2>2, Induction
  <2>. QED
    BY <1>1, <2>3
<1>3. \A k \in 1..N : W[k - 1] \subseteq W[k]
  BY <1>1 DEF Grown
<1>4. \A k, l \in 0..N : k =< l => W[k] \subseteq W[l]
  <2>. SUFFICES ASSUME NEW k \in 0..N PROVE \A l \in 0..N : k =< l => W[k] \subseteq W[l]
    OBVIOUS
  <2>. DEFINE S == {l \in Nat : l =< N /\ k =< l => W[k] \subseteq W[l]}
  <2>1. 0 \in S
    OBVIOUS
  <2>2. ASSUME NEW n \in Nat, n \in S PROVE n + 1 \in S
    <3>1. n + 1 =< N => W[n] \subseteq W[n + 1]
      BY <1>1, <1>3
    <3>. QED
      BY <1>1, <2>2, <3>1
  <2>3. Nat \subseteq S
    <3>. HIDE DEF S
    <3>. QED
      BY <2>1, <2>2, Induction
  <2>. QED
    BY <1>1, <2>3
<1>5. \A k \in 0..N : IsFiniteSet(W[k]) /\ Cardinality(W[k]) \in Nat
  BY <1>1, <1>2, FS_Subset, FS_CardinalityType
<1>6. \A k \in 0..N : Grown(net, W[k], without) = W[k] \/ Cardinality(W[k]) > k
  <2>. DEFINE S == {k \in Nat : k =< N => Grown(net, W[k], without) = W[k] \/ Cardinality(W[k]) > k}
  <2>1. 0 \in S
    <3>1. CASE src \in without
      BY <1>1, <3>1 DEF Grown
    <3>2. CASE src \notin without
      <4>1. W[0] = {src} /\ Cardinality({src}) = 1
        BY <1>1, <3>2, FS_Singleton
      <4>. QED
        BY <4>1
    <3>. QED
      BY <3>1, <3>2
  <2>2. ASSUME NEW n \in Nat, n \in S, n + 1 =< N
        PROVE  Grown(net, W[n + 1], without) = W[n + 1] \/ Cardinality(W[n + 1]) > n + 1
    <3>1. W[n + 1] = Grown(net, W[n], without) /\ W[n] \subseteq W[n + 1]
      BY <1>1, <1>3, <2>2
    <3>2. CASE W[n + 1] = W[n]
      BY <3>1, <3>2
    <3>3. CASE W[n + 1] # W[n]
      <4>1. Cardinality(W[n]) > n
        BY <1>1, <2>2, <3>1, <3>3
      <4>2. n \in 0..N /\ n + 1 \in 0..N
        BY <1>1, <2>2
      <4>3. Cardinality(W[n]) < Cardinality(W[n + 1])
        BY <1>5, <3>1, <3>3, <4>2, FS_Subset
      <4>. QED
        BY <1>5, <4>1, <4>2, <4>3
    <3>. QED
      BY <3>2, <3>3
  <2>3. Nat \subseteq S
    <3>1. \A n \in Nat : n \in S => n + 1 \in S
      BY <2>2
    <3>. HIDE DEF S
    <3>. QED
      BY <2>1, <3>1, Induction
  <2>. QED
    BY <1>1, <2>3
<1>. QED
  BY <1>2, <1>4, <1>6 DEF W, N

\* What is reached is the least set that holds src and whatever is joined to it.
LEMMA ReachedFacts ==
  ASSUME NEW net, Valid(net), NEW src \in Range(net.nodes), NEW without
  PROVE  LET R == Reached(net, src, without)
             Open(C) == \E n \in C : \E m \in Range(net.nodes) \ without :
                          Joined(net, n, m) /\ m \notin C
         IN  /\ R \subseteq Range(net.nodes) \ without
             /\ src \notin without => src \in R
             /\ ~Open(R)
             /\ \A C : {src} \ without \subseteq C /\ ~Open(C) => R \subseteq C
<1>. DEFINE W == Within(net, src, without)
            N == Len(net.nodes)
            V == Range(net.nodes)
            R == Reached(net, src, without)
            Open(C) == \E n \in C : \E m \in V \ without : Joined(net, n, m) /\ m \notin C
<1>1. /\ N \in Nat /\ IsFiniteSet(V) /\ Cardinality(V) =< N
      /\ W[0] = {src} \ without /\ \A k \in 1..N : W[k] = Grown(net, W[k - 1], without)
  BY NodeFacts, WithinSteps
<1>2. /\ \A k \in 0..N : W[k] \subseteq V \ without
      /\ \A k, l \in 0..N : k =< l => W[k] \subseteq W[l]
      /\ \A k \in 0..N : Grown(net, W[k], without) = W[k] \/ Cardinality(W[k]) > k
  BY WithinGrows
<1>3. R = W[N]
  BY DEF Reached
<1>. HIDE DEF W, N, R
<1>4. R \subseteq V \ without /\ (src \notin without => src \in R)
  BY <1>1, <1>2, <1>3
<1>5. Cardinality(R) =< N
  <2>1. R \subseteq V
    BY <1>4
  <2>2. IsFiniteSet(R) /\ Cardinality(R) =< Cardinality(V)
    BY <1>1, <2>1, FS_Subset
  <2>3. Cardinality(R) \in Nat /\ Cardinality(V) \in Nat
    BY <1>1, <2>2, FS_CardinalityType
  <2>. QED
    BY <1>1, <2>2, <2>3
<1>6. Cardinality(R) \in Nat
  BY <1>1, <1>4, FS_Subset, FS_CardinalityType
<1>7. Grown(net, R, without) = R
  BY <1>1, <1>2, <1>3, <1>5, <1>6
<1>8. ~Open(R)
  BY <1>7 DEF Grown
<1>9. ASSUME NEW C, {src} \ without \subseteq C, ~Open(C)
      PROVE  R \subseteq C
  <2>. DEFINE S == {k \in Nat : k =< N => W[k] \subseteq C}
  <2>1. 0 \in S
    BY <1>1, <1>9
  <2>2. ASSUME NEW n \in Nat, n \in S PROVE n + 1 \in S
    <3>1. n + 1 =< N => W[n + 1] = Grown(net, W[n], without) /\ W[n] \subseteq C
      BY <1>1, <2>2
    <3>2. W[n] \subseteq C => Grown(net, W[n], without) \subseteq C
      BY <1>9 DEF Grown
    <3>. QED
      BY <3>1, <3>2
  <2>3. Nat \subseteq S
    <3>. HIDE DEF S
    <3>. QED
      BY <2>1, <2>2, Induction
  <2>. QED
    BY <1>1, <1>3, <2>3
<1>. QED
  BY <1>4, <1>8, <1>9 DEF R

\* Whoever is reached reaches back.
LEMMA ReachedBack ==
  ASSUME NEW net, Valid(net), NEW without,
         NEW a \in Range(net.nodes), NEW b \in Reached(net, a, without)
  PROVE  b \in Range(net.nodes) /\ a \in Reached(net, b, without)
<1>. DEFINE V == Range(net.nodes)
            R(x) == Reached(net, x, without)
            Open(C) == \E n \in C : \E m \in V \ without : Joined(net, n, m) /\ m \notin C
            Back == {x \in V \ without : a \in R(x)}
<1>1. \A x \in V : /\ R(x) \subseteq V \ without
                   /\ x \notin without => x \in R(x)
                   /\ ~Open(R(x))
                   /\ \A C : {x} \ without \subseteq C /\ ~Open(C) => R(x) \subseteq C
  BY ReachedFacts
<1>. HIDE DEF R
<1>2. \A n, m : Joined(net, n, m) => Joined(net, m, n)
  BY DEF Joined
<1>3. {a} \ without \subseteq Back
  BY <1>1
<1>4. ASSUME NEW x \in Back, NEW y \in V \ without, Joined(net, x, y)
      PROVE  y \in Back
  <2>1. y \in R(y) /\ x \in R(y)
    BY <1>1, <1>2, <1>4
  <2>2. R(x) \subseteq R(y)
    BY <1>1, <2>1
  <2>. QED
    BY <2>2
<1>5. R(a) \subseteq Back
  <2>1. ~Open(Back)
    BY <1>4
  <2>. HIDE DEF Back, Open
  <2>. QED
    BY <1>1, <1>3, <2>1
<1>. QED
  BY <1>1, <1>5 DEF R

\* A pair of nodes is linked if one reaches the other, whichever.
LEMMA LinkedFacts ==
  ASSUME NEW net, Valid(net), NEW without,
         NEW a \in Range(net.nodes), NEW b \in Range(net.nodes)
  PROVE  Linked(net, {a, b}, without) <=> a \notin without /\ b \in Reached(net, a, without)
<1>1. \A x \in Range(net.nodes) : /\ x \notin without => x \in Reached(net, x, without)
                                  /\ Reached(net, x, without) \cap without = {}
  BY ReachedFacts
<1>2. Linked(net, {a, b}, without)
        <=> \E x \in {a, b} : {a, b} \subseteq Reached(net, x, without)
  BY DEF Linked, Reached
<1>3. a \in Reached(net, b, without) => b \in Reached(net, a, without)
  BY ReachedBack
<1>. QED
  BY <1>1, <1>2, <1>3

\* A pair of endpoints is two different nodes with addresses.
LEMMA PairFacts ==
  ASSUME NEW net \in Layouts, NEW p \in Pairs(net)
  PROVE  \E a, b \in Range(net.nodes) : a # b /\ p = {a, b} /\ {a, b} \subseteq net.addressed
<1>1. Valid(net) /\ net.addressed \subseteq Range(net.nodes)
  BY LayoutAssumption
<1>2. p \subseteq net.addressed /\ Cardinality(p) = 2
  BY DEF Pairs, kSubset
<1>3. IsFiniteSet(Range(net.nodes)) /\ p \subseteq Range(net.nodes)
  BY <1>1, <1>2, NodeFacts
<1>4. IsFiniteSet(p)
  BY <1>3, FS_Subset
<1>5. PICK a \in p : TRUE
  BY <1>2, FS_EmptySet
<1>6. IsFiniteSet(p \ {a}) /\ Cardinality(p \ {a}) = 1
  BY <1>2, <1>4, FS_RemoveElement
<1>7. PICK b : p \ {a} = {b}
  BY <1>6, FS_Singleton
<1>. QED
  BY <1>2, <1>3, <1>7

\* A walk over links without a node twice.
Walk(net, path) ==
  /\ path \in Seq(Range(net.nodes)) /\ path # <<>>
  /\ \A i \in 2..Len(path) : Joined(net, path[i - 1], path[i])
  /\ \A i, j \in 1..Len(path) : path[i] = path[j] => i = j

\* A shortest path is a walk between the ends of its pair.
LEMMA PathFacts ==
  ASSUME ShortestPaths, NEW net \in Layouts, NEW p \in Pairs(net), AllPaths[net][p] # <<>>
  PROVE  LET path == AllPaths[net][p]
         IN  Walk(net, path) /\ p = {path[1], path[Len(path)]}
<1>. DEFINE path == AllPaths[net][p]
            N == Len(net.nodes)
            V == Range(net.nodes)
            W == Within(net, path[1], {})
<1>1. Valid(net)
  BY LayoutAssumption
<1>2. /\ path \in Seq(V) /\ p = {path[1], Last(path)}
      /\ \A i \in DOMAIN path :
           /\ path[i] \in W[i - 1]
           /\ i > 1 => Joined(net, path[i - 1], path[i]) /\ path[i] \notin W[i - 2]
  BY DEF ShortestPaths
<1>. HIDE DEF path
<1>3. path # <<>>
  BY DEF path
<1>4. /\ Len(path) \in Nat \ {0} /\ DOMAIN path = 1..Len(path)
      /\ \A i \in 1..Len(path) : path[i] \in V
  BY <1>2, <1>3
<1>5. path[1] \in V
  BY <1>4
<1>6. /\ N \in Nat
      /\ \A k, l \in 0..N : k =< l => W[k] \subseteq W[l]
  BY <1>1, <1>5, NodeFacts, WithinGrows
<1>7. \A n \in W[N], m \in V : Joined(net, n, m) => m \in W[N]
  BY <1>1, <1>5, ReachedFacts DEF Reached
<1>. HIDE DEF N, W
<1>8. Len(path) =< N + 1
  <2>. SUFFICES ASSUME Len(path) > N + 1 PROVE FALSE
    BY <1>4, <1>6
  <2>1. N + 1 \in 1..Len(path) /\ N + 2 \in 1..Len(path) /\ N + 2 > 1 /\ N + 2 - 1 = N + 1
        /\ N + 1 - 1 = N /\ N + 2 - 2 = N
    BY <1>4, <1>6
  <2>2. path[N + 1] \in W[N]
    <3>1. \A i \in 1..Len(path) : path[i] \in W[i - 1]
      BY <1>2, <1>4
    <3>. DEFINE i == N + 1
    <3>2. i \in 1..Len(path) /\ i - 1 = N
      BY <1>6, <2>1
    <3>. HIDE DEF i
    <3>. QED
      BY <3>1, <3>2 DEF i
  <2>3. Joined(net, path[N + 2 - 1], path[N + 2]) /\ path[N + 2] \notin W[N + 2 - 2]
    <3>. DEFINE i == N + 2
    <3>1. i \in DOMAIN path /\ i > 1
      BY <1>4, <2>1
    <3>. HIDE DEF i
    <3>2. Joined(net, path[i - 1], path[i]) /\ path[i] \notin W[i - 2]
      BY <1>2, <3>1
    <3>3. i - 1 = N + 1 /\ i - 2 = N
      BY <1>6 DEF i
    <3>. QED
      BY <2>1, <3>2, <3>3 DEF i
  <2>4. Joined(net, path[N + 1], path[N + 2]) /\ path[N + 2] \notin W[N]
    BY <2>1, <2>3
  <2>. QED
    BY <1>4, <1>7, <2>1, <2>2, <2>4
<1>9. ASSUME NEW i \in 1..Len(path), NEW j \in 1..Len(path), j < i
      PROVE  path[j] # path[i]
  <2>1. /\ j - 1 \in 0..N /\ i - 2 \in 0..N /\ j - 1 =< i - 2 /\ i > 1
    BY <1>4, <1>6, <1>8, <1>9
  <2>2. path[j] \in W[j - 1] /\ path[i] \notin W[i - 2]
    BY <1>2, <1>4, <2>1
  <2>. QED
    BY <1>6, <2>1, <2>2
<1>10. \A i, j \in 1..Len(path) : path[i] = path[j] => i = j
  <2>. SUFFICES ASSUME NEW i \in 1..Len(path), NEW j \in 1..Len(path), i # j
                PROVE  path[i] # path[j]
    OBVIOUS
  <2>1. j < i \/ i < j
    BY <1>4
  <2>. QED
    BY <1>9, <2>1
<1>11. \A i \in 2..Len(path) : Joined(net, path[i - 1], path[i])
  <2>1. \A i \in 2..Len(path) : i \in DOMAIN path /\ i > 1
    BY <1>4
  <2>. QED
    BY <1>2, <2>1
<1>12. Last(path) = path[Len(path)]
  BY DEF Last
<1>. QED
  BY <1>2, <1>3, <1>10, <1>11, <1>12 DEF Walk, path

\* A walk that avoids nodes links its ends without them.
LEMMA WalkLinks ==
  ASSUME NEW net, Valid(net), NEW without, NEW path, Walk(net, path),
         Range(path) \cap without = {}
  PROVE  Linked(net, {path[1], path[Len(path)]}, without)
<1>. DEFINE V == Range(net.nodes)
            R == Reached(net, path[1], without)
<1>1. /\ path \in Seq(V) /\ Len(path) \in Nat \ {0}
      /\ \A i \in 1..Len(path) : path[i] \in V \ without
      /\ \A i \in 2..Len(path) : Joined(net, path[i - 1], path[i])
  BY DEF Walk, Range
<1>2. path[1] \in R /\ \A n \in R, m \in V \ without : Joined(net, n, m) => m \in R
  BY <1>1, ReachedFacts
<1>. DEFINE S == {i \in Nat : i \in 1..Len(path) => path[i] \in R}
<1>. HIDE DEF R
<1>3. 0 \in S
  OBVIOUS
<1>4. ASSUME NEW n \in Nat, n \in S PROVE n + 1 \in S
  <2>1. CASE n = 0
    BY <1>2, <2>1
  <2>2. CASE n # 0 /\ n + 1 =< Len(path)
    <3>1. n \in 1..Len(path) /\ n + 1 \in 2..Len(path) /\ n + 1 \in 1..Len(path) /\ n + 1 - 1 = n
      BY <1>1, <2>2
    <3>2. path[n] \in R /\ Joined(net, path[n], path[n + 1])
      BY <1>1, <1>4, <3>1
    <3>. QED
      BY <1>1, <1>2, <3>1, <3>2
  <2>3. CASE n + 1 > Len(path)
    BY <1>1, <2>3
  <2>. QED
    BY <1>1, <2>1, <2>2, <2>3
<1>5. Nat \subseteq S
  <2>. HIDE DEF S
  <2>. QED
    BY <1>3, <1>4, Induction
<1>6. path[Len(path)] \in R
  BY <1>1, <1>5
<1>. QED
  BY <1>1, <1>6, LinkedFacts DEF R

\* Whatever a pair cannot do without is on its path.
LEMMA NeededOnPath ==
  ASSUME ShortestPaths, NEW net \in Layouts, NEW p \in Pairs(net)
  PROVE  NeededBy[net][p] \subseteq Range(AllPaths[net][p])
<1>. DEFINE path == AllPaths[net][p]
<1>1. NeededBy[net][p] = {n \in Range(net.nodes) : Linked(net, p, {}) /\ ~Linked(net, p, {n})}
  BY DEF NeededBy
<1>2. path = <<>> => ~Linked(net, p, {})
  BY DEF ShortestPaths
<1>. SUFFICES ASSUME NEW n \in NeededBy[net][p], n \notin Range(path), path # <<>>
              PROVE  FALSE
  BY <1>1, <1>2
<1>3. Walk(net, path) /\ p = {path[1], path[Len(path)]}
  BY PathFacts
<1>4. Valid(net) /\ Range(path) \cap {n} = {}
  BY LayoutAssumption
<1>. HIDE DEF path
<1>5. Linked(net, p, {n})
  BY <1>3, <1>4, WalkLinks
<1>. QED
  BY <1>1, <1>5

\* Where no link has an alternative, a pair can do without nothing on its path.
LEMMA OnPathNeeded ==
  ASSUME ShortestPaths, NEW net \in Layouts, LoopFree[net], NEW p \in Pairs(net),
         NEW n \in Range(AllPaths[net][p])
  PROVE  n \in NeededBy[net][p]
<1>. DEFINE path == AllPaths[net][p]
            V == Range(net.nodes)
            L == Len(path)
<1>1. Valid(net) /\ NeededBy[net][p] = {m \in V : Linked(net, p, {}) /\ ~Linked(net, p, {m})}
  BY LayoutAssumption DEF NeededBy
<1>2. Walk(net, path) /\ p = {path[1], path[L]}
  <2>1. path # <<>>
    BY DEF Range
  <2>. QED
    BY <2>1, PathFacts
<1>3. PICK k \in DOMAIN path : n = path[k]
  BY DEF Range
<1>. HIDE DEF path
<1>4. /\ path \in Seq(V) /\ L \in Nat \ {0} /\ DOMAIN path = 1..L
      /\ \A i \in 1..L : path[i] \in V
      /\ \A i \in 2..L : Joined(net, path[i - 1], path[i])
      /\ \A i, j \in 1..L : path[i] = path[j] => i = j
  BY <1>2 DEF Walk
<1>. HIDE DEF L
<1>5. Linked(net, p, {})
  BY <1>1, <1>2, WalkLinks DEF L
<1>6. ASSUME Linked(net, p, {n}) PROVE FALSE
  <2>. DEFINE a == path[1]
              b == path[L]
              x == path[k - 1]
              y == path[k + 1]
  <2>1. a \in V /\ b \in V /\ n \in V /\ k \in 1..L
    BY <1>3, <1>4
  <2>2. a # n /\ b \in Reached(net, a, {n})
    BY <1>1, <1>2, <1>6, <2>1, LinkedFacts
  <2>3. b # n
    BY <1>1, <2>1, <2>2, ReachedFacts
  <2>4. k \in 2..(L - 1)
    BY <1>3, <1>4, <2>1, <2>2, <2>3
  <2>5. /\ k - 1 \in 1..L /\ k + 1 \in 1..L /\ k + 1 \in 2..L /\ k + 1 - 1 = k /\ k \in 2..L
    BY <1>4, <2>4
  <2>6. x \in V /\ y \in V /\ Joined(net, x, n) /\ Joined(net, n, y)
    BY <1>3, <1>4, <2>5
  <2>7. \A i \in 1..L : i # k => path[i] # n
    BY <1>3, <1>4, <2>1
  <2>8. x # n /\ y # n /\ x # y
    <3>1. k - 1 # k /\ k + 1 # k /\ k - 1 # k + 1
      BY <2>1
    <3>. QED
      BY <1>4, <2>5, <2>7, <3>1
  <2>9. PICK l \in net.links : l = <<x, n>> \/ l = <<n, x>>
    BY <2>6 DEF Joined
  <2>. DEFINE cut == [net EXCEPT !.links = @ \ {l}]
              R == Reached(cut, x, {})
  <2>. HIDE DEF a, b, x, y
  <2>10. /\ Valid(cut) /\ cut.nodes = net.nodes /\ cut.links = net.links \ {l}
    BY <1>1 DEF Valid
  <2>11. ~Linked(cut, {x, n}, {})
    <3>1. Range(l) = {x, n}
      BY <2>9 DEF Range
    <3>. QED
      BY <3>1 DEF LoopFree
  <2>. HIDE DEF cut
  <2>12. \A u, v : Joined(net, u, v) /\ ~(u = x /\ v = n) /\ ~(u = n /\ v = x) => Joined(cut, u, v)
    BY <2>9, <2>10 DEF Joined
  <2>13. x \in R /\ \A u \in R, v \in V : Joined(cut, u, v) => v \in R
    BY <2>6, <2>10, ReachedFacts
  <2>14. \A u \in V : u \in R => Reached(net, u, {n}) \subseteq R \/ u = n
    <3>. SUFFICES ASSUME NEW u \in V, u \in R, u # n PROVE Reached(net, u, {n}) \subseteq R
      OBVIOUS
    <3>. DEFINE C == R \ {n}
    <3>1. \A s \in C, t \in V \ {n} : Joined(net, s, t) => t \in C
      BY <2>12, <2>13
    <3>2. {u} \ {n} \subseteq C
      OBVIOUS
    <3>. HIDE DEF C
    <3>3. Reached(net, u, {n}) \subseteq C
      BY <1>1, <3>1, <3>2, ReachedFacts
    <3>. QED
      BY <3>3 DEF C
  <2>. HIDE DEF R
  <2>15. a \in R
    <3>. DEFINE S == {i \in Nat : i < k - 1 => path[k - 1 - i] \in R}
    <3>1. 0 \in S
      <4>1. k - 1 - 0 = k - 1
        BY <2>1
      <4>. QED
        BY <2>13, <4>1 DEF x
    <3>2. ASSUME NEW i \in Nat, i \in S PROVE i + 1 \in S
      <4>. SUFFICES ASSUME i + 1 < k - 1 PROVE path[k - 1 - (i + 1)] \in R
        OBVIOUS
      <4>. DEFINE j == k - 1 - i
      <4>1. j \in 2..L /\ j \in 1..L /\ j - 1 \in 1..L /\ j # k /\ j - 1 # k
            /\ j - 1 = k - 1 - (i + 1)
        BY <1>4, <2>1
      <4>2. path[j] \in R
        BY <2>1, <3>2
      <4>. HIDE DEF j
      <4>3. Joined(net, path[j - 1], path[j]) /\ path[j] # n /\ path[j - 1] # n
        BY <1>4, <2>7, <4>1
      <4>4. Joined(cut, path[j], path[j - 1])
        BY <2>12, <4>3 DEF Joined
      <4>5. path[j - 1] \in R
        BY <1>4, <2>13, <4>1, <4>2, <4>4
      <4>. QED
        BY <4>1, <4>5
    <3>3. Nat \subseteq S
      <4>. HIDE DEF S
      <4>. QED
        BY <3>1, <3>2, Induction
    <3>4. k - 2 \in Nat /\ k - 2 < k - 1 /\ k - 1 - (k - 2) = 1
      BY <1>4, <2>4
    <3>5. k - 2 \in S
      BY <3>3, <3>4
    <3>. QED
      BY <3>4, <3>5 DEF a
  <2>16. b \in R
    BY <2>1, <2>2, <2>14, <2>15
  <2>17. y \in R
    <3>. DEFINE S == {i \in Nat : i < L - k => path[L - i] \in R}
    <3>1. 0 \in S
      <4>1. L - 0 = L
        BY <1>4
      <4>. QED
        BY <2>16, <4>1 DEF b
    <3>2. ASSUME NEW i \in Nat, i \in S PROVE i + 1 \in S
      <4>. SUFFICES ASSUME i + 1 < L - k PROVE path[L - (i + 1)] \in R
        OBVIOUS
      <4>. DEFINE j == L - i
      <4>1. j \in 2..L /\ j \in 1..L /\ j - 1 \in 1..L /\ j # k /\ j - 1 # k
            /\ j - 1 = L - (i + 1)
        BY <1>4, <2>1
      <4>2. path[j] \in R
        BY <1>4, <2>1, <3>2
      <4>. HIDE DEF j
      <4>3. Joined(net, path[j - 1], path[j]) /\ path[j] # n /\ path[j - 1] # n
        BY <1>4, <2>7, <4>1
      <4>4. Joined(cut, path[j], path[j - 1])
        BY <2>12, <4>3 DEF Joined
      <4>5. path[j - 1] \in R
        BY <1>4, <2>13, <4>1, <4>2, <4>4
      <4>. QED
        BY <4>1, <4>5
    <3>3. Nat \subseteq S
      <4>. HIDE DEF S
      <4>. QED
        BY <3>1, <3>2, Induction
    <3>4. L - k - 1 \in Nat /\ L - k - 1 < L - k /\ L - (L - k - 1) = k + 1
      BY <1>4, <2>4
    <3>5. L - k - 1 \in S
      BY <3>3, <3>4
    <3>. QED
      BY <3>4, <3>5 DEF y
  <2>18. n \in R
    <3>1. Joined(cut, y, n)
      BY <2>6, <2>8, <2>12 DEF Joined
    <3>. QED
      BY <2>1, <2>13, <2>17, <3>1
  <2>19. Linked(cut, {x, n}, {})
    BY <2>1, <2>6, <2>10, <2>18, LinkedFacts DEF R
  <2>. QED
    BY <2>11, <2>19
<1>. QED
  BY <1>1, <1>3, <1>4, <1>5, <1>6

\* The elements of a finite set of numbers, in order.
LEMMA SortedFacts ==
  ASSUME NEW S \in SUBSET Nat, IsFiniteSet(S)
  PROVE  LET s == Sorted(S)
             n == Cardinality(S)
         IN  /\ n \in Nat /\ s \in [1..n -> S] /\ \A x \in S : \E i \in 1..n : s[i] = x
             /\ \A i, j \in 1..n : s[i] = s[j] => i = j
<1>. DEFINE Up(s, n, T) == s \in [1..n -> T] /\ \A i, j \in 1..n : i < j => s[i] < s[j]
            Known == {n \in Nat : \A T \in SUBSET S : Cardinality(T) = n => \E s : Up(s, n, T)}
<1>1. 0 \in Known
  <2>. SUFFICES ASSUME NEW T \in SUBSET S PROVE \E s : Up(s, 0, T)
    OBVIOUS
  <2>1. Up([i \in 1..0 |-> 0], 0, T)
    OBVIOUS
  <2>. QED
    BY <2>1
<1>2. ASSUME NEW n \in Nat, n \in Known PROVE n + 1 \in Known
  <2>. SUFFICES ASSUME NEW T \in SUBSET S, Cardinality(T) = n + 1
                PROVE  \E s : Up(s, n + 1, T)
    OBVIOUS
  <2>1. IsFiniteSet(T) /\ T # {}
    <3>1. IsFiniteSet(T)
      BY FS_Subset
    <3>2. T # {}
      BY FS_EmptySet
    <3>. QED
      BY <3>1, <3>2
  <2>2. PICK m \in T : \A x \in T : m =< x
    BY <2>1, LeastNat
  <2>3. Cardinality(T \ {m}) = n
    <3>1. Cardinality(T \ {m}) = (n + 1) - 1
      BY <2>1, FS_RemoveElement
    <3>. QED
      BY <3>1
  <2>4. PICK s : Up(s, n, T \ {m})
    BY <1>2, <2>3
  <2>. DEFINE t == [i \in 1..(n + 1) |-> IF i = 1 THEN m ELSE s[i - 1]]
  <2>5. \A i \in 1..(n + 1) : i # 1 => i - 1 \in 1..n /\ t[i] = s[i - 1] /\ t[i] \in T \ {m}
    <3>. SUFFICES ASSUME NEW i \in 1..(n + 1), i # 1
                  PROVE  i - 1 \in 1..n /\ t[i] = s[i - 1] /\ t[i] \in T \ {m}
      OBVIOUS
    <3>1. i - 1 \in 1..n /\ t[i] = s[i - 1]
      OBVIOUS
    <3>. QED
      BY <2>4, <3>1
  <2>6. t \in [1..(n + 1) -> T] /\ t[1] = m
    BY <2>5
  <2>. HIDE DEF t
  <2>7. ASSUME NEW i \in 1..(n + 1), NEW j \in 1..(n + 1), i < j PROVE t[i] < t[j]
    <3>1. j # 1 /\ t[j] \in T \ {m} /\ t[j] = s[j - 1] /\ j - 1 \in 1..n
      BY <2>5, <2>7
    <3>2. CASE i = 1
      <4>1. t[i] = m /\ m =< t[j] /\ t[j] # m /\ m \in Nat /\ t[j] \in Nat
        BY <2>2, <2>6, <3>1, <3>2
      <4>. QED
        BY <4>1
    <3>3. CASE i # 1
      <4>1. t[i] = s[i - 1] /\ i - 1 \in 1..n /\ i - 1 < j - 1
        BY <2>5, <2>7, <3>3
      <4>. QED
        BY <2>4, <3>1, <4>1
    <3>. QED
      BY <3>2, <3>3
  <2>8. Up(t, n + 1, T)
    BY <2>6, <2>7
  <2>. QED
    BY <2>8
<1>. DEFINE n == Cardinality(S)
            s == Sorted(S)
<1>3. n \in Nat
  BY FS_CardinalityType
<1>4. \E t : Up(t, n, S)
  <2>. HIDE DEF Up
  <2>1. n \in Known
    <3>. HIDE DEF Known, n
    <3>. QED
      BY <1>1, <1>2, <1>3, Induction
  <2>. QED
    BY <2>1
<1>5. s \in [1..n -> S] /\ \A i, j \in 1..n : i < j => s[i] < s[j]
  <2>1. \E t \in [1..n -> S] : \A i, j \in DOMAIN t : i < j => t[i] < t[j]
    <3>1. PICK t : Up(t, n, S)
      BY <1>4
    <3>2. t \in [1..n -> S] /\ DOMAIN t = 1..n
      BY <3>1
    <3>. QED
      BY <3>1, <3>2
  <2>2. s \in [1..n -> S] /\ \A i, j \in DOMAIN s : i < j => s[i] < s[j]
    BY <2>1 DEF Sorted
  <2>. QED
    BY <2>2
<1>. HIDE DEF s, n
<1>6. ASSUME NEW i \in 1..n, NEW j \in 1..n, s[i] = s[j] PROVE i = j
  <2>1. i < j \/ j < i \/ i = j
    BY <1>3
  <2>2. s[i] \in Nat /\ s[j] \in Nat
    BY <1>5
  <2>. QED
    BY <1>5, <1>6, <2>1, <2>2
<1>7. s \in Injection(1..n, S)
  BY <1>5, <1>6 DEF Injection, IsInjective
<1>8. Cardinality(1..n) = n /\ n = Cardinality(S)
  BY <1>3, FS_Interval DEF n
<1>9. s \in Surjection(1..n, S)
  BY <1>7, <1>8, FS_Injection
<1>10. \A x \in S : \E i \in 1..n : s[i] = x
  BY <1>9 DEF Surjection
<1>. QED
  BY <1>3, <1>5, <1>6, <1>10 DEF s, n

-----------------------------------------------------------------------------
(* The search.                                                               *)

\* How many links away from src a node is.
Depth(net, src, n) ==
  CHOOSE k \in 0..Len(net.nodes) :
    /\ n \in Within(net, src, {})[k]
    /\ \A l \in 0..Len(net.nodes) : l < k => n \notin Within(net, src, {})[l]

\* The depth counts links: a joined node is at most one further, and every node but
\* src has one that is nearer.
LEMMA DepthFacts ==
  ASSUME NEW net, Valid(net), NEW src \in Range(net.nodes)
  PROVE  LET R == Reached(net, src, {})
             N == Len(net.nodes)
             D(n) == Depth(net, src, n)
             W == Within(net, src, {})
         IN  /\ src \in R /\ D(src) = 0
             /\ \A n \in R : /\ D(n) \in 0..N
                             /\ \A k \in 0..N : n \in W[k] <=> D(n) =< k
                             /\ D(n) = 0 => n = src
                             /\ n # src => \E m \in R : Joined(net, m, n) /\ D(m) = D(n) - 1
             /\ \A n \in R, m \in Range(net.nodes) :
                  Joined(net, n, m) => m \in R /\ D(m) =< D(n) + 1
<1>. DEFINE R == Reached(net, src, {})
            N == Len(net.nodes)
            V == Range(net.nodes)
            W == Within(net, src, {})
            D(n) == Depth(net, src, n)
<1>1. /\ N \in Nat /\ W[0] = {src} \ {} /\ \A k \in 1..N : W[k] = Grown(net, W[k - 1], {})
  BY NodeFacts, WithinSteps
<1>2. /\ \A k \in 0..N : W[k] \subseteq V \ {}
      /\ \A k, l \in 0..N : k =< l => W[k] \subseteq W[l]
  BY WithinGrows
<1>3. R = W[N] /\ src \in R /\ R \subseteq V
      /\ ~\E n \in R : \E m \in V \ {} : Joined(net, n, m) /\ m \notin R
  BY ReachedFacts DEF Reached
<1>4. \A n : D(n) = CHOOSE k \in 0..N : n \in W[k] /\ \A l \in 0..N : l < k => n \notin W[l]
  BY DEF Depth
<1>. HIDE DEF R, N, W, D
<1>5. ASSUME NEW n \in R
      PROVE  D(n) \in 0..N /\ \A k \in 0..N : n \in W[k] <=> D(n) =< k
  <2>. DEFINE K == {k \in 0..N : n \in W[k]}
  <2>1. N \in K
    BY <1>1, <1>3
  <2>2. PICK k \in K : \A l \in K : k =< l
    <3>1. K \in SUBSET Nat /\ K # {}
      BY <1>1, <2>1
    <3>. HIDE DEF K
    <3>. QED
      BY <3>1, LeastNat
  <2>3. k \in 0..N /\ n \in W[k] /\ \A l \in 0..N : l < k => n \notin W[l]
    <3>1. k \in 0..N /\ n \in W[k]
      OBVIOUS
    <3>2. ASSUME NEW l \in 0..N, l < k PROVE n \notin W[l]
      BY <1>1, <2>2, <3>1, <3>2
    <3>. QED
      BY <3>1, <3>2
  <2>4. D(n) \in 0..N /\ n \in W[D(n)] /\ \A l \in 0..N : l < D(n) => n \notin W[l]
    BY <1>4, <2>3
  <2>5. ASSUME NEW l \in 0..N PROVE n \in W[l] <=> D(n) =< l
    <3>1. D(n) =< l \/ l < D(n)
      BY <1>1, <2>4
    <3>2. D(n) =< l => n \in W[l]
      BY <1>2, <2>4
    <3>3. l < D(n) => n \notin W[l] /\ ~(D(n) =< l)
      BY <1>1, <2>4
    <3>. QED
      BY <3>1, <3>2, <3>3
  <2>. QED
    BY <2>4, <2>5
<1>6. D(src) = 0
  BY <1>1, <1>3, <1>5
<1>7. ASSUME NEW n \in R PROVE D(n) = 0 => n = src
  BY <1>1, <1>5
<1>8. ASSUME NEW n \in R, n # src PROVE \E m \in R : Joined(net, m, n) /\ D(m) = D(n) - 1
  <2>. DEFINE k == D(n)
  <2>1. k \in 1..N /\ n \in W[k] /\ k - 1 \in 0..N /\ n \notin W[k - 1]
    BY <1>1, <1>5, <1>7, <1>8
  <2>. HIDE DEF k
  <2>2. PICK m \in W[k - 1] : Joined(net, m, n)
    BY <1>1, <2>1 DEF Grown
  <2>3. m \in R
    BY <1>1, <1>2, <1>3, <2>1
  <2>4. D(m) =< k - 1
    BY <1>5, <2>1, <2>2, <2>3
  <2>5. D(m) >= k - 1
    <3>. SUFFICES ASSUME D(m) < k - 1 PROVE FALSE
      BY <1>5, <2>1, <2>3
    <3>1. k - 2 \in 0..N /\ k - 1 \in 1..N /\ k - 1 - 1 = k - 2 /\ D(m) =< k - 2
      BY <1>1, <1>5, <2>1, <2>3
    <3>2. m \in W[k - 2] /\ W[k - 1] = Grown(net, W[k - 2], {})
      BY <1>1, <1>5, <2>3, <3>1
    <3>3. n \in V
      BY <1>3
    <3>. QED
      BY <2>1, <2>2, <3>2, <3>3 DEF Grown
  <2>6. D(m) = k - 1
    BY <1>5, <2>1, <2>3, <2>4, <2>5
  <2>. QED
    BY <2>2, <2>3, <2>6 DEF k
<1>9. ASSUME NEW n \in R, NEW m \in V, Joined(net, n, m) PROVE m \in R /\ D(m) =< D(n) + 1
  <2>1. m \in R
    BY <1>3, <1>9
  <2>2. CASE D(n) + 1 =< N
    <3>. DEFINE k == D(n) + 1
    <3>1. k \in 1..N /\ k - 1 = D(n) /\ D(n) \in 0..N /\ k \in 0..N
      BY <1>1, <1>5, <2>2
    <3>2. n \in W[k - 1]
      BY <1>1, <1>5, <3>1
    <3>. HIDE DEF k
    <3>3. m \in W[k]
      BY <1>1, <1>9, <3>1, <3>2 DEF Grown
    <3>4. D(m) =< k
      BY <1>5, <2>1, <3>1, <3>3
    <3>. QED
      BY <2>1, <3>4 DEF k
  <2>3. CASE D(n) + 1 > N
    BY <1>1, <1>5, <2>1, <2>3
  <2>. QED
    BY <1>1, <1>5, <2>2, <2>3
<1>. QED
  BY <1>3, <1>5, <1>6, <1>7, <1>8, <1>9 DEF R, N, W, D

\* The states of a search, and its recursion.
SearchState(net) ==
  [prev : UNION {[D -> Range(net.nodes)] : D \in SUBSET Range(net.nodes)},
   queue : Seq(Range(net.nodes))]

\* What a turn adds to the queue and to the predecessors.
LEMMA TurnFacts ==
  ASSUME NEW net, Valid(net), NEW s \in SearchState(net), NEW i \in Nat \ {0}, i =< Len(s.queue)
  PROVE  LET t == Turn(net, s, i)
             cur == s.queue[i]
             new == Neighbours(net, cur) \ DOMAIN s.prev
             len == Len(s.queue)
         IN  /\ t \in SearchState(net)
             /\ DOMAIN t.prev = DOMAIN s.prev \cup new
             /\ \A n \in new : t.prev[n] = cur
             /\ \A n \in DOMAIN s.prev : t.prev[n] = s.prev[n]
             /\ Len(t.queue) >= len /\ \A j \in 1..len : t.queue[j] = s.queue[j]
             /\ \A j \in (len + 1)..Len(t.queue) : t.queue[j] \in new
             /\ \A n \in new : \E j \in (len + 1)..Len(t.queue) : t.queue[j] = n
             /\ \A j, k \in (len + 1)..Len(t.queue) : t.queue[j] = t.queue[k] => j = k
<1>. DEFINE V == Range(net.nodes)
            t == Turn(net, s, i)
            cur == s.queue[i]
            new == Neighbours(net, cur) \ DOMAIN s.prev
            len == Len(s.queue)
            more == Sorted(new)
            c == Cardinality(new)
            prev == [n \in DOMAIN s.prev \cup new |-> IF n \in new THEN cur ELSE s.prev[n]]
<1>1. /\ s.queue \in Seq(V) /\ len \in Nat /\ cur \in V
      /\ DOMAIN s.prev \subseteq V /\ \A n \in DOMAIN s.prev : s.prev[n] \in V
  <2>1. s.queue \in Seq(V) /\ s.prev \in UNION {[D -> V] : D \in SUBSET V}
    BY DEF SearchState
  <2>2. PICK D \in SUBSET V : s.prev \in [D -> V]
    BY <2>1
  <2>3. i \in 1..len
    BY <2>1
  <2>. QED
    BY <2>1, <2>2, <2>3
<1>2. new \subseteq V /\ V \subseteq Nat /\ IsFiniteSet(V)
  <2>1. net.nodes \in Seq(Nat)
    BY DEF Valid
  <2>2. V \subseteq Nat
    BY <2>1 DEF Range
  <2>3. new \subseteq V
    BY DEF Neighbours
  <2>. QED
    BY <2>2, <2>3, NodeFacts
<1>3. /\ c \in Nat /\ more \in [1..c -> new] /\ \A x \in new : \E j \in 1..c : more[j] = x
      /\ \A j, k \in 1..c : more[j] = more[k] => j = k
  <2>1. new \in SUBSET Nat /\ IsFiniteSet(new)
    BY <1>2, FS_Subset
  <2>. HIDE DEF new
  <2>. QED
    BY <2>1, SortedFacts
<1>4. t = [prev |-> prev, queue |-> s.queue \o more]
  BY <1>1 DEF Turn
<1>. HIDE DEF t, cur, new, len, more, c, prev
<1>5. more \in Seq(V) /\ Len(more) = c
  BY <1>2, <1>3
<1>6. /\ s.queue \o more \in Seq(V) /\ Len(s.queue \o more) = len + c
      /\ \A j \in 1..(len + c) :
           (s.queue \o more)[j] = IF j =< len THEN s.queue[j] ELSE more[j - len]
  BY <1>1, <1>5 DEF len
<1>. DEFINE q == t.queue
<1>7. q \in Seq(V) /\ Len(q) = len + c
  BY <1>4, <1>6
<1>8. \A j \in 1..len : q[j] = s.queue[j]
  <2>1. \A j \in 1..len : j \in 1..(len + c) /\ j =< len
    BY <1>1, <1>3
  <2>. QED
    BY <1>4, <1>6, <2>1
<1>9. \A j \in (len + 1)..(len + c) : j - len \in 1..c /\ q[j] = more[j - len]
  <2>1. \A j \in (len + 1)..(len + c) : j \in 1..(len + c) /\ ~(j =< len) /\ j - len \in 1..c
    BY <1>1, <1>3
  <2>. QED
    BY <1>4, <1>6, <2>1
<1>10. \A n \in new : \E j \in (len + 1)..(len + c) : q[j] = n
  <2>. SUFFICES ASSUME NEW n \in new PROVE \E j \in (len + 1)..(len + c) : q[j] = n
    OBVIOUS
  <2>1. PICK k \in 1..c : more[k] = n
    BY <1>3
  <2>. DEFINE j == len + k
  <2>2. j \in (len + 1)..(len + c) /\ j - len = k
    BY <1>1, <1>3
  <2>. HIDE DEF j, q
  <2>3. q[j] = more[k]
    BY <1>9, <2>2
  <2>. QED
    BY <2>1, <2>2, <2>3
<1>11. \A j, k \in (len + 1)..(len + c) : q[j] = q[k] => j = k
  <2>. SUFFICES ASSUME NEW j \in (len + 1)..(len + c), NEW k \in (len + 1)..(len + c), q[j] = q[k]
                PROVE  j = k
    OBVIOUS
  <2>1. j - len = k - len
    BY <1>3, <1>9
  <2>. QED
    BY <1>1, <1>3, <2>1
<1>12. prev \in [DOMAIN s.prev \cup new -> V]
  BY <1>1 DEF prev
<1>13. t \in SearchState(net)
  <2>1. DOMAIN s.prev \cup new \in SUBSET V
    BY <1>1, <1>2
  <2>2. prev \in UNION {[D -> V] : D \in SUBSET V}
    BY <1>12, <2>1
  <2>. QED
    BY <1>4, <1>6, <2>2 DEF SearchState
<1>14. /\ DOMAIN t.prev = DOMAIN s.prev \cup new
       /\ \A n \in new : t.prev[n] = cur
       /\ \A n \in DOMAIN s.prev : t.prev[n] = s.prev[n]
  BY <1>4 DEF prev, new
<1>15. len + c >= len
  BY <1>1, <1>3
<1>16. \A j \in (len + 1)..(len + c) : q[j] \in new
  BY <1>3, <1>9
<1>. QED
  BY <1>7, <1>8, <1>10, <1>11, <1>13, <1>14, <1>15, <1>16 DEF t, cur, new, len

\* The search after i turns.
LEMMA SearchSteps ==
  ASSUME NEW net, Valid(net), NEW src \in Range(net.nodes)
  PROVE  \E search :
           /\ search[0] = [prev |-> [n \in {src} |-> src], queue |-> <<src>>]
           /\ \A i \in 1..Len(net.nodes) : search[i] = Turn(net, search[i - 1], i)
           /\ Predecessors(net, src) = search[Len(net.nodes)].prev
<1>. DEFINE N == Len(net.nodes)
            All == SearchState(net)
            first == [prev |-> [n \in {src} |-> src], queue |-> <<src>>]
            step == [i \in 1..N |-> [s \in All |-> Turn(net, s, i)]]
            kinds == [i \in 0..N |-> All]
            Good(f) == f = [i \in 0..N |-> IF i = 0 THEN first ELSE Turn(net, f[i - 1], i)]
<1>1. N \in Nat
  BY NodeFacts
<1>2. first \in All
  <2>1. {src} \in SUBSET Range(net.nodes) /\ [n \in {src} |-> src] \in [{src} -> Range(net.nodes)]
    OBVIOUS
  <2>2. [n \in {src} |-> src] \in UNION {[D -> Range(net.nodes)] : D \in SUBSET Range(net.nodes)}
    BY <2>1
  <2>3. <<src>> \in Seq(Range(net.nodes))
    OBVIOUS
  <2>. QED
    BY <2>2, <2>3 DEF SearchState
<1>3. \A i \in Nat \ {0}, s \in All : Turn(net, s, i) \in All
  <2>. SUFFICES ASSUME NEW i \in Nat \ {0}, NEW s \in All PROVE Turn(net, s, i) \in All
    OBVIOUS
  <2>1. CASE i =< Len(s.queue)
    BY <2>1, TurnFacts
  <2>2. CASE ~(i =< Len(s.queue))
    <3>1. Len(s.queue) \in Nat
      BY DEF SearchState
    <3>. QED
      BY <2>2, <3>1 DEF Turn
  <2>. QED
    BY <2>1, <2>2
<1>. HIDE DEF All, first, N
<1>4. Stepwise(N, kinds, first, step, All)
  BY <1>1, <1>2, <1>3 DEF Stepwise
<1>5. PICK f : States(f, N, kinds, first, step, All)
  <2>. HIDE DEF step, kinds
  <2>. QED
    BY <1>4, Recursion
<1>6. Good(f)
  <2>1. f = [i \in 0..N |-> f[i]] /\ f[0] = first /\ \A i \in 0..N : f[i] \in All
    BY <1>5 DEF States
  <2>2. \A i \in 1..N : f[i] = Turn(net, f[i - 1], i)
    <3>1. \A i \in 1..N : i - 1 \in 0..N
      BY <1>1
    <3>. QED
      BY <1>5, <2>1, <3>1 DEF States
  <2>. HIDE DEF step, kinds
  <2>3. \A i \in 0..N : f[i] = IF i = 0 THEN first ELSE Turn(net, f[i - 1], i)
    <3>1. \A i \in 0..N : i # 0 => i \in 1..N
      BY <1>1
    <3>. QED
      BY <2>1, <2>2, <3>1
  <2>. QED
    BY <2>1, <2>3
<1>. DEFINE search == CHOOSE g : Good(g)
<1>7. Predecessors(net, src) = search[N].prev
  BY DEF Predecessors, first, N
<1>8. Good(search)
  <2>. HIDE DEF Good
  <2>. QED
    BY <1>6
<1>9. search[0] = first
  <2>. HIDE DEF search
  <2>. QED
    BY <1>1, <1>8
<1>10. \A i \in 1..N : search[i] = Turn(net, search[i - 1], i)
  <2>1. \A i \in 1..N : i \in 0..N /\ i # 0
    BY <1>1
  <2>. HIDE DEF search
  <2>. QED
    BY <1>8, <2>1
<1>. HIDE DEF search
<1>. QED
  BY <1>7, <1>9, <1>10 DEF first, N

\* After i turns: the queue holds the nodes found so far, once each, in the order of
\* their distance, which grows by one at the most after node i; a predecessor is one
\* link nearer to src; and the neighbours of the first i nodes are found.
SearchInv(net, src, s, i) ==
  LET q == s.queue
      Len1 == 1..Len(q)
      D(n) == Depth(net, src, n)
  IN  /\ s \in SearchState(net) /\ 1 \in Len1 /\ q[1] = src
      /\ \A j, k \in Len1 : q[j] = q[k] => j = k
      /\ \A j \in Len1 : q[j] \in DOMAIN s.prev
      /\ \A n \in DOMAIN s.prev : \E j \in Len1 : q[j] = n
      /\ DOMAIN s.prev \subseteq Reached(net, src, {})
      /\ \A j, k \in Len1 : j =< k => D(q[j]) =< D(q[k])
      /\ \A j, k \in Len1 : k >= i => D(q[j]) =< D(q[k]) + 1
      /\ \A n \in DOMAIN s.prev \ {src} :
           /\ s.prev[n] \in DOMAIN s.prev /\ Joined(net, s.prev[n], n)
           /\ D(n) = D(s.prev[n]) + 1
      /\ \A j \in Len1 : j =< i => Neighbours(net, q[j]) \subseteq DOMAIN s.prev

\* A turn of path() keeps it.
LEMMA SearchTurn ==
  ASSUME NEW net, Valid(net), NEW src \in Range(net.nodes), NEW s, NEW i \in Nat,
         SearchInv(net, src, s, i)
  PROVE  SearchInv(net, src, Turn(net, s, i + 1), i + 1)
<1>. DEFINE V == Range(net.nodes)
            q == s.queue
            len == Len(q)
            D(n) == Depth(net, src, n)
            R == Reached(net, src, {})
            found == DOMAIN s.prev
            Close(n) == Neighbours(net, n)
<1>1. /\ s \in SearchState(net) /\ q \in Seq(V) /\ len \in Nat /\ 1 \in 1..len /\ q[1] = src
      /\ \A j \in 1..len : q[j] \in V
  BY DEF SearchInv, SearchState
<1>2. /\ \A j, k \in 1..len : q[j] = q[k] => j = k
      /\ \A j \in 1..len : q[j] \in found
      /\ \A n \in found : \E j \in 1..len : q[j] = n
      /\ found \subseteq R
      /\ \A j, k \in 1..len : j =< k => D(q[j]) =< D(q[k])
      /\ \A j, k \in 1..len : k >= i => D(q[j]) =< D(q[k]) + 1
      /\ \A n \in found \ {src} :
           /\ s.prev[n] \in found /\ Joined(net, s.prev[n], n)
           /\ D(n) = D(s.prev[n]) + 1
      /\ \A j \in 1..len : j =< i => Close(q[j]) \subseteq found
  BY DEF SearchInv
<1>3. /\ src \in R /\ D(src) = 0
      /\ \A n \in R : D(n) \in Nat
      /\ \A n \in R : D(n) = 0 => n = src
      /\ \A n \in R : n # src => \E m \in R : Joined(net, m, n) /\ D(m) = D(n) - 1
      /\ \A n \in R, m \in V : Joined(net, n, m) => m \in R /\ D(m) =< D(n) + 1
  BY DepthFacts
<1>4. R \subseteq V
  BY ReachedFacts
<1>5. CASE i + 1 > len
  <2>1. Turn(net, s, i + 1) = s
    BY <1>5 DEF Turn
  <2>2. \A j, k \in 1..len : k >= i + 1 => D(q[j]) =< D(q[k]) + 1
    BY <1>1, <1>2
  <2>3. \A j \in 1..len : j =< i
    BY <1>1, <1>5
  <2>4. \A j \in 1..len : j =< i + 1 => Close(q[j]) \subseteq found
    BY <1>2, <2>3
  <2>. HIDE DEF D
  <2>. QED
    BY <1>1, <1>2, <2>1, <2>2, <2>4 DEF SearchInv, D
<1>6. CASE i + 1 =< len
  <2>. DEFINE c == i + 1
              cur == q[c]
              new == Close(cur) \ found
              t == Turn(net, s, c)
              p == t.queue
              more == (len + 1)..Len(p)
  <2>1. c \in 1..len /\ c \in Nat \ {0} /\ c =< Len(s.queue) /\ c >= i
    BY <1>1, <1>6
  <2>2. /\ t \in SearchState(net) /\ DOMAIN t.prev = found \cup new
        /\ \A n \in new : t.prev[n] = cur
        /\ \A n \in found : t.prev[n] = s.prev[n]
        /\ Len(p) >= len /\ \A j \in 1..len : p[j] = q[j]
        /\ \A j \in more : p[j] \in new
        /\ \A n \in new : \E j \in more : p[j] = n
        /\ \A j, k \in more : p[j] = p[k] => j = k
    <3>. HIDE DEF c
    <3>. QED
      BY <1>1, <2>1, TurnFacts
  <2>3. Len(p) \in Nat /\ \A j \in 1..Len(p) : j \in 1..len \/ j \in more
    BY <1>1, <2>2 DEF SearchState
  <2>4. /\ \A j \in 1..len : j \in 1..Len(p) /\ j \notin more
        /\ \A j \in more : j \in 1..Len(p) /\ j >= c /\ ~(j =< c)
    BY <1>1, <2>1, <2>2, <2>3
  <2>5. cur \in R /\ cur \in V /\ cur \in found
    BY <1>2, <1>4, <2>1
  <2>6. \A n \in new : Joined(net, cur, n) /\ n \in V /\ n \notin found
    BY DEF Neighbours
  <2>7. new \subseteq R /\ \A n \in new : D(n) =< D(cur) + 1
    BY <1>3, <2>5, <2>6
  <2>. HIDE DEF cur, new, t, p, more, D, R, found, q, c
  <2>8. ASSUME NEW n \in new PROVE D(n) = D(cur) + 1
    <3>. SUFFICES ASSUME D(n) =< D(cur) PROVE FALSE
      BY <1>3, <2>5, <2>7
    <3>1. n \in R /\ n # src
      BY <1>1, <1>2, <2>6, <2>7
    <3>. DEFINE K == {k \in Nat : \A m \in R : D(m) = k /\ k < D(cur) =>
                                    \E j \in 1..len : j < c /\ q[j] = m}
    <3>2. ASSUME NEW m \in R, \E j \in 1..len : q[j] = m, D(m) < D(cur)
          PROVE  \E j \in 1..len : j < c /\ q[j] = m
      <4>1. PICK j \in 1..len : q[j] = m
        BY <3>2
      <4>2. j < c
        <5>. SUFFICES ASSUME c =< j PROVE FALSE
          BY <1>1, <2>1
        <5>1. D(cur) =< D(m)
          BY <1>2, <2>1, <4>1 DEF cur
        <5>. QED
          BY <1>3, <2>5, <3>2, <5>1
      <4>. QED
        BY <4>1, <4>2
    <3>3. \A j \in 1..len : j < c => Close(q[j]) \subseteq found
      <4>1. \A j \in 1..len : j < c => j =< i
        BY <1>1 DEF c
      <4>. QED
        BY <1>2, <4>1
    <3>4. 0 \in K
      <4>1. \A m \in R : D(m) = 0 => q[1] = m
        BY <1>1, <1>3
      <4>. QED
        BY <1>1, <3>2, <4>1
    <3>5. ASSUME NEW k \in Nat, k \in K PROVE k + 1 \in K
      <4>. SUFFICES ASSUME NEW m \in R, D(m) = k + 1, k + 1 < D(cur)
                    PROVE  \E j \in 1..len : j < c /\ q[j] = m
        OBVIOUS
      <4>1. m # src
        BY <1>3
      <4>2. PICK l \in R : Joined(net, l, m) /\ D(l) = D(m) - 1
        BY <1>3, <4>1
      <4>3. D(l) = k /\ k < D(cur)
        BY <1>3, <2>5, <4>2
      <4>4. PICK j \in 1..len : j < c /\ q[j] = l
        BY <3>5, <4>3
      <4>5. m \in Close(l)
        BY <1>4, <4>2 DEF Neighbours
      <4>6. m \in found
        BY <3>3, <4>4, <4>5
      <4>7. \E h \in 1..len : q[h] = m
        BY <1>2, <4>6
      <4>. QED
        BY <3>2, <4>7
    <3>6. Nat \subseteq K
      <4>. HIDE DEF K
      <4>. QED
        BY <3>4, <3>5, Induction
    <3>7. PICK m \in R : Joined(net, m, n) /\ D(m) = D(n) - 1
      BY <1>3, <3>1
    <3>8. D(m) < D(cur) /\ D(m) \in Nat
      BY <1>3, <2>5, <3>1, <3>7
    <3>9. PICK j \in 1..len : j < c /\ q[j] = m
      BY <3>6, <3>8
    <3>10. n \in Close(m)
      BY <2>6, <3>7 DEF Neighbours
    <3>. QED
      BY <2>6, <3>3, <3>9, <3>10
  <2>9. 1 \in 1..Len(p) /\ p[1] = src
    BY <1>1, <2>2, <2>4
  <2>10. ASSUME NEW j \in 1..Len(p), NEW k \in 1..Len(p), p[j] = p[k] PROVE j = k
    <3>1. CASE j \in 1..len /\ k \in 1..len
      BY <1>2, <2>2, <2>10, <3>1
    <3>2. CASE j \in more /\ k \in more
      BY <2>2, <2>10, <3>2
    <3>3. ASSUME NEW x \in 1..len, NEW y \in more PROVE p[x] # p[y]
      <4>1. p[x] \in found /\ p[y] \in new
        BY <1>2, <2>2
      <4>. QED
        BY <2>6, <4>1
    <3>. QED
      BY <2>3, <2>10, <3>1, <3>2, <3>3
  <2>11. \A j \in 1..Len(p) : p[j] \in DOMAIN t.prev
    BY <1>2, <2>2, <2>3
  <2>12. \A n \in DOMAIN t.prev : \E j \in 1..Len(p) : p[j] = n
    <3>1. \A n \in found : \E j \in 1..Len(p) : p[j] = n
      BY <1>2, <2>2, <2>4
    <3>2. \A n \in new : \E j \in 1..Len(p) : p[j] = n
      BY <2>2, <2>4
    <3>. QED
      BY <2>2, <3>1, <3>2
  <2>13. DOMAIN t.prev \subseteq R
    BY <1>2, <2>2, <2>7
  <2>14. /\ \A j \in 1..len : p[j] \in R /\ D(p[j]) =< D(cur) + 1 /\ D(p[j]) \in Nat
         /\ \A j \in more : p[j] \in R /\ D(p[j]) = D(cur) + 1 /\ D(p[j]) \in Nat
         /\ D(cur) \in Nat
    <3>1. D(cur) \in Nat
      BY <1>3, <2>5
    <3>2. \A j \in 1..len : D(q[j]) =< D(q[c]) + 1
      BY <1>2, <2>1
    <3>3. \A j \in 1..len : p[j] \in R /\ D(p[j]) =< D(cur) + 1
      BY <1>2, <2>2, <3>2 DEF cur
    <3>4. \A j \in more : p[j] \in R /\ D(p[j]) = D(cur) + 1
      BY <2>2, <2>7, <2>8
    <3>. QED
      BY <1>3, <3>1, <3>3, <3>4
  <2>15. ASSUME NEW j \in 1..Len(p), NEW k \in 1..Len(p), j =< k
         PROVE  D(p[j]) =< D(p[k])
    <3>1. CASE j \in 1..len /\ k \in 1..len
      BY <1>2, <2>2, <2>15, <3>1
    <3>2. CASE j \in more
      <4>1. k \in more
        BY <1>1, <2>3, <2>15, <3>2 DEF more
      <4>. QED
        BY <2>14, <3>2, <4>1
    <3>3. CASE j \in 1..len /\ k \in more
      BY <2>14, <3>3
    <3>. QED
      BY <2>3, <3>1, <3>2, <3>3
  <2>16. ASSUME NEW j \in 1..Len(p), NEW k \in 1..Len(p), k >= c
         PROVE  D(p[j]) =< D(p[k]) + 1
    <3>1. D(p[j]) =< D(cur) + 1 /\ D(p[j]) \in Nat
      BY <2>3, <2>14
    <3>2. D(cur) =< D(p[k]) /\ D(p[k]) \in Nat
      <4>1. CASE k \in 1..len
        BY <1>2, <2>1, <2>2, <2>14, <2>16, <4>1 DEF cur
      <4>2. CASE k \in more
        BY <2>14, <4>2
      <4>. QED
        BY <2>3, <4>1, <4>2
    <3>. QED
      BY <2>14, <3>1, <3>2
  <2>17. ASSUME NEW n \in DOMAIN t.prev, n # src
         PROVE  /\ t.prev[n] \in DOMAIN t.prev /\ Joined(net, t.prev[n], n)
                /\ D(n) = D(t.prev[n]) + 1
    <3>1. CASE n \in found
      BY <1>2, <2>2, <2>17, <3>1
    <3>2. CASE n \in new
      BY <2>2, <2>5, <2>6, <2>8, <3>2
    <3>. QED
      BY <2>2, <3>1, <3>2
  <2>18. ASSUME NEW j \in 1..Len(p), j =< c
         PROVE  Close(p[j]) \subseteq DOMAIN t.prev
    <3>1. j \in 1..len
      BY <2>3, <2>4, <2>18
    <3>2. CASE j = c
      BY <2>2, <3>1, <3>2 DEF cur, new
    <3>3. CASE j # c
      <4>1. j =< i
        BY <2>1, <2>18, <3>1, <3>3 DEF c
      <4>. QED
        BY <1>2, <2>2, <3>1, <4>1
    <3>. QED
      BY <3>2, <3>3
  <2>19. SearchInv(net, src, t, c)
    <3>. USE DEF p, D, R
    <3>. QED
      BY <2>2, <2>9, <2>10, <2>11, <2>12, <2>13, <2>15, <2>16, <2>17, <2>18 DEF SearchInv
  <2>. QED
    BY <2>19 DEF t, c
<1>. QED
  BY <1>1, <1>5, <1>6

\* What the search finds: all that can be reached, each by a node one link nearer.
LEMMA SearchFacts ==
  ASSUME NEW net, Valid(net), NEW src \in Range(net.nodes)
  PROVE  LET prev == Predecessors(net, src)
             R == Reached(net, src, {})
             D(n) == Depth(net, src, n)
         IN  /\ DOMAIN prev = R
             /\ \A n \in R \ {src} : /\ prev[n] \in R /\ Joined(net, prev[n], n)
                                     /\ D(n) = D(prev[n]) + 1
<1>. DEFINE N == Len(net.nodes)
            V == Range(net.nodes)
            R == Reached(net, src, {})
<1>1. PICK search :
        /\ search[0] = [prev |-> [n \in {src} |-> src], queue |-> <<src>>]
        /\ \A i \in 1..N : search[i] = Turn(net, search[i - 1], i)
        /\ Predecessors(net, src) = search[N].prev
  BY SearchSteps
<1>2. N \in Nat /\ IsFiniteSet(V) /\ Cardinality(V) =< N
  BY NodeFacts
<1>3. src \in R /\ Depth(net, src, src) = 0 /\ R \subseteq V
  BY DepthFacts, ReachedFacts
<1>4. SearchInv(net, src, search[0], 0)
  <2>. DEFINE prev == [n \in {src} |-> src]
              q == <<src>>
  <2>1. [prev |-> prev, queue |-> q] \in SearchState(net)
    <3>1. {src} \in SUBSET V /\ prev \in [{src} -> V]
      OBVIOUS
    <3>2. prev \in UNION {[D -> V] : D \in SUBSET V}
      BY <3>1
    <3>3. q \in Seq(V)
      OBVIOUS
    <3>. QED
      BY <3>2, <3>3 DEF SearchState
  <2>2. DOMAIN prev = {src} /\ Len(q) = 1 /\ q[1] = src /\ 1..1 = {1}
    OBVIOUS
  <2>. HIDE DEF prev, q
  <2>. QED
    BY <1>1, <1>3, <2>1, <2>2 DEF SearchInv, prev, q
<1>5. SearchInv(net, src, search[N], N)
  <2>. DEFINE S == {i \in Nat : i =< N => SearchInv(net, src, search[i], i)}
  <2>1. 0 \in S
    BY <1>4
  <2>2. ASSUME NEW i \in Nat, i \in S PROVE i + 1 \in S
    <3>. SUFFICES ASSUME i + 1 =< N PROVE SearchInv(net, src, search[i + 1], i + 1)
      OBVIOUS
    <3>1. SearchInv(net, src, search[i], i)
      BY <1>2, <2>2
    <3>2. SearchInv(net, src, Turn(net, search[i], i + 1), i + 1)
      BY <3>1, SearchTurn
    <3>3. search[i + 1] = Turn(net, search[i], i + 1)
      BY <1>1, <1>2
    <3>. QED
      BY <3>2, <3>3
  <2>3. Nat \subseteq S
    <3>. HIDE DEF S
    <3>. QED
      BY <2>1, <2>2, Induction
  <2>. QED
    BY <1>2, <2>3
<1>. DEFINE s == search[N]
            q == s.queue
            found == DOMAIN s.prev
<1>6. /\ q \in Seq(V) /\ Len(q) \in Nat /\ 1 \in 1..Len(q) /\ q[1] = src
      /\ \A j, k \in 1..Len(q) : q[j] = q[k] => j = k
      /\ \A j \in 1..Len(q) : q[j] \in found
      /\ \A n \in found : \E j \in 1..Len(q) : q[j] = n
      /\ found \subseteq R
      /\ \A n \in found \ {src} :
           /\ s.prev[n] \in found /\ Joined(net, s.prev[n], n)
           /\ Depth(net, src, n) = Depth(net, src, s.prev[n]) + 1
      /\ \A j \in 1..Len(q) : j =< N => Neighbours(net, q[j]) \subseteq found
  <2>1. SearchInv(net, src, s, N)
    BY <1>5
  <2>. HIDE DEF s, R, N
  <2>2. s \in SearchState(net)
    BY <2>1 DEF SearchInv
  <2>3. q \in Seq(V) /\ Len(q) \in Nat
    BY <2>2 DEF SearchState
  <2>. QED
    BY <2>1, <2>3 DEF SearchInv, R
<1>7. Len(q) =< N
  <2>. HIDE DEF q, found, N, R, s
  <2>1. q \in Injection(1..Len(q), V)
    BY <1>6 DEF Injection, IsInjective
  <2>2. Cardinality(1..Len(q)) =< Cardinality(V)
    BY <1>2, <2>1, FS_Injection
  <2>3. Cardinality(1..Len(q)) = Len(q)
    BY <1>6, FS_Interval
  <2>4. Cardinality(V) \in Nat
    BY <1>2, FS_CardinalityType
  <2>. QED
    BY <1>2, <1>6, <2>2, <2>3, <2>4
<1>. HIDE DEF q, found, N, R, s
<1>8. \A n \in found : Neighbours(net, n) \subseteq found
  <2>1. \A j \in 1..Len(q) : j =< N
    BY <1>2, <1>6, <1>7
  <2>. QED
    BY <1>6, <2>1
<1>9. R \subseteq found
  <2>1. \A n \in found, m \in V \ {} : Joined(net, n, m) => m \in found
    BY <1>8 DEF Neighbours
  <2>2. {src} \ {} \subseteq found
    BY <1>6
  <2>. QED
    BY <2>1, <2>2, ReachedFacts DEF R
<1>. QED
  BY <1>1, <1>6, <1>9 DEF found, R, s, N

\* The way back: links that lead away from src one by one, to dst.
BackInv(net, src, dst, rev, k) ==
  LET D(n) == Depth(net, src, n)
      R == Reached(net, src, {})
  IN  /\ rev \in Seq(R) /\ Len(rev) >= 1 /\ rev[Len(rev)] = dst
      /\ \A i \in 2..Len(rev) : Joined(net, rev[i - 1], rev[i]) /\ D(rev[i]) = D(rev[i - 1]) + 1
      /\ rev[1] # src => D(rev[1]) + k =< D(dst)

\* One step of rebuild() keeps it.
LEMMA BackStep ==
  ASSUME NEW net, Valid(net), NEW src \in Range(net.nodes), NEW dst \in Reached(net, src, {}),
         NEW rev, NEW k \in Nat, BackInv(net, src, dst, rev, k)
  PROVE  LET prev == Predecessors(net, src)
         IN  BackInv(net, src, dst, IF rev[1] = src THEN rev ELSE <<prev[rev[1]]>> \o rev, k + 1)
<1>. DEFINE R == Reached(net, src, {})
            D(n) == Depth(net, src, n)
            prev == Predecessors(net, src)
            b == prev[rev[1]]
            back == <<b>> \o rev
<1>1. /\ rev \in Seq(R) /\ Len(rev) \in Nat /\ Len(rev) >= 1 /\ rev[Len(rev)] = dst
      /\ \A i \in 2..Len(rev) : Joined(net, rev[i - 1], rev[i]) /\ D(rev[i]) = D(rev[i - 1]) + 1
      /\ rev[1] # src => D(rev[1]) + k =< D(dst)
      /\ rev[1] \in R
  BY DEF BackInv
<1>2. CASE rev[1] = src
  BY <1>1, <1>2 DEF BackInv
<1>3. CASE rev[1] # src
  <2>1. b \in R /\ Joined(net, b, rev[1]) /\ D(rev[1]) = D(b) + 1
    BY <1>1, <1>3, SearchFacts
  <2>2. D(b) \in Nat /\ D(dst) \in Nat
    BY <2>1, DepthFacts, NodeFacts
  <2>. HIDE DEF R, D, b
  <2>3. /\ back \in Seq(R) /\ Len(back) = Len(rev) + 1 /\ back[1] = b
        /\ \A i \in 1..Len(rev) : back[i + 1] = rev[i]
    BY <1>1, <2>1
  <2>4. back[Len(back)] = dst
    BY <1>1, <2>3
  <2>. HIDE DEF back
  <2>5. ASSUME NEW i \in 2..Len(back)
        PROVE  Joined(net, back[i - 1], back[i]) /\ D(back[i]) = D(back[i - 1]) + 1
    <3>1. CASE i = 2
      <4>1. back[2] = rev[1] /\ i - 1 = 1
        BY <1>1, <2>3, <3>1
      <4>. QED
        BY <2>1, <2>3, <3>1, <4>1
    <3>2. CASE i # 2
      <4>. DEFINE j == i - 1
      <4>1. /\ j \in 2..Len(rev) /\ j \in 1..Len(rev) /\ j - 1 \in 1..Len(rev)
            /\ i = j + 1 /\ i - 1 = (j - 1) + 1
        BY <1>1, <2>3, <3>2
      <4>. HIDE DEF j
      <4>2. back[i] = rev[j] /\ back[i - 1] = rev[j - 1]
        BY <2>3, <4>1
      <4>. QED
        BY <1>1, <4>1, <4>2
    <3>. QED
      BY <3>1, <3>2
  <2>6. D(back[1]) + (k + 1) =< D(dst)
    BY <1>1, <1>3, <2>1, <2>2, <2>3
  <2>7. BackInv(net, src, dst, back, k + 1)
    <3>. USE DEF R, D
    <3>. QED
      BY <1>1, <2>3, <2>4, <2>5, <2>6 DEF BackInv
  <2>. QED
    BY <1>3, <2>7 DEF back, b
<1>. QED
  BY <1>2, <1>3

\* The path: one link after the other, each node one link further from src.
LEMMA RebuiltPath ==
  ASSUME NEW net, Valid(net), NEW src \in Range(net.nodes), NEW dst \in Range(net.nodes)
  PROVE  LET path == Path(net, src, dst)
             R == Reached(net, src, {})
             D(n) == Depth(net, src, n)
         IN  IF dst \in R
             THEN /\ path \in Seq(R) /\ Len(path) >= 1 /\ path[1] = src /\ path[Len(path)] = dst
                  /\ \A i \in 2..Len(path) : /\ Joined(net, path[i - 1], path[i])
                                             /\ D(path[i]) = D(path[i - 1]) + 1
             ELSE path = <<>>
<1>. DEFINE N == Len(net.nodes)
            R == Reached(net, src, {})
            D(n) == Depth(net, src, n)
            prev == Predecessors(net, src)
            Step(rev) == IF rev[1] = src THEN rev ELSE <<prev[rev[1]]>> \o rev
            All == Seq(R)
            kinds == [k \in 0..N |-> {rev \in All : BackInv(net, src, dst, rev, k)}]
            step == [k \in 1..N |-> [rev \in All |-> Step(rev)]]
            Good(f) == f = [k \in 0..N |-> IF k = 0 THEN <<dst>> ELSE Step(f[k - 1])]
            back == CHOOSE f : Good(f)
<1>1. N \in Nat /\ DOMAIN prev = R
  BY NodeFacts, SearchFacts
<1>2. Path(net, src, dst) = IF dst \in R THEN back[N] ELSE <<>>
  BY <1>1 DEF Path
<1>. SUFFICES ASSUME dst \in R
              PROVE  /\ back[N] \in Seq(R) /\ Len(back[N]) >= 1 /\ back[N][1] = src
                     /\ back[N][Len(back[N])] = dst
                     /\ \A i \in 2..Len(back[N]) :
                          /\ Joined(net, back[N][i - 1], back[N][i])
                          /\ D(back[N][i]) = D(back[N][i - 1]) + 1
  <2>. HIDE DEF back, N
  <2>. QED
    BY <1>2
<1>3. BackInv(net, src, dst, <<dst>>, 0)
  <2>1. Depth(net, src, dst) \in Nat
    BY <1>1, DepthFacts
  <2>2. <<dst>> \in Seq(R) /\ Len(<<dst>>) = 1 /\ <<dst>>[1] = dst
    OBVIOUS
  <2>. QED
    BY <2>1, <2>2 DEF BackInv
<1>4. \A k \in Nat, rev \in All : BackInv(net, src, dst, rev, k) =>
        Step(rev) \in All /\ BackInv(net, src, dst, Step(rev), k + 1)
  <2>. SUFFICES ASSUME NEW k \in Nat, NEW rev \in All, BackInv(net, src, dst, rev, k)
                PROVE  Step(rev) \in All /\ BackInv(net, src, dst, Step(rev), k + 1)
    OBVIOUS
  <2>1. BackInv(net, src, dst, Step(rev), k + 1)
    BY BackStep
  <2>. HIDE DEF Step
  <2>. QED
    BY <2>1 DEF BackInv
<1>. HIDE DEF N, R, All, Step
<1>5. Stepwise(N, kinds, <<dst>>, step, All)
  <2>1. <<dst>> \in All
    BY DEF All
  <2>2. kinds \in [0..N -> SUBSET All]
    OBVIOUS
  <2>3. <<dst>> \in kinds[0]
    BY <1>1, <1>3, <2>1
  <2>4. ASSUME NEW k \in 1..N, NEW s \in kinds[k - 1] PROVE step[k][s] \in kinds[k]
    <3>. DEFINE j == k - 1
    <3>1. j \in Nat /\ j \in 0..N /\ k \in 0..N /\ j + 1 = k
      BY <1>1
    <3>. HIDE DEF j
    <3>2. s \in kinds[j]
      BY <2>4 DEF j
    <3>3. s \in All /\ BackInv(net, src, dst, s, j)
      BY <3>1, <3>2
    <3>4. Step(s) \in All /\ BackInv(net, src, dst, Step(s), k)
      BY <1>4, <3>1, <3>3
    <3>5. step[k][s] = Step(s)
      BY <3>3
    <3>. QED
      BY <3>1, <3>4, <3>5
  <2>. QED
    BY <1>1, <2>2, <2>3, <2>4 DEF Stepwise
<1>6. PICK f : States(f, N, kinds, <<dst>>, step, All)
  <2>. HIDE DEF kinds, step
  <2>. QED
    BY <1>5, Recursion
<1>7. Good(f)
  <2>1. f = [k \in 0..N |-> f[k]] /\ f[0] = <<dst>> /\ \A k \in 0..N : f[k] \in All
    BY <1>6 DEF States
  <2>2. \A k \in 1..N : f[k] = Step(f[k - 1])
    <3>1. \A k \in 1..N : k - 1 \in 0..N
      BY <1>1
    <3>. QED
      BY <1>6, <2>1, <3>1 DEF States
  <2>. HIDE DEF step, kinds
  <2>3. \A k \in 0..N : f[k] = IF k = 0 THEN <<dst>> ELSE Step(f[k - 1])
    <3>1. \A k \in 0..N : k # 0 => k \in 1..N
      BY <1>1
    <3>. QED
      BY <2>1, <2>2, <3>1
  <2>. QED
    BY <2>1, <2>3
<1>8. Good(back)
  <2>. HIDE DEF Good
  <2>. QED
    BY <1>7
<1>. HIDE DEF back
<1>9. back[0] = <<dst>> /\ \A k \in 1..N : back[k] = Step(back[k - 1])
  <2>1. \A k \in 1..N : k \in 0..N /\ k # 0
    BY <1>1
  <2>. QED
    BY <1>1, <1>8, <2>1
<1>. HIDE DEF step, kinds, Good
<1>10. BackInv(net, src, dst, back[N], N)
  <2>. DEFINE S == {k \in Nat : k =< N => back[k] \in All /\ BackInv(net, src, dst, back[k], k)}
  <2>1. 0 \in S
    <3>1. <<dst>> \in All
      BY DEF All, R
    <3>. QED
      BY <1>3, <1>9, <3>1
  <2>2. ASSUME NEW k \in Nat, k \in S PROVE k + 1 \in S
    <3>. SUFFICES ASSUME k + 1 =< N
                  PROVE  back[k + 1] \in All /\ BackInv(net, src, dst, back[k + 1], k + 1)
      OBVIOUS
    <3>1. back[k] \in All /\ BackInv(net, src, dst, back[k], k)
      BY <1>1, <2>2
    <3>2. back[k + 1] = Step(back[k])
      BY <1>1, <1>9
    <3>. QED
      BY <1>4, <3>1, <3>2
  <2>3. Nat \subseteq S
    <3>. HIDE DEF S
    <3>. QED
      BY <2>1, <2>2, Induction
  <2>. QED
    BY <1>1, <2>3
<1>. DEFINE rev == back[N]
<1>. HIDE DEF rev
<1>11. /\ rev \in Seq(R) /\ Len(rev) >= 1 /\ rev[Len(rev)] = dst
       /\ \A i \in 2..Len(rev) : Joined(net, rev[i - 1], rev[i]) /\ D(rev[i]) = D(rev[i - 1]) + 1
       /\ rev[1] # src => D(rev[1]) + N =< D(dst)
  BY <1>10 DEF BackInv, R, rev
<1>12. rev[1] = src
  <2>1. rev[1] \in R
    BY <1>11
  <2>2. /\ D(rev[1]) \in 0..N /\ D(dst) \in 0..N
        /\ D(rev[1]) = 0 => rev[1] = src
    BY <2>1, DepthFacts DEF N, R
  <2>. HIDE DEF D
  <2>. QED
    BY <1>1, <1>11, <2>2
<1>. QED
  BY <1>11, <1>12 DEF R, rev

\* path() finds a shortest path of every pair that is connected (score.go).
THEOREM PathsAreShortest == ShortestPaths
<1>. SUFFICES ASSUME NEW net \in Layouts, NEW p \in Pairs(net)
              PROVE  LET path == AllPaths[net][p]
                         Reach(k) == Within(net, path[1], {})[k]
                     IN  IF path = <<>> THEN ~Linked(net, p, {})
                         ELSE /\ path \in Seq(Range(net.nodes)) /\ p = {path[1], Last(path)}
                              /\ \A i \in DOMAIN path :
                                   /\ path[i] \in Reach(i - 1)
                                   /\ i > 1 => /\ Joined(net, path[i - 1], path[i])
                                               /\ path[i] \notin Reach(i - 2)
  BY DEF ShortestPaths
<1>. DEFINE V == Range(net.nodes)
            N == Len(net.nodes)
            src == CHOOSE n \in p : \A m \in p : Place(net, n) =< Place(net, m)
            dst == CHOOSE n \in p : n # src
            path == Path(net, src, dst)
<1>1. Valid(net)
  BY LayoutAssumption
<1>2. PICK a \in V, b \in V : a # b /\ p = {a, b}
  BY PairFacts
<1>3. \A n \in V : Place(net, n) \in Nat
  <2>. SUFFICES ASSUME NEW n \in V PROVE Place(net, n) \in Nat
    OBVIOUS
  <2>1. net.nodes \in Seq(Nat)
    BY <1>1 DEF Valid
  <2>2. \E i \in 1..N : net.nodes[i] = n
    BY <2>1 DEF Range
  <2>. QED
    BY <2>2 DEF Place
<1>4. src \in p
  <2>1. \E n \in p : \A m \in p : Place(net, n) =< Place(net, m)
    BY <1>2, <1>3
  <2>. QED
    BY <2>1
<1>. HIDE DEF src
<1>5. dst \in p /\ dst # src
  BY <1>2, <1>4
<1>6. AllPaths[net][p] = path
  BY DEF AllPaths, Paths, src
<1>. HIDE DEF dst
<1>7. src \in V /\ dst \in V /\ p = {src, dst}
  BY <1>2, <1>4, <1>5
<1>. DEFINE R == Reached(net, src, {})
            D(n) == Depth(net, src, n)
            W == Within(net, src, {})
<1>8. CASE dst \notin R
  <2>1. path = <<>>
    BY <1>1, <1>7, <1>8, RebuiltPath
  <2>2. ~Linked(net, p, {})
    BY <1>1, <1>7, <1>8, LinkedFacts
  <2>. QED
    BY <1>6, <2>1, <2>2
<1>9. CASE dst \in R
  <2>1. /\ path \in Seq(R) /\ Len(path) >= 1 /\ path[1] = src /\ path[Len(path)] = dst
        /\ \A i \in 2..Len(path) :
             Joined(net, path[i - 1], path[i]) /\ D(path[i]) = D(path[i - 1]) + 1
    BY <1>1, <1>7, <1>9, RebuiltPath
  <2>2. /\ D(src) = 0 /\ R \subseteq V /\ N \in Nat
        /\ \A n \in R : D(n) \in 0..N /\ \A k \in 0..N : n \in W[k] <=> D(n) =< k
    BY <1>1, <1>7, DepthFacts, ReachedFacts, NodeFacts
  <2>. HIDE DEF path, R, D, W, V, N
  <2>3. /\ Len(path) \in Nat /\ DOMAIN path = 1..Len(path) /\ path # <<>>
        /\ \A i \in 1..Len(path) : path[i] \in R
    BY <2>1
  <2>4. \A i \in 1..Len(path) : D(path[i]) = i - 1
    <3>. DEFINE S == {i \in Nat : i \in 1..Len(path) => D(path[i]) = i - 1}
    <3>1. 0 \in S
      OBVIOUS
    <3>2. ASSUME NEW i \in Nat, i \in S PROVE i + 1 \in S
      <4>. SUFFICES ASSUME i + 1 \in 1..Len(path) PROVE D(path[i + 1]) = i
        OBVIOUS
      <4>1. CASE i = 0
        BY <2>1, <2>2, <4>1
      <4>2. CASE i # 0
        <5>. DEFINE j == i + 1
        <5>1. j \in 2..Len(path) /\ j - 1 = i /\ i \in 1..Len(path)
          BY <2>3, <4>2
        <5>. HIDE DEF j
        <5>2. D(path[j]) = D(path[i]) + 1 /\ D(path[i]) = i - 1
          BY <2>1, <3>2, <5>1
        <5>. QED
          BY <5>2 DEF j
      <4>. QED
        BY <4>1, <4>2
    <3>3. Nat \subseteq S
      <4>. HIDE DEF S
      <4>. QED
        BY <3>1, <3>2, Induction
    <3>. QED
      BY <2>3, <3>3
  <2>5. ASSUME NEW i \in DOMAIN path
        PROVE  /\ path[i] \in W[i - 1]
               /\ i > 1 => Joined(net, path[i - 1], path[i]) /\ path[i] \notin W[i - 2]
    <3>1. i \in 1..Len(path) /\ D(path[i]) = i - 1 /\ path[i] \in R
      BY <2>3, <2>4
    <3>2. i - 1 \in 0..N
      BY <2>2, <3>1
    <3>3. path[i] \in W[i - 1]
      BY <2>2, <3>1, <3>2
    <3>4. ASSUME i > 1 PROVE Joined(net, path[i - 1], path[i]) /\ path[i] \notin W[i - 2]
      <4>1. i \in 2..Len(path) /\ i - 2 \in 0..N /\ ~(i - 1 =< i - 2)
        BY <2>2, <3>1, <3>2, <3>4
      <4>. QED
        BY <2>1, <2>2, <3>1, <4>1
    <3>. QED
      BY <3>3, <3>4
  <2>6. path \in Seq(V)
    BY <2>1, <2>2
  <2>7. Last(path) = dst
    BY <2>1 DEF Last
  <2>. QED
    BY <1>6, <1>7, <2>1, <2>3, <2>5, <2>6, <2>7 DEF W, V
<1>. QED
  BY <1>8, <1>9

-----------------------------------------------------------------------------
(* Labels.                                                                   *)

\* What a label says of the tested pairs whose paths lead through a component.
LEMMA HealthFacts ==
  ASSUME NEW net, NEW tested, IsFiniteSet(tested), NEW failing, NEW n
  PROVE  LET through == {p \in tested : n \in Range(AllPaths[net][p])}
             label == Health(net, tested, failing, n)
         IN  /\ label = "untested" => through = {}
             /\ label = "good" => through \cap failing = {}
             /\ label = "poor" => through # {} /\ through \subseteq failing
             /\ through # {} /\ through \subseteq failing => label = "poor"
<1>. DEFINE through == {p \in tested : n \in Range(AllPaths[net][p])}
            tp == Cardinality(through)
            fp == Cardinality(through \cap failing)
            label == Health(net, tested, failing, n)
<1>1. /\ IsFiniteSet(through) /\ IsFiniteSet(through \cap failing)
      /\ fp =< tp /\ (fp = tp => through \cap failing = through)
  <2>1. IsFiniteSet(through)
    BY FS_Subset
  <2>. HIDE DEF through
  <2>. QED
    BY <2>1, FS_Subset
<1>2. label = CASE tp = 0          -> "untested"
                [] tp # 0 /\ fp = 0 -> "good"
                [] fp # 0 /\ AllFail(tp, fp) -> "poor"
                [] OTHER           -> "fair"
  BY DEF Health
<1>. HIDE DEF through, label
<1>3. tp \in Nat /\ fp \in Nat /\ (tp = 0 <=> through = {}) /\ (fp = 0 <=> through \cap failing = {})
  BY <1>1, FS_CardinalityType, FS_EmptySet
<1>4. \/ tp = 0 /\ label = "untested"
      \/ tp # 0 /\ fp = 0 /\ label = "good"
      \/ tp # 0 /\ fp # 0 /\ fp = tp /\ label = "poor"
      \/ tp # 0 /\ fp # 0 /\ fp # tp /\ label = "fair"
  <2>. HIDE DEF tp, fp
  <2>1. CASE tp = 0
    BY <1>2, <1>3, <1>1, <2>1 DEF AllFail
  <2>2. CASE tp # 0 /\ fp = 0
    BY <1>2, <2>2 DEF AllFail
  <2>3. CASE tp # 0 /\ fp # 0 /\ fp = tp
    BY <1>2, <2>3 DEF AllFail
  <2>4. CASE tp # 0 /\ fp # 0 /\ fp # tp
    BY <1>2, <2>4 DEF AllFail
  <2>. QED
    BY <2>1, <2>2, <2>3, <2>4
<1>5. through # {} /\ through \subseteq failing => fp = tp
  <2>1. through \subseteq failing => through \cap failing = through
    OBVIOUS
  <2>. QED
    BY <2>1
<1>. HIDE DEF tp, fp
<1>. QED
  BY <1>1, <1>3, <1>4, <1>5 DEF through, label

\* Two different nodes make a pair.
LEMMA TwoNodes ==
  ASSUME NEW a, NEW b, a # b
  PROVE  Cardinality({a, b}) = 2
<1>. DEFINE A == {a}
<1>1. IsFiniteSet(A) /\ Cardinality(A) = 1 /\ b \notin A
  BY FS_Singleton
<1>2. {a, b} = A \cup {b}
  OBVIOUS
<1>. HIDE DEF A
<1>3. Cardinality(A \cup {b}) = IF b \in A THEN Cardinality(A) ELSE Cardinality(A) + 1
  BY <1>1, FS_AddElement
<1>. QED
  BY <1>1, <1>2, <1>3

\* The pairs that were tested, as far as the agents' samples are known.
LEMMA TestedFacts ==
  ASSUME NEW net \in Layouts, NEW target \in Targets,
         \A a \in Agent : rows[a] \subseteq 1..MaxSamples[a]
  PROVE  /\ Tested(target) \subseteq Pairs(net) /\ IsFiniteSet(Tested(target))
         /\ Failing(target) \subseteq Tested(target)
<1>1. /\ Valid(net) /\ net.addressed \subseteq Range(net.nodes)
      /\ \A a \in Agent : a \in net.addressed
      /\ \A a \in Agent : \A n \in 1..MaxSamples[a] : target[a][n] \in net.addressed \ {a}
  BY LayoutAssumption DEF Resolve
<1>2. ASSUME NEW a \in Agent, NEW n \in rows[a]
      PROVE  {a, target[a][n]} \in Pairs(net)
  <2>. DEFINE b == target[a][n]
  <2>1. a \in net.addressed /\ b \in net.addressed /\ a # b
    BY <1>1, <1>2
  <2>. HIDE DEF b
  <2>2. Cardinality({a, b}) = 2
    BY <2>1, TwoNodes
  <2>5. Cardinality({a, b}) = 2 /\ {a, b} \in SUBSET net.addressed
    BY <2>1, <2>2
  <2>. QED
    BY <2>5 DEF Pairs, kSubset, b
<1>3. Tested(target) \subseteq Pairs(net)
  BY <1>2 DEF Tested
<1>4. IsFiniteSet(Pairs(net))
  <2>1. IsFiniteSet(net.addressed)
    BY <1>1, NodeFacts, FS_Subset
  <2>2. IsFiniteSet(SUBSET net.addressed)
    BY <2>1, FS_SUBSET
  <2>. QED
    BY <2>2, FS_Subset DEF Pairs, kSubset
<1>5. Failing(target) \subseteq Tested(target)
  BY DEF Tested, Failing
<1>. QED
  BY <1>3, <1>4, <1>5, FS_Subset

\* Where the paths are shortest and the samples those of the layouts, no label
\* points away from the fault (Score()).
LEMMA LabelsNameFaults ==
  ASSUME ShortestPaths, \A a \in Agent : rows[a] \subseteq 1..MaxSamples[a]
  PROVE  FaultNamed
<1>. SUFFICES ASSUME NEW net \in Layouts, NEW target \in Targets
              PROVE  LET tested == Tested(target)
                         failing == Failing(target)
                         needed == NeededBy[net]
                         Needs(p) == needed[p]
                         health == [n \in Range(net.nodes) |-> Health(net, tested, failing, n)]
                         Labelled(h) == {n \in DOMAIN health : health[n] = h}
                         untested == Labelled("untested")
                         good == Labelled("good")
                         poor == Labelled("poor")
                     IN  /\ \A p \in tested : Needs(p) \cap untested = {}
                         /\ \A p \in tested \ failing : Needs(p) \cap poor = {}
                         /\ \A p \in failing : Needs(p) \cap good = {}
                         /\ LoopFree[net] /\ failing # {} =>
                              {n \in Range(net.nodes) : {p \in tested : n \in Needs(p)} = failing}
                                \subseteq poor
  BY DEF FaultNamed
<1>. DEFINE tested == Tested(target)
            failing == Failing(target)
            Needs(p) == NeededBy[net][p]
            H(n) == Health(net, tested, failing, n)
            Through(n) == {p \in tested : n \in Range(AllPaths[net][p])}
<1>1. tested \subseteq Pairs(net) /\ IsFiniteSet(tested) /\ failing \subseteq tested
  BY TestedFacts
<1>2. \A p \in Pairs(net) : Needs(p) \subseteq Range(AllPaths[net][p])
  BY NeededOnPath
<1>. HIDE DEF tested, failing
<1>3. \A n : /\ H(n) = "untested" => Through(n) = {}
             /\ H(n) = "good" => Through(n) \cap failing = {}
             /\ H(n) = "poor" => Through(n) \subseteq failing
             /\ Through(n) # {} /\ Through(n) \subseteq failing => H(n) = "poor"
  BY <1>1, HealthFacts
<1>4. \A p \in tested : \A n \in Needs(p) : p \in Through(n)
  BY <1>1, <1>2
<1>5. ASSUME LoopFree[net], failing # {}, NEW n, {p \in tested : n \in Needs(p)} = failing
      PROVE  H(n) = "poor"
  <2>1. \A p \in Through(n) : n \in Needs(p)
    BY <1>1, <1>5, OnPathNeeded
  <2>2. Through(n) = failing
    BY <1>4, <1>5, <2>1
  <2>. HIDE DEF H, Through
  <2>. QED
    BY <1>3, <1>5, <2>2
<1>. HIDE DEF H, Through, Needs
<1>6. \A p \in tested : \A n \in Needs(p) : H(n) # "untested"
  BY <1>3, <1>4
<1>7. \A p \in tested \ failing : \A n \in Needs(p) : H(n) # "poor"
  BY <1>3, <1>4
<1>8. \A p \in failing : \A n \in Needs(p) : H(n) # "good"
  BY <1>1, <1>3, <1>4
<1>. QED
  BY <1>5, <1>6, <1>7, <1>8 DEF tested, failing, H, Needs

-----------------------------------------------------------------------------
(* Verdicts.                                                                 *)

\* Something comes first in a finite set that is not empty.
LEMMA FirstFacts ==
  ASSUME NEW S, IsFiniteSet(S), S # {}, NEW key, \A x \in S : key[x] \in Int
  PROVE  First(S, key) \in S /\ \A y \in S : key[First(S, key)] =< key[y]
<1>. DEFINE Least(x, T) == \A y \in T : key[x] =< key[y]
            Known == {n \in Nat : \A T \in SUBSET S :
                        Cardinality(T) = n /\ T # {} => \E x \in T : Least(x, T)}
<1>1. 0 \in Known
  <2>. SUFFICES ASSUME NEW T \in SUBSET S, Cardinality(T) = 0 PROVE T = {}
    OBVIOUS
  <2>1. IsFiniteSet(T)
    BY FS_Subset
  <2>. QED
    BY <2>1, FS_EmptySet
<1>2. ASSUME NEW n \in Nat, n \in Known PROVE n + 1 \in Known
  <2>. SUFFICES ASSUME NEW T \in SUBSET S, Cardinality(T) = n + 1, T # {}
                PROVE  \E x \in T : Least(x, T)
    OBVIOUS
  <2>1. PICK x \in T : TRUE
    OBVIOUS
  <2>. DEFINE U == T \ {x}
  <2>2. Cardinality(U) = n
    <3>1. IsFiniteSet(T)
      BY FS_Subset
    <3>2. Cardinality(U) = (n + 1) - 1
      BY <3>1, FS_RemoveElement
    <3>. QED
      BY <3>2
  <2>3. U \in SUBSET S /\ T = U \cup {x} /\ x \in S
    OBVIOUS
  <2>. HIDE DEF U
  <2>4. CASE U = {}
    BY <2>3, <2>4
  <2>5. CASE U # {}
    <3>1. PICK m \in U : Least(m, U)
      BY <1>2, <2>2, <2>3, <2>5
    <3>2. CASE key[x] =< key[m]
      <4>1. Least(x, T)
        BY <2>3, <3>1, <3>2
      <4>. QED
        BY <4>1
    <3>3. CASE key[m] =< key[x]
      <4>1. Least(m, T)
        BY <2>3, <3>1, <3>3
      <4>. QED
        BY <2>3, <4>1
    <3>4. key[x] \in Int /\ key[m] \in Int
      BY <2>3
    <3>. QED
      BY <3>2, <3>3, <3>4
  <2>. QED
    BY <2>4, <2>5
<1>3. Cardinality(S) \in Nat
  BY FS_CardinalityType
<1>4. Cardinality(S) \in Known
  <2>. HIDE DEF Known
  <2>. QED
    BY <1>1, <1>2, <1>3, Induction
<1>5. \E x \in S : Least(x, S)
  BY <1>4
<1>. QED
  BY <1>5 DEF First

\* Events, or intervals.
Intervals(C) == IsFiniteSet(C) /\ \A c \in C : c.lo \in Int /\ c.hi \in Int

Meet(c, d) == c.lo =< d.hi /\ d.lo =< c.hi

\* After n turns of Correlate(): the groups hold what is not left, and what is in
\* different groups, or in a closed one and left, does not meet.
JoinInv(C, s, n) ==
  /\ s \in [left : SUBSET C, closed : SUBSET SUBSET C, latest : SUBSET C]
  /\ Cardinality(s.left) = Cardinality(C) - n
  /\ \A c \in C \ s.left : c \in s.latest \/ \E g \in s.closed : c \in g
  /\ \A g \in s.closed : \A d \in g, x \in s.left \cup s.latest : d.hi < x.lo
  /\ \A g, h \in s.closed : g # h => \A c \in g, d \in h : ~Meet(c, d)

\* A turn of Correlate() keeps it.
LEMMA JoinTurn ==
  ASSUME NEW C, Intervals(C), NEW s, NEW n \in Nat, n < Cardinality(C), JoinInv(C, s, n)
  PROVE  JoinInv(C, Join(C, s), n + 1)
<1>. DEFINE Lo == [d \in C |-> d.lo]
            c == First(s.left, Lo)
            joins == \E d \in s.latest : c.lo =< d.hi
            t == Join(C, s)
<1>1. /\ s.left \subseteq C /\ s.closed \subseteq SUBSET C /\ s.latest \subseteq C
      /\ Cardinality(s.left) = Cardinality(C) - n
      /\ \A x \in C \ s.left : x \in s.latest \/ \E g \in s.closed : x \in g
      /\ \A g \in s.closed : \A d \in g, x \in s.left \cup s.latest : d.hi < x.lo
      /\ \A g, h \in s.closed : g # h => \A x \in g, d \in h : ~Meet(x, d)
  BY DEF JoinInv
<1>2. IsFiniteSet(C) /\ Cardinality(C) \in Nat /\ \A x \in C : x.lo \in Int /\ x.hi \in Int
  BY FS_CardinalityType DEF Intervals
<1>3. IsFiniteSet(s.left) /\ s.left # {}
  <2>1. IsFiniteSet(s.left)
    BY <1>1, <1>2, FS_Subset
  <2>2. Cardinality(s.left) # 0
    <3>. DEFINE N == Cardinality(C)
    <3>1. N \in Nat /\ n < N /\ Cardinality(s.left) = N - n
      BY <1>1, <1>2
    <3>. HIDE DEF N
    <3>. QED
      BY <3>1
  <2>3. s.left # {}
    BY <2>2, FS_EmptySet
  <2>. QED
    BY <2>1, <2>3
<1>4. c \in s.left /\ \A x \in s.left : c.lo =< x.lo
  <2>1. \A x \in s.left : Lo[x] = x.lo /\ Lo[x] \in Int
    BY <1>1, <1>2
  <2>. HIDE DEF Lo
  <2>2. c \in s.left /\ \A x \in s.left : Lo[c] =< Lo[x]
    BY <1>3, <2>1, FirstFacts
  <2>. QED
    BY <2>1, <2>2
<1>5. t = [left |-> s.left \ {c},
           closed |-> s.closed \cup (IF joins THEN {} ELSE {s.latest} \ {{}}),
           latest |-> {c} \cup (IF joins THEN s.latest ELSE {})]
  BY DEF Join
<1>. HIDE DEF c, t
<1>6. Cardinality(s.left \ {c}) = Cardinality(C) - (n + 1)
  <2>1. Cardinality(s.left \ {c}) = Cardinality(s.left) - 1
    BY <1>3, <1>4, FS_RemoveElement
  <2>. QED
    BY <1>1, <1>2, <2>1
<1>7. c \in C /\ c.lo \in Int
  BY <1>1, <1>2, <1>4
<1>8. CASE joins
  <2>1. t.left = s.left \ {c} /\ t.closed = s.closed /\ t.latest = {c} \cup s.latest
    BY <1>5, <1>8
  <2>2. t \in [left : SUBSET C, closed : SUBSET SUBSET C, latest : SUBSET C]
    BY <1>1, <1>5, <1>7, <1>8
  <2>3. \A g \in t.closed : \A d \in g, x \in t.left \cup t.latest : d.hi < x.lo
    BY <1>1, <1>4, <2>1
  <2>4. \A x \in C \ t.left : x \in t.latest \/ \E g \in t.closed : x \in g
    BY <1>1, <2>1
  <2>. QED
    BY <1>1, <1>6, <2>1, <2>2, <2>3, <2>4 DEF JoinInv, t
<1>9. CASE ~joins
  <2>1. t.left = s.left \ {c} /\ t.closed = s.closed \cup ({s.latest} \ {{}}) /\ t.latest = {c}
    BY <1>5, <1>9
  <2>2. t \in [left : SUBSET C, closed : SUBSET SUBSET C, latest : SUBSET C]
    BY <1>1, <1>5, <1>7, <1>9
  <2>3. ASSUME NEW d \in s.latest, NEW x \in s.left PROVE d.hi < x.lo
    <3>1. d.hi < c.lo /\ c.lo =< x.lo /\ d.hi \in Int /\ x.lo \in Int
      BY <1>1, <1>2, <1>4, <1>7, <1>9
    <3>. QED
      BY <1>7, <3>1
  <2>4. ASSUME NEW g \in t.closed, NEW d \in g, NEW x \in t.left \cup t.latest PROVE d.hi < x.lo
    <3>1. x \in s.left
      BY <1>4, <2>1
    <3>. QED
      BY <1>1, <2>1, <2>3, <3>1
  <2>5. ASSUME NEW g \in s.closed, NEW x \in g, NEW d \in s.latest PROVE ~Meet(x, d) /\ ~Meet(d, x)
    <3>1. x.hi < d.lo /\ x.hi \in Int /\ d.lo \in Int
      BY <1>1, <1>2
    <3>. QED
      BY <3>1 DEF Meet
  <2>6. ASSUME NEW g \in t.closed, NEW h \in t.closed, g # h, NEW x \in g, NEW d \in h
        PROVE  ~Meet(x, d)
    <3>1. CASE g \in s.closed /\ h \in s.closed
      BY <1>1, <2>6, <3>1
    <3>2. CASE g \in s.closed /\ h = s.latest
      BY <2>5, <3>2
    <3>3. CASE g = s.latest /\ h \in s.closed
      BY <2>5, <3>3
    <3>. QED
      BY <2>1, <2>6, <3>1, <3>2, <3>3
  <2>7. \A x \in C \ t.left : x \in t.latest \/ \E g \in t.closed : x \in g
    <3>. SUFFICES ASSUME NEW x \in C \ s.left, x \in s.latest PROVE \E g \in t.closed : x \in g
      BY <1>1, <2>1
    <3>1. s.latest \in t.closed
      BY <2>1
    <3>. QED
      BY <3>1
  <2>. QED
    BY <1>6, <2>1, <2>2, <2>4, <2>6, <2>7 DEF JoinInv, t
<1>. QED
  BY <1>8, <1>9

\* Events that meet are grouped together, and groups are made of nothing else.
LEMMA GroupFacts ==
  ASSUME NEW C, Intervals(C)
  PROVE  /\ \A c, d \in C : Meet(c, d) => \E g \in Groups(C) : {c, d} \subseteq g
         /\ Groups(C) \subseteq SUBSET C
<1>. DEFINE N == Cardinality(C)
            All == [left : SUBSET C, closed : SUBSET SUBSET C, latest : SUBSET C]
            first == [left |-> C, closed |-> {}, latest |-> {}]
            kinds == [n \in 0..N |-> {s \in All : JoinInv(C, s, n)}]
            step == [n \in 1..N |-> [s \in All |-> Join(C, s)]]
            Good(f) == f = [n \in 0..N |-> IF n = 0 THEN first ELSE Join(C, f[n - 1])]
            sweep == CHOOSE f : Good(f)
<1>1. IsFiniteSet(C) /\ N \in Nat /\ \A x \in C : x.lo \in Int /\ x.hi \in Int
  BY FS_CardinalityType DEF Intervals
<1>2. Groups(C) = sweep[N].closed \cup ({sweep[N].latest} \ {{}})
  BY DEF Groups
<1>3. first \in All /\ JoinInv(C, first, 0)
  BY <1>1 DEF JoinInv
<1>4. \A n \in Nat, s \in All : n < N /\ JoinInv(C, s, n) =>
        Join(C, s) \in All /\ JoinInv(C, Join(C, s), n + 1)
  <2>. SUFFICES ASSUME NEW n \in Nat, NEW s \in All, n < N, JoinInv(C, s, n)
                PROVE  Join(C, s) \in All /\ JoinInv(C, Join(C, s), n + 1)
    OBVIOUS
  <2>1. JoinInv(C, Join(C, s), n + 1)
    BY JoinTurn
  <2>. QED
    BY <2>1 DEF JoinInv
<1>. HIDE DEF N, All, first
<1>5. Stepwise(N, kinds, first, step, All)
  <2>1. first \in kinds[0]
    BY <1>1, <1>3
  <2>2. ASSUME NEW k \in 1..N, NEW s \in kinds[k - 1] PROVE step[k][s] \in kinds[k]
    <3>. DEFINE j == k - 1
    <3>1. j \in Nat /\ j \in 0..N /\ k \in 0..N /\ j + 1 = k /\ j < N
      BY <1>1
    <3>. HIDE DEF j
    <3>2. s \in kinds[j]
      BY <2>2 DEF j
    <3>3. s \in All /\ JoinInv(C, s, j)
      BY <3>1, <3>2
    <3>4. Join(C, s) \in All /\ JoinInv(C, Join(C, s), k)
      BY <1>4, <3>1, <3>3
    <3>5. step[k][s] = Join(C, s)
      BY <3>3
    <3>. QED
      BY <3>1, <3>4, <3>5
  <2>. QED
    BY <1>1, <2>1, <2>2 DEF Stepwise
<1>6. PICK f : States(f, N, kinds, first, step, All)
  <2>. HIDE DEF kinds, step
  <2>. QED
    BY <1>5, Recursion
<1>7. Good(f)
  <2>1. f = [n \in 0..N |-> f[n]] /\ f[0] = first /\ \A n \in 0..N : f[n] \in All
    BY <1>6 DEF States
  <2>2. \A n \in 1..N : f[n] = Join(C, f[n - 1])
    <3>1. \A n \in 1..N : n - 1 \in 0..N
      BY <1>1
    <3>. QED
      BY <1>6, <2>1, <3>1 DEF States
  <2>. HIDE DEF step, kinds
  <2>3. \A n \in 0..N : f[n] = IF n = 0 THEN first ELSE Join(C, f[n - 1])
    <3>1. \A n \in 0..N : n # 0 => n \in 1..N
      BY <1>1
    <3>. QED
      BY <2>1, <2>2, <3>1
  <2>. QED
    BY <2>1, <2>3
<1>8. Good(sweep)
  <2>. HIDE DEF Good
  <2>. QED
    BY <1>7
<1>. HIDE DEF sweep
<1>9. sweep[0] = first /\ \A n \in 1..N : sweep[n] = Join(C, sweep[n - 1])
  <2>1. \A n \in 1..N : n \in 0..N /\ n # 0
    BY <1>1
  <2>. QED
    BY <1>1, <1>8, <2>1
<1>. HIDE DEF kinds, step, Good
<1>10. sweep[N] \in All /\ JoinInv(C, sweep[N], N)
  <2>. DEFINE S == {n \in Nat : n =< N => sweep[n] \in All /\ JoinInv(C, sweep[n], n)}
  <2>1. 0 \in S
    BY <1>3, <1>9
  <2>2. ASSUME NEW n \in Nat, n \in S PROVE n + 1 \in S
    <3>. SUFFICES ASSUME n + 1 =< N
                  PROVE  sweep[n + 1] \in All /\ JoinInv(C, sweep[n + 1], n + 1)
      OBVIOUS
    <3>1. sweep[n] \in All /\ JoinInv(C, sweep[n], n) /\ n < N
      BY <1>1, <2>2
    <3>2. sweep[n + 1] = Join(C, sweep[n])
      BY <1>1, <1>9
    <3>. QED
      BY <1>4, <3>1, <3>2
  <2>3. Nat \subseteq S
    <3>. HIDE DEF S
    <3>. QED
      BY <2>1, <2>2, Induction
  <2>. QED
    BY <1>1, <2>3
<1>. DEFINE s == sweep[N]
<1>. HIDE DEF s
<1>11. /\ s.left \subseteq C /\ s.closed \subseteq SUBSET C /\ s.latest \subseteq C
       /\ Cardinality(s.left) = Cardinality(C) - N
       /\ \A x \in C \ s.left : x \in s.latest \/ \E g \in s.closed : x \in g
       /\ \A g \in s.closed : \A d \in g, x \in s.left \cup s.latest : d.hi < x.lo
       /\ \A g, h \in s.closed : g # h => \A x \in g, d \in h : ~Meet(x, d)
  BY <1>10 DEF JoinInv, s
<1>12. s.left = {}
  <2>1. Cardinality(s.left) = 0
    BY <1>1, <1>11 DEF N
  <2>2. IsFiniteSet(s.left)
    BY <1>1, <1>11, FS_Subset
  <2>. QED
    BY <2>1, <2>2, FS_EmptySet
<1>13. Groups(C) = s.closed \cup ({s.latest} \ {{}})
  BY <1>2 DEF s
<1>14. ASSUME NEW c \in C, NEW d \in C, Meet(c, d)
       PROVE  \E g \in Groups(C) : {c, d} \subseteq g
  <2>1. PICK g \in Groups(C) : c \in g
    BY <1>11, <1>12, <1>13
  <2>2. PICK h \in Groups(C) : d \in h
    BY <1>11, <1>12, <1>13
  <2>3. c.lo =< d.hi /\ d.lo =< c.hi /\ c.lo \in Int /\ c.hi \in Int /\ d.lo \in Int /\ d.hi \in Int
    BY <1>1, <1>14 DEF Meet
  <2>4. ASSUME g # h PROVE FALSE
    <3>1. CASE g \in s.closed /\ h \in s.closed
      BY <1>11, <1>14, <2>1, <2>2, <2>4, <3>1
    <3>2. CASE g \in s.closed /\ h = s.latest
      <4>1. c.hi < d.lo
        BY <1>11, <2>1, <2>2, <3>2
      <4>. QED
        BY <2>3, <4>1
    <3>3. CASE g = s.latest /\ h \in s.closed
      <4>1. d.hi < c.lo
        BY <1>11, <2>1, <2>2, <3>3
      <4>. QED
        BY <2>3, <4>1
    <3>. QED
      BY <1>13, <2>4, <3>1, <3>2, <3>3
  <2>. QED
    BY <2>1, <2>2, <2>4
<1>. QED
  BY <1>11, <1>13, <1>14

\* More than one agent among intervals.
LEMMA AgentCount ==
  ASSUME NEW S, IsFiniteSet(S)
  PROVE  LET count == Cardinality({c.agent : c \in S})
         IN  count \in Nat /\ (count > 1 <=> \E c, d \in S : c.agent # d.agent)
<1>. DEFINE A == {c.agent : c \in S}
            f == [c \in S |-> c.agent]
<1>1. IsFiniteSet(A)
  <2>1. f \in Surjection(S, A)
    BY DEF Surjection
  <2>. HIDE DEF f, A
  <2>. QED
    BY <2>1, FS_Surjection
<1>2. Cardinality(A) \in Nat
  BY <1>1, FS_CardinalityType
<1>3. ASSUME NEW c \in S, NEW d \in S, c.agent # d.agent PROVE Cardinality(A) > 1
  <2>1. {c.agent} \subseteq A /\ {c.agent} # A
    BY <1>3
  <2>. DEFINE B == {c.agent}
  <2>2. Cardinality(B) = 1 /\ B \in SUBSET A /\ B # A
    BY <2>1, FS_Singleton
  <2>. HIDE DEF A, B
  <2>3. Cardinality(B) =< Cardinality(A) /\ Cardinality(A) # Cardinality(B)
    BY <1>1, <2>2, FS_Subset
  <2>. QED
    BY <1>2, <2>2, <2>3
<1>4. ASSUME \A c, d \in S : c.agent = d.agent PROVE ~(Cardinality(A) > 1)
  <2>1. CASE S = {}
    <3>1. A = {}
      BY <2>1
    <3>. QED
      BY <3>1, FS_EmptySet
  <2>2. CASE S # {}
    <3>1. PICK c \in S : TRUE
      BY <2>2
    <3>2. A = {c.agent}
      BY <1>4, <3>1
    <3>3. Cardinality(A) = 1
      BY <3>2, FS_Singleton
    <3>. QED
      BY <3>3
  <2>. QED
    BY <2>1, <2>2
<1>. QED
  BY <1>2, <1>3, <1>4

\* Where an end of an interval comes in the sweep.
Key(q) == IF q.close = 0 THEN 2 * q.c.lo ELSE 2 * q.c.hi + 1
Opens(c) == [c |-> c, close |-> 0]
Closes(c) == [c |-> c, close |-> 1]

PassState(g) == [left : SUBSET Points(g), on : SUBSET g, peak : Nat]

\* After n points: the intervals that are on are those open and not closed; and the
\* peak is above one just if two agents' intervals that have been opened meet.
PassInv(g, s, n) ==
  /\ s \in PassState(g)
  /\ Cardinality(s.left) = Cardinality(Points(g)) - n
  /\ \A c \in g : c \in s.on <=> Opens(c) \notin s.left /\ Closes(c) \in s.left
  /\ \A p \in Points(g) \ s.left, q \in s.left : Key(p) =< Key(q)
  /\ \A c, d \in g : Opens(c) \notin s.left /\ Opens(d) \notin s.left =>
                     (c.agent # d.agent /\ Meet(c, d) => s.peak > 1)
  /\ s.peak > 1 => \E c, d \in g : c.agent # d.agent /\ Meet(c, d)

\* A point of the sweep keeps it.
LEMMA PassTurn ==
  ASSUME NEW g, Intervals(g), \A c \in g : c.lo =< c.hi, IsFiniteSet(Points(g)),
         NEW s, NEW n \in Nat, n < Cardinality(Points(g)), PassInv(g, s, n)
  PROVE  PassInv(g, Pass(g, s), n + 1)
<1>. DEFINE P == Points(g)
            K == [q \in P |-> IF q.close = 0 THEN 2 * q.c.lo ELSE 2 * q.c.hi + 1]
            p == First(s.left, K)
            on == IF p.close = 0 THEN s.on \cup {p.c} ELSE s.on \ {p.c}
            active == Active(on)
            t == Pass(g, s)
<1>1. /\ s.left \subseteq P /\ s.on \subseteq g /\ s.peak \in Nat
      /\ Cardinality(s.left) = Cardinality(P) - n
      /\ \A c \in g : c \in s.on <=> Opens(c) \notin s.left /\ Closes(c) \in s.left
      /\ \A x \in P \ s.left, q \in s.left : Key(x) =< Key(q)
      /\ \A c, d \in g : Opens(c) \notin s.left /\ Opens(d) \notin s.left =>
                         (c.agent # d.agent /\ Meet(c, d) => s.peak > 1)
      /\ s.peak > 1 => \E c, d \in g : c.agent # d.agent /\ Meet(c, d)
  BY DEF PassInv, PassState
<1>2. /\ IsFiniteSet(g) /\ \A c \in g : c.lo \in Int /\ c.hi \in Int /\ c.lo =< c.hi
      /\ IsFiniteSet(P) /\ Cardinality(P) \in Nat
  BY FS_CardinalityType DEF Intervals
<1>3. \A c \in g : /\ Opens(c) \in P /\ Closes(c) \in P /\ Opens(c) # Closes(c)
                   /\ Key(Opens(c)) = 2 * c.lo /\ Key(Closes(c)) = 2 * c.hi + 1
  BY DEF Points, Opens, Closes, Key
<1>4. \A q \in P : /\ q.c \in g /\ q.close \in {0, 1} /\ Key(q) \in Int /\ K[q] = Key(q)
                   /\ q.close = 0 => q = Opens(q.c)
                   /\ q.close = 1 => q = Closes(q.c)
  <2>. SUFFICES ASSUME NEW q \in P
                PROVE  /\ q.c \in g /\ q.close \in {0, 1} /\ Key(q) \in Int /\ K[q] = Key(q)
                       /\ q.close = 0 => q = Opens(q.c)
                       /\ q.close = 1 => q = Closes(q.c)
    OBVIOUS
  <2>1. q \in [c : g, close : {0, 1}]
    BY DEF Points
  <2>2. q.c \in g /\ q.close \in {0, 1} /\ q = [c |-> q.c, close |-> q.close]
    BY <2>1
  <2>3. Key(q) \in Int /\ K[q] = Key(q)
    BY <1>2, <2>2 DEF Key
  <2>. QED
    BY <2>2, <2>3 DEF Opens, Closes
<1>5. IsFiniteSet(s.left) /\ s.left # {}
  <2>. HIDE DEF P
  <2>1. IsFiniteSet(s.left)
    BY <1>1, <1>2, FS_Subset
  <2>2. Cardinality(s.left) # 0
    <3>. DEFINE N == Cardinality(P)
    <3>1. N \in Nat /\ n < N /\ Cardinality(s.left) = N - n
      BY <1>1, <1>2 DEF P
    <3>. HIDE DEF N
    <3>. QED
      BY <3>1
  <2>3. s.left # {}
    BY <2>2, FS_EmptySet
  <2>. QED
    BY <2>1, <2>3
<1>6. p \in s.left /\ \A q \in s.left : Key(p) =< Key(q)
  <2>1. \A q \in s.left : K[q] = Key(q) /\ K[q] \in Int
    BY <1>1, <1>4
  <2>. HIDE DEF K
  <2>2. p \in s.left /\ \A q \in s.left : K[p] =< K[q]
    BY <1>5, <2>1, FirstFacts
  <2>. QED
    BY <2>1, <2>2
<1>7. t = [left |-> s.left \ {p}, on |-> on,
           peak |-> IF active > s.peak THEN active ELSE s.peak]
  BY DEF Pass
<1>. HIDE DEF P, K, p, t
<1>8. p.c \in g /\ p \in P /\ p.close \in {0, 1} /\ Key(p) \in Int
  BY <1>1, <1>4, <1>6
<1>9. Cardinality(s.left \ {p}) = Cardinality(P) - (n + 1)
  <2>1. Cardinality(s.left \ {p}) = Cardinality(s.left) - 1
    BY <1>5, <1>6, FS_RemoveElement
  <2>. QED
    BY <1>1, <1>2, <2>1
<1>10. \A x \in P \ (s.left \ {p}), q \in s.left \ {p} : Key(x) =< Key(q)
  BY <1>1, <1>6
<1>11. \A c \in g : c \in on <=> Opens(c) \notin s.left \ {p} /\ Closes(c) \in s.left \ {p}
  <2>1. \A c, d \in g : /\ Opens(c) = Opens(d) <=> c = d
                        /\ Closes(c) = Closes(d) <=> c = d
                        /\ Opens(c) # Closes(d)
    BY DEF Opens, Closes
  <2>2. CASE p.close = 0
    <3>1. p = Opens(p.c) /\ on = s.on \cup {p.c}
      BY <1>4, <1>8, <2>2
    <3>2. Closes(p.c) \in s.left
      <4>. SUFFICES ASSUME Closes(p.c) \notin s.left PROVE FALSE
        OBVIOUS
      <4>1. Key(Closes(p.c)) =< Key(p)
        BY <1>1, <1>3, <1>6, <1>8
      <4>2. 2 * p.c.hi + 1 =< 2 * p.c.lo
        BY <1>3, <1>8, <3>1, <4>1
      <4>. QED
        BY <1>2, <1>8, <4>2
    <3>. HIDE DEF on
    <3>3. ASSUME NEW c \in g
          PROVE  c \in on <=> Opens(c) \notin s.left \ {p} /\ Closes(c) \in s.left \ {p}
      <4>1. CASE c = p.c
        BY <1>6, <1>8, <2>1, <3>1, <3>2, <4>1
      <4>2. CASE c # p.c
        <5>1. Opens(c) # p /\ Closes(c) # p
          BY <1>8, <2>1, <3>1, <4>2
        <5>. QED
          BY <1>1, <3>1, <4>2, <5>1
      <4>. QED
        BY <4>1, <4>2
    <3>. QED
      BY <3>3
  <2>3. CASE p.close = 1
    <3>1. p = Closes(p.c) /\ on = s.on \ {p.c}
      BY <1>4, <1>8, <2>3
    <3>. HIDE DEF on
    <3>2. ASSUME NEW c \in g
          PROVE  c \in on <=> Opens(c) \notin s.left \ {p} /\ Closes(c) \in s.left \ {p}
      <4>1. CASE c = p.c
        BY <3>1, <4>1
      <4>2. CASE c # p.c
        <5>1. Opens(c) # p /\ Closes(c) # p
          BY <1>8, <2>1, <3>1, <4>2
        <5>. QED
          BY <1>1, <3>1, <4>2, <5>1
      <4>. QED
        BY <4>1, <4>2
    <3>. QED
      BY <3>2
  <2>. QED
    BY <1>8, <2>2, <2>3
<1>12. on \subseteq g
  BY <1>1, <1>8
<1>. HIDE DEF on
<1>13. active \in Nat /\ (active > 1 <=> \E c, d \in on : c.agent # d.agent)
  <2>1. IsFiniteSet(on)
    BY <1>2, <1>12, FS_Subset
  <2>. QED
    BY <2>1, AgentCount DEF Active
<1>. HIDE DEF active
<1>14. /\ t.left = s.left \ {p} /\ t.on = on /\ t.peak \in Nat /\ t.peak >= s.peak /\ t.peak >= active
       /\ t.peak = s.peak \/ t.peak = active
  BY <1>1, <1>7, <1>13
<1>15. t \in PassState(g)
  BY <1>1, <1>7, <1>12, <1>13 DEF PassState, P
<1>16. ASSUME NEW c \in g, NEW d \in g, Opens(c) \notin t.left, Opens(d) \notin t.left,
              c.agent # d.agent, Meet(c, d)
       PROVE  t.peak > 1
  <2>1. CASE Opens(c) \notin s.left /\ Opens(d) \notin s.left
    BY <1>1, <1>14, <1>16, <2>1
  <2>2. ASSUME NEW x \in g, NEW y \in g, x.agent # y.agent, Meet(x, y),
               Opens(x) \notin t.left, Opens(y) = p
        PROVE  t.peak > 1
    <3>1. 2 * x.hi + 1 > Key(p)
      BY <1>2, <1>3, <2>2 DEF Meet
    <3>2. 2 * y.hi + 1 > Key(p)
      BY <1>2, <1>3, <2>2
    <3>3. ASSUME NEW z \in g, 2 * z.hi + 1 > Key(p) PROVE Closes(z) \in s.left \ {p}
      <4>1. Closes(z) \in s.left
        <5>. SUFFICES ASSUME Closes(z) \notin s.left PROVE FALSE
          OBVIOUS
        <5>1. Key(Closes(z)) =< Key(p)
          BY <1>1, <1>3, <1>6
        <5>. QED
          BY <1>2, <1>3, <1>8, <3>3, <5>1
      <4>2. Closes(z) # p
        BY <2>2 DEF Opens, Closes
      <4>. QED
        BY <4>1, <4>2
    <3>4. x \in on /\ y \in on
      BY <1>11, <1>14, <2>2, <3>1, <3>2, <3>3
    <3>5. active > 1
      BY <1>13, <2>2, <3>4
    <3>. QED
      BY <1>13, <1>14, <3>5
  <2>3. Meet(d, c)
    BY <1>16 DEF Meet
  <2>4. CASE Opens(d) = p
    BY <1>16, <2>2, <2>4
  <2>5. CASE Opens(c) = p
    BY <1>16, <2>2, <2>3, <2>5
  <2>. QED
    BY <1>14, <1>16, <2>1, <2>4, <2>5
<1>17. ASSUME t.peak > 1 PROVE \E c, d \in g : c.agent # d.agent /\ Meet(c, d)
  <2>1. CASE s.peak > 1
    BY <1>1, <2>1
  <2>2. CASE active > 1
    <3>1. PICK c \in on, d \in on : c.agent # d.agent
      BY <1>13, <2>2
    <3>2. ASSUME NEW x \in on, NEW y \in on PROVE x.lo =< y.hi
      <4>1. /\ x \in g /\ y \in g /\ Opens(x) \in P
            /\ Opens(x) \notin s.left \ {p} /\ Closes(y) \in s.left \ {p}
        BY <1>3, <1>11, <1>12
      <4>2. Key(Opens(x)) =< Key(Closes(y))
        BY <1>10, <4>1
      <4>3. 2 * x.lo =< 2 * y.hi + 1
        BY <1>3, <4>1, <4>2
      <4>. QED
        BY <1>2, <4>1, <4>3
    <3>3. Meet(c, d)
      BY <3>2 DEF Meet
    <3>. QED
      BY <1>12, <3>1, <3>3
  <2>. QED
    BY <1>14, <1>17, <2>1, <2>2
<1>. QED
  BY <1>9, <1>10, <1>11, <1>14, <1>15, <1>16, <1>17 DEF PassInv, P, t

\* The image of a finite set is finite.
LEMMA FiniteImage ==
  ASSUME NEW S, IsFiniteSet(S), NEW f, DOMAIN f = S
  PROVE  IsFiniteSet({f[x] : x \in S})
<1>. DEFINE T == {f[x] : x \in S}
            g == [x \in S |-> f[x]]
<1>1. g \in Surjection(S, T)
  BY DEF Surjection
<1>. HIDE DEF g, T
<1>2. IsFiniteSet(T)
  BY <1>1, FS_Surjection
<1>. QED
  BY <1>2 DEF T

\* Each of finitely many intervals has two ends.
LEMMA PointsFinite ==
  ASSUME NEW g, IsFiniteSet(g)
  PROVE  IsFiniteSet(Points(g))
<1>. DEFINE S == g \X {0, 1}
            f == [x \in S |-> [c |-> x[1], close |-> x[2]]]
<1>1. IsFiniteSet({0, 1})
  <2>1. IsFiniteSet({0} \cup {1})
    BY FS_Singleton, FS_Union
  <2>2. {0, 1} = {0} \cup {1}
    OBVIOUS
  <2>. QED
    BY <2>1, <2>2
<1>2. IsFiniteSet(S)
  BY <1>1, FS_Product
<1>3. Points(g) \subseteq {f[x] : x \in S}
  <2>. SUFFICES ASSUME NEW q \in Points(g) PROVE \E x \in S : f[x] = q
    OBVIOUS
  <2>1. q \in [c : g, close : {0, 1}]
    BY DEF Points
  <2>2. <<q.c, q.close>> \in S /\ q = [c |-> q.c, close |-> q.close]
    BY <2>1
  <2>3. f[<<q.c, q.close>>] = q
    BY <2>2
  <2>. QED
    BY <2>2, <2>3
<1>4. DOMAIN f = S
  OBVIOUS
<1>. HIDE DEF S, f
<1>5. IsFiniteSet({f[x] : x \in S})
  BY <1>2, <1>4, FiniteImage
<1>. QED
  BY <1>3, <1>5, FS_Subset

\* A group is simultaneous just if events of two of its agents meet.
LEMMA PeakFacts ==
  ASSUME NEW g, Intervals(g), \A c \in g : c.lo =< c.hi
  PROVE  Simultaneous(g) <=> \E c, d \in g : c.agent # d.agent /\ Meet(c, d)
<1>. DEFINE P == Points(g)
            N == Cardinality(P)
            All == PassState(g)
            first == [left |-> P, on |-> {}, peak |-> 0]
            kinds == [n \in 0..N |-> {s \in All : PassInv(g, s, n)}]
            step == [n \in 1..N |-> [s \in All |-> Pass(g, s)]]
            Good(f) == f = [n \in 0..N |-> IF n = 0 THEN first ELSE Pass(g, f[n - 1])]
            sweep == CHOOSE f : Good(f)
<1>1. IsFiniteSet(P) /\ N \in Nat
  BY PointsFinite, FS_CardinalityType DEF Intervals
<1>2. PeakAgents(g) = sweep[N].peak
  BY DEF PeakAgents
<1>3. first \in All /\ PassInv(g, first, 0)
  <2>1. \A c \in g : Opens(c) \in P /\ Closes(c) \in P
    BY DEF Points, Opens, Closes
  <2>2. first.left = P /\ first.on = {} /\ first.peak = 0 /\ first \in All
    BY DEF PassState
  <2>3. Cardinality(P) = Cardinality(P) - 0
    BY <1>1
  <2>. HIDE DEF first
  <2>. QED
    BY <2>1, <2>2, <2>3 DEF PassInv
<1>4. \A n \in Nat, s \in All : n < N /\ PassInv(g, s, n) =>
        Pass(g, s) \in All /\ PassInv(g, Pass(g, s), n + 1)
  <2>. SUFFICES ASSUME NEW n \in Nat, NEW s \in All, n < N, PassInv(g, s, n)
                PROVE  Pass(g, s) \in All /\ PassInv(g, Pass(g, s), n + 1)
    OBVIOUS
  <2>1. PassInv(g, Pass(g, s), n + 1)
    BY <1>1, PassTurn
  <2>. QED
    BY <2>1 DEF PassInv
<1>. HIDE DEF N, All, first
<1>5. Stepwise(N, kinds, first, step, All)
  <2>1. first \in kinds[0]
    BY <1>1, <1>3
  <2>2. ASSUME NEW k \in 1..N, NEW s \in kinds[k - 1] PROVE step[k][s] \in kinds[k]
    <3>. DEFINE j == k - 1
    <3>1. j \in Nat /\ j \in 0..N /\ k \in 0..N /\ j + 1 = k /\ j < N
      BY <1>1
    <3>. HIDE DEF j
    <3>2. s \in kinds[j]
      BY <2>2 DEF j
    <3>3. s \in All /\ PassInv(g, s, j)
      BY <3>1, <3>2
    <3>4. Pass(g, s) \in All /\ PassInv(g, Pass(g, s), k)
      BY <1>4, <3>1, <3>3
    <3>5. step[k][s] = Pass(g, s)
      BY <3>3
    <3>. QED
      BY <3>1, <3>4, <3>5
  <2>. QED
    BY <1>1, <2>1, <2>2 DEF Stepwise
<1>6. PICK f : States(f, N, kinds, first, step, All)
  <2>. HIDE DEF kinds, step
  <2>. QED
    BY <1>5, Recursion
<1>7. Good(f)
  <2>1. f = [n \in 0..N |-> f[n]] /\ f[0] = first /\ \A n \in 0..N : f[n] \in All
    BY <1>6 DEF States
  <2>2. \A n \in 1..N : f[n] = Pass(g, f[n - 1])
    <3>1. \A n \in 1..N : n - 1 \in 0..N
      BY <1>1
    <3>. QED
      BY <1>6, <2>1, <3>1 DEF States
  <2>. HIDE DEF step, kinds
  <2>3. \A n \in 0..N : f[n] = IF n = 0 THEN first ELSE Pass(g, f[n - 1])
    <3>1. \A n \in 0..N : n # 0 => n \in 1..N
      BY <1>1
    <3>. QED
      BY <2>1, <2>2, <3>1
  <2>. QED
    BY <2>1, <2>3
<1>8. Good(sweep)
  <2>. HIDE DEF Good
  <2>. QED
    BY <1>7
<1>. HIDE DEF sweep
<1>9. sweep[0] = first /\ \A n \in 1..N : sweep[n] = Pass(g, sweep[n - 1])
  <2>1. \A n \in 1..N : n \in 0..N /\ n # 0
    BY <1>1
  <2>. QED
    BY <1>1, <1>8, <2>1
<1>. HIDE DEF kinds, step, Good
<1>10. PassInv(g, sweep[N], N)
  <2>. DEFINE S == {n \in Nat : n =< N => sweep[n] \in All /\ PassInv(g, sweep[n], n)}
  <2>1. 0 \in S
    BY <1>3, <1>9
  <2>2. ASSUME NEW n \in Nat, n \in S PROVE n + 1 \in S
    <3>. SUFFICES ASSUME n + 1 =< N
                  PROVE  sweep[n + 1] \in All /\ PassInv(g, sweep[n + 1], n + 1)
      OBVIOUS
    <3>1. sweep[n] \in All /\ PassInv(g, sweep[n], n) /\ n < N
      BY <1>1, <2>2
    <3>2. sweep[n + 1] = Pass(g, sweep[n])
      BY <1>1, <1>9
    <3>. QED
      BY <1>4, <3>1, <3>2
  <2>3. Nat \subseteq S
    <3>. HIDE DEF S
    <3>. QED
      BY <2>1, <2>2, Induction
  <2>. QED
    BY <1>1, <2>3
<1>. DEFINE s == sweep[N]
<1>. HIDE DEF s
<1>11. /\ s.left \subseteq P /\ Cardinality(s.left) = Cardinality(P) - N
       /\ \A c, d \in g : Opens(c) \notin s.left /\ Opens(d) \notin s.left =>
                          (c.agent # d.agent /\ Meet(c, d) => s.peak > 1)
       /\ s.peak > 1 => \E c, d \in g : c.agent # d.agent /\ Meet(c, d)
  BY <1>10 DEF PassInv, PassState, s
<1>12. s.left = {}
  <2>1. Cardinality(s.left) = 0
    BY <1>1, <1>11 DEF N
  <2>2. IsFiniteSet(s.left)
    BY <1>1, <1>11, FS_Subset
  <2>. QED
    BY <2>1, <2>2, FS_EmptySet
<1>. QED
  BY <1>2, <1>11, <1>12 DEF Simultaneous, s

\* A measured offset is wrong by half a round trip at the most (offset.go).
LEMMA OffsetFacts ==
  ASSUME NEW k \in Clock
  PROVE  /\ k.theta \in Int /\ OffsetUS(k) \in Int /\ HalfUncUS(k) \in Nat
         /\ k.theta - HalfUncUS(k) =< OffsetUS(k) /\ OffsetUS(k) =< k.theta + HalfUncUS(k)
<1>1. k.theta \in Int /\ k.out \in Nat /\ k.back \in Nat
  BY ClockAssumption
<1>2. ASSUME NEW theta \in Int, NEW out \in Nat, NEW back \in Nat
      PROVE  LET off == Halved((out + theta) + (out + theta - (out + back)))
                 half == (out + back + 1) \div 2
             IN  /\ off \in Int /\ half \in Nat
                 /\ theta - half =< off /\ off =< theta + half
  <2>. DEFINE x == (out + theta) + (out + theta - (out + back))
              half == (out + back + 1) \div 2
  <2>1. x \in Int /\ x = 2 * theta + out - back
    OBVIOUS
  <2>2. half \in Nat /\ 2 * half >= out + back
    OBVIOUS
  <2>. HIDE DEF x, half
  <2>3. /\ Halved(x) \in Int
        /\ x >= 0 => 2 * Halved(x) =< x /\ x =< 2 * Halved(x) + 1
        /\ x < 0 => x =< 2 * Halved(x) /\ 2 * Halved(x) =< x + 1
    <3>1. CASE x < 0
      <4>. DEFINE y == -x
      <4>1. y \in Nat /\ y > 0 /\ x = -y
        BY <2>1, <3>1
      <4>2. Halved(x) = -(y \div 2)
        BY <3>1 DEF Halved
      <4>. HIDE DEF y
      <4>. QED
        BY <4>1, <4>2
    <3>2. CASE ~(x < 0)
      <4>1. Halved(x) = x \div 2
        BY <3>2 DEF Halved
      <4>. QED
        BY <2>1, <3>2, <4>1
    <3>. QED
      BY <3>1, <3>2
  <2>. DEFINE h == Halved(x)
  <2>. HIDE DEF h
  <2>4. h \in Int /\ 2 * h >= x - 1 /\ 2 * h =< x + 1
    BY <2>1, <2>3 DEF h
  <2>5. 2 * (theta - half) =< 2 * h + 1 /\ 2 * h =< 2 * (theta + half) + 1
    BY <2>1, <2>2, <2>4
  <2>6. theta - half =< h /\ h =< theta + half
    BY <2>2, <2>4, <2>5
  <2>. QED
    BY <2>2, <2>4, <2>6 DEF h, x, half
<1>. QED
  BY <1>1, <1>2 DEF OffsetUS, HalfUncUS, RTTus

\* A run of losses starts and ends with samples of its path.
LEMMA RunFacts ==
  ASSUME NEW path, NEW lost
  PROVE  \A r \in Runs(path, lost) : r \in path \X path /\ r[1] =< r[2]
  BY DEF Runs

\* Of what an event is made.
LEMMA DetectedFacts ==
  ASSUME NEW a, NEW k, NEW target, NEW e \in DetectEvents(a, k, target)
  PROVE  \E n \in rows[a], r \in rows[a] \X rows[a] :
           /\ r[1] =< r[2]
           /\ e = [agent |-> a, dst |-> target[a][n],
                   start |-> Period * r[1] + k.theta, end |-> Period * r[2] + k.theta]
<1>. DEFINE Probes(dst) == {n \in rows[a] : target[a][n] = dst}
            lost == {n \in rows[a] : made[a][n]}
<1>1. PICK n \in rows[a] :
        e \in {[agent |-> a, dst |-> target[a][n], start |-> Period * r[1] + k.theta,
               end |-> Period * r[2] + k.theta] : r \in Runs(Probes(target[a][n]), lost)}
  BY DEF DetectEvents
<1>2. PICK r \in Runs(Probes(target[a][n]), lost) :
        e = [agent |-> a, dst |-> target[a][n],
             start |-> Period * r[1] + k.theta, end |-> Period * r[2] + k.theta]
  BY <1>1
<1>3. r \in Probes(target[a][n]) \X Probes(target[a][n]) /\ r[1] =< r[2]
  BY RunFacts
<1>. QED
  BY <1>2, <1>3

\* What an event's interval covers, and by how much it is too wide.
LEMMA CorrectedFacts ==
  ASSUME NEW a \in Agent, rows[a] \subseteq Nat, NEW k \in Clock, NEW target,
         NEW e \in DetectEvents(a, k, target)
  PROVE  LET c == Corrected(e, k)
             w == 2 * HalfUncUS(k)
         IN  /\ e.agent = a /\ c.agent = a
             /\ e.start \in Int /\ e.end \in Int /\ e.start =< e.end
             /\ c.lo \in Int /\ c.hi \in Int /\ c.lo =< c.hi
             /\ e.start - k.theta - w =< c.lo /\ c.lo =< e.start - k.theta
             /\ e.end - k.theta =< c.hi /\ c.hi =< e.end - k.theta + w
<1>1. /\ k.theta \in Int /\ OffsetUS(k) \in Int /\ HalfUncUS(k) \in Nat
      /\ k.theta - HalfUncUS(k) =< OffsetUS(k) /\ OffsetUS(k) =< k.theta + HalfUncUS(k)
  BY OffsetFacts
<1>2. PICK n \in rows[a], r \in rows[a] \X rows[a] :
        /\ r[1] =< r[2]
        /\ e = [agent |-> a, dst |-> target[a][n],
                start |-> Period * r[1] + k.theta, end |-> Period * r[2] + k.theta]
  BY DetectedFacts
<1>3. r[1] \in Nat /\ r[2] \in Nat /\ r[1] =< r[2] /\ Period \in Nat
  BY <1>2, ClockAssumption
<1>4. ASSUME NEW x \in Nat, NEW y \in Nat, x =< y, NEW m \in Nat
      PROVE  m * x \in Nat /\ m * y \in Nat /\ m * x =< m * y
  <2>1. m * y = m * x + m * (y - x) /\ m * (y - x) \in Nat
    BY <1>4
  <2>. QED
    BY <2>1
<1>5. /\ Period * r[1] \in Nat /\ Period * r[2] \in Nat /\ Period * r[1] =< Period * r[2]
  BY <1>3, <1>4
<1>6. /\ e.agent = a /\ e.start = Period * r[1] + k.theta /\ e.end = Period * r[2] + k.theta
  BY <1>2
<1>7. e.start \in Int /\ e.end \in Int /\ e.start =< e.end
  BY <1>1, <1>5, <1>6
<1>8. /\ Corrected(e, k).agent = e.agent
      /\ Corrected(e, k).lo = e.start - OffsetUS(k) - HalfUncUS(k)
      /\ Corrected(e, k).hi = e.end - OffsetUS(k) + HalfUncUS(k)
  BY DEF Corrected
<1>. QED
  BY <1>1, <1>6, <1>7, <1>8

\* Finitely many samples have finitely many runs of losses.
LEMMA DetectedFinite ==
  ASSUME NEW a, IsFiniteSet(rows[a]), NEW k, NEW target
  PROVE  IsFiniteSet(DetectEvents(a, k, target))
<1>. DEFINE S == rows[a] \X (rows[a] \X rows[a])
            Made(n, r) == [agent |-> a, dst |-> target[a][n],
                           start |-> Period * r[1] + k.theta, end |-> Period * r[2] + k.theta]
            f == [x \in S |-> Made(x[1], x[2])]
<1>1. IsFiniteSet(S) /\ DOMAIN f = S
  <2>1. IsFiniteSet(rows[a] \X rows[a])
    BY FS_Product
  <2>. QED
    BY <2>1, FS_Product
<1>2. DetectEvents(a, k, target) \subseteq {f[x] : x \in S}
  <2>. SUFFICES ASSUME NEW e \in DetectEvents(a, k, target) PROVE \E x \in S : e = f[x]
    OBVIOUS
  <2>1. PICK n \in rows[a], r \in rows[a] \X rows[a] : e = Made(n, r)
    BY DetectedFacts
  <2>. HIDE DEF Made
  <2>2. <<n, r>> \in S /\ f[<<n, r>>] = Made(n, r)
    OBVIOUS
  <2>. QED
    BY <2>1, <2>2
<1>. HIDE DEF S, f
<1>3. IsFiniteSet({f[x] : x \in S})
  BY <1>1, FiniteImage
<1>. QED
  BY <1>2, <1>3, FS_Subset

\* The larger of two numbers, and of zero.
LEMMA LargestOfThree ==
  ASSUME NEW x \in Int, NEW y \in Int
  PROVE  LET m == Max({0, x, y})
         IN  m \in Int /\ 0 =< m /\ x =< m /\ y =< m /\ (m = 0 \/ m = x \/ m = y)
<1>1. \E m \in {0, x, y} : \A z \in {0, x, y} : m >= z
  <2>1. CASE 0 >= x /\ 0 >= y
    BY <2>1
  <2>2. CASE x >= 0 /\ x >= y
    BY <2>2
  <2>3. CASE y >= 0 /\ y >= x
    BY <2>3
  <2>. QED
    BY <2>1, <2>2, <2>3
<1>. DEFINE m == Max({0, x, y})
<1>2. m \in {0, x, y} /\ \A z \in {0, x, y} : m >= z
  BY <1>1 DEF Max
<1>. HIDE DEF m
<1>3. m \in Int /\ m >= 0 /\ m >= x /\ m >= y /\ (m = 0 \/ m = x \/ m = y)
  BY <1>2
<1>. QED
  BY <1>3 DEF m

\* Whatever finite sets of samples are stored, and whatever the clocks, the verdicts
\* are sound (Correlate(), MeasureOffset()).
LEMMA VerdictHolds ==
  ASSUME \A a \in Agent : rows[a] \subseteq Nat /\ IsFiniteSet(rows[a])
  PROVE  VerdictSound
<1>. SUFFICES ASSUME NEW target \in Targets, NEW clock \in [Agent -> Clock]
              PROVE  LET Events == UNION {DetectEvents(a, clock[a], target) : a \in Agent}
                         In(e) == Corrected(e, clock[e.agent])
                         From(e) == e.start - clock[e.agent].theta
                         To(e) == e.end - clock[e.agent].theta
                         groups == Groups({In(e) : e \in Events})
                         Apart(e, f) == Max({0, From(e) - To(f), From(f) - To(e)})
                     IN  /\ \A e, f \in Events :
                              e.agent # f.agent /\ Apart(e, f) = 0
                                => \E g \in groups : {In(e), In(f)} \subseteq g /\ Simultaneous(g)
                         /\ \A g \in groups :
                              Simultaneous(g) => \E e, f \in Events :
                                /\ e.agent # f.agent /\ {In(e), In(f)} \subseteq g
                                /\ Apart(e, f) =< 2 * (HalfUncUS(clock[e.agent]) + HalfUncUS(clock[f.agent]))
  BY DEF VerdictSound
<1>. DEFINE Events == UNION {DetectEvents(a, clock[a], target) : a \in Agent}
            In(e) == Corrected(e, clock[e.agent])
            From(e) == e.start - clock[e.agent].theta
            To(e) == e.end - clock[e.agent].theta
            C == {In(e) : e \in Events}
            groups == Groups(C)
            Apart(e, f) == Max({0, From(e) - To(f), From(f) - To(e)})
            W(e) == HalfUncUS(clock[e.agent])
<1>1. ASSUME NEW e \in Events
      PROVE  /\ From(e) \in Int /\ To(e) \in Int /\ W(e) \in Nat
             /\ In(e).agent = e.agent /\ In(e).lo \in Int /\ In(e).hi \in Int /\ In(e).lo =< In(e).hi
             /\ From(e) - 2 * W(e) =< In(e).lo /\ In(e).lo =< From(e)
             /\ To(e) =< In(e).hi /\ In(e).hi =< To(e) + 2 * W(e)
  <2>1. PICK a \in Agent : e \in DetectEvents(a, clock[a], target)
    OBVIOUS
  <2>. DEFINE k == clock[a]
  <2>2. k \in Clock /\ e \in DetectEvents(a, k, target)
    BY <2>1
  <2>. HIDE DEF k
  <2>3. LET c == Corrected(e, k)
            w == 2 * HalfUncUS(k)
        IN  /\ e.agent = a /\ c.agent = a
            /\ e.start \in Int /\ e.end \in Int /\ e.start =< e.end
            /\ c.lo \in Int /\ c.hi \in Int /\ c.lo =< c.hi
            /\ e.start - k.theta - w =< c.lo /\ c.lo =< e.start - k.theta
            /\ e.end - k.theta =< c.hi /\ c.hi =< e.end - k.theta + w
    BY <2>2, CorrectedFacts
  <2>4. k.theta \in Int /\ HalfUncUS(k) \in Nat
    BY <2>2, OffsetFacts
  <2>5. clock[e.agent] = k
    BY <2>3 DEF k
  <2>. QED
    BY <2>3, <2>4, <2>5
<1>2. IsFiniteSet(Events)
  <2>. DEFINE d == [a \in Agent |-> DetectEvents(a, clock[a], target)]
              D == {d[a] : a \in Agent}
  <2>1. DOMAIN d = Agent /\ \A a \in Agent : IsFiniteSet(d[a])
    BY DetectedFinite
  <2>2. Events = UNION D
    OBVIOUS
  <2>. HIDE DEF d, Events
  <2>3. IsFiniteSet(D)
    BY <2>1, AgentAssumption, FiniteImage
  <2>4. \A T \in D : IsFiniteSet(T)
    BY <2>1
  <2>. HIDE DEF D
  <2>. QED
    BY <2>2, <2>3, <2>4, FS_UNION
<1>. HIDE DEF Events, In, From, To, W
<1>3. Intervals(C)
  <2>. DEFINE f == [e \in Events |-> In(e)]
  <2>1. C = {f[e] : e \in Events} /\ DOMAIN f = Events
    OBVIOUS
  <2>. HIDE DEF f
  <2>2. IsFiniteSet(C)
    BY <1>2, <2>1, FiniteImage
  <2>3. \A c \in C : c.lo \in Int /\ c.hi \in Int
    BY <1>1
  <2>. QED
    BY <2>2, <2>3 DEF Intervals
<1>4. /\ \A c, d \in C : Meet(c, d) => \E g \in groups : {c, d} \subseteq g
      /\ groups \subseteq SUBSET C
  BY <1>3, GroupFacts
<1>5. \A c \in C : c.lo =< c.hi /\ \E e \in Events : c = In(e)
  BY <1>1
<1>6. \A g \in groups : Simultaneous(g) <=> \E c, d \in g : c.agent # d.agent /\ Meet(c, d)
  <2>. SUFFICES ASSUME NEW g \in groups
                PROVE  Simultaneous(g) <=> \E c, d \in g : c.agent # d.agent /\ Meet(c, d)
    OBVIOUS
  <2>1. g \in SUBSET C
    BY <1>4
  <2>. HIDE DEF C, groups
  <2>2. Intervals(g)
    BY <1>3, <2>1, FS_Subset DEF Intervals
  <2>. QED
    BY <1>5, <2>1, <2>2, PeakFacts
<1>7. ASSUME NEW e \in Events, NEW f \in Events
      PROVE  /\ Apart(e, f) \in Int /\ From(e) - To(f) =< Apart(e, f) /\ From(f) - To(e) =< Apart(e, f)
             /\ Apart(e, f) = 0 \/ Apart(e, f) = From(e) - To(f) \/ Apart(e, f) = From(f) - To(e)
  <2>1. From(e) - To(f) \in Int /\ From(f) - To(e) \in Int
    BY <1>1
  <2>. QED
    BY <2>1, LargestOfThree
<1>. HIDE DEF C, groups, Apart
<1>8. ASSUME NEW e \in Events, NEW f \in Events, e.agent # f.agent, Apart(e, f) = 0
      PROVE  \E g \in groups : {In(e), In(f)} \subseteq g /\ Simultaneous(g)
  <2>1. From(e) =< To(f) /\ From(f) =< To(e)
    BY <1>1, <1>7, <1>8
  <2>2. Meet(In(e), In(f))
    BY <1>1, <2>1 DEF Meet
  <2>3. In(e) \in C /\ In(f) \in C
    BY DEF C
  <2>4. PICK g \in groups : {In(e), In(f)} \subseteq g
    BY <1>4, <2>2, <2>3
  <2>5. In(e).agent # In(f).agent
    BY <1>1, <1>8
  <2>6. Simultaneous(g)
    BY <1>6, <2>2, <2>4, <2>5
  <2>. QED
    BY <2>4, <2>6
<1>9. ASSUME NEW g \in groups, Simultaneous(g)
      PROVE  \E e, f \in Events : /\ e.agent # f.agent /\ {In(e), In(f)} \subseteq g
                                  /\ Apart(e, f) =< 2 * (W(e) + W(f))
  <2>1. PICK c \in g, d \in g : c.agent # d.agent /\ Meet(c, d)
    BY <1>6, <1>9
  <2>2. c \in C /\ d \in C
    BY <1>4
  <2>3. PICK e \in Events : c = In(e)
    BY <1>5, <2>2
  <2>4. PICK f \in Events : d = In(f)
    BY <1>5, <2>2
  <2>5. e.agent # f.agent
    BY <1>1, <2>1, <2>3, <2>4
  <2>6. In(e).lo =< In(f).hi /\ In(f).lo =< In(e).hi
    BY <2>1, <2>3, <2>4 DEF Meet
  <2>7. /\ From(e) - To(f) =< 2 * (W(e) + W(f))
        /\ From(f) - To(e) =< 2 * (W(e) + W(f))
        /\ 0 =< 2 * (W(e) + W(f))
    BY <1>1, <2>6
  <2>8. Apart(e, f) =< 2 * (W(e) + W(f))
    BY <1>7, <2>7
  <2>. QED
    BY <2>1, <2>3, <2>4, <2>5, <2>8
<1>. QED
  BY <1>8, <1>9 DEF Events, In, From, To, C, groups, Apart, W

-----------------------------------------------------------------------------
(* What holds of the program at all times.                                   *)

\* The database of an agent never numbers more samples than its runner takes.
LEMMA MadeBounded == Spec => [](\A a \in Agent : Len(made[a]) =< MaxSamples[a])
<1>. DEFINE Bounded == \A a \in Agent : Len(made[a]) =< MaxSamples[a]
<1>1. Init => Bounded
  <2>. SUFFICES ASSUME Init, NEW a \in Agent PROVE Len(made[a]) =< MaxSamples[a]
    OBVIOUS
  <2>1. made[a] = <<>> /\ MaxSamples[a] \in Nat
    BY BoundAssumption DEF Init, Nothing
  <2>2. Len(<<>>) = 0
    OBVIOUS
  <2>. QED
    BY <2>1, <2>2
<1>2. ASSUME IInv, Bounded, [Next]_vars PROVE Bounded'
  <2>1. \A a \in Agent : made[a] \in Seq(BOOLEAN) /\ MaxSamples[a] \in Nat
    BY <1>2, BoundAssumption DEF IInv, TypeOK
  <2>2. ASSUME NEW a \in Agent, Tick(a) PROVE Bounded'
    <3>. SUFFICES ASSUME NEW b \in Agent PROVE Len(made'[b]) =< MaxSamples[b]
      OBVIOUS
    <3>1. PICK lost \in BOOLEAN : made' = [made EXCEPT ![a] = Append(@, lost)]
      BY <2>2 DEF Tick, Sample
    <3>2. CASE b = a
      <4>1. made'[a] = Append(made[a], lost)
        BY <1>2, <3>1 DEF IInv, TypeOK
      <4>. QED
        BY <2>1, <2>2, <3>2, <4>1 DEF Tick
    <3>3. CASE b # a
      <4>1. made'[b] = made[b]
        BY <3>1, <3>3, <1>2 DEF IInv, TypeOK
      <4>. QED
        BY <1>2, <4>1
    <3>. QED
      BY <3>2, <3>3
  <2>3. ASSUME NEW a \in Agent, NEW c \in Puller, Call(a, c) PROVE UNCHANGED made
    BY <2>3 DEF Call, ReadCursor, GetFails, Get, Upsert, WriteFails, Finish
  <2>4. ASSUME Crash \/ UNCHANGED vars PROVE UNCHANGED made
    BY <2>4 DEF Crash, vars, log
  <2>5. UNCHANGED made => Bounded'
    BY <1>2
  <2>. QED
    BY <1>2, <2>2, <2>3, <2>4, <2>5 DEF Next
<1>. HIDE DEF Bounded
<1>3. Spec => []Bounded
  BY <1>1, <1>2, SyncInvariant, PTL DEF Spec
<1>. QED
  BY <1>3 DEF Bounded

\* So what is stored are numbers of samples its runner has taken, finitely many.
LEMMA StoredFacts ==
  ASSUME IInv, \A a \in Agent : Len(made[a]) =< MaxSamples[a]
  PROVE  \A a \in Agent : rows[a] \subseteq 1..MaxSamples[a] /\ rows[a] \subseteq Nat
                          /\ IsFiniteSet(rows[a])
<1>. SUFFICES ASSUME NEW a \in Agent
              PROVE  rows[a] \subseteq 1..MaxSamples[a] /\ rows[a] \subseteq Nat
                     /\ IsFiniteSet(rows[a])
  OBVIOUS
<1>1. PICK m \in Nat : Held(a, m)
  BY DEF IInv
<1>2. m =< MaxSamples[a] /\ rows[a] = 1..m /\ MaxSamples[a] \in Nat
  <2>1. Len(made[a]) \in Nat /\ MaxSamples[a] \in Nat
    BY BoundAssumption DEF IInv, TypeOK
  <2>. QED
    BY <1>1, <2>1 DEF Held
<1>3. IsFiniteSet(1..m)
  BY FS_Interval
<1>. QED
  BY <1>2, <1>3

\* At all times, and whatever the clocks: two agents that failed at one instant are
\* in a group that says so, and a group that says so has two agents that failed no
\* further apart than the round trips of their clocks (correlate.go, offset.go).
THEOREM VerdictsSound == Spec => []VerdictSound
<1>1. IInv /\ (\A a \in Agent : Len(made[a]) =< MaxSamples[a]) => VerdictSound
  BY StoredFacts, VerdictHolds
<1>. QED
  BY <1>1, SyncInvariant, MadeBounded, PTL

\* At all times, and in every layout: the paths are shortest, and the labels point at
\* the fault (score.go, Score()).
THEOREM FaultsNamed == Spec => []FaultNamed
<1>1. IInv /\ (\A a \in Agent : Len(made[a]) =< MaxSamples[a]) => FaultNamed
  BY StoredFacts, PathsAreShortest, LabelsNameFaults
<1>. QED
  BY <1>1, SyncInvariant, MadeBounded, PTL

=============================================================================
