-------------------------- MODULE Discovery_proofs --------------------------
(***************************************************************************)
(* Theorems about peer discovery, for any number of instances and          *)
(* addresses and any time to live and delay.                               *)
(***************************************************************************)
EXTENDS Discovery, TLAPS

\* An announce in the network is no older than the last use of what it says,
\* an entry no older than that and the delay it may have had.
AgesBounded ==
  /\ \A n \in Other, a \in Addr : InUse(n, a) => usedAgo[n][a] = 0
  /\ \A d \in net : ~d.bye => usedAgo[d.from][AddressOf(d)] =< d.age
  /\ \A d \in net : ~d.bye /\ d.from \in twins
                      => d.src \in held[Self] \/ lostAgo =< d.age
  /\ \A n \in Listed : usedAgo[n][table[n].addr] =< table[n].age + MaxDelay
  /\ \A n \in Listed \cap twins : lostAgo =< table[n].age + MaxDelay

\* A listed entry has an address.
Entries == \A n \in Listed : table[n].addr \in Addr

DiscoveryInv == TypeOK /\ Entries /\ AgesBounded

LEMMA TimeFacts ==
  /\ TTL \in Nat /\ Interval \in Nat /\ Quick \in Nat /\ Announces \in Nat
  /\ MaxDelay \in Nat /\ Horizon \in Nat /\ Never \in Nat
  /\ Horizon = TTL + MaxDelay /\ Never = Horizon + 1
  BY TimeAssumption DEF Horizon, Never

LEMMA InitInv == Init => DiscoveryInv
<1>. SUFFICES ASSUME Init PROVE DiscoveryInv
  OBVIOUS
<1>1. TypeOK
  <2>1. PICK a \in Addr : held = [m \in Machine |-> {a}] /\ primary = [m \in Machine |-> a]
    BY DEF Init
  <2>2. table \in [Other -> [addr : Addr \cup {NoAddr}, age : 0..TTL]]
    BY TimeFacts DEF Init, Absent
  <2>3. usedAgo \in [Other -> [Addr -> 0..Never]]
    BY TimeFacts DEF Init
  <2>4. held \in [Machine -> (SUBSET Addr) \ {{}}]
    BY <2>1
  <2>5. /\ primary \in [Machine -> Addr \cup {NoAddr}]
        /\ \A m \in Machine : primary[m] \in held[m] \cup {NoAddr}
    BY <2>1
  <2>6. phase \in [Node -> {"up", "leaving", "down"}]
    BY DEF Init
  <2>7. left \in [Other -> Nat] /\ due \in [Other -> Nat]
    BY TimeFacts DEF Init
  <2>8. net \subseteq Datagram /\ twins \subseteq Other
    BY DEF Init
  <2>9. lostAgo \in 0..Never /\ changes \in 0..MaxChanges /\ starts \in 0..MaxStarts
    BY TimeFacts, BoundAssumption DEF Init
  <2>. QED
    BY <2>2, <2>3, <2>4, <2>5, <2>6, <2>7, <2>8, <2>9 DEF TypeOK
<1>2. Listed = {}
  BY DEF Init, Listed
<1>3. \A n \in Other, a \in Addr : InUse(n, a) => usedAgo[n][a] = 0
  BY DEF Init
<1>. QED
  BY <1>1, <1>2, <1>3 DEF DiscoveryInv, Entries, AgesBounded, Init

\* What is sent now is about an address in use.
LEMMA SentFacts ==
  ASSUME TypeOK, NEW n \in Other, NEW bye \in BOOLEAN,
         NEW ip \in Addr \cup {NoAddr}
  PROVE  /\ Sent(n, bye, ip) \subseteq Datagram
         /\ \A d \in Sent(n, bye, ip) : d.from = n /\ d.bye = bye /\ d.ip = ip
                                       /\ d.src \in held[Host(n)] /\ d.age = 0
                                       /\ d.src \in Addr
<1>1. held[Host(n)] \subseteq Addr
  BY SelfAssumption DEF TypeOK, Host, Machine, Other
<1>. QED
  BY <1>1, TimeFacts DEF Sent, Datagram

LEMMA AnnounceInv ==
  ASSUME DiscoveryInv, NEW n \in Other, Announce(n)
  PROVE  DiscoveryInv'
<1>. USE DEF DiscoveryInv
<1>1. PICK ip \in AnnouncedAddress(n) : net' = net \cup Sent(n, FALSE, ip)
  BY DEF Announce
<1>2. Host(n) \in Machine /\ ip = primary[Host(n)]
  BY <1>1, SelfAssumption DEF AnnouncedAddress, TypeOK, Host, Machine, Other
<1>3. ip \in held[Host(n)] \cup {NoAddr} /\ ip \in Addr \cup {NoAddr}
  BY <1>2 DEF TypeOK
<1>4. TypeOK'
  <2>1. Pause(n) \in Nat
    BY TimeFacts DEF Pause
  <2>2. due' \in [Other -> Nat] /\ left' \in [Other -> Nat]
    BY <2>1 DEF TypeOK, Announce
  <2>3. net' \subseteq Datagram
    BY <1>1, <1>3, SentFacts DEF TypeOK
  <2>. QED
    BY <2>2, <2>3 DEF TypeOK, Announce, world
<1>5. \A d \in Sent(n, FALSE, ip) :
        /\ usedAgo[d.from][AddressOf(d)] =< d.age
        /\ d.from \in twins => d.src \in held[Self]
  <2>. SUFFICES ASSUME NEW d \in Sent(n, FALSE, ip)
                PROVE  /\ usedAgo[d.from][AddressOf(d)] =< d.age
                       /\ d.from \in twins => d.src \in held[Self]
    OBVIOUS
  <2>0. \A e \in Sent(n, FALSE, ip) :
          /\ e.from = n /\ e.ip = ip /\ e.src \in held[Host(n)] /\ e.age = 0
          /\ e.src \in Addr
    <3>1. held[Host(n)] \subseteq Addr
      BY <1>2 DEF TypeOK
    <3>. QED
      BY <3>1 DEF Sent
  <2>1. d.from = n /\ d.ip = ip /\ d.src \in held[Host(n)] /\ d.age = 0
    BY <2>0
  <2>2. AddressOf(d) \in held[Host(n)] /\ AddressOf(d) \in Addr
    <3>1. held[Host(n)] \subseteq Addr
      BY <1>2 DEF TypeOK
    <3>. QED
      BY <2>1, <1>3, <3>1 DEF AddressOf
  <2>3. phase[n] # "down"
    BY DEF Announce
  <2>4. usedAgo[n][AddressOf(d)] = 0
    BY <2>2, <2>3 DEF AgesBounded, InUse
  <2>. QED
    BY <2>1, <2>4 DEF Host
<1>6. Entries' /\ AgesBounded'
  BY <1>1, <1>5 DEF Entries, AgesBounded, Announce, world, Listed, InUse, Host, AddressOf
<1>. QED
  BY <1>4, <1>6

LEMMA SendByeInv ==
  ASSUME DiscoveryInv, NEW n \in Other, SendBye(n)
  PROVE  DiscoveryInv'
<1>. USE DEF DiscoveryInv
<1>1. /\ Sent(n, TRUE, NoAddr) \subseteq Datagram
      /\ \A d \in Sent(n, TRUE, NoAddr) : d.bye
  BY SentFacts
<1>2. phase' \in [Node -> {"up", "leaving", "down"}]
  BY DEF SendBye, TypeOK
<1>3. TypeOK'
  BY <1>1, <1>2 DEF TypeOK, SendBye, world
<1>4. \A k \in Other, a \in Addr : InUse(k, a)' => usedAgo'[k][a] = 0
  BY DEF AgesBounded, InUse, Host, SendBye, world, TypeOK, Other
<1>5. Entries' /\ AgesBounded'
  BY <1>1, <1>4 DEF Entries, AgesBounded, SendBye, world, Listed, Host, AddressOf
<1>. QED
  BY <1>3, <1>5

LEMMA LeaveInv ==
  ASSUME DiscoveryInv, NEW n \in Node, Leave(n)
  PROVE  DiscoveryInv'
<1>. USE DEF DiscoveryInv
<1>1. phase' \in [Node -> {"up", "leaving", "down"}]
  BY DEF Leave, TypeOK
<1>2. TypeOK'
  BY <1>1 DEF TypeOK, Leave, world
<1>3. \A k \in Other, a \in Addr : InUse(k, a)' => usedAgo'[k][a] = 0
  BY DEF AgesBounded, InUse, Host, Leave, world, TypeOK, Other
<1>4. Entries' /\ AgesBounded'
  BY <1>3 DEF Entries, AgesBounded, Leave, world, Listed, Host, AddressOf
<1>. QED
  BY <1>2, <1>4

\* An address that comes into use only gets younger.
LEMMA NoteUseFacts ==
  ASSUME TypeOK, NoteUse
  PROVE  /\ usedAgo' \in [Other -> [Addr -> 0..Never]]
         /\ \A k \in Other, a \in Addr :
              /\ usedAgo'[k][a] =< usedAgo[k][a]
              /\ InUse(k, a)' => usedAgo'[k][a] = 0
<1>1. \A k \in Other, a \in Addr :
        usedAgo'[k][a] = IF InUse(k, a)' THEN 0 ELSE usedAgo[k][a]
  BY DEF NoteUse
<1>2. \A k \in Other, a \in Addr : usedAgo[k][a] \in 0..Never
  BY DEF TypeOK
<1>3. usedAgo' \in [Other -> [Addr -> 0..Never]]
  BY <1>2, TimeFacts DEF NoteUse
<1>. QED
  BY <1>1, <1>2, <1>3, TimeFacts

\* What a step that receives and sends nothing must keep for the ages to stay
\* bounded.
LEMMA KeepBounds ==
  ASSUME TypeOK, TypeOK', Entries, AgesBounded, net' = net, twins' = twins,
         Listed' \subseteq Listed, \A k \in Listed' : table'[k] = table[k],
         \A k \in Other, a \in Addr : InUse(k, a)' => usedAgo'[k][a] = 0,
         \A k \in Other, a \in Addr : usedAgo'[k][a] =< usedAgo[k][a],
         lostAgo' =< lostAgo,
         \A a \in Addr : a \in held[Self] => a \in held'[Self] \/ lostAgo' = 0
  PROVE  AgesBounded'
<1>1. \A d \in net : /\ d.from \in Other /\ d.src \in Addr /\ d.age \in Nat
                     /\ AddressOf(d) \in Addr /\ AddressOf(d)' = AddressOf(d)
  BY TimeFacts DEF TypeOK, Datagram, AddressOf
<1>2. \A k \in Other, a \in Addr : usedAgo[k][a] \in Nat /\ usedAgo'[k][a] \in Nat
  BY TimeFacts DEF TypeOK
<1>3. lostAgo \in Nat /\ lostAgo' \in Nat
  BY TimeFacts DEF TypeOK
<1>4. \A k \in Listed : k \in Other /\ table[k].addr \in Addr /\ table[k].age \in Nat
  BY TimeFacts DEF Listed, Entries, TypeOK
<1>5. \A d \in net : ~d.bye => usedAgo'[d.from][AddressOf(d)] =< d.age
  BY <1>1, <1>2 DEF AgesBounded
<1>6. \A d \in net : ~d.bye /\ d.from \in twins
                      => d.src \in held'[Self] \/ lostAgo' =< d.age
  BY <1>1, <1>3 DEF AgesBounded
<1>7. \A k \in Listed' : usedAgo'[k][table'[k].addr] =< table'[k].age + MaxDelay
  BY <1>2, <1>4, TimeFacts DEF AgesBounded
<1>8. \A k \in Listed' \cap twins : lostAgo' =< table'[k].age + MaxDelay
  BY <1>3, <1>4, TimeFacts DEF AgesBounded
<1>. QED
  BY <1>1, <1>5, <1>6, <1>7, <1>8 DEF AgesBounded

LEMMA StartUpInv ==
  ASSUME DiscoveryInv, NEW n \in Node, StartUp(n)
  PROVE  DiscoveryInv'
<1>. USE DEF DiscoveryInv
<1>1. TypeOK'
  <2>1. phase' \in [Node -> {"up", "leaving", "down"}]
    BY DEF StartUp, TypeOK
  <2>2. left' \in [Other -> Nat] /\ due' \in [Other -> Nat]
    BY TimeFacts DEF StartUp, TypeOK
  <2>3. table' \in [Other -> [addr : Addr \cup {NoAddr}, age : 0..TTL]]
    BY TimeFacts DEF StartUp, TypeOK, Absent
  <2>4. starts' \in 0..MaxStarts
    BY BoundAssumption DEF StartUp, TypeOK
  <2>. QED
    BY <2>1, <2>2, <2>3, <2>4, NoteUseFacts DEF StartUp, TypeOK
<1>2. \A k \in Other : table'[k] = table[k] \/ table'[k] = Absent
  BY DEF StartUp
<1>3. Listed' \subseteq Listed /\ \A k \in Listed' : table'[k] = table[k]
  BY <1>2 DEF Listed
<1>4. Entries'
  BY <1>3 DEF Entries
<1>5. \A k \in Other, a \in Addr : InUse(k, a)' => usedAgo'[k][a] = 0
  BY NoteUseFacts DEF StartUp
<1>6. \A k \in Other, a \in Addr : usedAgo'[k][a] =< usedAgo[k][a]
  BY NoteUseFacts DEF StartUp
<1>7. /\ net' = net /\ twins' = twins /\ lostAgo' = lostAgo /\ held' = held
      /\ lostAgo =< lostAgo
  BY TimeFacts DEF StartUp, TypeOK
<1>8. AgesBounded'
  BY <1>1, <1>3, <1>5, <1>6, <1>7, KeepBounds
<1>. QED
  BY <1>1, <1>4, <1>8

LEMMA ChangeInv ==
  ASSUME DiscoveryInv, NEW m \in Machine, ChangeAddresses(m)
  PROVE  DiscoveryInv'
<1>. USE DEF DiscoveryInv
<1>1. PICK H \in (SUBSET Addr) \ {{}}, p \in Addr \cup {NoAddr} :
        /\ p \in H \cup {NoAddr}
        /\ held' = [held EXCEPT ![m] = H]
        /\ primary' = [primary EXCEPT ![m] = p]
        /\ lostAgo' = IF m = Host(Self) /\ held[m] \ H # {} THEN 0 ELSE lostAgo
  BY DEF ChangeAddresses
<1>2. Host(Self) = Self
  BY DEF Host
<1>3. TypeOK'
  <2>1. /\ held' \in [Machine -> (SUBSET Addr) \ {{}}]
        /\ primary' \in [Machine -> Addr \cup {NoAddr}]
        /\ \A k \in Machine : primary'[k] \in held'[k] \cup {NoAddr}
    BY <1>1 DEF TypeOK
  <2>2. lostAgo' \in 0..Never
    BY <1>1, TimeFacts DEF TypeOK
  <2>3. changes' \in 0..MaxChanges
    BY BoundAssumption DEF ChangeAddresses, TypeOK
  <2>. QED
    BY <2>1, <2>2, <2>3, NoteUseFacts DEF ChangeAddresses, TypeOK, loop
<1>4. Entries'
  BY DEF Entries, ChangeAddresses, Listed
<1>5. \A k \in Other, a \in Addr : InUse(k, a)' => usedAgo'[k][a] = 0
  BY NoteUseFacts DEF ChangeAddresses
<1>6. \A k \in Other, a \in Addr : usedAgo'[k][a] =< usedAgo[k][a]
  BY NoteUseFacts DEF ChangeAddresses
<1>7. lostAgo' =< lostAgo
  BY <1>1, TimeFacts DEF TypeOK
<1>8. \A a \in Addr : a \in held[Self] => a \in held'[Self] \/ lostAgo' = 0
  BY <1>1, <1>2, SelfAssumption DEF TypeOK, Machine
<1>9. net' = net /\ twins' = twins /\ table' = table /\ Listed' = Listed
  BY DEF ChangeAddresses, Listed
<1>10. AgesBounded'
  BY <1>3, <1>5, <1>6, <1>7, <1>8, <1>9, KeepBounds
<1>. QED
  BY <1>3, <1>4, <1>10

LEMMA ReceiveInv ==
  ASSUME DiscoveryInv, NEW d, Receive(d)
  PROVE  DiscoveryInv'
<1>. USE DEF DiscoveryInv
<1>1. d \in net /\ d \in Datagram /\ ~IsSelf(d)
  BY DEF Receive, TypeOK
<1>2. /\ d.from \in Other /\ d.bye \in BOOLEAN /\ d.age \in 0..MaxDelay
      /\ d.src \in Addr /\ AddressOf(d) \in Addr
  BY <1>1 DEF Datagram, AddressOf
<1>. DEFINE New == IF d.bye THEN Absent ELSE [addr |-> AddressOf(d), age |-> 0]
<1>3. table' = [table EXCEPT ![d.from] = New]
  BY DEF Receive
<1>4. New \in [addr : Addr \cup {NoAddr}, age : 0..TTL]
  BY <1>2, TimeFacts DEF Absent
<1>5. TypeOK'
  <2>1. table' \in [Other -> [addr : Addr \cup {NoAddr}, age : 0..TTL]]
    BY <1>3, <1>4 DEF TypeOK
  <2>. QED
    BY <2>1 DEF TypeOK, Receive, loop, world
<1>6. \A k \in Other : table'[k] = IF k = d.from THEN New ELSE table[k]
  BY <1>3 DEF TypeOK
<1>7. Entries'
  BY <1>2, <1>6 DEF Entries, Listed
<1>8. \A k \in Other \ {d.from} : k \in Listed' <=> k \in Listed
  BY <1>6 DEF Listed
<1>9. d.from \in Listed' => /\ ~d.bye
                            /\ table'[d.from] = [addr |-> AddressOf(d), age |-> 0]
  BY <1>2, <1>6 DEF Listed
<1>10. ~d.bye => usedAgo[d.from][AddressOf(d)] =< MaxDelay
  BY <1>1, <1>2, TimeFacts DEF AgesBounded, TypeOK
<1>11. ~d.bye /\ d.from \in twins => lostAgo =< MaxDelay
  <2>. SUFFICES ASSUME ~d.bye, d.from \in twins PROVE lostAgo =< MaxDelay
    OBVIOUS
  <2>1. Host(d.from) = Self /\ Host(Self) = Self
    BY DEF Host
  <2>2. d.src \notin held[Self]
    BY <1>1, <2>1 DEF IsSelf
  <2>3. lostAgo =< d.age /\ lostAgo \in 0..Never
    BY <1>1, <2>2 DEF AgesBounded, TypeOK
  <2>. QED
    BY <2>3, <1>2, TimeFacts
<1>12. /\ usedAgo' = usedAgo /\ lostAgo' = lostAgo /\ net' = net /\ twins' = twins
       /\ held' = held /\ phase' = phase
  BY DEF Receive, world, loop
<1>13. \A k \in Listed' : usedAgo'[k][table'[k].addr] =< table'[k].age + MaxDelay
  <2>. SUFFICES ASSUME NEW k \in Listed'
                PROVE  usedAgo'[k][table'[k].addr] =< table'[k].age + MaxDelay
    OBVIOUS
  <2>1. CASE k = d.from
    BY <2>1, <1>2, <1>9, <1>10, <1>12, TimeFacts
  <2>2. CASE k # d.from
    BY <2>2, <1>6, <1>8, <1>12 DEF AgesBounded, Listed
  <2>. QED
    BY <2>1, <2>2
<1>14. \A k \in Listed' \cap twins : lostAgo' =< table'[k].age + MaxDelay
  <2>. SUFFICES ASSUME NEW k \in Listed' \cap twins
                PROVE  lostAgo' =< table'[k].age + MaxDelay
    OBVIOUS
  <2>1. CASE k = d.from
    BY <2>1, <1>9, <1>11, <1>12, TimeFacts
  <2>2. CASE k # d.from
    BY <2>2, <1>6, <1>8, <1>12 DEF AgesBounded, Listed
  <2>. QED
    BY <2>1, <2>2
<1>15. AgesBounded'
  BY <1>12, <1>13, <1>14 DEF AgesBounded, InUse, Host, AddressOf
<1>. QED
  BY <1>5, <1>7, <1>15

LEMMA TickInv ==
  ASSUME DiscoveryInv, Tick
  PROVE  DiscoveryInv'
<1>. USE DEF DiscoveryInv
<1>1. /\ phase' = phase /\ held' = held /\ twins' = twins /\ primary' = primary
      /\ left' = left /\ changes' = changes /\ starts' = starts
  BY DEF Tick
<1>2. \A age \in 0..Never : Older(age) \in 0..Never /\ Older(age) =< age + 1
  BY TimeFacts DEF Older
<1>3. lostAgo' = Older(lostAgo) /\ lostAgo \in 0..Never
  BY DEF Tick, TypeOK
<1>4. \A k \in Other, a \in Addr :
        /\ usedAgo[k][a] \in 0..Never
        /\ usedAgo'[k][a] = IF InUse(k, a) THEN 0 ELSE Older(usedAgo[k][a])
  BY DEF Tick, TypeOK
<1>5. \A k \in Other, a \in Addr : /\ usedAgo'[k][a] \in 0..Never
                                 /\ usedAgo'[k][a] =< usedAgo[k][a] + 1
  BY <1>2, <1>4, TimeFacts
<1>6. \A e \in net' : \E d \in net :
        /\ e.from = d.from /\ e.bye = d.bye /\ e.ip = d.ip /\ e.src = d.src
        /\ e.age = d.age + 1 /\ d.age < MaxDelay /\ e = [d EXCEPT !.age = d.age + 1]
  <2>0. net' = {[d EXCEPT !.age = d.age + 1] : d \in {e \in net : e.age < MaxDelay}}
    BY DEF Tick
  <2>1. \A e \in net' : \E d \in net : d.age < MaxDelay /\ e = [d EXCEPT !.age = d.age + 1]
    BY <2>0, Zenon
  <2>2. \A d \in net : d \in Datagram
    BY DEF TypeOK
  <2>3. \A d \in Datagram :
          LET e == [d EXCEPT !.age = d.age + 1]
          IN  /\ e.from = d.from /\ e.bye = d.bye /\ e.ip = d.ip /\ e.src = d.src
              /\ e.age = d.age + 1
    BY DEF Datagram
  <2>. SUFFICES ASSUME NEW e \in net'
                PROVE  \E d \in net :
                         /\ e.from = d.from /\ e.bye = d.bye /\ e.ip = d.ip
                         /\ e.src = d.src /\ e.age = d.age + 1
                         /\ d.age < MaxDelay /\ e = [d EXCEPT !.age = d.age + 1]
    OBVIOUS
  <2>4. PICK d \in net : d.age < MaxDelay /\ e = [d EXCEPT !.age = d.age + 1]
    BY <2>1
  <2>5. /\ e.from = d.from /\ e.bye = d.bye /\ e.ip = d.ip
        /\ e.src = d.src /\ e.age = d.age + 1
    BY <2>2, <2>3, <2>4
  <2>. QED
    BY <2>4, <2>5
<1>7. net' \subseteq Datagram
  BY <1>6, TimeFacts DEF TypeOK, Datagram
<1>8. \A k \in Other :
        table'[k] = IF table[k] = Absent \/ Expired(table[k].age + 1) THEN Absent
                    ELSE [table[k] EXCEPT !.age = table[k].age + 1]
  BY DEF Tick
<1>8a. \A k \in Other : table[k] \in [addr : Addr \cup {NoAddr}, age : 0..TTL]
  BY DEF TypeOK
<1>8b. \A k \in Other :
         LET e == [table[k] EXCEPT !.age = table[k].age + 1]
         IN  /\ e.addr = table[k].addr /\ e.age = table[k].age + 1
             /\ e = [addr |-> table[k].addr, age |-> table[k].age + 1]
  BY <1>8a
<1>9. \A k \in Listed' : /\ k \in Listed /\ table[k].age + 1 =< TTL
                         /\ table'[k].addr = table[k].addr
                         /\ table'[k].age = table[k].age + 1
  <2>. SUFFICES ASSUME NEW k \in Other, table'[k] # Absent
                PROVE  /\ table[k] # Absent /\ table[k].age + 1 =< TTL
                       /\ table'[k].addr = table[k].addr
                       /\ table'[k].age = table[k].age + 1
    BY DEF Listed, Absent
  <2>1. table[k] # Absent /\ ~Expired(table[k].age + 1)
    BY <1>8
  <2>2. table'[k] = [addr |-> table[k].addr, age |-> table[k].age + 1]
    BY <2>1, <1>8, <1>8b
  <2>. QED
    BY <2>1, <2>2, <1>8a, TimeFacts DEF Expired
<1>10. \A k \in Other : table'[k] \in [addr : Addr \cup {NoAddr}, age : 0..TTL]
  <2>. TAKE k \in Other
  <2>1. CASE table'[k] = Absent
    BY <2>1, TimeFacts DEF Absent
  <2>2. CASE table'[k] # Absent
    <3>1. ~Expired(table[k].age + 1)
      BY <2>2, <1>8
    <3>2. table'[k] = [addr |-> table[k].addr, age |-> table[k].age + 1]
      BY <2>2, <1>8, <1>8b
    <3>. QED
      BY <3>1, <3>2, <1>8a, TimeFacts DEF Expired
  <2>. QED
    BY <2>1, <2>2
<1>11. TypeOK'
  <2>1. table' \in [Other -> [addr : Addr \cup {NoAddr}, age : 0..TTL]]
    BY <1>10 DEF Tick
  <2>2. due' \in [Other -> Nat]
    BY DEF Tick, TypeOK
  <2>3. usedAgo' \in [Other -> [Addr -> 0..Never]]
    BY <1>2, <1>4, TimeFacts DEF Tick
  <2>. QED
    BY <2>1, <2>2, <2>3, <1>1, <1>2, <1>3, <1>7 DEF TypeOK
<1>12. Entries'
  BY <1>9 DEF Entries
<1>13. \A k \in Other, a \in Addr : InUse(k, a)' => usedAgo'[k][a] = 0
  BY <1>1, <1>4 DEF InUse, Host
<1>14. \A e \in net' : ~e.bye => usedAgo'[e.from][AddressOf(e)] =< e.age
  <2>. SUFFICES ASSUME NEW e \in net', ~e.bye
                PROVE  usedAgo'[e.from][AddressOf(e)] =< e.age
    OBVIOUS
  <2>1. PICK d \in net : /\ e.from = d.from /\ e.bye = d.bye /\ e.ip = d.ip
                        /\ e.src = d.src /\ e.age = d.age + 1
    BY <1>6
  <2>2. d.from \in Other /\ AddressOf(d) \in Addr /\ AddressOf(e) = AddressOf(d)
        /\ d.age \in Nat
    BY <2>1, TimeFacts DEF TypeOK, Datagram, AddressOf
  <2>3. usedAgo[d.from][AddressOf(d)] =< d.age
    BY <2>1 DEF AgesBounded
  <2>. QED
    BY <2>1, <2>2, <2>3, <1>4, <1>5, TimeFacts
<1>15. \A e \in net' : ~e.bye /\ e.from \in twins
                       => e.src \in held[Self] \/ lostAgo' =< e.age
  <2>. SUFFICES ASSUME NEW e \in net', ~e.bye, e.from \in twins, e.src \notin held[Self]
                PROVE  lostAgo' =< e.age
    OBVIOUS
  <2>1. PICK d \in net : /\ e.from = d.from /\ e.bye = d.bye /\ e.src = d.src
                        /\ e.age = d.age + 1
    BY <1>6
  <2>2. lostAgo =< d.age /\ d.age \in Nat
    BY <2>1, TimeFacts DEF AgesBounded, TypeOK, Datagram
  <2>. QED
    BY <2>1, <2>2, <1>2, <1>3, TimeFacts
<1>16. \A k \in Listed' : usedAgo'[k][table'[k].addr] =< table'[k].age + MaxDelay
  <2>. SUFFICES ASSUME NEW k \in Listed'
                PROVE  usedAgo'[k][table'[k].addr] =< table'[k].age + MaxDelay
    OBVIOUS
  <2>1. k \in Other /\ table[k].addr \in Addr /\ table[k].age \in Nat
    BY <1>9, TimeFacts DEF Listed, Entries, TypeOK
  <2>2. usedAgo[k][table[k].addr] =< table[k].age + MaxDelay
    BY <1>9 DEF AgesBounded
  <2>. QED
    BY <2>1, <2>2, <1>4, <1>5, <1>9, TimeFacts
<1>17. \A k \in Listed' \cap twins : lostAgo' =< table'[k].age + MaxDelay
  <2>. SUFFICES ASSUME NEW k \in Listed' \cap twins
                PROVE  lostAgo' =< table'[k].age + MaxDelay
    OBVIOUS
  <2>1. table[k].age \in Nat /\ lostAgo =< table[k].age + MaxDelay
    BY <1>9, TimeFacts DEF Listed, TypeOK, AgesBounded
  <2>. QED
    BY <2>1, <1>2, <1>3, <1>9, TimeFacts
<1>18. AgesBounded'
  BY <1>1, <1>13, <1>14, <1>15, <1>16, <1>17 DEF AgesBounded, AddressOf
<1>. QED
  BY <1>11, <1>12, <1>18

\* The inductive invariant of discovery, which ties the ages of datagrams and
\* entries to the times addresses were in use (service.go, peer.go).
THEOREM DiscoveryInvariant == Spec => []DiscoveryInv
<1>1. DiscoveryInv /\ [Next]_vars => DiscoveryInv'
  <2>. SUFFICES ASSUME DiscoveryInv, [Next]_vars PROVE DiscoveryInv'
    OBVIOUS
  <2>1. ASSUME NEW n \in Other, Announce(n) PROVE DiscoveryInv'
    BY <2>1, AnnounceInv
  <2>2. ASSUME NEW n \in Other, SendBye(n) PROVE DiscoveryInv'
    BY <2>2, SendByeInv
  <2>3. ASSUME NEW n \in Other, HearAnnounce(n) \/ HearBye(n) PROVE DiscoveryInv'
    BY <2>3, ReceiveInv DEF HearAnnounce, HearBye
  <2>4. ASSUME NEW n \in Node, Leave(n) PROVE DiscoveryInv'
    BY <2>4, LeaveInv
  <2>5. ASSUME NEW n \in Node, StartUp(n) PROVE DiscoveryInv'
    BY <2>5, StartUpInv
  <2>6. ASSUME NEW m \in Machine, ChangeAddresses(m) PROVE DiscoveryInv'
    BY <2>6, ChangeInv
  <2>7. CASE Tick
    BY <2>7, TickInv
  <2>8. CASE UNCHANGED vars
    BY <2>8 DEF vars, loop, world, DiscoveryInv, TypeOK, Entries, AgesBounded,
                Listed, InUse, Host, AddressOf
  <2>. QED
    BY <2>1, <2>2, <2>3, <2>4, <2>5, <2>6, <2>7, <2>8 DEF Next
<1>. QED
  BY <1>1, InitInv, PTL DEF Spec

\* The variables of discovery keep their types.
THEOREM TypeInvariant == Spec => []TypeOK
  BY DiscoveryInvariant, PTL DEF DiscoveryInv

\* No peer stays listed at an address it left longer ago than the time to live
\* and the delay of a datagram.
THEOREM AddressesFresh == Spec => []FreshAddress
<1>1. DiscoveryInv => FreshAddress
  <2>. SUFFICES ASSUME DiscoveryInv, NEW n \in Listed
                PROVE  usedAgo[n][table[n].addr] =< Horizon
    BY DEF FreshAddress
  <2>1. n \in Other /\ table[n].addr \in Addr /\ table[n].age \in 0..TTL
    BY DEF DiscoveryInv, Entries, Listed, TypeOK
  <2>2. usedAgo[n][table[n].addr] \in 0..Never
    BY <2>1 DEF DiscoveryInv, TypeOK
  <2>3. usedAgo[n][table[n].addr] =< table[n].age + MaxDelay
    BY DEF DiscoveryInv, AgesBounded
  <2>. QED
    BY <2>1, <2>2, <2>3, TimeFacts
<1>. QED
  BY <1>1, DiscoveryInvariant, PTL

\* The second instance on a machine is listed only around a change of addresses.
THEOREM TwinUnlisted == Spec => []OwnMachineUnlisted
<1>1. DiscoveryInv => OwnMachineUnlisted
  <2>. SUFFICES ASSUME DiscoveryInv, NEW n \in Listed \cap twins
                PROVE  lostAgo =< Horizon
    BY DEF OwnMachineUnlisted
  <2>1. table[n].age \in 0..TTL /\ lostAgo \in 0..Never
    BY DEF DiscoveryInv, Listed, TypeOK
  <2>2. lostAgo =< table[n].age + MaxDelay
    BY DEF DiscoveryInv, AgesBounded
  <2>. QED
    BY <2>1, <2>2, TimeFacts
<1>. QED
  BY <1>1, DiscoveryInvariant, PTL
=============================================================================
