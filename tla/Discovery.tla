----------------------------- MODULE Discovery -----------------------------
(***************************************************************************)
(* Peer discovery (discovery/service.go, peer.go, message.go): every       *)
(* instance multicasts announces and a bye, and keeps a table of the       *)
(* others with a time to live.  The module follows the table of one        *)
(* instance, Self; Self's own datagrams, which come back to it and are     *)
(* dropped by their id, are left out.                                      *)
(*                                                                         *)
(* The network keeps a datagram for MaxDelay ticks, during which it may    *)
(* arrive any number of times, in any order, or not at all: one announce   *)
(* leaves through every interface.  Instances crash, leave and come back;  *)
(* the addresses of their machines change at any moment.  Time passes in   *)
(* ticks and is kept as ages, none of which grows past what is compared.   *)
(***************************************************************************)
EXTENDS Integers

CONSTANTS
  Node,         \* instances, by their id
  Self,         \* the instance whose table is followed
  Addr,         \* addresses a machine may hold
  NoAddr,       \* the empty string: no default route, no primary address
  TTL,          \* cfg.TTL, in ticks
  Interval,     \* cfg.Interval, in ticks
  Announces,    \* quick announces after a start
  Quick,        \* ticks between two of them
  MaxDelay,     \* ticks a datagram may spend on its way
  MaxChanges,   \* bound: changes of addresses
  MaxStarts     \* bound: starts of instances after those of Init

ASSUME SelfAssumption == Self \in Node
ASSUME AddrAssumption == NoAddr \notin Addr
ASSUME TimeAssumption == {TTL, Interval, Announces, Quick, MaxDelay} \subseteq Nat
ASSUME BoundAssumption == {MaxChanges, MaxStarts} \subseteq Nat

VARIABLES
  twins,     \* the other instances on Self's machine; fixed
  phase,     \* phase[n]: "up", "leaving" (the bye is out) or "down"
  left,      \* left[n]: quick announces still to send
  due,       \* due[n]: ticks until the next announce
  held,      \* held[m]: addresses of m's interfaces
  primary,   \* primary[m]: primaryIP() on m
  net,       \* datagrams that may still arrive
  table,     \* table[n]: the entry of n in Self's table
  usedAgo,   \* usedAgo[n][a]: ticks since n was up at address a
  lostAgo,   \* ticks since Self's machine lost an address
  changes, starts   \* counted against the bounds

Other == Node \ {Self}
Machine == Node             \* a machine is named after one of its instances
Host(n) == IF n \in twins THEN Self ELSE n

loop == <<phase, left, due>>
world == <<twins, held, primary, usedAgo, lostAgo, changes, starts>>
vars == <<loop, world, net, table>>

-----------------------------------------------------------------------------
(* Data.  A definition marked "Slip" is a plausible mistake in the one after *)
(* it; the runs are shown to notice each of them.                            *)

Horizon == TTL + MaxDelay      \* how long a listed address may be out of use
Never == Horizon + 1           \* an age past every comparison
Older(age) == IF age < Never THEN age + 1 ELSE Never

Absent == [addr |-> NoAddr, age |-> 0]
Listed == {n \in Other : table[n] # Absent}   \* what Peers() returns
Datagram == [from : Other, bye : BOOLEAN, ip : Addr \cup {NoAddr},
             src : Addr, age : 0..MaxDelay]

\* n runs on a machine that has address a.
InUse(n, a) == phase[n] # "down" /\ a \in held[Host(n)]

\* An address that comes into use is of age 0.
NoteUse == usedAgo' = [n \in Other |-> [a \in Addr |->
             IF InUse(n, a)' THEN 0 ELSE usedAgo[n][a]]]

\* Slip: the announce is built once, when the loop starts.
FrozenAddress(n) ==
  {p \in Addr \cup {NoAddr} : p = NoAddr \/ usedAgo[n][p] # Never}

\* announceMsg() asks for the primary address every time.
AnnouncedAddress(n) == {primary[Host(n)]}

\* list(): entries older than the time to live are dropped.
Expired(age) == age > TTL

\* The address a datagram stands for.
AddressOf(d) == IF d.ip = NoAddr THEN d.src ELSE d.ip

\* Slip: only an instance's own id is looked at.
OwnId(d) == d.from = Self

\* isSelfAnnounce(): the same id, or another identity of this machine, told by
\* the host name (a bye has none) and one of the local addresses.
IsSelf(d) ==
  \/ d.from = Self
  \/ /\ ~d.bye
     /\ Host(d.from) = Host(Self)
     /\ {AddressOf(d), d.src} \cap held[Host(Self)] # {}

\* Slip: the loop ends with the quick announces.
QuickTurn(n) == due[n] = 0 /\ left[n] > 0

\* announceLoop(): it is time for the next announce.
Turn(n) == due[n] = 0

\* announceLoop(): the pause before the next announce.
Pause(n) == CASE left[n] > 1 -> Quick
              [] left[n] = 1 -> Quick + Interval
              [] OTHER       -> Interval

-----------------------------------------------------------------------------
(* Instances.                                                                *)

\* Addresses of different machines are never compared.
Init ==
  /\ twins \in SUBSET Other
  /\ phase \in [Node -> {"up", "down"}] /\ phase[Self] = "up"
  /\ left = [n \in Other |-> Announces]
  /\ due = [n \in Other |-> 0]
  /\ \E a \in Addr : /\ held = [m \in Machine |-> {a}]
                      /\ primary = [m \in Machine |-> a]
  /\ net = {}
  /\ table = [n \in Other |-> Absent]
  /\ usedAgo = [n \in Other |-> [a \in Addr |->
                  IF InUse(n, a) THEN 0 ELSE Never]]
  /\ lostAgo = Never
  /\ changes = 0 /\ starts = 0

\* sendTo(): one datagram through every interface.
Sent(n, bye, ip) == [from : {n}, bye : {bye}, ip : {ip},
                     src : held[Host(n)], age : {0}]

\* announceLoop(), until it sees s.stop.
Announce(n) ==
  /\ phase[n] # "down" /\ Turn(n)
  /\ \E ip \in AnnouncedAddress(n) : net' = net \cup Sent(n, FALSE, ip)
  /\ due' = [due EXCEPT ![n] = Pause(n)]
  /\ left' = [left EXCEPT ![n] = IF @ > 0 THEN @ - 1 ELSE 0]
  /\ UNCHANGED <<phase, world, table>>

\* Stop(): the bye goes out while the announce loop still runs.
SendBye(n) ==
  /\ phase[n] = "up"
  /\ phase' = [phase EXCEPT ![n] = "leaving"]
  /\ net' = net \cup Sent(n, TRUE, NoAddr)
  /\ UNCHANGED <<left, due, world, table>>

\* close(s.stop), or a crash at any moment, which sends no bye.
Leave(n) ==
  /\ phase[n] # "down"
  /\ phase' = [phase EXCEPT ![n] = "down"]
  /\ UNCHANGED <<left, due, world, net, table>>

\* New() and Start(): the id is kept in the data directory, the table is not.
StartUp(n) ==
  /\ phase[n] = "down" /\ starts < MaxStarts
  /\ phase' = [phase EXCEPT ![n] = "up"]
  /\ left' = [k \in Other |-> IF k = n THEN Announces ELSE left[k]]
  /\ due' = [k \in Other |-> IF k = n THEN 0 ELSE due[k]]
  /\ table' = IF n = Self THEN [p \in Other |-> Absent] ELSE table
  /\ starts' = starts + 1
  /\ UNCHANGED <<twins, held, primary, lostAgo, changes, net>>
  /\ NoteUse

\* A lease is renewed, a cable is pulled, a route appears or goes.
ChangeAddresses(m) ==
  /\ changes < MaxChanges /\ m \notin twins
  /\ \E H \in (SUBSET Addr) \ {{}} : \E p \in H \cup {NoAddr} :
       /\ <<H, p>> # <<held[m], primary[m]>>
       /\ held' = [held EXCEPT ![m] = H]
       /\ primary' = [primary EXCEPT ![m] = p]
       /\ lostAgo' = IF m = Host(Self) /\ held[m] \ H # {} THEN 0 ELSE lostAgo
  /\ changes' = changes + 1
  /\ UNCHANGED <<loop, twins, starts, net, table>>
  /\ NoteUse

-----------------------------------------------------------------------------
(* The followed instance.                                                    *)

\* listenLoop(): a datagram is handled; another copy of it may still come.
Receive(d) ==
  /\ phase[Self] # "down" /\ d \in net
  /\ ~IsSelf(d)
  /\ table' = [table EXCEPT ![d.from] =
                 IF d.bye THEN Absent
                 ELSE [addr |-> AddressOf(d), age |-> 0]]
  /\ UNCHANGED <<loop, world, net>>

HearAnnounce(n) == \E d \in net : d.from = n /\ ~d.bye /\ Receive(d)
HearBye(n) == \E d \in net : d.from = n /\ d.bye /\ Receive(d)

\* Time passes: datagrams are lost for good, list() drops old entries.
Tick ==
  /\ net' = {[d EXCEPT !.age = @ + 1] : d \in {e \in net : e.age < MaxDelay}}
  /\ table' = [n \in Other |->
       IF table[n] = Absent \/ Expired(table[n].age + 1) THEN Absent
       ELSE [table[n] EXCEPT !.age = @ + 1]]
  /\ due' = [n \in Other |-> IF due[n] > 0 THEN due[n] - 1 ELSE 0]
  /\ usedAgo' = [n \in Other |-> [a \in Addr |->
       IF InUse(n, a) THEN 0 ELSE Older(usedAgo[n][a])]]
  /\ lostAgo' = Older(lostAgo)
  /\ UNCHANGED <<phase, left, twins, held, primary, changes, starts>>

Next ==
  \/ \E n \in Other : \/ Announce(n) \/ SendBye(n)
                      \/ HearAnnounce(n) \/ HearBye(n)
  \/ \E n \in Node : Leave(n) \/ StartUp(n)
  \/ \E m \in Machine : ChangeAddresses(m)
  \/ Tick

\* The loops run and time passes.  A multicast that is repeated for ever gets
\* through now and then; nothing is assumed of a single datagram, of a bye, or
\* of the timers' punctuality.
Fairness ==
  /\ WF_vars(Tick)
  /\ \A n \in Other : WF_vars(Announce(n)) /\ SF_vars(HearAnnounce(n))

Spec == Init /\ [][Next]_vars /\ Fairness

-----------------------------------------------------------------------------
(* Properties.                                                               *)

\* The variables keep their types, and a machine's primary address is one of
\* those it holds.
TypeOK ==
  /\ twins \subseteq Other
  /\ phase \in [Node -> {"up", "leaving", "down"}]
  /\ left \in [Other -> Nat] /\ due \in [Other -> Nat]
  /\ held \in [Machine -> (SUBSET Addr) \ {{}}]
  /\ primary \in [Machine -> Addr \cup {NoAddr}]
  /\ \A m \in Machine : primary[m] \in held[m] \cup {NoAddr}
  /\ net \subseteq Datagram
  /\ table \in [Other -> [addr : Addr \cup {NoAddr}, age : 0..TTL]]
  /\ usedAgo \in [Other -> [Addr -> 0..Never]]
  /\ lostAgo \in 0..Never
  /\ changes \in 0..MaxChanges /\ starts \in 0..MaxStarts

\* A listed peer was up at the listed address no longer ago than the time to
\* live and the delay of a datagram: a node whose address changed is not dialled
\* at the old one for ever, and one that crashed or left is forgotten, whatever
\* was lost or arrived late (service.go, announceMsg and list).
FreshAddress ==
  \A n \in Listed : usedAgo[n][table[n].addr] =< Horizon

\* A second instance on the own machine is not a peer, except for as long after
\* the machine lost an address as an announce from before may count
\* (service.go, isSelfAnnounce).
OwnMachineUnlisted ==
  \A n \in Listed \cap twins : lostAgo =< Horizon

\* An instance on another machine that stays up is found, again and again, by
\* one that stays up, although datagrams are lost and entries expire.
LiveFound ==
  \A n \in Other :
    (Host(n) # Host(Self) /\ <>[](phase[n] = "up" /\ phase[Self] = "up"))
      => []<>(n \in Listed)

=============================================================================
