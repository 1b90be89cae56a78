-------------------------- MODULE MediaPoolProofs --------------------------
(***************************************************************************)
(* Proofs about MediaPool, for every range of ports and any number of       *)
(* users, hangups and session IDs: types, that pairs are owned by one call  *)
(* and never leak, that the scan misses none, and that the pool and the     *)
(* table together implement MediaLease.                                     *)
(***************************************************************************)
EXTENDS MediaPool, FiniteSetTheorems, TLAPS

-----------------------------------------------------------------------------
(* The pool: what Proxy.Allocate's scan finds.                             *)

LEMMA LeastNat ==
  ASSUME NEW S, S \subseteq Nat, S # {}
  PROVE  \E x \in S : \A y \in S : x <= y
<1> DEFINE R == OpToRel(<, Nat)
<1>1. IsWellFoundedOn(R, Nat)
  BY NatLessThanWellFounded
<1>2. \A x, y \in Nat : x < y => <<x, y>> \in R
  BY DEF OpToRel
<1> HIDE DEF R
<1>3. PICK x \in S : \A y \in S : ~ (<<y, x>> \in R)
  BY <1>1, WFMin
<1>4. \A y \in S : ~ (y < x)
  BY <1>2, <1>3
<1> QED
  BY <1>4

\* The ports of the range are even, and Advance goes round them.
LEMMA PortFacts ==
  /\ Ports \subseteq Nat
  /\ PortMin \in Ports
  /\ NoPort \notin Ports
  /\ \A p, q \in Ports : p < q => p + 2 <= q
  /\ \A p \in Ports : PortMin <= p /\ p <= PortMax - 1 /\ Advance(p) \in Ports
<1> USE PortAssumption
<1>1. Ports \subseteq Nat /\ PortMin \in Ports /\ NoPort \notin Ports
  BY DEF Ports, NoPort
<1>2. \A p, q \in Ports : p < q => p + 2 <= q
  BY DEF Ports
<1>3. \A p \in Ports : PortMin <= p /\ p <= PortMax - 1
  BY DEF Ports
<1>4. ASSUME NEW p \in Ports PROVE Advance(p) \in Ports
  <2>1. CASE p + 2 > PortMax - 1
    BY <1>1, <2>1 DEF Advance, Ports
  <2>2. CASE ~ (p + 2 > PortMax - 1)
    <3>1. p \in PortMin .. PortMax - 1 /\ p % 2 = 0
      BY DEF Ports
    <3>2. (p + 2) % 2 = 0
      BY <3>1
    <3> QED
      BY <2>2, <3>1, <3>2 DEF Advance, Ports
  <2> QED
    BY <2>1, <2>2
<1> QED
  BY <1>1, <1>2, <1>3, <1>4

\* There are Capacity pairs: the pool is full when as many are allocated.
LEMMA CapacityFact == IsFiniteSet(Ports) /\ Cardinality(Ports) = Capacity
<1> USE PortAssumption
<1> DEFINE f == [i \in 1 .. Capacity |-> PortMin + 2 * (i - 1)]
<1>1. Capacity \in Nat
  BY DEF Capacity
<1>2. ASSUME NEW i \in 1 .. Capacity PROVE f[i] \in Ports
  <2>1. 2 * i <= PortMax - PortMin + 1
    BY <1>1 DEF Capacity
  <2>2. f[i] = PortMin + 2 * (i - 1)
    OBVIOUS
  <2>3. (PortMin + 2 * (i - 1)) % 2 = 0
    BY <1>1
  <2> QED
    BY <1>1, <2>1, <2>2, <2>3 DEF Ports
<1>3. ASSUME NEW p \in Ports PROVE \E i \in 1 .. Capacity : f[i] = p
  <2> DEFINE i == (p - PortMin) \div 2 + 1
  <2>1. p \in PortMin .. PortMax - 1 /\ p % 2 = 0
    BY DEF Ports
  <2>2. i \in 1 .. Capacity /\ PortMin + 2 * (i - 1) = p
    BY <2>1 DEF Capacity
  <2> QED
    BY <2>2
<1>4. f \in Bijection(1 .. Capacity, Ports)
  <2>1. f \in [1 .. Capacity -> Ports]
    BY <1>2
  <2>2. \A i, j \in 1 .. Capacity : f[i] = f[j] => i = j
    BY <1>1
  <2> QED
    BY <2>1, <2>2, <1>3 DEF Bijection, Injection, Surjection, IsInjective
<1>5. ExistsBijection(1 .. Capacity, Ports)
  BY <1>4 DEF ExistsBijection
<1> QED
  BY <1>1, <1>5, FS_CountingElements, FS_NatBijection

\* The loop read from p on: the usable pairs above p, then, if p is past the
\* place the scan began at, those below that place.
Ahead(p) == {q \in Ports : Usable(q) /\ p <= q /\ (nextPort <= p \/ q < nextPort)}
Behind(p) == {q \in Ports : Usable(q) /\ nextPort <= p /\ q < nextPort}

Least(S) == CHOOSE x \in S : \A y \in S : x <= y

First(p) ==
  IF Ahead(p) # {} THEN Least(Ahead(p))
  ELSE IF Behind(p) # {} THEN Least(Behind(p)) ELSE NoPort

LEMMA LeastFact ==
  ASSUME NEW S, S \subseteq Nat, S # {}
  PROVE  Least(S) \in S /\ \A y \in S : Least(S) <= y
BY LeastNat DEF Least

\* First solves the equation that defines Scan.
LEMMA FirstStep ==
  ASSUME nextPort \in Ports, NEW p \in Ports
  PROVE  First(p) = IF Usable(p) THEN p
                    ELSE IF Advance(p) = nextPort THEN NoPort ELSE First(Advance(p))
<1> USE PortAssumption
<1>0. /\ p \in Nat /\ nextPort \in Nat /\ Ports \subseteq Nat
      /\ PortMin <= p /\ p <= PortMax - 1
      /\ \A q \in Ports : PortMin <= q /\ q <= PortMax - 1
      /\ \A q, r \in Ports : q < r => q + 2 <= r
      /\ Advance(p) \in Ports
  BY PortFacts
<1>1. CASE Usable(p)
  <2>1. p \in Ahead(p) /\ \A q \in Ahead(p) : p <= q
    BY <1>0, <1>1 DEF Ahead
  <2>2. Least(Ahead(p)) \in Ahead(p) /\ Least(Ahead(p)) <= p
    BY <2>1, <1>0, LeastFact DEF Ahead
  <2>3. Least(Ahead(p)) \in Nat
    BY <2>2, <1>0 DEF Ahead
  <2>4. Least(Ahead(p)) = p
    BY <2>1, <2>2, <2>3, <1>0
  <2> QED
    BY <1>1, <2>1, <2>4 DEF First
<1>2. CASE ~ Usable(p) /\ Advance(p) = nextPort
  <2>0. (nextPort = p + 2) \/ (nextPort = PortMin /\ p + 2 > PortMax - 1)
    BY <1>0, <1>2 DEF Advance
  <2>1. ASSUME NEW q \in Ahead(p) PROVE FALSE
    <3>1. /\ q \in Ports /\ q \in Nat /\ Usable(q) /\ p <= q
          /\ (nextPort <= p \/ q < nextPort)
      BY <1>0, <2>1 DEF Ahead
    <3>2. q # p
      BY <1>2, <3>1
    <3>3. p + 2 <= q
      BY <1>0, <3>1, <3>2
    <3> QED
      BY <1>0, <2>0, <3>1, <3>3
  <2>2. ASSUME NEW q \in Behind(p) PROVE FALSE
    <3>1. q \in Ports /\ q \in Nat /\ nextPort <= p /\ q < nextPort
      BY <1>0, <2>2 DEF Behind
    <3>2. PortMin <= q
      BY <1>0, <3>1
    <3> QED
      BY <1>0, <2>0, <3>1, <3>2
  <2> QED
    BY <1>2, <2>1, <2>2 DEF First
<1>3. CASE ~ Usable(p) /\ Advance(p) # nextPort /\ p + 2 > PortMax - 1
  <2>1. Advance(p) = PortMin /\ PortMin < nextPort /\ nextPort <= p
    BY <1>0, <1>3 DEF Advance
  <2>2. Ahead(p) = {}
    <3> SUFFICES ASSUME NEW q \in Ahead(p) PROVE FALSE
      OBVIOUS
    <3>1. q \in Ports /\ q \in Nat /\ Usable(q) /\ p <= q
      BY <1>0 DEF Ahead
    <3>2. q # p /\ q <= PortMax - 1
      BY <1>0, <1>3, <3>1
    <3>3. p + 2 <= q
      BY <1>0, <3>1, <3>2
    <3> QED
      BY <1>0, <1>3, <3>1, <3>2, <3>3
  <2>3. Behind(PortMin) = {}
    BY <1>0, <2>1 DEF Behind
  <2>4. \A q : q \in Behind(p) <=> q \in Ahead(PortMin)
    <3>1. \A q \in Ports : PortMin <= q /\ q \in Nat
      BY <1>0
    <3>2. ~ (nextPort <= PortMin)
      BY <1>0, <2>1
    <3> QED
      BY <2>1, <3>1, <3>2 DEF Ahead, Behind
  <2>5. Behind(p) = Ahead(PortMin)
    BY <2>4
  <2> QED
    BY <1>3, <2>1, <2>2, <2>3, <2>5 DEF First
<1>4. CASE ~ Usable(p) /\ Advance(p) # nextPort /\ ~ (p + 2 > PortMax - 1)
  <2>1. Advance(p) = p + 2 /\ (nextPort <= p \/ p + 2 < nextPort)
    BY <1>0, <1>4 DEF Advance
  <2>2. Ahead(p) = Ahead(p + 2)
    <3>1. \A q \in Ports : Usable(q) => (p <= q <=> p + 2 <= q)
      <4> SUFFICES ASSUME NEW q \in Ports, Usable(q) PROVE p <= q <=> p + 2 <= q
        OBVIOUS
      <4>1. q # p /\ q \in Nat /\ (p < q => p + 2 <= q)
        BY <1>0, <1>4
      <4> QED
        BY <1>0, <4>1
    <3>2. nextPort <= p <=> nextPort <= p + 2
      BY <1>0, <2>1
    <3>3. \A q : q \in Ahead(p) <=> q \in Ahead(p + 2)
      BY <3>1, <3>2 DEF Ahead
    <3> QED
      BY <3>3
  <2>3. Behind(p) = Behind(p + 2)
    BY <1>0, <2>1 DEF Behind
  <2> QED
    BY <1>4, <2>1, <2>2, <2>3 DEF First
<1> QED
  BY <1>1, <1>2, <1>3, <1>4

\* How many pairs the loop still has to look at bounds this.
Rank(p) == IF p < nextPort THEN nextPort - p ELSE nextPort - p + PortMax

\* Scan is a solution of its equation, and that equation has one solution.
LEMMA ScanIsFirst ==
  ASSUME nextPort \in Ports
  PROVE  \A p \in Ports : Scan[p] = First(p)
<1> USE PortAssumption
<1>0. /\ nextPort \in Nat /\ Ports \subseteq Nat
      /\ \A p \in Ports : PortMin <= p /\ p <= PortMax - 1 /\ Advance(p) \in Ports
      /\ \A p, q \in Ports : p < q => p + 2 <= q
  BY PortFacts
<1> DEFINE Eq(f) == f = [p \in Ports |->
             IF Usable(p) THEN p
             ELSE IF Advance(p) = nextPort THEN NoPort ELSE f[Advance(p)]]
<1>1. Eq([p \in Ports |-> First(p)])
  BY <1>0, FirstStep
<1>2. Eq(Scan)
  <2>1. Scan = CHOOSE f : Eq(f)
    BY DEF Scan
  <2> HIDE DEF Eq
  <2> QED
    BY <1>1, <2>1
<1>3. \A p \in Ports : Scan[p] =
        IF Usable(p) THEN p
        ELSE IF Advance(p) = nextPort THEN NoPort ELSE Scan[Advance(p)]
  BY <1>2
<1> HIDE DEF Eq
<1> DEFINE Bad == {p \in Ports : Scan[p] # First(p)}
           Ranks == {Rank(p) : p \in Bad}
<1>4. SUFFICES ASSUME Bad # {} PROVE FALSE
  OBVIOUS
<1>5. \A p \in Ports : Rank(p) \in Nat
  BY <1>0 DEF Rank
<1>6. PICK r \in Ranks : \A s \in Ranks : r <= s
  <2>1. Ranks \subseteq Nat /\ Ranks # {}
    BY <1>4, <1>5
  <2> QED
    BY <2>1, LeastNat
<1>7. PICK p \in Bad : r = Rank(p)
  BY <1>6
<1>8. ~ Usable(p) /\ Advance(p) # nextPort /\ Advance(p) \in Bad
  BY <1>0, <1>3, <1>7, FirstStep
<1>9. Rank(Advance(p)) < Rank(p)
  <2>1. p \in Nat /\ PortMin <= p /\ p <= PortMax - 1
    BY <1>0, <1>7
  <2>2. CASE p + 2 > PortMax - 1
    BY <1>0, <1>8, <2>1, <2>2 DEF Rank, Advance
  <2>3. CASE ~ (p + 2 > PortMax - 1)
    <3>1. p < nextPort => p + 2 <= nextPort
      BY <1>0, <1>7
    <3> QED
      BY <1>0, <1>8, <2>1, <2>3, <3>1 DEF Rank, Advance
  <2> QED
    BY <2>2, <2>3
<1>10. Rank(Advance(p)) \in Ranks /\ Rank(p) \in Nat /\ Rank(Advance(p)) \in Nat
  BY <1>0, <1>5, <1>7, <1>8
<1>11. Rank(p) <= Rank(Advance(p))
  BY <1>6, <1>7, <1>10
<1> HIDE DEF Bad, Ranks
<1> QED
  BY <1>9, <1>10, <1>11

\* What Allocate takes is a free pair of the range whose ports nobody has.
LEMMA FoundUsable ==
  ASSUME nextPort \in Ports, Found # NoPort
  PROVE  Found \in Ports /\ Usable(Found)
<1>0. nextPort \in Nat /\ Ports \subseteq Nat
  BY PortFacts
<1>1. Found = First(nextPort)
  BY ScanIsFirst DEF Found
<1>2. CASE Ahead(nextPort) # {}
  BY <1>0, <1>1, <1>2, LeastFact DEF First, Ahead
<1>3. CASE Ahead(nextPort) = {} /\ Behind(nextPort) # {}
  BY <1>0, <1>1, <1>3, LeastFact DEF First, Behind
<1>4. CASE Ahead(nextPort) = {} /\ Behind(nextPort) = {}
  BY <1>1, <1>4 DEF First
<1> QED
  BY <1>2, <1>3, <1>4

\* The loop misses no pair: it gives up only if none is free and bindable.
LEMMA FoundComplete ==
  ASSUME nextPort \in Ports, allocated \subseteq Ports, Found = NoPort
  PROVE  \A p \in Ports : ~ Usable(p)
<1>0. nextPort \in Nat /\ Ports \subseteq Nat /\ NoPort \notin Ports
  BY PortFacts
<1>1. CASE Cardinality(allocated) >= Capacity
  <2>1. Cardinality(allocated) <= Cardinality(Ports) /\ IsFiniteSet(allocated)
    BY CapacityFact, FS_Subset
  <2>2. Capacity \in Nat /\ Cardinality(allocated) \in Nat
    BY <2>1, CapacityFact, FS_CardinalityType
  <2>3. Cardinality(Ports) = Cardinality(allocated)
    BY <1>1, <2>1, <2>2, CapacityFact
  <2>4. Ports = allocated
    BY <2>3, CapacityFact, FS_Subset
  <2> QED
    BY <2>4 DEF Usable
<1>2. CASE ~ (Cardinality(allocated) >= Capacity)
  <2>1. First(nextPort) = NoPort
    BY <1>2, ScanIsFirst DEF Found
  <2>2. Ahead(nextPort) = {}
    BY <1>0, <2>1, LeastFact DEF First, Ahead
  <2>3. Behind(nextPort) = {}
    BY <1>0, <2>1, <2>2, LeastFact DEF First, Behind
  <2> QED
    BY <1>0, <2>2, <2>3 DEF Ahead, Behind
<1> QED
  BY <1>1, <1>2

-----------------------------------------------------------------------------
(* The inductive invariant.                                                *)

Own(u) == pc[Invite(u)]

Allocating == {"second", "undo"}
Cleanup == {"halt", "closeCaller", "freeCaller", "closeCallee", "freeCallee"}

\* Where a goroutine that releases pairs still holds its victim's n-th pair, and
\* where it has not closed its sockets.
HoldAt(n) == IF n = 1 THEN {"halt", "closeCaller", "freeCaller"} ELSE Cleanup
OpenAt(n) == IF n = 1 THEN {"halt", "closeCaller"} ELSE Cleanup \ {"freeCallee"}

\* u's n-th pair is u's: it is being set up, or in the table, or on its way back.
Holds(u, n) ==
  \/ n = 1 /\ lock = u
  \/ sessions[IdOf[u]] = u
  \/ \E t \in Threads : pc[t] \in HoldAt(n) /\ victim[t] = u

Opens(u, n) ==
  \/ n = 1 /\ lock = u
  \/ sessions[IdOf[u]] = u
  \/ \E t \in Threads : pc[t] \in OpenAt(n) /\ victim[t] = u

\* The user that holds m.mu is between its two allocations, with one pair, and
\* no session of its ID.
LockInv == \A u \in Users :
  /\ Own(u) \in Allocating <=> lock = u
  /\ Own(u) = "idle" => ports[u] = <<>>
  /\ Own(u) \in Allocating => Len(ports[u]) = 1 /\ sessions[IdOf[u]] = Nobody

\* No goroutine serves a hangup of a call whose media is not set up.
QuietInv == \A u \in Users : \A h \in Hangups :
  Own(u) \in Allocating \union {"idle", "ready"} => pc[<<u, h>>] = "idle"

SetUp(u) == Len(ports[u]) = 2 /\ Own(u) \notin Allocating \union {"idle"}

\* A session in the table is a user's of that ID.
TableInv == \A id \in Ids : sessions[id] # Nobody =>
  IdOf[sessions[id]] = id /\ SetUp(sessions[id])

\* What is being released is out of the table, and one goroutine releases it.
CleanupInv == \A t \in Threads : pc[t] \in Cleanup =>
  /\ victim[t] \in Users
  /\ SetUp(victim[t])
  /\ sessions[IdOf[victim[t]]] # victim[t]
  /\ \A s \in Threads : pc[s] \in Cleanup /\ victim[s] = victim[t] => s = t

Control == LockInv /\ QuietInv /\ TableInv /\ CleanupInv

HeldAllocated == \A u \in Users, n \in 1 .. 2 :
  Holds(u, n) => ports[u][n] \in allocated

HeldOnce == \A u, v \in Users, n, m \in 1 .. 2 :
  Holds(u, n) /\ Holds(v, m) /\ ports[u][n] = ports[v][m] => u = v /\ n = m

AllocatedHeld == \A p \in allocated : \E u \in Users, n \in 1 .. 2 :
  Holds(u, n) /\ ports[u][n] = p

OpenBound == \A u \in Users, n \in 1 .. 2 :
  Opens(u, n) => bound[ports[u][n]] = u

BoundOpen == \A p \in Ports : bound[p] \in Users =>
  \E n \in 1 .. 2 : Opens(bound[p], n) /\ ports[bound[p]][n] = p

Pool == HeldAllocated /\ HeldOnce /\ AllocatedHeld /\ OpenBound /\ BoundOpen

IInv == TypeOK /\ Control /\ Pool

-----------------------------------------------------------------------------
(* Who the goroutines are.                                                 *)

LEMMA ThreadFacts ==
  /\ Reaper \in Threads
  /\ \A u \in Users : /\ Invite(u) \in Threads
                      /\ Releasers(u) \subseteq Threads /\ Reaper \notin Releasers(u)
                      /\ \A h \in Hangups : <<u, h>> \in Releasers(u)
                      /\ Invite(u) \in Releasers(u)
  /\ \A u, v \in Users : Invite(u) = Invite(v) => u = v
  /\ \A u, v \in Users, h \in Hangups : <<u, h>> # Invite(v)
<1>1. Reaper \in Threads
  BY DEF Threads
<1>2. \A u \in Users : Releasers(u) \subseteq Threads
  BY DEF Threads
<1>3. \A u \in Users : Invite(u) \in Releasers(u) /\ \A h \in Hangups : <<u, h>> \in Releasers(u)
  BY DEF Releasers, Invite
<1>4. \A u \in Users : Reaper \notin Releasers(u)
  <2> SUFFICES ASSUME NEW u \in Users, Reaper \in Releasers(u) PROVE FALSE
    OBVIOUS
  <2>1. Reaper[1] = u
    BY DEF Releasers
  <2> QED
    BY <2>1, UserAssumption DEF Reaper
<1>5. \A u, v \in Users : Invite(u) = Invite(v) => u = v
  BY DEF Invite
<1>6. \A u, v \in Users, h \in Hangups : <<u, h>> # Invite(v)
  BY UserAssumption DEF Invite
<1> QED
  BY <1>1, <1>2, <1>3, <1>4, <1>5, <1>6

-----------------------------------------------------------------------------
(* Types.                                                                  *)

LEMMA InitType == Init => TypeOK
<1> SUFFICES ASSUME Init PROVE TypeOK
  OBVIOUS
<1>1. ports \in [Users -> Seq(Ports)] /\ \A u \in Users : Len(ports[u]) <= 2
  BY DEF Init
<1>2. nextPort \in Ports /\ allocated \subseteq Ports
  BY PortFacts DEF Init
<1>3. pc \in [Threads -> Labels] /\ victim \in [Threads -> Users \union {Nobody}]
  BY DEF Init, Labels
<1>4. /\ sessions \in [Ids -> Users \union {Nobody}] /\ lock \in Users \union {Nobody}
      /\ bound \in [Ports -> Users \union {Nobody, Foreign}]
  BY DEF Init
<1> QED
  BY <1>1, <1>2, <1>3, <1>4 DEF Init, TypeOK

\* One allocation: the pair becomes the user's last one.
LEMMA AllocateFacts ==
  ASSUME TypeOK, NEW u \in Users, AllocatePair(u), Len(ports[u]) <= 1
  PROVE  LET k == Len(ports[u]) + 1
         IN  /\ Found \in Ports /\ Found \notin allocated /\ bound[Found] = Nobody
             /\ k \in 1 .. 2 /\ Len(ports'[u]) = k /\ ports'[u][k] = Found
             /\ \A n \in 1 .. 2 : n < k => ports'[u][n] = ports[u][n]
             /\ \A v \in Users \ {u} : ports'[v] = ports[v]
             /\ ports' \in [Users -> Seq(Ports)]
             /\ \A v \in Users : Len(ports'[v]) <= 2
             /\ allocated' = allocated \union {Found}
             /\ bound'[Found] = u
             /\ \A p \in Ports \ {Found} : bound'[p] = bound[p]
             /\ bound' \in [Ports -> Users \union {Nobody, Foreign}]
             /\ nextPort' \in Ports
<1> DEFINE k == Len(ports[u]) + 1
<1>1. Found \in Ports /\ Usable(Found)
  BY FoundUsable DEF AllocatePair, TypeOK
<1>2. ports[u] \in Seq(Ports) /\ Len(ports[u]) \in Nat
  BY DEF TypeOK
<1>3. ports' = [ports EXCEPT ![u] = Append(ports[u], Found)]
  BY DEF AllocatePair
<1>4. /\ Append(ports[u], Found) \in Seq(Ports)
      /\ Len(Append(ports[u], Found)) = k /\ Append(ports[u], Found)[k] = Found
      /\ \A n \in 1 .. Len(ports[u]) : Append(ports[u], Found)[n] = ports[u][n]
  BY <1>1, <1>2
<1>5. ports'[u] = Append(ports[u], Found) /\ \A v \in Users \ {u} : ports'[v] = ports[v]
  BY <1>3 DEF TypeOK
<1>6. ports' \in [Users -> Seq(Ports)]
  BY <1>3, <1>4 DEF TypeOK
<1>7. \A v \in Users : Len(ports'[v]) <= 2
  <2>1. Len(ports'[u]) <= 2
    BY <1>2, <1>4, <1>5
  <2>2. \A v \in Users \ {u} : Len(ports'[v]) <= 2
    BY <1>5 DEF TypeOK
  <2> QED
    BY <2>1, <2>2
<1>8. \A n \in 1 .. 2 : n < k => ports'[u][n] = ports[u][n]
  BY <1>2, <1>4, <1>5
<1>9. nextPort' \in Ports
  BY <1>1, PortFacts DEF AllocatePair
<1>10. /\ bound'[Found] = u /\ \A p \in Ports \ {Found} : bound'[p] = bound[p]
       /\ bound' \in [Ports -> Users \union {Nobody, Foreign}]
       /\ allocated' = allocated \union {Found}
  BY <1>1 DEF AllocatePair, TypeOK
<1> QED
  BY <1>1, <1>2, <1>4, <1>5, <1>6, <1>7, <1>8, <1>9, <1>10 DEF Usable

LEMMA GotoType ==
  ASSUME TypeOK, NEW t \in Threads, NEW label \in Labels, Goto(t, label)
  PROVE  /\ pc' \in [Threads -> Labels] /\ pc'[t] = label
         /\ \A s \in Threads \ {t} : pc'[s] = pc[s]
BY DEF TypeOK, Goto

\* RemoveSession, by either kind of goroutine: nothing is there to release, or
\* the session leaves the table and becomes the goroutine's victim.
LEMMA RemoveFacts ==
  ASSUME TypeOK, NEW t \in Threads, NEW id \in Ids, RemoveSession(t, id)
  PROVE  /\ lock = Nobody
         /\ pc' \in [Threads -> Labels] /\ \A s \in Threads \ {t} : pc'[s] = pc[s]
         /\ \/ /\ sessions[id] = Nobody
               /\ pc'[t] \in {"reap", "done"}
               /\ UNCHANGED <<sessions, victim>>
            \/ /\ sessions[id] \in Users
               /\ pc'[t] = "halt"
               /\ victim' \in [Threads -> Users \union {Nobody}]
               /\ victim'[t] = sessions[id]
               /\ \A s \in Threads \ {t} : victim'[s] = victim[s]
               /\ sessions' \in [Ids -> Users \union {Nobody}]
               /\ sessions'[id] = Nobody
               /\ \A i \in Ids \ {id} : sessions'[i] = sessions[i]
<1> USE DEF TypeOK
<1>1. CASE sessions[id] = Nobody
  <2>1. Goto(t, "reap") \/ Goto(t, "done")
    BY <1>1 DEF RemoveSession
  <2>2. /\ pc' \in [Threads -> Labels] /\ pc'[t] \in {"reap", "done"}
        /\ \A s \in Threads \ {t} : pc'[s] = pc[s]
    BY <2>1 DEF Goto, Labels
  <2> QED
    BY <1>1, <2>2 DEF RemoveSession
<1>2. CASE sessions[id] # Nobody
  <2>1. Goto(t, "halt") /\ sessions[id] \in Users
    BY <1>2 DEF RemoveSession
  <2>2. /\ pc' \in [Threads -> Labels] /\ pc'[t] = "halt"
        /\ \A s \in Threads \ {t} : pc'[s] = pc[s]
    BY <2>1 DEF Goto, Labels
  <2>3. /\ victim' = [victim EXCEPT ![t] = sessions[id]]
        /\ sessions' = [sessions EXCEPT ![id] = Nobody] /\ lock = Nobody
    BY <1>2 DEF RemoveSession
  <2> QED
    BY <2>1, <2>2, <2>3
<1> QED
  BY <1>1, <1>2

LEMMA TypeStep == TypeOK /\ LockInv /\ [Next]_vars => TypeOK'
<1> SUFFICES ASSUME TypeOK, LockInv, [Next]_vars PROVE TypeOK'
  OBVIOUS
<1> USE ThreadFacts
<1>1. ASSUME NEW u \in Users, AllocateCaller(u) PROVE TypeOK'
  <2>1. pc' \in [Threads -> Labels]
    BY <1>1 DEF AllocateCaller, TypeOK, Goto, Labels
  <2>2. CASE UNCHANGED <<poolVars, ports, lock>>
    BY <1>1, <2>1, <2>2 DEF AllocateCaller, TypeOK, poolVars
  <2>3. CASE AllocatePair(u) /\ lock' = u
    <3>1. Len(ports[u]) <= 1
      BY <1>1 DEF AllocateCaller, LockInv, Own
    <3> QED
      BY <1>1, <2>1, <2>3, <3>1, AllocateFacts DEF AllocateCaller, TypeOK
  <2> QED
    BY <1>1, <2>2, <2>3 DEF AllocateCaller
<1>2. ASSUME NEW u \in Users, AllocateCallee(u) PROVE TypeOK'
  <2>1. pc' \in [Threads -> Labels]
    BY <1>2 DEF AllocateCallee, TypeOK, Goto, Labels
  <2>2. CASE UNCHANGED <<poolVars, ports, sessions, state, lock>>
    BY <1>2, <2>1, <2>2 DEF AllocateCallee, TypeOK, poolVars
  <2>3. CASE /\ AllocatePair(u)
             /\ sessions' = [sessions EXCEPT ![IdOf[u]] = u]
             /\ state' = [state EXCEPT ![u] = "new"]
             /\ lock' = Nobody
    <3>0. Own(u) \in Allocating
      BY <1>2 DEF AllocateCallee, Own, Allocating
    <3>1. Len(ports[u]) = 1
      BY <3>0 DEF LockInv
    <3>3. Len(ports[u]) <= 1
      BY <3>1
    <3>2. /\ sessions' \in [Ids -> Users \union {Nobody}]
          /\ state' \in [Users -> {"none", "new", "active", "stopped"}]
      BY <2>3 DEF TypeOK
    <3> QED
      BY <1>2, <2>1, <2>3, <3>2, <3>3, AllocateFacts DEF AllocateCallee, TypeOK
  <2> QED
    BY <1>2, <2>2, <2>3 DEF AllocateCallee
<1>3. ASSUME NEW u \in Users, UndoFirst(u) PROVE TypeOK'
  BY <1>3 DEF UndoFirst, TypeOK, Goto, Labels, sessionVars
<1>4. ASSUME NEW u \in Users,
             CheckNew(u) \/ FailCall(u) \/ CancelCall(u) \/ \E h \in Hangups : Hangup(u, <<u, h>>)
      PROVE  TypeOK'
  <2>1. pc' \in [Threads -> Labels]
    BY <1>4 DEF CheckNew, FailCall, CancelCall, Hangup, TypeOK, Goto, Labels
  <2> QED
    BY <1>4, <2>1 DEF CheckNew, FailCall, CancelCall, Hangup, TypeOK, poolVars, sessionVars
<1>5. ASSUME NEW u \in Users, StartRelay(u) PROVE TypeOK'
  BY <1>5 DEF StartRelay, TypeOK, Goto, Labels, poolVars
<1>6. ASSUME NEW u \in Users, Establish(u) PROVE TypeOK'
  BY <1>6 DEF Establish, TypeOK, Goto, Labels, poolVars
<1>7. ASSUME NEW u \in Users, NEW t \in Threads, StopRecorder(u, t) PROVE TypeOK'
  BY <1>7 DEF StopRecorder, TypeOK, Goto, Labels, poolVars
<1>8. ASSUME NEW u \in Users, NEW t \in Threads, StopSession(u, t) PROVE TypeOK'
  BY <1>8 DEF StopSession, Halt, TypeOK, Goto, Labels, poolVars
<1>9. ASSUME NEW u \in Users, NEW t \in Threads, WaitForRelay(u, t) PROVE TypeOK'
  BY <1>9 DEF WaitForRelay, TypeOK, Goto, Labels, poolVars, sessionVars
<1>10. ASSUME NEW t \in Threads, NEW id \in Ids, RemoveSession(t, id),
              UNCHANGED <<poolVars, lock, sessionVars, panicked>>, orphaned' \subseteq Ids
       PROVE  TypeOK'
  BY <1>10, RemoveFacts DEF TypeOK, poolVars, sessionVars
<1>11. ASSUME NEW t \in Threads, HaltRemoved(t) PROVE TypeOK'
  BY <1>11 DEF HaltRemoved, Halt, TypeOK, Goto, Labels, poolVars
<1>12. ASSUME NEW t \in Threads, ReleasePairs(t) PROVE TypeOK'
  <2>1. pc' \in [Threads -> Labels]
    BY <1>12 DEF ReleasePairs, TypeOK, Goto, Labels
  <2>2. allocated' \subseteq Ports /\ nextPort' = nextPort
    BY <1>12 DEF ReleasePairs, TypeOK, ClosePair, FreePair
  <2>3. bound' \in [Ports -> Users \union {Nobody, Foreign}]
    BY <1>12 DEF ReleasePairs, TypeOK, ClosePair, FreePair
  <2> QED
    BY <1>12, <2>1, <2>2, <2>3 DEF ReleasePairs, TypeOK, sessionVars
<1>13. ASSUME NEW u \in Users, NEW leg \in Legs,
              StopForwarding(u, leg) \/ ReadPacket(u, leg) \/ FeedPacket(u, leg)
       PROVE  TypeOK'
  <2>1. forward' \in [Users -> [Legs -> {"off", "read", "feed"}]]
    <3>1. PICK f \in {"off", "read", "feed"} : forward' = [forward EXCEPT ![u][leg] = f]
      BY <1>13 DEF StopForwarding, ReadPacket, FeedPacket
    <3>2. forward[u] \in [Legs -> {"off", "read", "feed"}]
      BY DEF TypeOK
    <3>3. [forward[u] EXCEPT ![leg] = f] \in [Legs -> {"off", "read", "feed"}]
      BY <3>2
    <3>4. forward' = [forward EXCEPT ![u] = [forward[u] EXCEPT ![leg] = f]]
      BY <3>1
    <3> QED
      BY <3>3, <3>4 DEF TypeOK
  <2>2. panicked' \in BOOLEAN
    BY <1>13 DEF StopForwarding, ReadPacket, FeedPacket, TypeOK
  <2> QED
    BY <1>13, <2>1, <2>2 DEF StopForwarding, ReadPacket, FeedPacket, TypeOK, poolVars
<1>14. ASSUME ScanIdle PROVE TypeOK'
  BY <1>14 DEF ScanIdle, TypeOK, Goto, Labels, poolVars, sessionVars
<1>15. ASSUME Reap PROVE TypeOK'
  <2>1. CASE \E id \in orphaned : RemoveSession(Reaper, id) /\ orphaned' = orphaned \ {id}
    BY <1>10, <1>15, <2>1 DEF Reap, TypeOK
  <2>2. CASE Goto(Reaper, "idle") /\ UNCHANGED <<sessions, victim, orphaned>>
    BY <1>15, <2>2 DEF Reap, TypeOK, Goto, Labels, poolVars, sessionVars
  <2> QED
    BY <1>15, <2>1, <2>2 DEF Reap
<1>16. ASSUME ForeignProcess PROVE TypeOK'
  BY <1>16 DEF ForeignProcess, TypeOK, sessionVars
<1>17. ASSUME NEW u \in Users, NEW t \in Threads, ReleaseOwn(u, t) PROVE TypeOK'
  BY <1>10, <1>17, UserAssumption DEF ReleaseOwn, TypeOK
<1>18. CASE UNCHANGED vars
  BY <1>18 DEF vars, poolVars, sessionVars, TypeOK
<1>19. ASSUME NEW u \in Users, UserStep(u) PROVE TypeOK'
  BY <1>1, <1>2, <1>3, <1>4, <1>5, <1>6, <1>7, <1>8, <1>9, <1>11, <1>12, <1>13, <1>17,
     <1>19 DEF UserStep, InviteStep, ReleaseStep, RelayStep
<1> QED
  BY <1>11, <1>12, <1>14, <1>15, <1>16, <1>18, <1>19 DEF Next, ReaperStep

-----------------------------------------------------------------------------
(* Who allocates, who is in the table and who is being released.           *)

\* A step that touches neither the table, nor m.mu, nor the pairs.
LEMMA QuietControl ==
  ASSUME TypeOK, Control, UNCHANGED <<sessions, lock, ports, victim>>, QuietInv',
         \A t \in Threads : pc'[t] \in Cleanup => pc[t] \in Cleanup,
         \A u \in Users : \/ pc'[Invite(u)] = pc[Invite(u)]
                          \/ /\ pc[Invite(u)] \notin Allocating
                             /\ pc'[Invite(u)] \notin Allocating \union {"idle"}
  PROVE  Control'
<1>1. LockInv'
  BY DEF Control, LockInv, Own
<1>2. \A u \in Users : SetUp(u) => SetUp(u)'
  BY DEF SetUp, Own
<1>3. TableInv'
  <2> SUFFICES ASSUME NEW id \in Ids, (sessions[id] # Nobody)'
               PROVE  (IdOf[sessions[id]] = id /\ SetUp(sessions[id]))'
    BY DEF TableInv
  <2>1. IdOf[sessions[id]] = id /\ SetUp(sessions[id]) /\ sessions[id] \in Users
    BY DEF Control, TableInv, TypeOK
  <2>2. SetUp(sessions[id])'
    BY <2>1, <1>2 DEF SetUp, Own
  <2> QED
    BY <2>1, <2>2
<1>4. CleanupInv'
  BY <1>2 DEF Control, CleanupInv, SetUp, Own
<1> QED
  BY <1>1, <1>3, <1>4 DEF Control

LEMMA QuietGoto ==
  ASSUME TypeOK, Control, UNCHANGED <<sessions, lock, ports, victim>>,
         NEW t \in Threads, pc[t] \notin Allocating \union {"idle"},
         NEW label \in Labels \ (Allocating \union {"idle", "ready"}), Goto(t, label),
         label \in Cleanup => pc[t] \in Cleanup
  PROVE  Control'
<1>1. pc'[t] = label /\ \A s \in Threads \ {t} : pc'[s] = pc[s]
  BY GotoType
<1>2. QuietInv'
  <2> SUFFICES ASSUME NEW u \in Users, NEW h \in Hangups,
                      pc'[Invite(u)] \in Allocating \union {"idle", "ready"}
               PROVE  pc'[<<u, h>>] = "idle"
    BY DEF QuietInv, Own
  <2>1. Invite(u) \in Threads /\ <<u, h>> \in Threads
    BY ThreadFacts
  <2>2. pc'[Invite(u)] = pc[Invite(u)]
    BY <1>1, <2>1
  <2>3. pc[<<u, h>>] = "idle"
    BY <2>2 DEF Control, QuietInv, Own
  <2> QED
    BY <1>1, <2>1, <2>3
<1>3. \A s \in Threads : pc'[s] \in Cleanup => pc[s] \in Cleanup
  BY <1>1
<1>4. ASSUME NEW u \in Users
      PROVE  \/ pc'[Invite(u)] = pc[Invite(u)]
             \/ /\ pc[Invite(u)] \notin Allocating
                /\ pc'[Invite(u)] \notin Allocating \union {"idle"}
  BY <1>1, ThreadFacts
<1> QED
  BY <1>2, <1>3, <1>4, QuietControl

\* A session that leaves the table becomes its remover's victim, and nobody
\* else's.
LEMMA RemoveControl ==
  ASSUME TypeOK, Control, NEW t \in Threads, pc[t] \in {"remove", "reap"},
         NEW id \in Ids, RemoveSession(t, id), UNCHANGED <<lock, ports>>
  PROVE  Control'
<1>1. /\ pc' \in [Threads -> Labels] /\ \A s \in Threads \ {t} : pc'[s] = pc[s]
  BY RemoveFacts
<1>2. pc'[t] \in {"reap", "done", "halt"}
  BY RemoveFacts
<1>3. \A u \in Users : Invite(u) \in Threads /\ \A h \in Hangups : <<u, h>> \in Threads
  BY ThreadFacts
<1>4. \A u \in Users : Invite(u) # t => pc'[Invite(u)] = pc[Invite(u)]
  BY <1>1, <1>3
<1>5. QuietInv'
  <2> SUFFICES ASSUME NEW u \in Users, NEW h \in Hangups,
                      pc'[Invite(u)] \in Allocating \union {"idle", "ready"}
               PROVE  pc'[<<u, h>>] = "idle"
    BY DEF QuietInv, Own
  <2>1. pc'[Invite(u)] = pc[Invite(u)]
    BY <1>2, <1>4 DEF Allocating
  <2>2. pc[<<u, h>>] = "idle"
    BY <2>1 DEF Control, QuietInv, Own
  <2> QED
    BY <1>1, <1>3, <2>2
<1>6. ASSUME NEW u \in Users
      PROVE  \/ pc'[Invite(u)] = pc[Invite(u)]
             \/ /\ pc[Invite(u)] \notin Allocating \union {"idle"}
                /\ pc'[Invite(u)] \notin Allocating \union {"idle"}
  BY <1>2, <1>4 DEF Allocating
<1>7. CASE UNCHANGED <<sessions, victim>> /\ pc'[t] \in {"reap", "done"}
  <2>1. \A s \in Threads : pc'[s] \in Cleanup => pc[s] \in Cleanup
    BY <1>1, <1>7 DEF Cleanup
  <2> QED
    BY <1>5, <1>6, <1>7, <2>1, QuietControl
<1>8. CASE /\ sessions[id] \in Users /\ pc'[t] = "halt"
           /\ victim'[t] = sessions[id]
           /\ \A s \in Threads \ {t} : victim'[s] = victim[s]
           /\ sessions' \in [Ids -> Users \union {Nobody}]
           /\ sessions'[id] = Nobody
           /\ \A i \in Ids \ {id} : sessions'[i] = sessions[i]
  <2>0. \A i \in Ids : sessions[i] = Nobody => sessions'[i] = Nobody
    BY <1>8
  <2>1. LockInv'
    BY <1>6, <2>0, UserAssumption DEF Control, LockInv, Own
  <2>2. \A u \in Users : SetUp(u) => (Len(ports'[u]) = 2
          /\ pc'[Invite(u)] \notin Allocating \union {"idle"})
    BY <1>6 DEF SetUp, Own
  <2>3. TableInv'
    <3> SUFFICES ASSUME NEW i \in Ids, (sessions[i] # Nobody)'
                 PROVE  (IdOf[sessions[i]] = i /\ SetUp(sessions[i]))'
      BY DEF TableInv
    <3>1. sessions'[i] = sessions[i]
      BY <1>8
    <3>2. sessions[i] \in Users /\ IdOf[sessions[i]] = i /\ SetUp(sessions[i])
      BY <3>1 DEF Control, TableInv, TypeOK
    <3> QED
      BY <2>2, <3>1, <3>2 DEF SetUp, Own
  <2> DEFINE v == sessions[id]
  <2>4. v \in Users /\ IdOf[v] = id /\ SetUp(v) /\ v # Nobody
    BY <1>8, UserAssumption DEF Control, TableInv
  <2>5. \A s \in Threads : pc[s] \in Cleanup => victim[s] # v
    BY <2>4 DEF Control, CleanupInv
  <2>6. CleanupInv'
    <3> SUFFICES ASSUME NEW s \in Threads, pc'[s] \in Cleanup
                 PROVE  /\ victim'[s] \in Users
                        /\ SetUp(victim[s])'
                        /\ sessions'[IdOf[victim'[s]]] # victim'[s]
                        /\ \A r \in Threads :
                             pc'[r] \in Cleanup /\ victim'[r] = victim'[s] => r = s
      BY DEF CleanupInv
    <3>1. CASE s = t
      <4>1. victim'[s] = v /\ SetUp(victim[s])'
        BY <1>8, <2>2, <2>4, <3>1 DEF SetUp, Own
      <4>2. \A r \in Threads : pc'[r] \in Cleanup /\ victim'[r] = v => r = t
        BY <1>1, <1>8, <2>5
      <4> QED
        BY <1>8, <2>4, <3>1, <4>1, <4>2
    <3>2. CASE s # t
      <4>1. pc[s] \in Cleanup /\ victim'[s] = victim[s] /\ victim[s] \in Users
        BY <1>1, <1>8, <3>2 DEF Control, CleanupInv
      <4>2. /\ SetUp(victim[s]) /\ sessions[IdOf[victim[s]]] # victim[s]
            /\ \A r \in Threads : pc[r] \in Cleanup /\ victim[r] = victim[s] => r = s
        BY <4>1 DEF Control, CleanupInv
      <4>3. SetUp(victim[s])'
        BY <2>2, <4>1, <4>2 DEF SetUp, Own
      <4>4. IdOf[victim[s]] \in Ids
        BY <4>1, UserAssumption
      <4>5. sessions'[IdOf[victim[s]]] # victim[s]
        BY <1>8, <4>1, <4>2, <4>4, UserAssumption
      <4>6. victim[s] # v
        BY <2>5, <4>1
      <4>7. \A r \in Threads : pc'[r] \in Cleanup /\ victim'[r] = victim[s] => r = s
        BY <1>1, <1>8, <4>2, <4>6
      <4> QED
        BY <4>1, <4>3, <4>5, <4>7
    <3> QED
      BY <3>1, <3>2
  <2> QED
    BY <1>5, <2>1, <2>3, <2>6 DEF Control
<1> QED
  BY <1>2, <1>7, <1>8, RemoveFacts

\* The first pair is taken under m.mu; only u's own state moves.
LEMMA AllocateControl ==
  ASSUME TypeOK, Control, NEW u \in Users,
         AllocateCaller(u) \/ AllocateCallee(u) \/ UndoFirst(u)
  PROVE  Control'
<1> DEFINE t == Invite(u)
<1>1. t \in Threads /\ pc[t] \in Allocating \union {"idle"}
  BY ThreadFacts DEF AllocateCaller, AllocateCallee, UndoFirst, Allocating
<1>2. PICK label \in {"done", "second", "undo", "ready"} : Goto(t, label)
  BY DEF AllocateCaller, AllocateCallee, UndoFirst
<1>3. pc'[t] = label /\ \A s \in Threads \ {t} : pc'[s] = pc[s]
  BY <1>1, <1>2, GotoType DEF Labels
<1>4. \A v \in Users \ {u} : pc'[Invite(v)] = pc[Invite(v)]
  BY <1>3, ThreadFacts
<1>5. QuietInv'
  <2> SUFFICES ASSUME NEW v \in Users, NEW h \in Hangups,
                      pc'[Invite(v)] \in Allocating \union {"idle", "ready"}
               PROVE  pc'[<<v, h>>] = "idle"
    BY DEF QuietInv, Own
  <2>1. pc[Invite(v)] \in Allocating \union {"idle", "ready"}
    BY <1>1, <1>4
  <2>2. pc[<<v, h>>] = "idle" /\ <<v, h>> \in Threads /\ <<v, h>> # t
    BY <2>1, ThreadFacts DEF Control, QuietInv, Own
  <2> QED
    BY <1>3, <2>2
<1>6. \A s \in Threads : pc'[s] \in Cleanup => pc[s] \in Cleanup /\ s # t
  BY <1>3 DEF Cleanup
<1>7. CASE AllocateCaller(u) /\ UNCHANGED <<ports, lock>> /\ label = "done"
  <2>2. UNCHANGED <<sessions, lock, ports, victim>>
    BY <1>7 DEF AllocateCaller
  <2>3. pc[t] = "idle"
    BY <1>7 DEF AllocateCaller
  <2>4. ASSUME NEW v \in Users
        PROVE  \/ pc'[Invite(v)] = pc[Invite(v)]
               \/ /\ pc[Invite(v)] \notin Allocating
                  /\ pc'[Invite(v)] \notin Allocating \union {"idle"}
    BY <1>3, <1>4, <1>7, <2>3 DEF Allocating
  <2> QED
    BY <1>5, <1>6, <2>2, <2>4, QuietControl
<1>8. CASE /\ AllocateCaller(u) /\ AllocatePair(u) /\ lock' = u /\ label = "second"
            /\ sessions[IdOf[u]] = Nobody
  <2>1. pc[t] = "idle" /\ lock = Nobody /\ UNCHANGED <<sessions, victim>>
    BY <1>8 DEF AllocateCaller
  <2>2. ports[u] = <<>> /\ Len(ports[u]) = 0
    BY <2>1 DEF Control, LockInv, Own
  <2>3. Len(ports'[u]) = 1 /\ \A v \in Users \ {u} : ports'[v] = ports[v]
    <3>1. AllocatePair(u) /\ Len(ports[u]) <= 1
      BY <1>8, <2>2
    <3>2. Len(ports'[u]) = Len(ports[u]) + 1 /\ \A v \in Users \ {u} : ports'[v] = ports[v]
      BY <3>1, AllocateFacts
    <3> QED
      BY <2>2, <3>2
  <2>4. LockInv'
    <3>1. \A v \in Users \ {u} : ~ (Own(v) \in Allocating)
      BY <2>1, UserAssumption DEF Control, LockInv
    <3> QED
      BY <1>3, <1>4, <1>8, <2>1, <2>3, <3>1, UserAssumption
         DEF Control, LockInv, Own, Allocating
  <2>5. ~ SetUp(u) /\ \A v \in Users \ {u} : SetUp(v) => SetUp(v)'
    BY <1>4, <2>1, <2>3 DEF SetUp, Own
  <2>6. \A v \in Users : SetUp(v) => SetUp(v)' /\ v # u
    BY <2>5
  <2>7. TableInv'
    <3> SUFFICES ASSUME NEW i \in Ids, (sessions[i] # Nobody)'
                 PROVE  (IdOf[sessions[i]] = i /\ SetUp(sessions[i]))'
      BY DEF TableInv
    <3>1. sessions[i] \in Users /\ IdOf[sessions[i]] = i /\ SetUp(sessions[i])
      BY <2>1 DEF Control, TableInv, TypeOK
    <3> QED
      BY <2>1, <2>6, <3>1 DEF SetUp, Own
  <2>8. CleanupInv'
    BY <1>6, <2>1, <2>6 DEF Control, CleanupInv, SetUp, Own
  <2> QED
    BY <1>5, <2>4, <2>7, <2>8 DEF Control
<1>9. CASE AllocateCallee(u) /\ UNCHANGED <<ports, sessions, lock>> /\ label = "undo"
  <2>2. pc[t] = "second" /\ UNCHANGED <<sessions, lock, ports, victim>>
    BY <1>9 DEF AllocateCallee
  <2>3. LockInv'
    BY <1>3, <1>4, <1>9, <2>2 DEF Control, LockInv, Own, Allocating
  <2>4. \A v \in Users : SetUp(v) => SetUp(v)'
    BY <1>4, <2>2 DEF SetUp, Own, Allocating
  <2>5. TableInv'
    <3> SUFFICES ASSUME NEW i \in Ids, (sessions[i] # Nobody)'
                 PROVE  (IdOf[sessions[i]] = i /\ SetUp(sessions[i]))'
      BY DEF TableInv
    <3>1. sessions[i] \in Users /\ IdOf[sessions[i]] = i /\ SetUp(sessions[i])
      BY <2>2 DEF Control, TableInv, TypeOK
    <3> QED
      BY <2>2, <2>4, <3>1 DEF SetUp, Own
  <2>6. CleanupInv'
    BY <1>6, <2>2, <2>4 DEF Control, CleanupInv, SetUp, Own
  <2> QED
    BY <1>5, <2>3, <2>5, <2>6 DEF Control
<1>10. CASE /\ AllocateCallee(u) /\ AllocatePair(u) /\ label = "ready"
            /\ sessions' = [sessions EXCEPT ![IdOf[u]] = u] /\ lock' = Nobody
  <2>1. pc[t] = "second" /\ lock = u /\ UNCHANGED victim /\ Len(ports[u]) = 1
    BY <1>10 DEF AllocateCallee, Control, LockInv, Own, Allocating
  <2>2. Len(ports'[u]) = 2 /\ \A v \in Users \ {u} : ports'[v] = ports[v]
    <3>1. AllocatePair(u) /\ Len(ports[u]) <= 1
      BY <1>10, <2>1
    <3>2. Len(ports'[u]) = Len(ports[u]) + 1 /\ \A v \in Users \ {u} : ports'[v] = ports[v]
      BY <3>1, AllocateFacts
    <3> QED
      BY <2>1, <3>2
  <2>3. LockInv'
    BY <1>3, <1>4, <1>10, <2>1, <2>2, UserAssumption DEF Control, LockInv, Own, Allocating
  <2>4. ~ SetUp(u) /\ \A v \in Users \ {u} : SetUp(v) => SetUp(v)'
    BY <1>4, <2>1, <2>2 DEF SetUp, Own, Allocating
  <2>5. SetUp(u)'
    BY <1>3, <1>10, <2>2 DEF SetUp, Own, Allocating
  <2>6. IdOf[u] \in Ids /\ sessions'[IdOf[u]] = u
        /\ \A i \in Ids \ {IdOf[u]} : sessions'[i] = sessions[i]
    BY <1>10, UserAssumption DEF TypeOK
  <2>7. TableInv'
    <3> SUFFICES ASSUME NEW i \in Ids, (sessions[i] # Nobody)'
                 PROVE  (IdOf[sessions[i]] = i /\ SetUp(sessions[i]))'
      BY DEF TableInv
    <3>1. CASE i = IdOf[u]
      BY <2>5, <2>6, <3>1 DEF SetUp, Own
    <3>2. CASE i # IdOf[u]
      <4>1. sessions'[i] = sessions[i] /\ sessions[i] \in Users
            /\ IdOf[sessions[i]] = i /\ SetUp(sessions[i])
        BY <2>6, <3>2 DEF Control, TableInv, TypeOK
      <4>2. sessions[i] # u
        BY <3>2, <4>1
      <4> QED
        BY <2>4, <4>1, <4>2 DEF SetUp, Own
    <3> QED
      BY <3>1, <3>2
  <2>8. CleanupInv'
    <3> SUFFICES ASSUME NEW s \in Threads, pc'[s] \in Cleanup
                 PROVE  /\ victim'[s] \in Users
                        /\ SetUp(victim[s])'
                        /\ sessions'[IdOf[victim'[s]]] # victim'[s]
                        /\ \A r \in Threads :
                             pc'[r] \in Cleanup /\ victim'[r] = victim'[s] => r = s
      BY DEF CleanupInv
    <3>1. /\ pc[s] \in Cleanup /\ victim'[s] = victim[s] /\ victim[s] \in Users
          /\ SetUp(victim[s]) /\ sessions[IdOf[victim[s]]] # victim[s]
          /\ \A r \in Threads : pc[r] \in Cleanup /\ victim[r] = victim[s] => r = s
      BY <1>6, <2>1 DEF Control, CleanupInv
    <3>2. victim[s] # u /\ SetUp(victim[s])'
      BY <2>1, <2>4, <3>1 DEF SetUp, Own
    <3>3. IdOf[victim[s]] \in Ids
      BY <3>1, UserAssumption
    <3>4. sessions'[IdOf[victim[s]]] # victim[s]
      BY <2>6, <3>1, <3>2, <3>3
    <3> QED
      BY <1>6, <2>1, <3>1, <3>2, <3>4
  <2> QED
    BY <1>5, <2>3, <2>7, <2>8 DEF Control
<1>11. CASE UndoFirst(u)
  <2>1. /\ pc[t] = "undo" /\ lock = u /\ lock' = Nobody
        /\ UNCHANGED <<sessions, ports, victim>>
    BY <1>11 DEF UndoFirst, Control, LockInv, Own, Allocating, sessionVars
  <2>2. label = "done"
    BY <1>1, <1>3, <1>11 DEF UndoFirst, Goto, TypeOK
  <2>3. LockInv'
    BY <1>3, <1>4, <2>1, <2>2, UserAssumption DEF Control, LockInv, Own, Allocating
  <2>4. \A v \in Users : SetUp(v) => SetUp(v)'
    BY <1>4, <2>1 DEF SetUp, Own, Allocating
  <2>5. TableInv'
    <3> SUFFICES ASSUME NEW i \in Ids, (sessions[i] # Nobody)'
                 PROVE  (IdOf[sessions[i]] = i /\ SetUp(sessions[i]))'
      BY DEF TableInv
    <3>1. sessions[i] \in Users /\ IdOf[sessions[i]] = i /\ SetUp(sessions[i])
      BY <2>1 DEF Control, TableInv, TypeOK
    <3> QED
      BY <2>1, <2>4, <3>1 DEF SetUp, Own
  <2>6. CleanupInv'
    BY <1>6, <2>1, <2>4 DEF Control, CleanupInv, SetUp, Own
  <2> QED
    BY <1>5, <2>3, <2>5, <2>6 DEF Control
<1>12. AllocateCaller(u) =>
         \/ UNCHANGED <<ports, lock>> /\ label = "done"
         \/ /\ AllocatePair(u) /\ lock' = u /\ label = "second"
            /\ sessions[IdOf[u]] = Nobody
  BY <1>1, <1>3 DEF AllocateCaller, Goto, TypeOK
<1>13. AllocateCallee(u) =>
         \/ UNCHANGED <<ports, sessions, lock>> /\ label = "undo"
         \/ /\ AllocatePair(u) /\ label = "ready"
            /\ sessions' = [sessions EXCEPT ![IdOf[u]] = u] /\ lock' = Nobody
  BY <1>1, <1>3 DEF AllocateCallee, Goto, TypeOK
<1> QED
  BY <1>7, <1>8, <1>9, <1>10, <1>11, <1>12, <1>13

LEMMA ControlStep == TypeOK /\ Control /\ [Next]_vars => Control'
<1> SUFFICES ASSUME TypeOK, Control, [Next]_vars PROVE Control'
  OBVIOUS
<1> USE ThreadFacts
<1> DEFINE Quiet == UNCHANGED <<sessions, lock, ports, victim>>
<1>1. ASSUME NEW u \in Users, AllocateCaller(u) \/ AllocateCallee(u) \/ UndoFirst(u)
      PROVE  Control'
  BY <1>1, AllocateControl
<1>2. ASSUME NEW t \in Threads, Quiet, pc[t] \notin Allocating \union {"idle"},
             NEW label \in Labels \ (Allocating \union {"idle", "ready"}), Goto(t, label),
             label \in Cleanup => pc[t] \in Cleanup
      PROVE  Control'
  BY <1>2, QuietGoto
<1>3. ASSUME NEW u \in Users, CheckNew(u) PROVE Control'
  <2>1. Quiet /\ pc[Invite(u)] = "ready"
    BY <1>3 DEF CheckNew, sessionVars
  <2>2. Goto(Invite(u), "starting") \/ Goto(Invite(u), "stop")
    BY <1>3 DEF CheckNew
  <2> QED
    BY <1>2, <2>1, <2>2 DEF Allocating, Cleanup, Labels
<1>4. ASSUME NEW u \in Users, StartRelay(u) PROVE Control'
  BY <1>2, <1>4 DEF StartRelay, Allocating, Cleanup, Labels
<1>5. ASSUME NEW u \in Users, Establish(u) PROVE Control'
  BY <1>2, <1>5 DEF Establish, Allocating, Cleanup, Labels
<1>6. ASSUME NEW u \in Users, FailCall(u) PROVE Control'
  BY <1>2, <1>6 DEF FailCall, Allocating, Cleanup, Labels, sessionVars
<1>7. ASSUME NEW u \in Users, NEW t \in Threads, StopRecorder(u, t) PROVE Control'
  BY <1>2, <1>7 DEF StopRecorder, Allocating, Cleanup, Labels
<1>8. ASSUME NEW u \in Users, NEW t \in Threads, StopSession(u, t) PROVE Control'
  <2>1. Goto(t, "wait") \/ Goto(t, "remove")
    BY <1>8 DEF StopSession
  <2> QED
    BY <1>2, <1>8, <2>1 DEF StopSession, Allocating, Cleanup, Labels
<1>9. ASSUME NEW u \in Users, NEW t \in Threads, WaitForRelay(u, t) PROVE Control'
  BY <1>2, <1>9 DEF WaitForRelay, Allocating, Cleanup, Labels, sessionVars
<1>10. ASSUME NEW t \in Threads, HaltRemoved(t) PROVE Control'
  BY <1>2, <1>10 DEF HaltRemoved, Allocating, Cleanup, Labels
<1>11. ASSUME NEW t \in Threads, ReleasePairs(t) PROVE Control'
  <2>1. Quiet /\ pc[t] \in Cleanup
    BY <1>11 DEF ReleasePairs, Cleanup, sessionVars
  <2>2. \E label \in Labels \ (Allocating \union {"idle", "ready"}) : Goto(t, label)
    BY <1>11 DEF ReleasePairs, Labels, Allocating
  <2> QED
    BY <1>2, <2>1, <2>2 DEF Cleanup, Allocating
<1>12. ASSUME NEW u \in Users, CancelCall(u) PROVE Control'
  <2>1. PICK label \in {"stop", "done"}, h \in Hangups :
          pc' = [pc EXCEPT ![Invite(u)] = label, ![<<u, h>>] = "stop"]
    BY <1>12 DEF CancelCall
  <2>2. Quiet /\ pc[Invite(u)] = "ready"
    BY <1>12 DEF CancelCall, sessionVars
  <2>3. /\ Invite(u) \in Threads /\ <<u, h>> \in Threads /\ <<u, h>> # Invite(u)
        /\ pc'[Invite(u)] = label /\ pc'[<<u, h>>] = "stop"
        /\ \A s \in Threads \ {Invite(u), <<u, h>>} : pc'[s] = pc[s]
    BY <2>1 DEF TypeOK
  <2>4. QuietInv'
    <3> SUFFICES ASSUME NEW v \in Users, NEW k \in Hangups,
                        pc'[Invite(v)] \in Allocating \union {"idle", "ready"}
                 PROVE  pc'[<<v, k>>] = "idle"
      BY DEF QuietInv, Own
    <3>1. Invite(v) # Invite(u) /\ Invite(v) # <<u, h>>
      BY <2>3 DEF Allocating
    <3>2. pc[<<v, k>>] = "idle" /\ v # u
      BY <2>3, <3>1 DEF Control, QuietInv, Own
    <3>3. <<v, k>> \in Threads /\ <<v, k>> # Invite(u) /\ <<v, k>> # <<u, h>>
      BY <3>2
    <3> QED
      BY <2>3, <3>2, <3>3
  <2>5. \A s \in Threads : pc'[s] \in Cleanup => pc[s] \in Cleanup
    BY <2>3 DEF Cleanup
  <2>6. ASSUME NEW v \in Users
        PROVE  \/ pc'[Invite(v)] = pc[Invite(v)]
               \/ /\ pc[Invite(v)] \notin Allocating
                  /\ pc'[Invite(v)] \notin Allocating \union {"idle"}
    BY <2>2, <2>3 DEF Allocating
  <2> QED
    BY <2>2, <2>4, <2>5, <2>6, QuietControl
<1>13. ASSUME NEW u \in Users, NEW h \in Hangups, Hangup(u, <<u, h>>) PROVE Control'
  <2>1. /\ Quiet /\ pc[Invite(u)] = "up" /\ <<u, h>> \in Threads
        /\ Goto(<<u, h>>, "record")
    BY <1>13 DEF Hangup, sessionVars
  <2>2. pc'[<<u, h>>] = "record" /\ \A s \in Threads \ {<<u, h>>} : pc'[s] = pc[s]
    BY <2>1, GotoType DEF Labels
  <2>3. \A v \in Users : pc'[Invite(v)] = pc[Invite(v)]
    BY <2>2
  <2>4. QuietInv'
    <3> SUFFICES ASSUME NEW v \in Users, NEW k \in Hangups,
                        pc'[Invite(v)] \in Allocating \union {"idle", "ready"}
                 PROVE  pc'[<<v, k>>] = "idle"
      BY DEF QuietInv, Own
    <3>1. pc[<<v, k>>] = "idle" /\ v # u
      BY <2>1, <2>3 DEF Control, QuietInv, Own, Allocating
    <3>2. <<v, k>> # <<u, h>> /\ <<v, k>> \in Threads
      BY <3>1
    <3> QED
      BY <2>2, <3>1, <3>2
  <2>5. \A s \in Threads : pc'[s] \in Cleanup => pc[s] \in Cleanup
    BY <2>2 DEF Cleanup
  <2> QED
    BY <2>1, <2>3, <2>4, <2>5, QuietControl
<1>14. ASSUME NEW u \in Users, NEW t \in Threads, ReleaseOwn(u, t) PROVE Control'
  BY <1>14, RemoveControl, UserAssumption DEF ReleaseOwn, sessionVars
<1>15. ASSUME NEW label \in {"idle", "reap"}, Goto(Reaper, label), Quiet
       PROVE  Control'
  <2>1. pc'[Reaper] = label /\ \A s \in Threads \ {Reaper} : pc'[s] = pc[s]
    BY <1>15, GotoType DEF Labels
  <2>2. \A u \in Users : \A s \in Releasers(u) : pc'[s] = pc[s]
    BY <2>1
  <2>3. QuietInv'
    BY <2>2 DEF Control, QuietInv, Own
  <2>4. \A s \in Threads : pc'[s] \in Cleanup => pc[s] \in Cleanup
    BY <2>1 DEF Cleanup
  <2> QED
    BY <1>15, <2>2, <2>3, <2>4, QuietControl
<1>16. ASSUME ScanIdle PROVE Control'
  BY <1>15, <1>16 DEF ScanIdle, sessionVars
<1>17. ASSUME Reap PROVE Control'
  <2>1. CASE \E id \in orphaned : RemoveSession(Reaper, id)
    BY <1>17, <2>1, RemoveControl DEF Reap, TypeOK, sessionVars
  <2>2. CASE Goto(Reaper, "idle") /\ UNCHANGED <<sessions, victim, orphaned>>
    BY <1>15, <1>17, <2>2 DEF Reap, sessionVars
  <2> QED
    BY <1>17, <2>1, <2>2 DEF Reap
<1>18. ASSUME Quiet, pc' = pc PROVE Control'
  BY <1>18, QuietControl DEF Control, QuietInv, Own
<1>19. ASSUME NEW u \in Users, NEW leg \in Legs,
              StopForwarding(u, leg) \/ ReadPacket(u, leg) \/ FeedPacket(u, leg)
       PROVE  Control'
  BY <1>18, <1>19 DEF StopForwarding, ReadPacket, FeedPacket
<1>20. CASE ForeignProcess
  BY <1>18, <1>20 DEF ForeignProcess, sessionVars
<1>21. CASE UNCHANGED vars
  BY <1>18, <1>21 DEF vars, sessionVars
<1>22. ASSUME NEW u \in Users, UserStep(u) PROVE Control'
  BY <1>1, <1>3, <1>4, <1>5, <1>6, <1>7, <1>8, <1>9, <1>10, <1>11, <1>12, <1>13, <1>14,
     <1>19, <1>22 DEF UserStep, InviteStep, ReleaseStep, RelayStep
<1> QED
  BY <1>10, <1>11, <1>16, <1>17, <1>20, <1>21, <1>22 DEF Next, ReaperStep

-----------------------------------------------------------------------------
(* Who holds which pair.                                                   *)

LEMMA OpenHeld ==
  ASSUME NEW u, NEW n \in 1 .. 2, Opens(u, n)
  PROVE  Holds(u, n)
BY DEF Opens, Holds, OpenAt, HoldAt, Cleanup

LEMMA CleanupLabels ==
  \A n \in 1 .. 2 : HoldAt(n) \subseteq Cleanup /\ OpenAt(n) \subseteq Cleanup
BY DEF HoldAt, OpenAt, Cleanup

\* What is held where the table, m.mu and the goroutines that release stay put.
LEMMA SameHolders ==
  ASSUME UNCHANGED <<sessions, lock, victim>>,
         \A t \in Threads : \/ pc'[t] = pc[t]
                            \/ pc[t] \notin Cleanup /\ pc'[t] \notin Cleanup
                            \/ pc[t] = "halt" /\ pc'[t] = "closeCaller"
  PROVE  \A u \in Users, n \in 1 .. 2 :
           (Holds(u, n)' <=> Holds(u, n)) /\ (Opens(u, n)' <=> Opens(u, n))
<1>1. ASSUME NEW t \in Threads, NEW n \in 1 .. 2
      PROVE  /\ pc'[t] \in HoldAt(n) <=> pc[t] \in HoldAt(n)
             /\ pc'[t] \in OpenAt(n) <=> pc[t] \in OpenAt(n)
  BY CleanupLabels DEF HoldAt, OpenAt, Cleanup
<1> SUFFICES ASSUME NEW u \in Users, NEW n \in 1 .. 2
             PROVE  (Holds(u, n)' <=> Holds(u, n)) /\ (Opens(u, n)' <=> Opens(u, n))
  OBVIOUS
<1>2. Holds(u, n)' <=> Holds(u, n)
  BY <1>1 DEF Holds
<1>3. Opens(u, n)' <=> Opens(u, n)
  BY <1>1 DEF Opens
<1> QED
  BY <1>2, <1>3

\* A user that is about to take its first pair has none, and one that is about
\* to take its second has the first.
LEMMA AllocatingHolds ==
  ASSUME TypeOK, Control, NEW u \in Users, NEW n \in 1 .. 2,
         ~ SetUp(u)
  PROVE  /\ Holds(u, n) <=> n = 1 /\ lock = u
         /\ Opens(u, n) <=> n = 1 /\ lock = u
<1>1. sessions[IdOf[u]] # u
  BY UserAssumption DEF Control, TableInv
<1>2. \A t \in Threads : ~ (pc[t] \in Cleanup /\ victim[t] = u)
  BY DEF Control, CleanupInv
<1> QED
  BY <1>1, <1>2, CleanupLabels DEF Holds, Opens

\* What the goroutine that releases u's pairs still holds.
LEMMA CleanupHolds ==
  ASSUME TypeOK, Control, NEW t \in Threads, pc[t] \in Cleanup, NEW n \in 1 .. 2
  PROVE  /\ Holds(victim[t], n) <=> pc[t] \in HoldAt(n)
         /\ Opens(victim[t], n) <=> pc[t] \in OpenAt(n)
<1> DEFINE u == victim[t]
<1>1. /\ u \in Users /\ SetUp(u) /\ sessions[IdOf[u]] # u
      /\ \A s \in Threads : pc[s] \in Cleanup /\ victim[s] = u => s = t
  BY DEF Control, CleanupInv
<1>2. lock # u
  BY <1>1 DEF Control, LockInv, SetUp
<1> QED
  BY <1>1, <1>2, CleanupLabels DEF Holds, Opens

-----------------------------------------------------------------------------
(* What each kind of step does to who holds which pair.                    *)

SameHolding(v, n) ==
  (Holds(v, n)' <=> Holds(v, n)) /\ (Opens(v, n)' <=> Opens(v, n))

\* Nobody's pairs change hands, or no other than u's m-th.
Keeps == \A v \in Users, n \in 1 .. 2 : SameHolding(v, n)

KeepsBut(u, m) == \A v \in Users, n \in 1 .. 2 : ~ (v = u /\ n = m) => SameHolding(v, n)

\* u takes its m-th pair, or is through with it.
Takes(u, m) ==
  /\ AllocatePair(u) /\ Len(ports[u]) = m - 1
  /\ KeepsBut(u, m)
  /\ \A n \in 1 .. 2 : Holds(u, n) => n < m
  /\ Holds(u, m)' /\ Opens(u, m)'

Drops(u, m) ==
  /\ Holds(u, m) /\ ~ Opens(u, m)'
  /\ ports' = ports
  /\ KeepsBut(u, m)

\* The steps that move no pair.
Quiet ==
  /\ UNCHANGED <<sessions, lock, victim, ports, allocated>>
  /\ Keeps
  /\ \A p \in Ports : bound'[p] = bound[p] \/ (bound[p] \notin Users /\ bound'[p] \notin Users)

\* SessionManager.Allocate gets no pair, or takes the first, or the second and
\* puts the session in the table, or gives the first one back.
LEMMA AllocateKinds ==
  ASSUME TypeOK, Control, NEW u \in Users,
         AllocateCaller(u) \/ AllocateCallee(u) \/ UndoFirst(u)
  PROVE  \/ Quiet
         \/ Takes(u, 1) /\ AllocateCaller(u) /\ lock' = u /\ ports[u] = <<>>
         \/ /\ Takes(u, 2) /\ AllocateCallee(u) /\ lock = u
            /\ sessions' = [sessions EXCEPT ![IdOf[u]] = u]
         \/ Drops(u, 1) /\ ~ Holds(u, 1)' /\ UndoFirst(u) /\ lock = u
<1> DEFINE t == Invite(u)
<1>1. t \in Threads /\ pc[t] \in Allocating \union {"idle"} /\ ~ SetUp(u)
  BY ThreadFacts DEF AllocateCaller, AllocateCallee, UndoFirst, Allocating, SetUp, Own
<1>2. /\ UNCHANGED victim
      /\ \E label \in {"done", "second", "undo", "ready"} : Goto(t, label)
  BY DEF AllocateCaller, AllocateCallee, UndoFirst
<1>3. /\ pc'[t] \in {"done", "second", "undo", "ready"}
      /\ \A s \in Threads \ {t} : pc'[s] = pc[s]
  BY <1>1, <1>2, GotoType DEF Labels
<1>4. \A s \in Threads : pc'[s] = pc[s] \/ (pc[s] \notin Cleanup /\ pc'[s] \notin Cleanup)
  BY <1>1, <1>3 DEF Cleanup, Allocating
<1>5. \A s \in Threads, n \in 1 .. 2 :
        /\ pc'[s] \in HoldAt(n) <=> pc[s] \in HoldAt(n)
        /\ pc'[s] \in OpenAt(n) <=> pc[s] \in OpenAt(n)
  BY <1>4, CleanupLabels
<1>6. \A n \in 1 .. 2 : /\ Holds(u, n) <=> n = 1 /\ lock = u
                        /\ Opens(u, n) <=> n = 1 /\ lock = u
  BY <1>1, AllocatingHolds
<1>7. \A s \in Threads : ~ (pc[s] \in Cleanup /\ victim[s] = u)
  BY <1>1 DEF Control, CleanupInv
<1>8. \A n \in 1 .. 2 : /\ Holds(u, n)' <=> (n = 1 /\ lock' = u) \/ sessions'[IdOf[u]] = u
                        /\ Opens(u, n)' <=> (n = 1 /\ lock' = u) \/ sessions'[IdOf[u]] = u
  BY <1>2, <1>4, <1>7, CleanupLabels DEF Holds, Opens
<1>9. ASSUME \A v \in Users \ {u} : /\ lock' = v <=> lock = v
                                    /\ sessions'[IdOf[v]] = v <=> sessions[IdOf[v]] = v
      PROVE  \A v \in Users \ {u}, n \in 1 .. 2 : SameHolding(v, n)
  <2> SUFFICES ASSUME NEW v \in Users \ {u}, NEW n \in 1 .. 2
               PROVE  SameHolding(v, n)
    OBVIOUS
  <2>1. Holds(v, n)' <=> Holds(v, n)
    BY <1>2, <1>5, <1>9 DEF Holds
  <2>2. Opens(v, n)' <=> Opens(v, n)
    BY <1>2, <1>5, <1>9 DEF Opens
  <2> QED
    BY <2>1, <2>2 DEF SameHolding
<1>10. /\ \A n \in 1 .. 2 : n # 1 => n = 2
       /\ \A n \in 1 .. 2 : n # 2 => n = 1
  OBVIOUS
<1>11. CASE /\ UNCHANGED <<poolVars, ports, lock, sessions>>
            /\ AllocateCaller(u) \/ AllocateCallee(u)
  <2>1. sessions[IdOf[u]] # u
    BY <1>1, UserAssumption DEF Control, TableInv
  <2>2. Keeps
    BY <1>6, <1>8, <1>9, <1>11, <2>1 DEF Keeps, SameHolding
  <2> QED
    BY <1>2, <1>11, <2>2 DEF Quiet, poolVars
<1>12. CASE /\ AllocateCaller(u) /\ AllocatePair(u) /\ lock' = u
            /\ UNCHANGED sessions /\ sessions[IdOf[u]] = Nobody
  <2>1. pc[t] = "idle" /\ lock = Nobody
    BY <1>12 DEF AllocateCaller
  <2>2. ports[u] = <<>> /\ Len(ports[u]) = 1 - 1
    BY <2>1 DEF Control, LockInv, Own
  <2>3. \A v \in Users \ {u}, n \in 1 .. 2 : SameHolding(v, n)
    BY <1>9, <1>12, <2>1, UserAssumption
  <2>4. \A n \in 1 .. 2 : ~ Holds(u, n) /\ ~ Opens(u, n)
    BY <1>6, <2>1, UserAssumption
  <2>5. /\ Holds(u, 1)' /\ Opens(u, 1)' /\ ~ Holds(u, 2)' /\ ~ Opens(u, 2)'
    BY <1>8, <1>12, UserAssumption
  <2>6. KeepsBut(u, 1)
    BY <1>10, <2>3, <2>4, <2>5 DEF KeepsBut, SameHolding
  <2> QED
    BY <1>12, <2>2, <2>4, <2>5, <2>6 DEF Takes
<1>13. CASE /\ AllocateCallee(u) /\ AllocatePair(u) /\ lock' = Nobody
            /\ sessions' = [sessions EXCEPT ![IdOf[u]] = u]
  <2>1. /\ lock = u /\ Len(ports[u]) = 1 /\ sessions[IdOf[u]] = Nobody
    BY <1>13 DEF AllocateCallee, Control, LockInv, Own, Allocating
  <2>2. Len(ports[u]) = 2 - 1
    BY <2>1
  <2>3. \A v \in Users : IdOf[v] \in Ids
    BY UserAssumption
  <2>4. sessions'[IdOf[u]] = u
        /\ \A i \in Ids \ {IdOf[u]} : sessions'[i] = sessions[i]
    BY <1>13, <2>3 DEF TypeOK
  <2>5. \A v \in Users \ {u}, n \in 1 .. 2 : SameHolding(v, n)
    <3>1. \A v \in Users \ {u} : lock' = v <=> lock = v
      BY <1>13, <2>1, UserAssumption
    <3>2. \A v \in Users \ {u} : sessions'[IdOf[v]] = v <=> sessions[IdOf[v]] = v
      BY <2>1, <2>3, <2>4, UserAssumption
    <3> QED
      BY <1>9, <3>1, <3>2
  <2>6. \A n \in 1 .. 2 : /\ Holds(u, n) <=> n = 1
                          /\ Opens(u, n) <=> n = 1
                          /\ Holds(u, n)' /\ Opens(u, n)'
    BY <1>6, <1>8, <2>1, <2>4
  <2>7. KeepsBut(u, 2)
    BY <1>10, <2>5, <2>6 DEF KeepsBut, SameHolding
  <2>8. Holds(u, 2)' /\ Opens(u, 2)' /\ \A n \in 1 .. 2 : Holds(u, n) => n < 2
    BY <2>6
  <2> QED
    BY <1>13, <2>1, <2>2, <2>7, <2>8 DEF Takes
<1>14. CASE UndoFirst(u)
  <2>1. /\ lock = u /\ sessions[IdOf[u]] = Nobody /\ lock' = Nobody
        /\ UNCHANGED <<sessions, ports>>
    BY <1>14 DEF UndoFirst, Control, LockInv, Own, Allocating, sessionVars
  <2>2. \A v \in Users \ {u}, n \in 1 .. 2 : SameHolding(v, n)
    BY <1>9, <2>1, UserAssumption
  <2>3. \A n \in 1 .. 2 : /\ Holds(u, n) <=> n = 1
                          /\ Opens(u, n) <=> n = 1
                          /\ ~ Holds(u, n)' /\ ~ Opens(u, n)'
    BY <1>6, <1>8, <2>1, UserAssumption
  <2>4. Holds(u, 1) /\ ~ Holds(u, 1)' /\ ~ Opens(u, 1)'
    BY <2>3
  <2>5. KeepsBut(u, 1)
    BY <1>10, <2>2, <2>3 DEF KeepsBut, SameHolding
  <2> QED
    BY <1>14, <2>1, <2>4, <2>5 DEF Drops
<1>15. AllocateCaller(u) =>
         \/ UNCHANGED <<poolVars, ports, lock, sessions>>
         \/ /\ AllocatePair(u) /\ lock' = u
            /\ UNCHANGED sessions /\ sessions[IdOf[u]] = Nobody
  BY DEF AllocateCaller
<1>16. AllocateCallee(u) =>
         \/ UNCHANGED <<poolVars, ports, lock, sessions>>
         \/ /\ AllocatePair(u) /\ lock' = Nobody
            /\ sessions' = [sessions EXCEPT ![IdOf[u]] = u]
  BY DEF AllocateCallee
<1> QED
  BY <1>11, <1>12, <1>13, <1>14, <1>15, <1>16

\* SessionManager.Release takes the session out of the table: the pairs stay its
\* user's, through the goroutine that releases them.
LEMMA RemoveKeeps ==
  ASSUME TypeOK, Control, NEW t \in Threads, pc[t] \in {"remove", "reap"},
         NEW id \in Ids, RemoveSession(t, id), UNCHANGED lock
  PROVE  Keeps
<1>1. \A s \in Threads \ {t} : pc'[s] = pc[s]
  BY RemoveFacts
<1>2. CASE UNCHANGED <<sessions, victim>> /\ pc'[t] \in {"reap", "done"}
  <2>1. \A s \in Threads : pc'[s] = pc[s] \/ (pc[s] \notin Cleanup /\ pc'[s] \notin Cleanup)
    BY <1>1, <1>2 DEF Cleanup
  <2> QED
    BY <1>2, <2>1, SameHolders DEF Keeps, SameHolding
<1>3. CASE /\ sessions[id] \in Users /\ pc'[t] = "halt"
           /\ victim'[t] = sessions[id]
           /\ \A s \in Threads \ {t} : victim'[s] = victim[s]
           /\ sessions' \in [Ids -> Users \union {Nobody}]
           /\ sessions'[id] = Nobody
           /\ \A i \in Ids \ {id} : sessions'[i] = sessions[i]
  <2>0. PICK v \in Users : v = sessions[id]
    BY <1>3
  <2>1. IdOf[v] = id /\ sessions[IdOf[v]] = v
    BY <2>0, UserAssumption DEF Control, TableInv
  <2>2. pc[t] \notin Cleanup
    BY DEF Cleanup
  <2>3. ASSUME NEW w \in Users, NEW n \in 1 .. 2, w # v
        PROVE  SameHolding(w, n)
    <3>1. IdOf[w] \in Ids
      BY UserAssumption
    <3>2. sessions'[IdOf[w]] = w <=> sessions[IdOf[w]] = w
      BY <1>3, <2>0, <2>3, <3>1, UserAssumption
    <3>3. \A s \in Threads : /\ pc'[s] \in HoldAt(n) /\ victim'[s] = w
                                <=> pc[s] \in HoldAt(n) /\ victim[s] = w
                             /\ pc'[s] \in OpenAt(n) /\ victim'[s] = w
                                <=> pc[s] \in OpenAt(n) /\ victim[s] = w
      BY <1>1, <1>3, <2>0, <2>2, <2>3, CleanupLabels
    <3>4. Holds(w, n)' <=> Holds(w, n)
      BY <3>2, <3>3 DEF Holds
    <3>5. Opens(w, n)' <=> Opens(w, n)
      BY <3>2, <3>3 DEF Opens
    <3> QED
      BY <3>4, <3>5 DEF SameHolding
  <2>4. ASSUME NEW n \in 1 .. 2
        PROVE  SameHolding(v, n)
    <3>1. pc'[t] \in HoldAt(n) /\ pc'[t] \in OpenAt(n)
      BY <1>3 DEF HoldAt, OpenAt, Cleanup
    <3>2. Holds(v, n) /\ Opens(v, n)
      BY <2>1 DEF Holds, Opens
    <3>3. Holds(v, n)'
      BY <1>3, <2>0, <3>1 DEF Holds
    <3>4. Opens(v, n)'
      BY <1>3, <2>0, <3>1 DEF Opens
    <3> QED
      BY <3>2, <3>3, <3>4 DEF SameHolding
  <2> QED
    BY <2>3, <2>4 DEF Keeps
<1> QED
  BY <1>2, <1>3, RemoveFacts

\* Proxy.Release, twice: each pair is closed, then freed, and stays its user's
\* until it is.
LEMMA ReleaseKinds ==
  ASSUME TypeOK, Control, NEW t \in Threads, ReleasePairs(t)
  PROVE  /\ UNCHANGED <<sessions, relay, ports>>
         /\ \E u \in Users, m \in 1 .. 2 :
              /\ u = victim[t] /\ SetUp(u) /\ sessions[IdOf[u]] # u
              /\ Drops(u, m)
              /\ \/ ClosePair(t, m) /\ Opens(u, m) /\ Holds(u, m)'
                 \/ FreePair(t, m) /\ ~ Opens(u, m) /\ ~ Holds(u, m)'
<1>1. pc[t] \in Cleanup /\ UNCHANGED <<sessions, lock, victim, ports, relay>>
  BY DEF ReleasePairs, Cleanup, sessionVars
<1>2. PICK u \in Users : u = victim[t]
  BY <1>1 DEF Control, CleanupInv
<1>3. /\ SetUp(u) /\ sessions[IdOf[u]] # u
      /\ \A s \in Threads : pc[s] \in Cleanup /\ victim[s] = u => s = t
  BY <1>1, <1>2 DEF Control, CleanupInv
<1>4. lock # u
  BY <1>3 DEF Control, LockInv, SetUp
<1>5. \A n \in 1 .. 2 : /\ Holds(u, n) <=> pc[t] \in HoldAt(n)
                        /\ Opens(u, n) <=> pc[t] \in OpenAt(n)
  BY <1>1, <1>2, CleanupHolds
<1>6. /\ pc'[t] \in {"freeCaller", "closeCallee", "freeCallee", "reap", "done"}
      /\ \A s \in Threads \ {t} : pc'[s] = pc[s]
  BY DEF ReleasePairs, Goto, TypeOK
<1>7. \A n \in 1 .. 2 : /\ Holds(u, n)' <=> pc'[t] \in HoldAt(n)
                        /\ Opens(u, n)' <=> pc'[t] \in OpenAt(n)
  <2> SUFFICES ASSUME NEW n \in 1 .. 2
               PROVE  /\ Holds(u, n)' <=> pc'[t] \in HoldAt(n)
                      /\ Opens(u, n)' <=> pc'[t] \in OpenAt(n)
    OBVIOUS
  <2>1. \A s \in Threads : pc'[s] \in Cleanup /\ victim'[s] = u => s = t
    BY <1>1, <1>3, <1>6
  <2>2. Holds(u, n)' <=> pc'[t] \in HoldAt(n)
    BY <1>1, <1>2, <1>3, <1>4, <2>1, CleanupLabels DEF Holds
  <2>3. Opens(u, n)' <=> pc'[t] \in OpenAt(n)
    BY <1>1, <1>2, <1>3, <1>4, <2>1, CleanupLabels DEF Opens
  <2> QED
    BY <2>2, <2>3
<1>8. ASSUME NEW v \in Users, NEW n \in 1 .. 2, v # u
      PROVE  SameHolding(v, n)
  <2>1. Holds(v, n)' <=> Holds(v, n)
    BY <1>1, <1>2, <1>6, <1>8 DEF Holds
  <2>2. Opens(v, n)' <=> Opens(v, n)
    BY <1>1, <1>2, <1>6, <1>8 DEF Opens
  <2> QED
    BY <2>1, <2>2 DEF SameHolding
<1>9. 1 \in 1 .. 2 /\ 2 \in 1 .. 2 /\ \A n \in 1 .. 2 : n = 1 \/ n = 2
  OBVIOUS
<1>10. ASSUME NEW m \in 1 .. 2, Holds(u, m), ~ Opens(u, m)',
              \/ ClosePair(t, m) /\ Opens(u, m) /\ Holds(u, m)'
              \/ FreePair(t, m) /\ ~ Opens(u, m) /\ ~ Holds(u, m)',
              \A n \in 1 .. 2 : n # m => SameHolding(u, n)
       PROVE  \E k \in 1 .. 2 :
                /\ Drops(u, k)
                /\ \/ ClosePair(t, k) /\ Opens(u, k) /\ Holds(u, k)'
                   \/ FreePair(t, k) /\ ~ Opens(u, k) /\ ~ Holds(u, k)'
  <2>1. Drops(u, m)
    BY <1>1, <1>8, <1>10 DEF Drops, KeepsBut
  <2> QED
    BY <1>10, <2>1
<1>11. CASE pc[t] = "closeCaller" /\ ClosePair(t, 1) /\ pc'[t] = "freeCaller"
  <2>1. /\ Holds(u, 1) /\ Opens(u, 1) /\ Holds(u, 1)' /\ ~ Opens(u, 1)'
        /\ SameHolding(u, 2)
    BY <1>5, <1>7, <1>9, <1>11 DEF HoldAt, OpenAt, Cleanup, SameHolding
  <2> QED
    BY <1>2, <1>3, <1>1, <1>9, <1>10, <1>11, <2>1
<1>12. CASE pc[t] = "freeCaller" /\ FreePair(t, 1) /\ pc'[t] = "closeCallee"
  <2>1. /\ Holds(u, 1) /\ ~ Opens(u, 1) /\ ~ Holds(u, 1)' /\ ~ Opens(u, 1)'
        /\ SameHolding(u, 2)
    BY <1>5, <1>7, <1>9, <1>12 DEF HoldAt, OpenAt, Cleanup, SameHolding
  <2> QED
    BY <1>2, <1>3, <1>1, <1>9, <1>10, <1>12, <2>1
<1>13. CASE pc[t] = "closeCallee" /\ ClosePair(t, 2) /\ pc'[t] = "freeCallee"
  <2>1. /\ Holds(u, 2) /\ Opens(u, 2) /\ Holds(u, 2)' /\ ~ Opens(u, 2)'
        /\ SameHolding(u, 1)
    BY <1>5, <1>7, <1>9, <1>13 DEF HoldAt, OpenAt, Cleanup, SameHolding
  <2> QED
    BY <1>2, <1>3, <1>1, <1>9, <1>10, <1>13, <2>1
<1>14. CASE pc[t] = "freeCallee" /\ FreePair(t, 2) /\ pc'[t] \in {"reap", "done"}
  <2>1. /\ Holds(u, 2) /\ ~ Opens(u, 2) /\ ~ Holds(u, 2)' /\ ~ Opens(u, 2)'
        /\ SameHolding(u, 1)
    BY <1>5, <1>7, <1>9, <1>14 DEF HoldAt, OpenAt, Cleanup, SameHolding
  <2> QED
    BY <1>2, <1>3, <1>1, <1>9, <1>10, <1>14, <2>1
<1> QED
  BY <1>11, <1>12, <1>13, <1>14 DEF ReleasePairs, Goto, TypeOK

\* A goroutine takes a session out of the table.
Removes(t, id) ==
  /\ pc[t] \in {"remove", "reap"}
  /\ RemoveSession(t, id)
  /\ UNCHANGED <<poolVars, lock, sessionVars>>

\* Every other step moves no pair; StartRelay alone starts a relay.
LEMMA StepKinds ==
  ASSUME TypeOK, Control, [Next]_vars
  PROVE  \/ Quiet /\ (relay' = relay \/ \E u \in Users : StartRelay(u))
         \/ \E u \in Users : AllocateCaller(u) \/ AllocateCallee(u) \/ UndoFirst(u)
         \/ \E t \in Threads : ReleasePairs(t)
         \/ \E t \in Threads, id \in Ids : Removes(t, id)
<1> USE ThreadFacts
<1> DEFINE Goal ==
      \/ Quiet /\ (relay' = relay \/ \E u \in Users : StartRelay(u))
      \/ \E u \in Users : AllocateCaller(u) \/ AllocateCallee(u) \/ UndoFirst(u)
      \/ \E t \in Threads : ReleasePairs(t)
      \/ \E t \in Threads, id \in Ids : Removes(t, id)
<1> HIDE DEF Goal
<1>1. ASSUME UNCHANGED <<sessions, lock, victim, ports, allocated, bound>>,
             \A t \in Threads : \/ pc'[t] = pc[t]
                                \/ pc[t] \notin Cleanup /\ pc'[t] \notin Cleanup
                                \/ pc[t] = "halt" /\ pc'[t] = "closeCaller"
      PROVE  Quiet
  <2>1. Keeps
    BY <1>1, SameHolders DEF Keeps, SameHolding
  <2> QED
    BY <1>1, <2>1 DEF Quiet
<1>2. ASSUME NEW t \in Threads, NEW label \in Labels \ Cleanup, pc[t] \notin Cleanup,
             Goto(t, label), UNCHANGED <<sessions, lock, victim, ports, allocated, bound>>
      PROVE  Quiet
  BY <1>1, <1>2, GotoType
<1>3. ASSUME NEW u \in Users,
             CheckNew(u) \/ StartRelay(u) \/ Establish(u) \/ FailCall(u)
      PROVE  Goal
  <2>1. /\ UNCHANGED <<sessions, lock, victim, ports, allocated, bound>>
        /\ pc[Invite(u)] \in {"ready", "starting", "live"}
    BY <1>3 DEF CheckNew, StartRelay, Establish, FailCall, sessionVars, poolVars
  <2>2. \E label \in {"starting", "live", "up", "stop"} : Goto(Invite(u), label)
    BY <1>3 DEF CheckNew, StartRelay, Establish, FailCall
  <2>3. Quiet
    BY <1>2, <2>1, <2>2 DEF Cleanup, Labels
  <2> QED
    BY <1>3, <2>3 DEF Goal, CheckNew, Establish, FailCall, sessionVars
<1>4. ASSUME NEW u \in Users, CancelCall(u) PROVE Goal
  <2>1. PICK label \in {"stop", "done"}, h \in Hangups :
          pc' = [pc EXCEPT ![Invite(u)] = label, ![<<u, h>>] = "stop"]
    BY <1>4 DEF CancelCall
  <2>2. /\ UNCHANGED <<sessions, lock, victim, ports, allocated, bound, relay>>
        /\ pc[Invite(u)] = "ready"
    BY <1>4 DEF CancelCall, sessionVars, poolVars
  <2>3. pc[<<u, h>>] = "idle"
    BY <2>2 DEF Control, QuietInv, Own
  <2>4. ASSUME NEW t \in Threads
        PROVE  pc'[t] = pc[t] \/ (pc[t] \notin Cleanup /\ pc'[t] \notin Cleanup)
    BY <2>1, <2>2, <2>3 DEF TypeOK, Cleanup
  <2> QED
    BY <1>1, <2>2, <2>4 DEF Goal
<1>5. ASSUME NEW u \in Users, NEW h \in Hangups, Hangup(u, <<u, h>>) PROVE Goal
  <2>1. /\ UNCHANGED <<sessions, lock, victim, ports, allocated, bound, relay>>
        /\ pc[<<u, h>>] = "idle" /\ <<u, h>> \in Threads /\ Goto(<<u, h>>, "record")
    BY <1>5 DEF Hangup, sessionVars, poolVars
  <2> QED
    BY <1>2, <2>1 DEF Goal, Cleanup, Labels
<1>6. ASSUME NEW u \in Users, NEW t \in Threads,
             StopRecorder(u, t) \/ StopSession(u, t) \/ WaitForRelay(u, t)
      PROVE  Goal
  <2>1. /\ UNCHANGED <<sessions, lock, victim, ports, allocated, bound, relay>>
        /\ pc[t] \in {"record", "stop", "wait"}
    BY <1>6 DEF StopRecorder, StopSession, WaitForRelay, sessionVars, poolVars
  <2>2. \E label \in {"stop", "wait", "remove"} : Goto(t, label)
    BY <1>6 DEF StopRecorder, StopSession, WaitForRelay
  <2> QED
    BY <1>2, <2>1, <2>2 DEF Goal, Cleanup, Labels
<1>7. ASSUME NEW u \in Users, NEW t \in Threads, ReleaseOwn(u, t) PROVE Goal
  <2>1. IdOf[u] \in Ids /\ Removes(t, IdOf[u])
    BY <1>7, UserAssumption DEF ReleaseOwn, Removes
  <2> QED
    BY <2>1 DEF Goal
<1>8. ASSUME NEW t \in Threads, HaltRemoved(t) PROVE Goal
  <2>1. /\ UNCHANGED <<sessions, lock, victim, ports, allocated, bound, relay>>
        /\ pc[t] = "halt" /\ Goto(t, "closeCaller")
    BY <1>8 DEF HaltRemoved, poolVars
  <2>2. pc'[t] = "closeCaller" /\ \A s \in Threads \ {t} : pc'[s] = pc[s]
    BY <2>1, GotoType DEF Labels
  <2> QED
    BY <1>1, <2>1, <2>2 DEF Goal
<1>9. ASSUME ScanIdle PROVE Goal
  <2>1. Quiet
    BY <1>2, <1>9 DEF ScanIdle, sessionVars, poolVars, Cleanup, Labels
  <2> QED
    BY <1>9, <2>1 DEF Goal, ScanIdle, sessionVars
<1>10. ASSUME Reap PROVE Goal
  <2>1. CASE \E id \in orphaned : RemoveSession(Reaper, id)
    <3>1. \E id \in Ids : Removes(Reaper, id)
      BY <1>10, <2>1 DEF Reap, TypeOK, Removes
    <3> QED
      BY <3>1 DEF Goal
  <2>2. CASE Goto(Reaper, "idle") /\ UNCHANGED <<sessions, victim, orphaned>>
    <3>1. Quiet
      BY <1>2, <1>10, <2>2 DEF Reap, sessionVars, poolVars, Cleanup, Labels
    <3> QED
      BY <1>10, <3>1 DEF Goal, Reap, sessionVars
  <2> QED
    BY <1>10, <2>1, <2>2 DEF Reap
<1>11. ASSUME NEW u \in Users, NEW leg \in Legs,
              StopForwarding(u, leg) \/ ReadPacket(u, leg) \/ FeedPacket(u, leg)
       PROVE  Goal
  <2>1. Quiet
    BY <1>1, <1>11 DEF StopForwarding, ReadPacket, FeedPacket, poolVars
  <2> QED
    BY <1>11, <2>1 DEF Goal, StopForwarding, ReadPacket, FeedPacket
<1>12. ASSUME ForeignProcess PROVE Goal
  <2>1. /\ UNCHANGED <<sessions, lock, victim, ports, allocated, relay>> /\ pc' = pc
        /\ \A p \in Ports : \/ bound'[p] = bound[p]
                            \/ bound[p] \notin Users /\ bound'[p] \notin Users
    BY <1>12, UserAssumption DEF ForeignProcess, sessionVars, TypeOK
  <2>2. Keeps
    BY <2>1, SameHolders DEF Keeps, SameHolding
  <2> QED
    BY <2>1, <2>2 DEF Goal, Quiet
<1>13. ASSUME UNCHANGED vars PROVE Goal
  <2>1. Quiet
    BY <1>1, <1>13 DEF vars, sessionVars, poolVars
  <2> QED
    BY <1>13, <2>1 DEF Goal, vars, sessionVars
<1>14. ASSUME NEW u \in Users, UserStep(u) PROVE Goal
  <2>1. CASE AllocateCaller(u) \/ AllocateCallee(u) \/ UndoFirst(u)
    BY <2>1 DEF Goal
  <2>2. CASE \E t \in Threads : ReleasePairs(t)
    BY <2>2 DEF Goal
  <2> QED
    BY <1>3, <1>4, <1>5, <1>6, <1>7, <1>8, <1>11, <1>14, <2>1, <2>2
       DEF UserStep, InviteStep, ReleaseStep, RelayStep
<1>15. ASSUME ReaperStep PROVE Goal
  <2>1. CASE ReleasePairs(Reaper)
    BY <2>1 DEF Goal
  <2> QED
    BY <1>8, <1>10, <1>15, <2>1 DEF ReaperStep
<1>16. ASSUME Next PROVE Goal
  BY <1>9, <1>12, <1>14, <1>15, <1>16 DEF Next
<1> QED
  BY <1>13, <1>16 DEF Goal

-----------------------------------------------------------------------------
(* The pool through each kind of step.                                     *)

\* Nobody's pairs change.
LEMMA QuietPool ==
  ASSUME TypeOK, Pool, UNCHANGED <<ports, allocated>>, Keeps,
         \A p \in Ports : bound'[p] = bound[p] \/ (bound[p] \notin Users /\ bound'[p] \notin Users)
  PROVE  Pool'
<1>0. /\ \A u \in Users, n \in 1 .. 2 :
           (Holds(u, n)' <=> Holds(u, n)) /\ (Opens(u, n)' <=> Opens(u, n))
      /\ \A u \in Users, n \in 1 .. 2 : Opens(u, n) => ports[u][n] \in Ports
  BY OpenHeld DEF Keeps, SameHolding, Pool, HeldAllocated, TypeOK
<1>1. HeldAllocated'
  BY <1>0 DEF Pool, HeldAllocated
<1>2. HeldOnce'
  BY <1>0 DEF Pool, HeldOnce
<1>3. AllocatedHeld'
  BY <1>0 DEF Pool, AllocatedHeld
<1>4. OpenBound'
  BY <1>0 DEF Pool, OpenBound
<1>5. BoundOpen'
  BY <1>0 DEF Pool, BoundOpen
<1> QED
  BY <1>1, <1>2, <1>3, <1>4, <1>5 DEF Pool

\* u's m-th pair, which it holds, is closed or freed or both.
LEMMA DropPool ==
  ASSUME TypeOK, Pool, NEW u \in Users, NEW m \in 1 .. 2, Drops(u, m),
         \A p : p # ports[u][m] => (p \in allocated' <=> p \in allocated),
         ports[u][m] \in allocated' <=> Holds(u, m)',
         \A p \in Ports : p # ports[u][m] => bound'[p] = bound[p],
         bound'[ports[u][m]] \notin Users
  PROVE  Pool'
<1> DEFINE P == ports[u][m]
<1>0. /\ Holds(u, m) /\ ~ Opens(u, m)' /\ ports' = ports
      /\ \A v \in Users, n \in 1 .. 2 : ~ (v = u /\ n = m) =>
           (Holds(v, n)' <=> Holds(v, n)) /\ (Opens(v, n)' <=> Opens(v, n))
  BY DEF Drops, KeepsBut, SameHolding
<1> USE <1>0
<1>1. P \in allocated /\ P \in Ports
  BY DEF Pool, HeldAllocated, TypeOK
<1>2. \A v \in Users, n \in 1 .. 2 : Holds(v, n) /\ ports[v][n] = P => v = u /\ n = m
  BY DEF Pool, HeldOnce
<1>3. \A v \in Users, n \in 1 .. 2 : Holds(v, n)' => Holds(v, n)
  OBVIOUS
<1>4. /\ bound'[P] \notin Users
      /\ \A p \in Ports \ {P} : bound'[p] = bound[p]
  OBVIOUS
<1>5. \A p : p # P => (p \in allocated' <=> p \in allocated)
  OBVIOUS
<1>6. P \in allocated' <=> Holds(u, m)'
  OBVIOUS
<1> HIDE DEF P
<1>7. HeldAllocated'
  <2> SUFFICES ASSUME NEW v \in Users, NEW n \in 1 .. 2, Holds(v, n)'
               PROVE  ports'[v][n] \in allocated'
    BY DEF HeldAllocated
  <2>1. Holds(v, n) /\ ports[v][n] \in allocated
    BY <1>3 DEF Pool, HeldAllocated
  <2>2. CASE ports[v][n] = P
    <3>1. v = u /\ n = m
      BY <1>2, <2>1, <2>2
    <3>2. Holds(u, m)'
      BY <3>1
    <3> QED
      BY <1>6, <2>2, <3>2
  <2>3. CASE ports[v][n] # P
    BY <1>5, <2>1, <2>3
  <2> QED
    BY <2>2, <2>3
<1>8. HeldOnce'
  BY <1>3 DEF Pool, HeldOnce
<1>9. AllocatedHeld'
  <2> SUFFICES ASSUME NEW p \in allocated'
               PROVE  \E v \in Users, n \in 1 .. 2 : Holds(v, n)' /\ ports'[v][n] = p
    BY DEF AllocatedHeld
  <2>1. CASE p = P
    <3>1. Holds(u, m)' /\ ports'[u][m] = p
      BY <1>6, <2>1 DEF P
    <3> QED
      BY <3>1
  <2>2. CASE p # P
    <3>1. p \in allocated
      BY <1>5, <2>2
    <3>2. PICK v \in Users, n \in 1 .. 2 : Holds(v, n) /\ ports[v][n] = p
      BY <3>1 DEF Pool, AllocatedHeld
    <3>3. ~ (v = u /\ n = m)
      BY <2>2, <3>2 DEF P
    <3>4. Holds(v, n)'
      BY <3>2, <3>3
    <3> QED
      BY <3>2, <3>4
  <2> QED
    BY <2>1, <2>2
<1>10. OpenBound'
  <2> SUFFICES ASSUME NEW v \in Users, NEW n \in 1 .. 2, Opens(v, n)'
               PROVE  bound'[ports'[v][n]] = v
    BY DEF OpenBound
  <2>1. ~ (v = u /\ n = m)
    OBVIOUS
  <2>2. Opens(v, n)
    BY <2>1
  <2>3. bound[ports[v][n]] = v /\ Holds(v, n)
    BY <2>2, OpenHeld DEF Pool, OpenBound
  <2>4. ports[v][n] # P /\ ports[v][n] \in Ports
    BY <1>2, <2>1, <2>3 DEF Pool, HeldAllocated, TypeOK
  <2> QED
    BY <1>4, <2>3, <2>4
<1>11. BoundOpen'
  <2> SUFFICES ASSUME NEW p \in Ports, bound'[p] \in Users
               PROVE  \E n \in 1 .. 2 : Opens(bound[p], n)' /\ ports'[bound'[p]][n] = p
    BY DEF BoundOpen
  <2>1. p # P /\ bound'[p] = bound[p]
    BY <1>4
  <2>2. PICK n \in 1 .. 2 : Opens(bound[p], n) /\ ports[bound[p]][n] = p
    BY <2>1 DEF Pool, BoundOpen
  <2>3. ~ (bound[p] = u /\ n = m)
    BY <2>1, <2>2 DEF P
  <2> QED
    BY <2>1, <2>2, <2>3
<1> QED
  BY <1>7, <1>8, <1>9, <1>10, <1>11 DEF Pool

\* A pair that is held and closed has no socket of the PBX's on it.
LEMMA ClosedUnbound ==
  ASSUME TypeOK, Pool, NEW u \in Users, NEW m \in 1 .. 2, Holds(u, m), ~ Opens(u, m)
  PROVE  bound[ports[u][m]] \notin Users
<1> DEFINE p == ports[u][m]
<1>1. SUFFICES ASSUME bound[p] \in Users PROVE FALSE
  OBVIOUS
<1>2. p \in Ports
  BY DEF Pool, HeldAllocated, TypeOK
<1>3. PICK n \in 1 .. 2 : Opens(bound[p], n) /\ ports[bound[p]][n] = p
  BY <1>1, <1>2 DEF Pool, BoundOpen
<1>4. Holds(bound[p], n)
  BY <1>3, OpenHeld
<1>5. bound[p] = u /\ n = m
  BY <1>1, <1>3, <1>4 DEF Pool, HeldOnce
<1> QED
  BY <1>3, <1>5

\* u takes its m-th pair from the pool.
LEMMA TakePool ==
  ASSUME TypeOK, Pool, NEW u \in Users, NEW m \in 1 .. 2, Takes(u, m)
  PROVE  Pool'
<1>a. /\ AllocatePair(u) /\ Len(ports[u]) = m - 1
      /\ \A v \in Users, n \in 1 .. 2 : ~ (v = u /\ n = m) =>
           (Holds(v, n)' <=> Holds(v, n)) /\ (Opens(v, n)' <=> Opens(v, n))
      /\ \A n \in 1 .. 2 : Holds(u, n) => n < m
      /\ Holds(u, m)' /\ Opens(u, m)'
  BY DEF Takes, KeepsBut, SameHolding
<1> USE <1>a
<1>0. Len(ports[u]) <= 1 /\ Len(ports[u]) + 1 = m
  OBVIOUS
<1>1. /\ Found \in Ports /\ Found \notin allocated /\ bound[Found] = Nobody
      /\ ports'[u][m] = Found
      /\ \A n \in 1 .. 2 : n < m => ports'[u][n] = ports[u][n]
      /\ \A v \in Users \ {u} : ports'[v] = ports[v]
      /\ allocated' = allocated \union {Found}
      /\ bound'[Found] = u
      /\ \A p \in Ports \ {Found} : bound'[p] = bound[p]
  BY <1>0, AllocateFacts
<1>2. \A v \in Users, n \in 1 .. 2 :
        Holds(v, n) => ~ (v = u /\ n = m) /\ ports'[v][n] = ports[v][n]
  BY <1>1
<1>3. \A v \in Users, n \in 1 .. 2 : Holds(v, n) => ports[v][n] # Found
  BY <1>1 DEF Pool, HeldAllocated
<1>4. \A v \in Users, n \in 1 .. 2 :
        Holds(v, n)' => (v = u /\ n = m) \/ Holds(v, n)
  OBVIOUS
<1>5. HeldAllocated'
  <2> SUFFICES ASSUME NEW v \in Users, NEW n \in 1 .. 2, Holds(v, n)'
               PROVE  ports'[v][n] \in allocated'
    BY DEF HeldAllocated
  <2>1. CASE v = u /\ n = m
    BY <1>1, <2>1
  <2>2. CASE Holds(v, n)
    BY <1>1, <1>2, <2>2 DEF Pool, HeldAllocated
  <2> QED
    BY <1>4, <2>1, <2>2
<1>6. HeldOnce'
  <2> SUFFICES ASSUME NEW v \in Users, NEW w \in Users, NEW n \in 1 .. 2, NEW k \in 1 .. 2,
                      Holds(v, n)', Holds(w, k)', ports'[v][n] = ports'[w][k]
               PROVE  v = w /\ n = k
    BY DEF HeldOnce
  <2>1. CASE Holds(v, n) /\ Holds(w, k)
    BY <1>2, <2>1 DEF Pool, HeldOnce
  <2>2. CASE v = u /\ n = m /\ Holds(w, k)
    BY <1>1, <1>2, <1>3, <2>2
  <2>3. CASE w = u /\ k = m /\ Holds(v, n)
    BY <1>1, <1>2, <1>3, <2>3
  <2> QED
    BY <1>4, <2>1, <2>2, <2>3
<1>7. AllocatedHeld'
  <2> SUFFICES ASSUME NEW p \in allocated'
               PROVE  \E v \in Users, n \in 1 .. 2 : Holds(v, n)' /\ ports'[v][n] = p
    BY DEF AllocatedHeld
  <2>1. CASE p = Found
    BY <1>1, <2>1
  <2>2. CASE p \in allocated
    <3>1. PICK v \in Users, n \in 1 .. 2 : Holds(v, n) /\ ports[v][n] = p
      BY <2>2 DEF Pool, AllocatedHeld
    <3>2. Holds(v, n)' /\ ports'[v][n] = p
      BY <1>2, <3>1
    <3> QED
      BY <3>2
  <2> QED
    BY <1>1, <2>1, <2>2
<1>8. OpenBound'
  <2> SUFFICES ASSUME NEW v \in Users, NEW n \in 1 .. 2, Opens(v, n)'
               PROVE  bound'[ports'[v][n]] = v
    BY DEF OpenBound
  <2>1. CASE v = u /\ n = m
    BY <1>1, <2>1
  <2>2. CASE ~ (v = u /\ n = m)
    <3>1. Opens(v, n) /\ Holds(v, n)
      BY <2>2, OpenHeld
    <3>2. bound[ports[v][n]] = v /\ ports[v][n] \in Ports
      BY <3>1 DEF Pool, OpenBound, HeldAllocated, TypeOK
    <3> QED
      BY <1>1, <1>2, <1>3, <3>1, <3>2
  <2> QED
    BY <2>1, <2>2
<1>9. BoundOpen'
  <2> SUFFICES ASSUME NEW p \in Ports, bound'[p] \in Users
               PROVE  \E n \in 1 .. 2 : Opens(bound[p], n)' /\ ports'[bound'[p]][n] = p
    BY DEF BoundOpen
  <2>1. CASE p = Found
    BY <1>1, <2>1
  <2>2. CASE p # Found
    <3>1. bound'[p] = bound[p]
      BY <1>1, <2>2
    <3>2. PICK n \in 1 .. 2 : Opens(bound[p], n) /\ ports[bound[p]][n] = p
      BY <3>1 DEF Pool, BoundOpen
    <3>3. Holds(bound[p], n)
      BY <3>2, OpenHeld
    <3>4. ports'[bound[p]][n] = p /\ ~ (bound[p] = u /\ n = m)
      BY <1>2, <3>1, <3>2, <3>3
    <3> QED
      BY <3>1, <3>2, <3>4
  <2> QED
    BY <2>1, <2>2
<1> QED
  BY <1>5, <1>6, <1>7, <1>8, <1>9 DEF Pool

\* SessionManager.Allocate's steps keep the pool sound.
LEMMA AllocatePool ==
  ASSUME TypeOK, Control, Pool, NEW u \in Users,
         AllocateCaller(u) \/ AllocateCallee(u) \/ UndoFirst(u)
  PROVE  Pool'
<1>1. CASE Quiet
  BY <1>1, QuietPool DEF Quiet
<1>2. CASE Takes(u, 1)
  BY <1>2, TakePool
<1>3. CASE Takes(u, 2)
  BY <1>3, TakePool
<1>4. CASE Drops(u, 1) /\ ~ Holds(u, 1)' /\ UndoFirst(u)
  <2>1. ports[u][1] \in Ports
    BY <1>4 DEF Drops, Pool, HeldAllocated, TypeOK
  <2>2. /\ \A p : p # ports[u][1] => (p \in allocated' <=> p \in allocated)
        /\ ports[u][1] \notin allocated'
        /\ \A p \in Ports : p # ports[u][1] => bound'[p] = bound[p]
        /\ bound'[ports[u][1]] \notin Users
    BY <1>4, <2>1, UserAssumption DEF UndoFirst, TypeOK
  <2> QED
    BY <1>4, <2>2, DropPool
<1> QED
  BY <1>1, <1>2, <1>3, <1>4, AllocateKinds

\* So do the four steps in which a session's pairs are closed and freed.
LEMMA ReleasePool ==
  ASSUME TypeOK, Control, Pool, NEW t \in Threads, ReleasePairs(t)
  PROVE  Pool'
<1>2. PICK u \in Users, m \in 1 .. 2 :
        /\ u = victim[t] /\ Drops(u, m)
        /\ \/ ClosePair(t, m) /\ Opens(u, m) /\ Holds(u, m)'
           \/ FreePair(t, m) /\ ~ Opens(u, m) /\ ~ Holds(u, m)'
  BY ReleaseKinds
<1>3. Holds(u, m) /\ ports[u][m] \in allocated /\ ports[u][m] \in Ports
  BY <1>2 DEF Drops, Pool, HeldAllocated, TypeOK
<1>4. CASE ClosePair(t, m) /\ Opens(u, m) /\ Holds(u, m)'
  <2>1. bound[ports[u][m]] = u
    BY <1>4 DEF Pool, OpenBound
  <2>2. /\ \A p : p # ports[u][m] => (p \in allocated' <=> p \in allocated)
        /\ ports[u][m] \in allocated' <=> Holds(u, m)'
    BY <1>3, <1>4 DEF ClosePair
  <2>3. /\ \A p \in Ports : p # ports[u][m] => bound'[p] = bound[p]
        /\ bound'[ports[u][m]] \notin Users
    BY <1>2, <1>3, <1>4, <2>1, UserAssumption DEF ClosePair, TypeOK
  <2> QED
    BY <1>2, <1>4, <2>2, <2>3, DropPool
<1>5. CASE FreePair(t, m) /\ ~ Opens(u, m) /\ ~ Holds(u, m)'
  <2>1. bound[ports[u][m]] \notin Users
    BY <1>3, <1>5, ClosedUnbound
  <2>2. /\ \A p : p # ports[u][m] => (p \in allocated' <=> p \in allocated)
        /\ ports[u][m] \in allocated' <=> Holds(u, m)'
    BY <1>2, <1>5 DEF FreePair
  <2>3. /\ \A p \in Ports : p # ports[u][m] => bound'[p] = bound[p]
        /\ bound'[ports[u][m]] \notin Users
    BY <1>5, <2>1 DEF FreePair
  <2> QED
    BY <1>2, <1>5, <2>2, <2>3, DropPool
<1> QED
  BY <1>2, <1>4, <1>5

LEMMA PoolStep == TypeOK /\ Control /\ Pool /\ [Next]_vars => Pool'
<1> SUFFICES ASSUME TypeOK, Control, Pool, [Next]_vars PROVE Pool'
  OBVIOUS
<1>1. CASE Quiet
  BY <1>1, QuietPool DEF Quiet
<1>2. ASSUME NEW t \in Threads, NEW id \in Ids, Removes(t, id) PROVE Pool'
  <2>1. Keeps /\ UNCHANGED <<ports, allocated, bound>>
    BY <1>2, RemoveKeeps DEF Removes, sessionVars, poolVars
  <2> QED
    BY <2>1, QuietPool
<1> QED
  BY <1>1, <1>2, StepKinds, AllocatePool, ReleasePool

-----------------------------------------------------------------------------
(* The theorems.                                                           *)

LEMMA InitInv == Init => IInv
<1> SUFFICES ASSUME Init PROVE IInv
  OBVIOUS
<1> USE ThreadFacts
<1>1. TypeOK
  BY InitType
<1>2. Control
  <2>1. LockInv
    BY UserAssumption DEF Init, LockInv, Own, Allocating
  <2>2. QuietInv
    BY DEF Init, QuietInv, Own
  <2>3. TableInv /\ CleanupInv
    BY DEF Init, TableInv, CleanupInv, Cleanup
  <2> QED
    BY <2>1, <2>2, <2>3 DEF Control
<1>3. \A u \in Users, n \in 1 .. 2 : ~ Holds(u, n) /\ ~ Opens(u, n)
  <2>1. \A u \in Users : lock # u /\ sessions[IdOf[u]] # u
    BY UserAssumption DEF Init
  <2>2. \A t \in Threads : pc[t] \notin Cleanup
    BY DEF Init, Cleanup
  <2> QED
    BY <2>1, <2>2, CleanupLabels DEF Holds, Opens
<1>4. Pool
  <2>1. HeldAllocated /\ HeldOnce /\ OpenBound
    BY <1>3 DEF HeldAllocated, HeldOnce, OpenBound
  <2>2. AllocatedHeld /\ BoundOpen
    BY UserAssumption DEF Init, AllocatedHeld, BoundOpen
  <2> QED
    BY <2>1, <2>2 DEF Pool
<1> QED
  BY <1>1, <1>2, <1>4 DEF IInv

\* The strengthened invariant of the pool holds of every behaviour.
THEOREM PoolInvariance == Spec => []IInv
<1>1. IInv /\ [Next]_vars => IInv'
  BY TypeStep, ControlStep, PoolStep DEF IInv, Control
<1> QED
  BY <1>1, InitInv, PTL DEF Spec

\* The types of the media variables; no user ever has more than two pairs.
THEOREM MediaTypeInvariance == Spec => []TypeOK
<1>1. IInv => TypeOK
  BY DEF IInv
<1> QED
  BY <1>1, PoolInvariance, PTL

\* A session in the table has its two pairs to itself, allocated and bound, over
\* the two-step allocation and the four-step release of every other call.
THEOREM PairsOwned == Spec => []SessionsOwnPorts
<1>1. IInv => SessionsOwnPorts
  <2> SUFFICES ASSUME IInv, NEW id \in Ids, sessions[id] # Nobody
               PROVE  LET u == sessions[id]
                      IN  /\ Len(ports[u]) = 2 /\ ports[u][1] # ports[u][2]
                          /\ \A n \in 1 .. 2 : /\ ports[u][n] \in allocated
                                               /\ bound[ports[u][n]] = u
    BY DEF SessionsOwnPorts
  <2> DEFINE u == sessions[id]
  <2>1. u \in Users /\ Len(ports[u]) = 2 /\ IdOf[u] = id
    BY DEF IInv, Control, TableInv, TypeOK, SetUp
  <2>2. \A n \in 1 .. 2 : Holds(u, n) /\ Opens(u, n)
    BY <2>1 DEF Holds, Opens
  <2>3. ports[u][1] # ports[u][2]
    <3>1. 1 \in 1 .. 2 /\ 2 \in 1 .. 2 /\ 1 # 2
      OBVIOUS
    <3> QED
      BY <2>1, <2>2, <3>1 DEF IInv, Pool, HeldOnce
  <2>4. \A n \in 1 .. 2 : ports[u][n] \in allocated /\ bound[ports[u][n]] = u
    BY <2>1, <2>2 DEF IInv, Pool, HeldAllocated, OpenBound
  <2> QED
    BY <2>1, <2>3, <2>4
<1> QED
  BY <1>1, PoolInvariance, PTL

\* No socket of the PBX's is open on a pair that the pool would hand out.
THEOREM OpenPairsOutOfPool == Spec => []OpenPairsAllocated
<1>1. IInv => OpenPairsAllocated
  BY OpenHeld DEF IInv, Pool, BoundOpen, HeldAllocated, OpenPairsAllocated
<1> QED
  BY <1>1, PoolInvariance, PTL

\* u holds pair p.
Has(u, p) == \E n \in 1 .. 2 : Holds(u, n) /\ ports[u][n] = p

\* It holds just what it has by the model's words.
LEMMA HasHolds ==
  ASSUME IInv, NEW u \in Users, NEW p
  PROVE  HasPair(u, p) <=> Has(u, p)
<1>1. ASSUME NEW n \in 1 .. 2, Holds(u, n), ports[u][n] = p
      PROVE  HasPair(u, p)
  <2>1. CASE n = 1 /\ lock = u
    <3>1. Len(ports[u]) = 1
      BY <2>1 DEF IInv, Control, LockInv
    <3> QED
      BY <1>1, <2>1, <3>1 DEF HasPair
  <2>2. CASE sessions[IdOf[u]] = u
    <3>1. Len(ports[u]) = 2
      BY <2>2, UserAssumption DEF IInv, Control, TableInv, SetUp
    <3> QED
      BY <1>1, <2>2, <3>1 DEF HasPair
  <2>3. CASE \E t \in Threads : pc[t] \in HoldAt(n) /\ victim[t] = u
    <3>1. PICK t \in Threads : pc[t] \in HoldAt(n) /\ victim[t] = u
      BY <2>3
    <3>2. Len(ports[u]) = 2
      BY <3>1, CleanupLabels DEF IInv, Control, CleanupInv, SetUp
    <3>3. Releasing(u, p)
      BY <1>1, <3>1 DEF Releasing, HoldAt, Cleanup
    <3> QED
      BY <1>1, <3>2, <3>3 DEF HasPair
  <2> QED
    BY <1>1, <2>1, <2>2, <2>3 DEF Holds
<1>2. ASSUME HasPair(u, p) PROVE Has(u, p)
  <2>1. PICK n \in 1 .. Len(ports[u]) : ports[u][n] = p
    BY <1>2 DEF HasPair
  <2>2. Len(ports[u]) \in Nat /\ Len(ports[u]) <= 2 /\ n \in 1 .. 2
    BY DEF IInv, TypeOK
  <2>3. CASE sessions[IdOf[u]] = u
    BY <2>1, <2>2, <2>3 DEF Has, Holds
  <2>4. CASE lock = u
    <3>1. Len(ports[u]) = 1
      BY <2>4 DEF IInv, Control, LockInv
    <3>2. n = 1
      BY <2>1, <3>1
    <3> QED
      BY <2>1, <2>2, <2>4, <3>2 DEF Has, Holds
  <2>5. CASE Releasing(u, p)
    <3>1. PICK t \in Threads :
            /\ victim[t] = u
            /\ \/ pc[t] \in {"halt", "closeCaller", "freeCaller"}
               \/ pc[t] \in {"closeCallee", "freeCallee"} /\ p = ports[u][2]
      BY <2>5 DEF Releasing
    <3>2. CASE pc[t] \in {"halt", "closeCaller", "freeCaller"}
      <4>1. pc[t] \in HoldAt(n)
        BY <3>2 DEF HoldAt, Cleanup
      <4> QED
        BY <2>1, <2>2, <3>1, <4>1 DEF Has, Holds
    <3>3. CASE pc[t] \in {"closeCallee", "freeCallee"} /\ p = ports[u][2]
      <4>1. pc[t] \in HoldAt(2) /\ 2 \in 1 .. 2
        BY <3>3 DEF HoldAt, Cleanup
      <4> QED
        BY <3>1, <3>3, <4>1 DEF Has, Holds
    <3> QED
      BY <3>1, <3>2, <3>3
  <2> QED
    BY <1>2, <2>3, <2>4, <2>5 DEF HasPair
<1> QED
  BY <1>1, <1>2 DEF Has

\* No pair leaks, whoever cancels, hangs up or reaps, and in whatever order.
THEOREM NoPairLeaks == Spec => []NoLeak
<1>1. IInv => NoLeak
  BY HasHolds DEF IInv, Pool, AllocatedHeld, Has, NoLeak
<1> QED
  BY <1>1, PoolInvariance, PTL

\* A step that turns u away: at its first pair, or at its second.
Refusal(u) ==
  \/ pc[Invite(u)] = "idle" /\ pc'[Invite(u)] = "done" /\ sessions[IdOf[u]] = Nobody
  \/ pc'[Invite(u)] = "undo" /\ pc[Invite(u)] # "undo"

\* Only Allocate turns a call away, when the scan has found nothing.
LEMMA RefusalStep ==
  ASSUME TypeOK, Control, Next, NEW u \in Users, Refusal(u)
  PROVE  Found = NoPort
<1> USE ThreadFacts
<1>1. ASSUME NEW t \in Threads, NEW label \in Labels \ {"undo"}, Goto(t, label),
             pc[t] # "idle" \/ t # Invite(u)
      PROVE  FALSE
  BY <1>1, GotoType DEF Refusal
<1>2. pc'[Invite(u)] # pc[Invite(u)]
  BY DEF Refusal
<1>3. ASSUME NEW v \in Users, AllocateCaller(v) PROVE Found = NoPort
  <2>1. CASE v = u
    <3>1. CASE Goto(Invite(u), "done")
      <4>1. pc'[Invite(u)] = "done" /\ pc[Invite(u)] = "idle"
        BY <1>3, <2>1, <3>1 DEF AllocateCaller, Goto, TypeOK
      <4>2. sessions[IdOf[u]] = Nobody
        BY <4>1 DEF Refusal
      <4>3. ~ Goto(Invite(u), "second")
        BY <4>1, GotoType DEF Labels
      <4> QED
        BY <1>3, <2>1, <4>2, <4>3 DEF AllocateCaller
    <3>2. CASE Goto(Invite(u), "second")
      BY <3>2, GotoType DEF Refusal, Labels
    <3> QED
      BY <1>3, <2>1, <3>1, <3>2 DEF AllocateCaller
  <2>2. CASE v # u
    <3>1. Goto(Invite(v), "done") \/ Goto(Invite(v), "second")
      BY <1>3 DEF AllocateCaller
    <3> QED
      BY <1>1, <2>2, <3>1 DEF Labels
  <2> QED
    BY <2>1, <2>2
<1>4. ASSUME NEW v \in Users, AllocateCallee(v) PROVE Found = NoPort
  <2>1. SUFFICES ASSUME Goto(Invite(v), "ready") PROVE FALSE
    BY <1>4 DEF AllocateCallee
  <2> QED
    BY <1>1, <1>4, <2>1 DEF AllocateCallee, Labels
<1>5. ASSUME NEW v \in Users,
             \/ UndoFirst(v) \/ CheckNew(v) \/ StartRelay(v) \/ Establish(v) \/ FailCall(v)
      PROVE  FALSE
  <2>1. pc[Invite(v)] # "idle"
    BY <1>5 DEF UndoFirst, CheckNew, StartRelay, Establish, FailCall
  <2>2. \E label \in {"done", "starting", "stop", "live", "up"} : Goto(Invite(v), label)
    BY <1>5 DEF UndoFirst, CheckNew, StartRelay, Establish, FailCall
  <2> QED
    BY <1>1, <2>1, <2>2 DEF Labels
<1>6. ASSUME NEW v \in Users, CancelCall(v) PROVE FALSE
  <2>1. PICK label \in {"stop", "done"}, h \in Hangups :
          pc' = [pc EXCEPT ![Invite(v)] = label, ![<<v, h>>] = "stop"]
    BY <1>6 DEF CancelCall
  <2>2. pc[Invite(v)] = "ready"
    BY <1>6 DEF CancelCall
  <2>3. pc'[Invite(v)] = label /\ \A w \in Users \ {v} : pc'[Invite(w)] = pc[Invite(w)]
    BY <2>1 DEF TypeOK
  <2> QED
    BY <2>2, <2>3 DEF Refusal
<1>7. ASSUME NEW v \in Users, NEW h \in Hangups, Hangup(v, <<v, h>>) PROVE FALSE
  BY <1>1, <1>7 DEF Hangup, Labels
<1>8. ASSUME NEW v \in Users, NEW t \in Threads,
             StopRecorder(v, t) \/ StopSession(v, t) \/ WaitForRelay(v, t)
      PROVE  FALSE
  <2>1. pc[t] # "idle"
    BY <1>8 DEF StopRecorder, StopSession, WaitForRelay
  <2>2. \E label \in {"stop", "wait", "remove"} : Goto(t, label)
    BY <1>8 DEF StopRecorder, StopSession, WaitForRelay
  <2> QED
    BY <1>1, <2>1, <2>2 DEF Labels
<1>9. ASSUME NEW t \in Threads, NEW id \in Ids, RemoveSession(t, id), pc[t] # "idle"
      PROVE  FALSE
  <2>1. \E label \in {"reap", "done", "halt"} : Goto(t, label)
    BY <1>9 DEF RemoveSession
  <2> QED
    BY <1>1, <1>9, <2>1 DEF Labels
<1>10. ASSUME NEW t \in Threads, HaltRemoved(t) \/ ReleasePairs(t) PROVE FALSE
  <2>1. pc[t] # "idle"
    BY <1>10 DEF HaltRemoved, ReleasePairs
  <2>2. \E label \in {"closeCaller", "freeCaller", "closeCallee", "freeCallee", "reap", "done"} :
          Goto(t, label)
    BY <1>10 DEF HaltRemoved, ReleasePairs
  <2> QED
    BY <1>1, <2>1, <2>2 DEF Labels
<1>11. ASSUME NEW v \in Users, NEW t \in Threads, ReleaseOwn(v, t) PROVE FALSE
  BY <1>9, <1>11, UserAssumption DEF ReleaseOwn
<1>12. ASSUME ScanIdle \/ Reap PROVE FALSE
  <2>1. Reaper # Invite(u)
    OBVIOUS
  <2>2. CASE Goto(Reaper, "idle") \/ Goto(Reaper, "reap")
    BY <1>1, <2>1, <2>2 DEF Labels
  <2>3. CASE \E id \in orphaned : pc[Reaper] = "reap" /\ RemoveSession(Reaper, id)
    BY <1>9, <2>3 DEF TypeOK
  <2> QED
    BY <1>12, <2>2, <2>3 DEF ScanIdle, Reap
<1>13. ASSUME NEW v \in Users, NEW leg \in Legs,
              StopForwarding(v, leg) \/ ReadPacket(v, leg) \/ FeedPacket(v, leg)
       PROVE  FALSE
  BY <1>2, <1>13 DEF StopForwarding, ReadPacket, FeedPacket
<1>14. CASE ForeignProcess
  BY <1>2, <1>14 DEF ForeignProcess
<1>15. ASSUME NEW v \in Users, UserStep(v) PROVE Found = NoPort
  BY <1>3, <1>4, <1>5, <1>6, <1>7, <1>8, <1>10, <1>11, <1>13, <1>15
     DEF UserStep, InviteStep, ReleaseStep, RelayStep
<1> QED
  BY <1>10, <1>12, <1>14, <1>15 DEF Next, ReaperStep

\* Allocate turns a call away only when every pair of the range is allocated or
\* taken by another process: the scan from nextPort misses none, wherever it
\* starts and wherever the range ends.
THEOREM FullWhenRefused == Spec => RefusedOnlyWhenFull
<1>1. IInv /\ [Next]_vars =>
        [\A u \in Users :
           (/\ \/ pc[Invite(u)] = "idle" /\ pc'[Invite(u)] = "done" /\ sessions[IdOf[u]] = Nobody
               \/ pc'[Invite(u)] = "undo" /\ pc[Invite(u)] # "undo")
           => \A p \in Ports : ~Usable(p)]_vars
  <2> SUFFICES ASSUME IInv, Next, NEW u \in Users, Refusal(u)
               PROVE  \A p \in Ports : ~ Usable(p)
    BY DEF Refusal
  <2>1. nextPort \in Ports /\ allocated \subseteq Ports
    BY DEF IInv, TypeOK
  <2>2. Found = NoPort
    BY RefusalStep DEF IInv
  <2> QED
    BY <2>1, <2>2, FoundComplete
<1> QED
  BY <1>1, PoolInvariance, PTL DEF Spec, RefusedOnlyWhenFull

-----------------------------------------------------------------------------
(* The pool and the table implement MediaLease.                            *)

Lives == [u \in Users |-> Life(u)]
Leases == [p \in Ports |-> LeaseOf(p)]

\* A pair is leased to its holder, and to nobody when nobody holds it.
HolderLeases == \A p \in Ports :
  /\ LeaseOf(p) \in Users \union {Nobody}
  /\ \A u \in Users : LeaseOf(p) = u <=> Has(u, p)

LEMMA LeaseFacts == IInv => HolderLeases
<1> SUFFICES ASSUME IInv, NEW p \in Ports
             PROVE  /\ LeaseOf(p) \in Users \union {Nobody}
                    /\ \A u \in Users : LeaseOf(p) = u <=> Has(u, p)
  BY DEF HolderLeases
<1>1. \A u \in Users : Has(u, p) => p \in allocated
  BY DEF Has, IInv, Pool, HeldAllocated
<1>2. \A u, v \in Users : Has(u, p) /\ Has(v, p) => u = v
  BY DEF Has, IInv, Pool, HeldOnce
<1>3. CASE p \in allocated
  <2>1. \E u \in Users : HasPair(u, p)
    BY <1>3, HasHolds DEF IInv, Pool, AllocatedHeld, Has
  <2>2. LeaseOf(p) \in Users /\ HasPair(LeaseOf(p), p)
    BY <1>3, <2>1 DEF LeaseOf
  <2> QED
    BY <1>2, <2>2, HasHolds
<1>4. CASE p \notin allocated
  BY <1>1, <1>4, UserAssumption DEF LeaseOf
<1> QED
  BY <1>3, <1>4

\* The leases change for the pairs that change hands, and for no others.
LEMMA LeaseMoves ==
  ASSUME HolderLeases, HolderLeases', NEW P \in Ports, NEW w \in Users \union {Nobody},
         \A v \in Users : Has(v, P)' <=> v = w,
         \A p \in Ports, v \in Users : p # P => (Has(v, p)' <=> Has(v, p))
  PROVE  Leases' = [Leases EXCEPT ![P] = w]
<1>1. ASSUME NEW p \in Ports
      PROVE  LeaseOf(p)' = IF p = P THEN w ELSE LeaseOf(p)
  <2>1. /\ LeaseOf(p) \in Users \union {Nobody}
        /\ LeaseOf(p)' \in Users \union {Nobody}
        /\ \A u \in Users : LeaseOf(p) = u <=> Has(u, p)
        /\ \A u \in Users : LeaseOf(p)' = u <=> Has(u, p)'
    BY DEF HolderLeases
  <2> QED
    BY <2>1, UserAssumption
<1> HIDE DEF LeaseOf
<1> QED
  BY <1>1 DEF Leases

\* Where nobody's pairs change hands, no lease does.
LEMMA KeptLeases ==
  ASSUME HolderLeases, HolderLeases', Keeps, ports' = ports
  PROVE  Leases' = Leases
<1> SUFFICES ASSUME NEW p \in Ports PROVE LeaseOf(p)' = LeaseOf(p)
  BY DEF Leases
<1>1. \A u \in Users : Has(u, p)' <=> Has(u, p)
  BY DEF Has, Keeps, SameHolding
<1> QED
  BY <1>1 DEF HolderLeases

\* The pair that is taken was nobody's, and is the user's.
LEMMA TakenLease ==
  ASSUME IInv, HolderLeases, HolderLeases', NEW u \in Users, NEW m \in 1 .. 2, Takes(u, m)
  PROVE  \E P \in Ports : Leases[P] = Nobody /\ Leases' = [Leases EXCEPT ![P] = u]
<1>1. /\ AllocatePair(u) /\ Len(ports[u]) = m - 1
      /\ \A v \in Users, n \in 1 .. 2 : ~ (v = u /\ n = m) => (Holds(v, n)' <=> Holds(v, n))
      /\ \A n \in 1 .. 2 : Holds(u, n) => n < m
      /\ Holds(u, m)'
  BY DEF Takes, KeepsBut, SameHolding
<1>2. Len(ports[u]) <= 1 /\ Len(ports[u]) + 1 = m
  BY <1>1
<1>3. PICK P \in Ports :
        /\ P = Found /\ P \notin allocated /\ ports'[u][m] = P
        /\ \A n \in 1 .. 2 : n < m => ports'[u][n] = ports[u][n]
        /\ \A v \in Users \ {u} : ports'[v] = ports[v]
  BY <1>1, <1>2, AllocateFacts DEF IInv
<1>4. \A v \in Users : ~ Has(v, P)
  BY <1>3 DEF Has, IInv, Pool, HeldAllocated
<1>5. \A v \in Users : Has(v, P)' <=> v = u
  <2>1. Has(u, P)'
    BY <1>1, <1>3 DEF Has
  <2>2. ASSUME NEW v \in Users \ {u}, Has(v, P)' PROVE FALSE
    BY <1>1, <1>3, <1>4, <2>2 DEF Has
  <2> QED
    BY <2>1, <2>2
<1>6. ASSUME NEW p \in Ports, NEW v \in Users, p # P
      PROVE  Has(v, p)' <=> Has(v, p)
  <2>1. \A n \in 1 .. 2 : Holds(v, n) /\ ports[v][n] = p =>
          Holds(v, n)' /\ ports'[v][n] = p
    BY <1>1, <1>3
  <2>2. \A n \in 1 .. 2 : Holds(v, n)' /\ ports'[v][n] = p =>
          Holds(v, n) /\ ports[v][n] = p
    BY <1>1, <1>3, <1>6
  <2> QED
    BY <2>1, <2>2 DEF Has
<1>7. Leases[P] = Nobody
  BY <1>4 DEF Leases, HolderLeases
<1>8. Leases' = [Leases EXCEPT ![P] = u]
  BY <1>5, <1>6, LeaseMoves
<1> QED
  BY <1>7, <1>8

\* The pair a user is through with was its own, and is nobody's.
LEMMA ReturnedLease ==
  ASSUME IInv, HolderLeases, HolderLeases', NEW u \in Users, NEW m \in 1 .. 2,
         Drops(u, m), ~ Holds(u, m)'
  PROVE  \E P \in Ports : Leases[P] = u /\ Leases' = [Leases EXCEPT ![P] = Nobody]
<1>1. /\ Holds(u, m) /\ ports' = ports
      /\ \A v \in Users, n \in 1 .. 2 : ~ (v = u /\ n = m) => (Holds(v, n)' <=> Holds(v, n))
  BY DEF Drops, KeepsBut, SameHolding
<1>2. PICK P \in Ports : P = ports[u][m]
  BY <1>1 DEF IInv, Pool, HeldAllocated, TypeOK
<1>3. \A v \in Users, n \in 1 .. 2 : Holds(v, n) /\ ports[v][n] = P => v = u /\ n = m
  BY <1>1, <1>2 DEF IInv, Pool, HeldOnce
<1>4. \A v \in Users : Has(v, P)' <=> v = Nobody
  <2>1. ASSUME NEW v \in Users PROVE ~ Has(v, P)'
    BY <1>1, <1>2, <1>3 DEF Has
  <2> QED
    BY <2>1, UserAssumption
<1>5. \A p \in Ports, v \in Users : p # P => (Has(v, p)' <=> Has(v, p))
  BY <1>1, <1>2 DEF Has
<1>6. Leases[P] = u
  BY <1>1, <1>2 DEF Leases, HolderLeases, Has
<1>7. Leases' = [Leases EXCEPT ![P] = Nobody]
  BY <1>4, <1>5, LeaseMoves
<1> QED
  BY <1>6, <1>7

\* No relay was started before StartRelay.
Before == {"idle", "second", "undo", "ready", "starting"}

RelayInv == \A u \in Users : Own(u) \in Before => ~ relay[u]

LEMMA RelayInvStep == TypeOK /\ RelayInv /\ [Next]_vars => RelayInv'
<1> SUFFICES ASSUME TypeOK, RelayInv, [Next]_vars PROVE RelayInv'
  OBVIOUS
<1> USE ThreadFacts
<1>1. ASSUME UNCHANGED relay,
             \A u \in Users : Own(u)' \in Before => Own(u) \in Before
      PROVE  RelayInv'
  BY <1>1 DEF RelayInv
<1>2. ASSUME NEW t \in Threads, NEW label \in Labels, Goto(t, label), UNCHANGED relay,
             label \notin Before \/ pc[t] \in Before \/ t = Reaper
      PROVE  RelayInv'
  <2>1. \A u \in Users : Own(u)' \in Before => Own(u) \in Before
    BY <1>2, GotoType DEF Own
  <2> QED
    BY <1>1, <1>2, <2>1
<1>3. ASSUME NEW u \in Users,
             AllocateCaller(u) \/ AllocateCallee(u) \/ UndoFirst(u) \/ CheckNew(u)
             \/ Establish(u) \/ FailCall(u)
      PROVE  RelayInv'
  <2>1. UNCHANGED relay
    BY <1>3 DEF AllocateCaller, AllocateCallee, UndoFirst, CheckNew, Establish, FailCall,
                sessionVars
  <2>2. \/ /\ pc[Invite(u)] \in Before
           /\ \E label \in {"done", "second", "undo", "ready", "starting", "stop"} :
                Goto(Invite(u), label)
        \/ \E label \in {"stop", "up"} : Goto(Invite(u), label)
    BY <1>3 DEF AllocateCaller, AllocateCallee, UndoFirst, CheckNew, Establish, FailCall,
                Before
  <2> QED
    BY <1>2, <2>1, <2>2 DEF Before, Labels
<1>4. ASSUME NEW u \in Users, StartRelay(u) PROVE RelayInv'
  <2>1. /\ pc'[Invite(u)] = "live"
        /\ \A v \in Users \ {u} : pc'[Invite(v)] = pc[Invite(v)]
    BY <1>4, GotoType DEF StartRelay, Labels
  <2>2. \A v \in Users \ {u} : relay'[v] = relay[v]
    BY <1>4 DEF StartRelay, TypeOK
  <2> QED
    BY <2>1, <2>2 DEF RelayInv, Own, Before
<1>5. ASSUME NEW u \in Users, CancelCall(u) PROVE RelayInv'
  <2>1. PICK label \in {"stop", "done"}, h \in Hangups :
          pc' = [pc EXCEPT ![Invite(u)] = label, ![<<u, h>>] = "stop"]
    BY <1>5 DEF CancelCall
  <2>2. Own(u)' = label /\ \A w \in Users \ {u} : Own(w)' = Own(w)
    BY <2>1 DEF TypeOK, Own
  <2> QED
    BY <1>1, <1>5, <2>2 DEF CancelCall, sessionVars, Before
<1>6. ASSUME NEW u \in Users, NEW h \in Hangups, Hangup(u, <<u, h>>) PROVE RelayInv'
  BY <1>2, <1>6 DEF Hangup, sessionVars, Labels, Before
<1>7. ASSUME NEW u \in Users, NEW t \in Threads,
             StopRecorder(u, t) \/ StopSession(u, t) \/ WaitForRelay(u, t)
      PROVE  RelayInv'
  <2>1. UNCHANGED relay /\ \E label \in {"stop", "wait", "remove"} : Goto(t, label)
    BY <1>7 DEF StopRecorder, StopSession, WaitForRelay, sessionVars
  <2> QED
    BY <1>2, <2>1 DEF Before, Labels
<1>8. ASSUME NEW t \in Threads, NEW id, RemoveSession(t, id), UNCHANGED relay
      PROVE  RelayInv'
  <2>1. \E label \in {"reap", "done", "halt"} : Goto(t, label)
    BY <1>8 DEF RemoveSession
  <2> QED
    BY <1>2, <1>8, <2>1 DEF Before, Labels
<1>9. ASSUME NEW t \in Threads, HaltRemoved(t) \/ ReleasePairs(t) PROVE RelayInv'
  <2>1. UNCHANGED relay
    BY <1>9 DEF HaltRemoved, ReleasePairs, sessionVars
  <2>2. \E label \in {"closeCaller", "freeCaller", "closeCallee", "freeCallee", "reap", "done"} :
          Goto(t, label)
    BY <1>9 DEF HaltRemoved, ReleasePairs
  <2> QED
    BY <1>2, <2>1, <2>2 DEF Before, Labels
<1>10. ASSUME NEW u \in Users, NEW t \in Threads, ReleaseOwn(u, t) PROVE RelayInv'
  BY <1>8, <1>10 DEF ReleaseOwn, sessionVars
<1>11. CASE ScanIdle
  BY <1>2, <1>11 DEF ScanIdle, sessionVars, Labels
<1>12. CASE Reap
  <2>1. UNCHANGED relay
    BY <1>12 DEF Reap, sessionVars
  <2>2. (\E id \in orphaned : RemoveSession(Reaper, id)) \/ Goto(Reaper, "idle")
    BY <1>12 DEF Reap
  <2> QED
    BY <1>2, <1>8, <2>1, <2>2 DEF Labels
<1>13. ASSUME NEW u \in Users, NEW leg \in Legs,
              StopForwarding(u, leg) \/ ReadPacket(u, leg) \/ FeedPacket(u, leg)
       PROVE  RelayInv'
  BY <1>1, <1>13 DEF StopForwarding, ReadPacket, FeedPacket, Own
<1>14. CASE ForeignProcess
  BY <1>1, <1>14 DEF ForeignProcess, sessionVars, Own
<1>15. CASE UNCHANGED vars
  BY <1>1, <1>15 DEF vars, sessionVars, Own
<1>16. ASSUME NEW u \in Users, UserStep(u) PROVE RelayInv'
  BY <1>3, <1>4, <1>5, <1>6, <1>7, <1>9, <1>10, <1>13, <1>16
     DEF UserStep, InviteStep, ReleaseStep, RelayStep
<1> QED
  BY <1>9, <1>11, <1>12, <1>14, <1>15, <1>16 DEF Next, ReaperStep

\* One session moves on where the others stay.
LEMMA LifeMoves ==
  ASSUME NEW u \in Users, \A v \in Users \ {u} : Life(v)' = Life(v)
  PROVE  Lives' = [Lives EXCEPT ![u] = Life(u)']
BY DEF Lives

\* What keeps a session as far as it has come.
LEMMA LifeStays ==
  ASSUME NEW u \in Users, sessions'[IdOf[u]] = u <=> sessions[IdOf[u]] = u,
         Len(ports'[u]) = 2 <=> Len(ports[u]) = 2, relay'[u] = relay[u]
  PROVE  Life(u)' = Life(u)
BY DEF Life

\* Where no pair changes hands, a session moves on as in MediaSession.
LEMMA KeptLeaseStep ==
  ASSUME Leases' = Leases,
         \/ Lives' = Lives
         \/ \E u \in Users : /\ Life(u) = "new"
                             /\ Lives' = [Lives EXCEPT ![u] = "relaying"]
         \/ \E u \in Users : /\ Life(u) \in {"new", "relaying"}
                             /\ Lives' = [Lives EXCEPT ![u] = "closed"]
  PROVE  [Lease!LeaseNext]_<<Lives, Leases>>
<1> USE DEF Lives, Leases
<1>1. CASE Lives' = Lives
  BY <1>1
<1>2. ASSUME NEW u \in Users, Life(u) = "new", Lives' = [Lives EXCEPT ![u] = "relaying"]
      PROVE  [Lease!LeaseNext]_<<Lives, Leases>>
  <2>1. Lease!Relay(u)
    BY <1>2 DEF Lease!Relay, Lease!Step
  <2> QED
    BY <2>1 DEF Lease!LeaseNext
<1>3. ASSUME NEW u \in Users, Life(u) \in {"new", "relaying"},
             Lives' = [Lives EXCEPT ![u] = "closed"]
      PROVE  [Lease!LeaseNext]_<<Lives, Leases>>
  <2>1. Lease!Close(u)
    BY <1>3 DEF Lease!Close, Lease!Step
  <2> QED
    BY <2>1 DEF Lease!LeaseNext
<1> QED
  BY <1>1, <1>2, <1>3

\* A session that is being set up is not in the table.
LEMMA UnsetLife ==
  ASSUME Control, NEW u \in Users, ~ SetUp(u), Len(ports[u]) # 2
  PROVE  sessions[IdOf[u]] # u /\ Life(u) = "none"
<1>1. sessions[IdOf[u]] # u
  BY UserAssumption DEF Control, TableInv
<1> QED
  BY <1>1 DEF Life

\* SessionManager.Allocate takes a pair, then another and opens the session, or
\* gives the first one back.
LEMMA TakeFirstStep ==
  ASSUME IInv, HolderLeases, HolderLeases', NEW u \in Users,
         Takes(u, 1), AllocateCaller(u), ports[u] = <<>>
  PROVE  \E P \in Ports : Lease!TakeFirst(u, P)
<1>1. /\ 1 \in 1 .. 2 /\ Len(ports[u]) = 0
      /\ UNCHANGED <<sessions, relay>> /\ pc[Invite(u)] = "idle"
  BY DEF AllocateCaller
<1>2. /\ Len(ports'[u]) = 1 /\ \A v \in Users \ {u} : ports'[v] = ports[v]
  <2>1. TypeOK /\ AllocatePair(u) /\ Len(ports[u]) <= 1 /\ Len(ports[u]) + 1 = 1
    BY <1>1 DEF IInv, Takes
  <2> QED
    BY <2>1, AllocateFacts
<1>3. Life(u) = "none"
  BY <1>1, UnsetLife DEF IInv, SetUp, Own
<1>4. \A v \in Users : Life(v)' = Life(v)
  BY <1>1, <1>2, LifeStays
<1>5. \A p \in Ports : ~ Has(u, p)
  BY DEF Has, Takes
<1>6. PICK P \in Ports : Leases[P] = Nobody /\ Leases' = [Leases EXCEPT ![P] = u]
  BY <1>1, TakenLease
<1>7. Lease!Leased(u) = {}
  BY <1>5 DEF Lease!Leased, HolderLeases
<1>8. Lease!TakeFirst(u, P)
  BY <1>3, <1>4, <1>6, <1>7 DEF Lease!TakeFirst, Lease!Take, Leases
<1> QED
  BY <1>8

LEMMA TakeSecondStep ==
  ASSUME IInv, RelayInv, HolderLeases, HolderLeases', NEW u \in Users,
         Takes(u, 2), AllocateCallee(u), lock = u,
         sessions' = [sessions EXCEPT ![IdOf[u]] = u]
  PROVE  \E P \in Ports : Lease!TakeSecond(u, P)
<1>1. /\ 2 \in 1 .. 2 /\ 1 \in 1 .. 2
      /\ UNCHANGED relay /\ Own(u) = "second"
      /\ Len(ports[u]) = 1 /\ sessions[IdOf[u]] = Nobody /\ ~ relay[u]
  BY DEF AllocateCallee, IInv, Control, LockInv, Own, Allocating, RelayInv, Before
<1>2. /\ Len(ports'[u]) = 2 /\ \A v \in Users \ {u} : ports'[v] = ports[v]
  <2>1. TypeOK /\ AllocatePair(u) /\ Len(ports[u]) <= 1 /\ Len(ports[u]) + 1 = 2
    BY <1>1 DEF IInv, Takes
  <2> QED
    BY <2>1, AllocateFacts
<1>3. Life(u) = "none"
  BY <1>1, UnsetLife DEF IInv, SetUp, Allocating
<1>4. \A v \in Users : IdOf[v] \in Ids
  BY UserAssumption
<1>5. /\ sessions'[IdOf[u]] = u
      /\ \A v \in Users \ {u} : sessions'[IdOf[v]] = v <=> sessions[IdOf[v]] = v
  BY <1>1, <1>4, UserAssumption DEF IInv, TypeOK
<1>6. Life(u)' = "new"
  BY <1>1, <1>5 DEF Life
<1>7. Lives' = [Lives EXCEPT ![u] = "new"]
  BY <1>1, <1>2, <1>5, <1>6, LifeStays, LifeMoves
<1>8. \A v \in Users : IdOf[v] = IdOf[u] => Life(v) \in {"none", "closed"}
  BY <1>1, UserAssumption DEF Life
<1>9. PICK q \in Ports : q = ports[u][1]
  <2>1. ports[u] \in Seq(Ports)
    BY DEF IInv, TypeOK
  <2> QED
    BY <1>1, <2>1
<1>10. \A p \in Ports : Has(u, p) <=> p = q
  <2>1. Holds(u, 1) /\ ~ Holds(u, 2)
    BY <1>1 DEF Holds, Takes
  <2> QED
    BY <1>1, <1>9, <2>1 DEF Has
<1>11. Lease!Leased(u) = {q}
  BY <1>10 DEF Lease!Leased, HolderLeases
<1>12. PICK P \in Ports : Leases[P] = Nobody /\ Leases' = [Leases EXCEPT ![P] = u]
  BY <1>1, TakenLease
<1>13. Lease!Take(u, P)
  BY <1>12 DEF Lease!Take, Leases
<1>14. Lease!Open(u)
  BY <1>3, <1>7 DEF Lease!Open, Lease!Step, Lives
<1>15. Lease!TakeSecond(u, P)
  BY <1>8, <1>9, <1>11, <1>13, <1>14 DEF Lease!TakeSecond
<1> QED
  BY <1>15

LEMMA GiveUpStep ==
  ASSUME IInv, HolderLeases, HolderLeases', NEW u \in Users,
         Drops(u, 1), ~ Holds(u, 1)', UndoFirst(u)
  PROVE  \E P \in Ports : Lease!GiveUp(u, P)
<1>1. /\ 1 \in 1 .. 2 /\ UNCHANGED <<sessions, relay, ports>> /\ Own(u) = "undo"
  BY DEF UndoFirst, sessionVars, Own
<1>2. Life(u) = "none"
  BY <1>1, UnsetLife DEF IInv, Control, LockInv, Allocating, SetUp
<1>3. \A v \in Users : Life(v)' = Life(v)
  BY <1>1, LifeStays
<1>4. PICK P \in Ports : Leases[P] = u /\ Leases' = [Leases EXCEPT ![P] = Nobody]
  BY <1>1, ReturnedLease
<1>5. Lease!GiveUp(u, P)
  BY <1>2, <1>3, <1>4 DEF Lease!GiveUp, Lease!Return, Leases
<1> QED
  BY <1>5

\* Proxy.Release closes a pair that stays leased, and returns it.
LEMMA ReleaseLeaseStep ==
  ASSUME IInv, HolderLeases, HolderLeases', NEW t \in Threads, ReleasePairs(t)
  PROVE  [Lease!LeaseNext]_<<Lives, Leases>>
<1>1. PICK u \in Users, m \in 1 .. 2 :
        /\ UNCHANGED <<sessions, relay, ports>>
        /\ SetUp(u) /\ sessions[IdOf[u]] # u /\ Drops(u, m)
        /\ (Opens(u, m) /\ Holds(u, m)') \/ (~ Opens(u, m) /\ ~ Holds(u, m)')
  BY ReleaseKinds DEF IInv
<1>2. Life(u) = "closed"
  BY <1>1 DEF Life, SetUp
<1>3. \A v \in Users : Life(v)' = Life(v)
  BY <1>1, LifeStays
<1>4. CASE ~ Holds(u, m)'
  <2>1. PICK P \in Ports : Leases[P] = u /\ Leases' = [Leases EXCEPT ![P] = Nobody]
    BY <1>1, <1>4, ReturnedLease
  <2>2. Lease!ReturnPair(u, P)
    BY <1>2, <1>3, <2>1 DEF Lease!ReturnPair, Lease!Return, Leases
  <2> QED
    BY <2>2 DEF Lease!LeaseNext
<1>5. CASE Holds(u, m)'
  <2>1. \A v \in Users, n \in 1 .. 2 : Holds(v, n)' <=> Holds(v, n)
    BY <1>1, <1>5 DEF Drops, KeepsBut, SameHolding
  <2>2. \A v \in Users, p \in Ports : Has(v, p)' <=> Has(v, p)
    BY <1>1, <2>1 DEF Has
  <2>3. Leases' = Leases
    BY <2>2 DEF HolderLeases, Leases
  <2>4. Lives' = Lives
    BY <1>3 DEF Lives
  <2> QED
    BY <2>3, <2>4, KeptLeaseStep
<1> QED
  BY <1>4, <1>5

\* SessionManager.Release closes the session whose entry it finds.
LEMMA RemoveLeaseStep ==
  ASSUME IInv, HolderLeases, HolderLeases', NEW t \in Threads, NEW id \in Ids, Removes(t, id)
  PROVE  [Lease!LeaseNext]_<<Lives, Leases>>
<1>1. /\ pc[t] \in {"remove", "reap"} /\ RemoveSession(t, id)
      /\ UNCHANGED <<lock, relay, ports>>
  BY DEF Removes, sessionVars
<1>2. Leases' = Leases
  BY <1>1, RemoveKeeps, KeptLeases DEF IInv
<1>3. CASE UNCHANGED sessions
  <2>1. Lives' = Lives
    BY <1>1, <1>3, LifeStays DEF Lives
  <2> QED
    BY <1>2, <2>1, KeptLeaseStep
<1>4. CASE /\ sessions[id] \in Users /\ sessions'[id] = Nobody
           /\ \A i \in Ids \ {id} : sessions'[i] = sessions[i]
  <2>1. PICK u \in Users : u = sessions[id]
    BY <1>4
  <2>2. IdOf[u] = id /\ Len(ports[u]) = 2
    BY <2>1, UserAssumption DEF IInv, Control, TableInv, SetUp
  <2>3. Life(u) \in {"new", "relaying"}
    BY <2>1, <2>2 DEF Life
  <2>4. Life(u)' = "closed"
    BY <1>1, <1>4, <2>2, UserAssumption DEF Life
  <2>5. ASSUME NEW v \in Users \ {u} PROVE Life(v)' = Life(v)
    <3>1. IdOf[v] \in Ids /\ v # Nobody
      BY UserAssumption
    <3>2. sessions'[IdOf[v]] = v <=> sessions[IdOf[v]] = v
      BY <1>4, <2>1, <3>1
    <3> QED
      BY <1>1, <3>2, LifeStays
  <2>6. Lives' = [Lives EXCEPT ![u] = "closed"]
    BY <2>4, <2>5, LifeMoves
  <2> QED
    BY <1>2, <2>3, <2>6, KeptLeaseStep
<1> QED
  BY <1>1, <1>3, <1>4, RemoveFacts DEF IInv

\* Any other step keeps the leases, and starts a relay at most.
LEMMA QuietLeaseStep ==
  ASSUME IInv, RelayInv, HolderLeases, HolderLeases', Quiet,
         UNCHANGED relay \/ \E u \in Users : StartRelay(u)
  PROVE  [Lease!LeaseNext]_<<Lives, Leases>>
<1>1. UNCHANGED <<sessions, ports>> /\ Leases' = Leases
  BY KeptLeases DEF Quiet
<1>2. CASE UNCHANGED relay
  <2>1. Lives' = Lives
    BY <1>1, <1>2, LifeStays DEF Lives
  <2> QED
    BY <1>1, <2>1, KeptLeaseStep
<1>3. ASSUME NEW u \in Users, StartRelay(u)
      PROVE  [Lease!LeaseNext]_<<Lives, Leases>>
  <2>1. /\ ~ relay[u] /\ relay'[u]
        /\ \A v \in Users \ {u} : relay'[v] = relay[v]
    BY <1>3 DEF RelayInv, Own, Before, StartRelay, IInv, TypeOK
  <2>2. \A v \in Users \ {u} : Life(v)' = Life(v)
    BY <1>1, <2>1, LifeStays
  <2>3. CASE sessions[IdOf[u]] = u
    <3>1. Life(u) = "new" /\ Life(u)' = "relaying"
      BY <1>1, <2>1, <2>3 DEF Life
    <3>2. Lives' = [Lives EXCEPT ![u] = "relaying"]
      BY <2>2, <3>1, LifeMoves
    <3> QED
      BY <1>1, <3>1, <3>2, KeptLeaseStep
  <2>4. CASE sessions[IdOf[u]] # u
    <3>1. Life(u)' = Life(u)
      BY <1>1, <2>4 DEF Life
    <3>2. Lives' = Lives
      BY <2>2, <3>1 DEF Lives
    <3> QED
      BY <1>1, <3>2, KeptLeaseStep
  <2> QED
    BY <2>3, <2>4
<1> QED
  BY <1>2, <1>3

LEMMA LeaseStep ==
  IInv /\ RelayInv /\ HolderLeases /\ HolderLeases' /\ [Next]_vars =>
    [Lease!LeaseNext]_<<Lives, Leases>>
<1> SUFFICES ASSUME IInv, RelayInv, HolderLeases, HolderLeases', [Next]_vars
             PROVE  [Lease!LeaseNext]_<<Lives, Leases>>
  OBVIOUS
<1>1. ASSUME NEW u \in Users, AllocateCaller(u) \/ AllocateCallee(u) \/ UndoFirst(u)
      PROVE  [Lease!LeaseNext]_<<Lives, Leases>>
  <2>1. CASE Takes(u, 1) /\ AllocateCaller(u) /\ ports[u] = <<>>
    BY <2>1, TakeFirstStep DEF Lease!LeaseNext
  <2>2. CASE /\ Takes(u, 2) /\ AllocateCallee(u) /\ lock = u
             /\ sessions' = [sessions EXCEPT ![IdOf[u]] = u]
    BY <2>2, TakeSecondStep DEF Lease!LeaseNext
  <2>3. CASE Drops(u, 1) /\ ~ Holds(u, 1)' /\ UndoFirst(u)
    BY <2>3, GiveUpStep DEF Lease!LeaseNext
  <2>4. CASE Quiet
    <3>1. UNCHANGED relay
      BY <1>1 DEF AllocateCaller, AllocateCallee, UndoFirst, sessionVars
    <3> QED
      BY <2>4, <3>1, QuietLeaseStep
  <2> QED
    BY <1>1, <2>1, <2>2, <2>3, <2>4, AllocateKinds DEF IInv
<1> QED
  BY <1>1, ReleaseLeaseStep, RemoveLeaseStep, QuietLeaseStep, StepKinds DEF IInv

\* Whoever allocates, relays, cancels, hangs up or reaps, in whatever order: a
\* session opens with two pairs that were nobody's, closes once, and its pairs go
\* back once each.
THEOREM LeaseRefinement == Spec => ImplementsLease
<1>1. Init => RelayInv /\ Lease!LeaseInit
  <2> SUFFICES ASSUME Init PROVE RelayInv /\ Lease!LeaseInit
    OBVIOUS
  <2>1. \A u \in Users : Life(u) = "none"
    BY UserAssumption DEF Init, Life
  <2>2. \A p \in Ports : LeaseOf(p) = Nobody
    BY DEF Init, LeaseOf
  <2> QED
    BY <2>1, <2>2 DEF Init, RelayInv, Lease!LeaseInit, Lease!SessionInit
<1>2. IInv => TypeOK
  BY DEF IInv
<1>3. HolderLeases /\ HolderLeases' /\ IInv /\ RelayInv /\ [Next]_vars =>
        [Lease!LeaseNext]_<<[u \in Users |-> Life(u)], [p \in Ports |-> LeaseOf(p)]>>
  BY LeaseStep DEF Lives, Leases
<1> QED
  BY <1>1, <1>2, <1>3, RelayInvStep, LeaseFacts, PoolInvariance, PTL
     DEF Spec, ImplementsLease, Lease!LeaseSpec

=============================================================================
