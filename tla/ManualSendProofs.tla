-------------------------- MODULE ManualSendProofs --------------------------
(***************************************************************************)
(* Theorems about ManualSend for every number of requests, listeners, ports *)
(* and associations, and every choice of addresses: whom a request serves,  *)
(* and how often.                                                           *)
(***************************************************************************)
EXTENDS ManualSend, SctpServerProofs, ListsProofs, SequenceTheorems

\* The associations accepted so far, and those of one address.
Known == {c \in Conns : home[c] # None}
Accepted(a) == {c \in Known : PeerAddr[c] = a}

\* Places: a listed port has one of its own.
PlacesInv ==
    /\ inserted \in Nat
    /\ place \in [Ports -> 0..inserted]
    /\ \A p \in Ports : place[p] = 0 <=> listeners[p] = None
    /\ \A p, q \in Ports : place[p] = place[q] => p = q \/ place[p] = 0

\* Types of the requests, and what they have done before they iterate.
RequestTypes ==
    /\ req \in [Requests -> {"idle", "client", "sending", "sent", "log"} \cup Answers]
    /\ cursor \in [Requests -> Nat]
    /\ todo \in [Requests -> Seq(Addrs)]
    /\ target \in [Requests -> Conns \cup {None}]
    /\ got \in [Requests -> [Addrs -> Nat]]
    /\ stayed \in [Requests -> SUBSET Conns]
    /\ DOMAIN raw = Requests /\ DOMAIN row = Requests
    /\ \A r \in Requests : target[r] # None <=> Iterating(r)
    /\ \A r \in Requests : row[r] = IF req[r] = "200" THEN Decode(raw[r]) ELSE None
    /\ \A r \in Requests : req[r] \in {"idle", "client"} =>
          got[r] = [a \in Addrs |-> 0] /\ stayed[r] = {}

\* An iteration at place k has not come to entry e yet, or to that of an association.
Ahead(k, e) == listeners[Port[e]] = e /\ place[Port[e]] > k
Passed(k, a) == {c \in Accepted(a) : ~Ahead(k, home[c])}

\* Address a is to be served in the entry that the iteration is at.
Due(r, a) == a \in Range(todo[r]) \/ (req[r] = "sending" /\ a = PeerAddr[target[r]])

\* It is due there once: the list has no address twice, nor the one just served.
DueOnce(r) == Iterating(r) =>
    /\ Distinct(todo[r])
    /\ target[r] \in Known /\ PeerAddr[target[r]] \notin Range(todo[r])

\* An address has been served at most once for each of its associations; while the
\* request iterates, for each whose entry it has come to.
Counted(r, a) ==
    /\ got[r][a] <= Cardinality(Accepted(a))
    /\ Iterating(r) => got[r][a] + (IF Due(r, a) THEN 1 ELSE 0) <= Cardinality(Passed(cursor[r], a))

\* An association that stays listed is served, is due, or its entry is still to come.
Fixed(r) == {c \in stayed[r] : SameAddr(c) \subseteq stayed[r]}
Covered(r) ==
    /\ Iterating(r) =>
          /\ stayed[r] \subseteq Reachable
          /\ \A c \in Fixed(r) : \/ got[r][PeerAddr[c]] > 0
                                 \/ Due(r, PeerAddr[c])
                                 \/ place[Port[home[c]]] > cursor[r]
    /\ req[r] \in {"log", "200"} => \A c \in Fixed(r) : got[r][PeerAddr[c]] > 0

RequestInv(r) == DueOnce(r) /\ Covered(r) /\ \A a \in Addrs : Counted(r, a)

\* The tables that the request reads, and the inductive invariant.
TablesInv == ServerInv /\ PlacesInv /\ IsFiniteSet(Known)

SendInv == TablesInv /\ RequestTypes /\ \A r \in Requests : RequestInv(r)

-----------------------------------------------------------------------------
(* The tables a request reads *)

\* What an entry holds for an address is an association of that address and entry.
LEMMA PeerKnown ==
    ASSUME TablesInv, NEW p \in Listed, NEW a \in PeersOf(p)
    PROVE  LET c == peers[listeners[p]][a]
           IN  /\ c \in Known /\ PeerAddr[c] = a /\ home[c] = listeners[p]
               /\ a \in Addrs /\ p \in Ports /\ listeners[p] \in Starts /\ Port[listeners[p]] = p
<1>1. p \in Ports /\ listeners[p] \in Starts /\ Port[listeners[p]] = p /\ a \in Addrs
  BY DEF TablesInv, ServerInv, TypeOK, Listed, PeersOf
<1>2. peers[listeners[p]][a] \in Conns /\ peers[listeners[p]][a] # None
  BY <1>1 DEF TablesInv, ServerInv, TypeOK, PeersOf
<1>3. home[peers[listeners[p]][a]] = listeners[p] /\ PeerAddr[peers[listeners[p]][a]] = a
  BY <1>1, <1>2 DEF TablesInv, ServerInv, PeersAtHome
<1> QED
  BY <1>1, <1>2, <1>3, ServerAssumption DEF Known

\* Every nonempty set of numbers has a least one.
LEMMA LeastExists ==
    ASSUME NEW nums \in SUBSET Nat, nums # {}
    PROVE  \E m \in nums : \A k \in nums : m <= k
<1>1. PICK m \in nums : \A k \in nums : ~(<<k, m>> \in OpToRel(<, Nat))
  BY NatLessThanWellFounded, WFMin
<1>2. \A k \in nums : ~(k < m)
  BY <1>1 DEF OpToRel
<1> QED
  BY <1>2

\* Every nonempty set of ports has one with the least place.
LEMMA FirstPort ==
    ASSUME PlacesInv, NEW S \in SUBSET Ports, S # {}
    PROVE  \E p \in S : \A q \in S : place[p] <= place[q]
<1> DEFINE nums == {place[p] : p \in S}
<1>1. nums \in SUBSET Nat /\ nums # {}
  BY DEF PlacesInv
<1>2. PICK m \in nums : \A k \in nums : m <= k
  BY <1>1, LeastExists
<1>3. PICK p \in S : place[p] = m
  OBVIOUS
<1> QED
  BY <1>2, <1>3

\* send_to_peer finds an association of the address, and finds one whenever a
\* listener knows the address.
LEMMA LookupFinds ==
    ASSUME TablesInv, NEW a
    PROVE  /\ Lookup(a) # None => Lookup(a) \in Known /\ PeerAddr[Lookup(a)] = a
           /\ \A p \in Listed : a \in PeersOf(p) => Lookup(a) # None
<1> DEFINE hits == {p \in Listed : a \in PeersOf(p)}
           first == CHOOSE p \in hits : \A q \in hits : place[p] <= place[q]
<1>1. CASE hits = {}
  BY <1>1 DEF Lookup
<1>2. CASE hits # {}
  <2>1. hits \in SUBSET Ports
    BY DEF Listed
  <2>2. first \in hits
    BY <1>2, <2>1, FirstPort DEF TablesInv
  <2>3. Lookup(a) = peers[listeners[first]][a]
    BY <1>2 DEF Lookup
  <2> HIDE DEF first
  <2>4. Lookup(a) \in Known /\ PeerAddr[Lookup(a)] = a
    BY <2>2, <2>3, PeerKnown
  <2> QED
    BY <2>4, ServerAssumption DEF Known
<1> QED
  BY <1>1, <1>2

\* An association that is up and listed is found under its address.
LEMMA ReachableListed ==
    ASSUME TablesInv, NEW c \in Reachable
    PROVE  LET p == Port[home[c]]
           IN  /\ c \in Known /\ PeerAddr[c] \in Addrs /\ c \in up
               /\ p \in Listed /\ PeerAddr[c] \in PeersOf(p) /\ listeners[p] = home[c]
<1>1. PICK p \in Listed : peers[listeners[p]][PeerAddr[c]] = c
  BY DEF Reachable
<1>2. c \in Conns /\ c \in up /\ PeerAddr[c] \in Addrs /\ c # None
  BY PortAndAddr, ServerAssumption DEF Reachable, TablesInv, ServerInv, TypeOK
<1>3. PeerAddr[c] \in PeersOf(p)
  BY <1>1, <1>2 DEF PeersOf
<1> QED
  BY <1>1, <1>2, <1>3, PeerKnown

\* The addresses of an entry are finitely many.
LEMMA PeersFinite ==
    ASSUME TablesInv, NEW p \in Listed
    PROVE  IsFiniteSet(PeersOf(p))
<1> DEFINE conns == {peers[listeners[p]][a] : a \in PeersOf(p)}
           addrs == {PeerAddr[c] : c \in conns}
<1>1. conns \subseteq Known /\ PeersOf(p) = addrs
  BY PeerKnown
<1>2. IsFiniteSet(Known)
  BY DEF TablesInv
<1>3. IsFiniteSet(conns)
  BY <1>1, <1>2, FS_Subset
<1> HIDE DEF conns
<1>4. [c \in conns |-> PeerAddr[c]] \in Surjection(conns, addrs)
  BY DEF Surjection
<1>5. IsFiniteSet(addrs)
  BY <1>3, <1>4, FS_Surjection
<1> QED
  BY <1>1, <1>5

-----------------------------------------------------------------------------
(* The lists a request goes through *)

\* No address of a list can be found.
NoneFound(list) == \A a \in Range(list) : Lookup(a) = None

\* What FromFound drops cannot be found, and what it leaves begins with an address
\* that can.
LEMMA FromFoundDrops ==
    ASSUME NEW list \in Seq(Addrs)
    PROVE  LET rest == FromFound(list)
           IN  /\ rest = <<>> => NoneFound(list)
               /\ rest # <<>> =>
                    /\ rest \in Seq(Addrs) /\ Lookup(Head(rest)) # None
                    /\ Range(rest) \subseteq Range(list)
                    /\ \A a \in Range(list) : Lookup(a) # None => a \in Range(rest)
                    /\ Distinct(list) => Distinct(rest)
<1> DEFINE found == {i \in DOMAIN list : Lookup(list[i]) # None}
           k == CHOOSE i \in found : \A j \in found : i <= j
           rest == SubSeq(list, k, Len(list))
<1>1. CASE found = {}
  BY <1>1 DEF FromFound, NoneFound, Range
<1>2. CASE found # {}
  <2>1. found \in SUBSET Nat
    OBVIOUS
  <2>2. k \in found /\ \A j \in found : k <= j
    BY <1>2, <2>1, LeastExists
  <2>3. FromFound(list) = rest
    BY <1>2 DEF FromFound
  <2>4. k \in 1..Len(list) /\ Len(list) \in Nat /\ Lookup(list[k]) # None
    BY <2>2
  <2>5. \A i \in 1..Len(list) : Lookup(list[i]) # None => k <= i
    BY <2>2
  <2> HIDE DEF k
  <2>6. /\ rest \in Seq(Addrs) /\ Len(rest) = Len(list) - k + 1
        /\ \A i \in 1..Len(list) - k + 1 : rest[i] = list[k + i - 1]
    BY <2>4, SubSeqProperties
  <2> HIDE DEF rest
  <2>7. rest # <<>> /\ Head(rest) = list[k]
    <3>1. 1 \in 1..Len(list) - k + 1 /\ k + 1 - 1 = k
      BY <2>4
    <3>2. rest[1] = list[k] /\ Len(rest) # 0
      BY <2>6, <3>1
    <3> QED
      BY <2>6, <3>2
  <2>8. \A i \in DOMAIN rest : k + i - 1 \in DOMAIN list /\ rest[i] = list[k + i - 1]
    <3>1. DOMAIN rest = 1..Len(list) - k + 1 /\ DOMAIN list = 1..Len(list)
      BY <2>6
    <3>2. \A i \in 1..Len(list) - k + 1 : k + i - 1 \in 1..Len(list)
      BY <2>4
    <3> QED
      BY <2>6, <3>1, <3>2
  <2>9. \A i \in DOMAIN list : Lookup(list[i]) # None => i - k + 1 \in DOMAIN rest /\ rest[i - k + 1] = list[i]
    <3> SUFFICES ASSUME NEW i \in 1..Len(list), Lookup(list[i]) # None
                 PROVE  i - k + 1 \in DOMAIN rest /\ rest[i - k + 1] = list[i]
      OBVIOUS
    <3>1. i - k + 1 \in 1..Len(list) - k + 1
      BY <2>4, <2>5
    <3>2. rest[i - k + 1] = list[k + (i - k + 1) - 1] /\ k + (i - k + 1) - 1 = i
      BY <2>4, <2>6, <3>1
    <3> QED
      BY <2>6, <3>1, <3>2
  <2>10. Distinct(list) => Distinct(rest)
    BY <2>4, <2>6, <2>8 DEF Distinct
  <2>11. Range(rest) \subseteq Range(list)
    BY <2>8 DEF Range
  <2>12. \A a \in Range(list) : Lookup(a) # None => a \in Range(rest)
    BY <2>9 DEF Range
  <2> QED
    BY <2>3, <2>4, <2>6, <2>7, <2>10, <2>11, <2>12
<1> QED
  BY <1>1, <1>2

\* An order of addresses has each once.
LEMMA OrderLists ==
    ASSUME NEW S \in SUBSET Addrs, IsFiniteSet(S), S # {}, NEW f \in Orders(S)
    PROVE  f \in Seq(Addrs) /\ f # <<>> /\ Range(f) = S /\ Distinct(f)
<1> DEFINE n == Cardinality(S)
<1>1. n \in Nat /\ n # 0
  BY FS_CardinalityType, FS_EmptySet
<1>2. f \in [1..n -> S] /\ \A a \in S : \E i \in 1..n : f[i] = a
  BY DEF Orders
<1>3. f \in Surjection(1..n, S)
  BY <1>2 DEF Surjection
<1>4. IsFiniteSet(1..n) /\ Cardinality(1..n) = n
  BY <1>1, FS_Interval
<1>5. f \in Injection(1..n, S)
  BY <1>3, <1>4, FS_Surjection
<1>6. Distinct(f)
  BY <1>2, <1>5 DEF Injection, IsInjective, Distinct
<1>7. f \in Seq(Addrs) /\ Len(f) = n
  BY <1>1, <1>2
<1> QED
  BY <1>1, <1>2, <1>6, <1>7 DEF Range

-----------------------------------------------------------------------------
(* The iteration goes on *)

\* The next list is what is left of this one, or an order of the next entry's peers.
SameEntry(m, list, k, next) ==
    /\ k = m
    /\ Range(next) \subseteq Range(list)
    /\ \A a \in Range(list) : Lookup(a) # None => a \in Range(next)

NextEntry(m, list, k, next) ==
    /\ NoneFound(list)
    /\ \E p \in Listed : k = place[p] /\ Range(next) = PeersOf(p)
    /\ k > m
    /\ \A q \in Listed : PeersOf(q) # {} /\ place[q] > m => k <= place[q]

LEMMA ContinueCases ==
    ASSUME TablesInv, NEW r \in Requests, NEW keys, NEW m \in Nat,
           NEW list \in Seq(Addrs), Distinct(list), Continue(r, keys, m, list)
    PROVE  \/ Reply(r, "500")
           \/ /\ IterationOver(r) /\ NoneFound(list)
              /\ \A q \in Listed : PeersOf(q) # {} => place[q] <= m
           \/ \E next \in Seq(Addrs), k \in Nat :
                 /\ Await(r, keys, k, next)
                 /\ next # <<>> /\ Distinct(next) /\ Lookup(Head(next)) # None
                 /\ SameEntry(m, list, k, next) \/ NextEntry(m, list, k, next)
<1> DEFINE rest == FromFound(list)
           later == {p \in Listed : place[p] > m /\ PeersOf(p) # {}}
<1>0. \A p \in Listed : p \in Ports /\ place[p] \in Nat
  BY DEF Listed, TablesInv, PlacesInv
<1>1. CASE rest # <<>>
  <2>1. Await(r, keys, m, rest)
    BY <1>1 DEF Continue
  <2>2. /\ rest \in Seq(Addrs) /\ Distinct(rest) /\ Lookup(Head(rest)) # None
        /\ SameEntry(m, list, m, rest)
    BY <1>1, FromFoundDrops DEF SameEntry
  <2> QED
    BY <1>1, <2>1, <2>2
<1>2. CASE rest = <<>>
  <2>1. NoneFound(list)
    BY <1>2, FromFoundDrops
  <2>2. CASE later = {} /\ IterationOver(r)
    <3>1. \A q \in Listed : PeersOf(q) # {} => place[q] <= m
      BY <1>0, <2>2
    <3> QED
      BY <2>1, <2>2, <3>1
  <2>3. CASE \E p \in later :
                /\ \A q \in later : place[p] <= place[q]
                /\ \E order \in Orders(PeersOf(p)) : Await(r, keys, place[p], order)
    <3>1. PICK p \in later :
                /\ \A q \in later : place[p] <= place[q]
                /\ \E order \in Orders(PeersOf(p)) : Await(r, keys, place[p], order)
      BY <2>3
    <3>2. PICK order \in Orders(PeersOf(p)) : Await(r, keys, place[p], order)
      BY <3>1
    <3>3. p \in Listed /\ PeersOf(p) \in SUBSET Addrs /\ PeersOf(p) # {}
      BY <3>1 DEF PeersOf
    <3>4. order \in Seq(Addrs) /\ order # <<>> /\ Range(order) = PeersOf(p) /\ Distinct(order)
      BY <3>2, <3>3, PeersFinite, OrderLists
    <3>5. Head(order) \in PeersOf(p)
      BY <3>4, RangeOfTail
    <3>6. Lookup(Head(order)) # None
      BY <3>3, <3>5, LookupFinds
    <3>7. NextEntry(m, list, place[p], order)
      BY <1>0, <2>1, <3>1, <3>3, <3>4 DEF NextEntry
    <3> QED
      BY <1>0, <3>2, <3>3, <3>4, <3>6, <3>7
  <2>4. Reply(r, "500") \/ (later = {} /\ IterationOver(r))
           \/ \E p \in later :
                /\ \A q \in later : place[p] <= place[q]
                /\ \E order \in Orders(PeersOf(p)) : Await(r, keys, place[p], order)
    BY <1>2 DEF Continue
  <2> QED
    BY <2>2, <2>3, <2>4
<1> QED
  BY <1>1, <1>2

\* The request may go on from place m with the list: for the addresses of the list
\* one association more has been passed, and associations S are covered.
MayContinue(r, m, list, S) ==
    /\ Distinct(list)
    /\ \A a \in Addrs :
          /\ got[r][a] <= Cardinality(Accepted(a))
          /\ got[r][a] + (IF a \in Range(list) THEN 1 ELSE 0) <= Cardinality(Passed(m, a))
    /\ S \subseteq Reachable
    /\ \A c \in S : SameAddr(c) \subseteq S =>
          \/ got[r][PeerAddr[c]] > 0
          \/ PeerAddr[c] \in Range(list)
          \/ place[Port[home[c]]] > m

\* An iteration that has come further has passed no fewer associations.
LEMMA PassedGrows ==
    ASSUME TablesInv, NEW a \in Addrs, NEW m \in Nat, NEW k \in Nat, m <= k
    PROVE  /\ IsFiniteSet(Accepted(a)) /\ IsFiniteSet(Passed(m, a)) /\ IsFiniteSet(Passed(k, a))
           /\ Cardinality(Passed(m, a)) \in Nat /\ Cardinality(Passed(k, a)) \in Nat
           /\ Passed(m, a) \subseteq Passed(k, a)
           /\ Cardinality(Passed(m, a)) <= Cardinality(Passed(k, a))
<1>1. IsFiniteSet(Known) /\ Accepted(a) \in SUBSET Known
  BY DEF TablesInv, Accepted
<1>2. IsFiniteSet(Accepted(a))
  BY <1>1, FS_Subset
<1>3. \A c \in Known : home[c] \in Starts /\ Port[home[c]] \in Ports /\ place[Port[home[c]]] \in Nat
  BY PortAndAddr DEF Known, TablesInv, ServerInv, TypeOK, PlacesInv
<1>4. Passed(m, a) \subseteq Passed(k, a) /\ Passed(k, a) \in SUBSET Accepted(a)
  BY <1>1, <1>3 DEF Passed, Ahead
<1>5. IsFiniteSet(Passed(k, a))
  BY <1>2, <1>4, FS_Subset
<1>6. IsFiniteSet(Passed(m, a)) /\ Cardinality(Passed(m, a)) <= Cardinality(Passed(k, a))
  BY <1>4, <1>5, FS_Subset
<1> QED
  BY <1>2, <1>4, <1>5, <1>6, FS_CardinalityType

\* At the next entry each address of its peers has one passed association more.
LEMMA PassedNext ==
    ASSUME TablesInv, NEW m \in Nat, NEW p \in Listed, place[p] > m, NEW a \in PeersOf(p)
    PROVE  Cardinality(Passed(m, a)) + 1 <= Cardinality(Passed(place[p], a))
<1> DEFINE c == peers[listeners[p]][a]
<1>1. /\ c \in Known /\ PeerAddr[c] = a /\ home[c] = listeners[p]
      /\ a \in Addrs /\ p \in Ports /\ Port[listeners[p]] = p
  BY PeerKnown
<1>2. place[p] \in Nat
  BY <1>1 DEF TablesInv, PlacesInv
<1>3. c \notin Passed(m, a) /\ c \in Passed(place[p], a)
  BY <1>1, <1>2 DEF Passed, Ahead, Accepted
<1>4. /\ IsFiniteSet(Passed(m, a)) /\ IsFiniteSet(Passed(place[p], a))
      /\ Cardinality(Passed(m, a)) \in Nat /\ Cardinality(Passed(place[p], a)) \in Nat
      /\ Passed(m, a) \subseteq Passed(place[p], a)
  BY <1>1, <1>2, PassedGrows
<1> HIDE DEF c
<1>5. Cardinality(Passed(m, a) \cup {c}) = Cardinality(Passed(m, a)) + 1
  BY <1>3, <1>4, FS_AddElement
<1>6. Passed(m, a) \cup {c} \in SUBSET Passed(place[p], a)
  BY <1>3, <1>4
<1>7. Cardinality(Passed(m, a) \cup {c}) <= Cardinality(Passed(place[p], a))
  BY <1>4, <1>6, FS_Subset
<1> QED
  BY <1>4, <1>5, <1>7

\* A request that now waits for the first address of a list it may go on with.
LEMMA AwaitKeeps ==
    ASSUME TablesInv, RequestTypes, NEW r \in Requests, NEW keys, NEW k \in Nat,
           NEW next \in Seq(Addrs), next # <<>>, Lookup(Head(next)) # None,
           Await(r, keys, k, next), MayContinue(r, k, next, stayed'[r]),
           UNCHANGED <<serverVars, place, got>>
    PROVE  RequestInv(r)'
<1>1. /\ Head(next) \in Addrs /\ Tail(next) \in Seq(Addrs)
      /\ Range(next) = Range(Tail(next)) \cup {Head(next)}
      /\ Distinct(Tail(next)) /\ Head(next) \notin Range(Tail(next))
  BY RangeOfTail DEF MayContinue
<1>2. /\ req'[r] = "sending" /\ cursor'[r] = k
      /\ todo'[r] = Tail(next) /\ target'[r] = Lookup(Head(next))
  <2>1. /\ r \in DOMAIN req /\ r \in DOMAIN cursor /\ r \in DOMAIN todo /\ r \in DOMAIN target
    BY DEF RequestTypes
  <2> QED
    BY <2>1 DEF Await
<1>3. Lookup(Head(next)) \in Known /\ PeerAddr[Lookup(Head(next))] = Head(next)
  BY LookupFinds
<1>4. UNCHANGED <<listeners, peers, up, home>>
  BY DEF serverVars, connVars
<1>5. Known' = Known /\ \A a \in Addrs : Accepted(a)' = Accepted(a)
  BY <1>4 DEF Known, Accepted
<1>6. DueOnce(r)'
  BY <1>1, <1>2, <1>3, <1>5 DEF DueOnce
<1>7. \A a \in Addrs : Due(r, a)' <=> a \in Range(next)
  BY <1>1, <1>2, <1>3 DEF Due
<1>8. \A a \in Addrs : Counted(r, a)'
  <2> SUFFICES ASSUME NEW a \in Addrs PROVE Counted(r, a)'
    OBVIOUS
  <2>1. Passed(cursor[r], a)' = Passed(k, a)
    BY <1>2, <1>4, <1>5 DEF Passed, Ahead
  <2>2. (IF Due(r, a) THEN 1 ELSE 0)' = IF a \in Range(next) THEN 1 ELSE 0
    BY <1>7
  <2> QED
    BY <1>5, <2>1, <2>2 DEF MayContinue, Counted
<1>9. Covered(r)'
  <2>1. stayed'[r] \subseteq Reachable /\ Reachable' = Reachable
    BY <1>4 DEF MayContinue, Reachable, Listed
  <2>2. \A c \in Conns : SameAddr(c)' = SameAddr(c)
    BY <1>4 DEF SameAddr
  <2>3. \A c \in Conns : PeerAddr[c] \in Addrs
    BY PortAndAddr
  <2>4. stayed'[r] \subseteq Conns
    BY <2>1 DEF Reachable, TablesInv, ServerInv, TypeOK
  <2>5. ASSUME NEW c \in Fixed(r)'
        PROVE  \/ got'[r][PeerAddr[c]] > 0 \/ Due(r, PeerAddr[c])' \/ place'[Port[home'[c]]] > k
    <3>1. c \in stayed'[r] /\ SameAddr(c) \subseteq stayed'[r] /\ c \in Conns
      BY <2>2, <2>4, <2>5 DEF Fixed
    <3>2. \/ got[r][PeerAddr[c]] > 0 \/ PeerAddr[c] \in Range(next) \/ place[Port[home[c]]] > k
      BY <3>1 DEF MayContinue
    <3> QED
      BY <1>4, <1>7, <2>3, <3>1, <3>2
  <2> QED
    BY <1>2, <2>1, <2>5 DEF Covered
<1> QED
  BY <1>6, <1>8, <1>9 DEF RequestInv

\* A request that is over, or left with the log: every fixed association is served.
LEMMA OverKeeps ==
    ASSUME NEW r \in Requests, req'[r] \notin {"sending", "sent"}, UNCHANGED <<serverVars, place, got>>,
           \A a \in Addrs : got[r][a] <= Cardinality(Accepted(a)),
           req'[r] \in {"log", "200"} =>
              \A c \in stayed'[r] : SameAddr(c) \subseteq stayed'[r] => got[r][PeerAddr[c]] > 0
    PROVE  RequestInv(r)'
<1>1. ~Iterating(r)'
  BY DEF Iterating
<1>2. UNCHANGED home
  BY DEF serverVars, connVars
<1>3. \A a \in Addrs : Accepted(a)' = Accepted(a)
  BY <1>2 DEF Known, Accepted
<1>4. \A c : SameAddr(c)' = SameAddr(c)
  BY <1>2 DEF SameAddr
<1>5. Fixed(r)' = {c \in stayed'[r] : SameAddr(c) \subseteq stayed'[r]}
  BY <1>4 DEF Fixed
<1>6. Covered(r)'
  BY <1>1, <1>5 DEF Covered
<1> QED
  BY <1>1, <1>3, <1>6 DEF RequestInv, DueOnce, Counted

\* The loops go on: whatever list comes next, the request may go on with it, and
\* when none comes, everyone is served.
LEMMA ContinueKeeps ==
    ASSUME TablesInv, RequestTypes, NEW r \in Requests, NEW keys, NEW m \in Nat,
           NEW list \in Seq(Addrs), Continue(r, keys, m, list),
           MayContinue(r, m, list, stayed'[r]), UNCHANGED <<serverVars, place, got>>
    PROVE  RequestInv(r)'
<1> DEFINE S == stayed'[r]
<1>0. S \subseteq Conns /\ S \subseteq Reachable
  BY DEF MayContinue, Reachable, TablesInv, ServerInv, TypeOK
<1>1. \A c \in S : /\ PeerAddr[c] \in Addrs /\ Lookup(PeerAddr[c]) # None
                   /\ Port[home[c]] \in Listed /\ PeerAddr[c] \in PeersOf(Port[home[c]])
                   /\ place[Port[home[c]]] \in Nat
  <2> SUFFICES ASSUME NEW c \in S
               PROVE  /\ PeerAddr[c] \in Addrs /\ Lookup(PeerAddr[c]) # None
                      /\ Port[home[c]] \in Listed /\ PeerAddr[c] \in PeersOf(Port[home[c]])
                      /\ place[Port[home[c]]] \in Nat
    OBVIOUS
  <2>1. /\ PeerAddr[c] \in Addrs
        /\ Port[home[c]] \in Listed /\ PeerAddr[c] \in PeersOf(Port[home[c]])
    BY <1>0, ReachableListed
  <2>2. place[Port[home[c]]] \in Nat
    BY <2>1 DEF Listed, TablesInv, PlacesInv
  <2> QED
    BY <2>1, <2>2, LookupFinds
<1>2. r \in DOMAIN req
  BY DEF RequestTypes
<1>3. \A a \in Addrs : got[r][a] <= Cardinality(Accepted(a)) /\ got[r][a] \in Nat
  BY DEF MayContinue, RequestTypes
<1> HIDE DEF S
<1>4. CASE Reply(r, "500")
  <2>1. req'[r] = "500"
    BY <1>2, <1>4 DEF Reply
  <2> QED
    BY <1>3, <2>1, OverKeeps
<1>5. CASE /\ IterationOver(r) /\ NoneFound(list)
           /\ \A q \in Listed : PeersOf(q) # {} => place[q] <= m
  <2>1. req'[r] = "log"
    BY <1>2, <1>5 DEF IterationOver, Reply
  <2>2. ASSUME NEW c \in S, SameAddr(c) \subseteq S
        PROVE  got[r][PeerAddr[c]] > 0
    <3>1. PeerAddr[c] \notin Range(list)
      BY <1>1, <1>5 DEF NoneFound
    <3>2. place[Port[home[c]]] <= m
      BY <1>1, <1>5
    <3>3. ~(place[Port[home[c]]] > m)
      BY <1>1, <3>2
    <3> QED
      BY <2>2, <3>1, <3>3 DEF MayContinue, S
  <2> QED
    BY <1>3, <2>1, <2>2, OverKeeps DEF S
<1>6. ASSUME NEW next \in Seq(Addrs), NEW k \in Nat, Await(r, keys, k, next),
             next # <<>>, Distinct(next), Lookup(Head(next)) # None,
             SameEntry(m, list, k, next) \/ NextEntry(m, list, k, next)
      PROVE  RequestInv(r)'
  <2>1. CASE SameEntry(m, list, k, next)
    <3>1. \A a \in Addrs :
             got[r][a] + (IF a \in Range(next) THEN 1 ELSE 0) <= Cardinality(Passed(k, a))
      <4> SUFFICES ASSUME NEW a \in Addrs
                   PROVE  got[r][a] + (IF a \in Range(next) THEN 1 ELSE 0) <= Cardinality(Passed(m, a))
        BY <2>1 DEF SameEntry
      <4>1. a \in Range(next) => a \in Range(list)
        BY <2>1 DEF SameEntry
      <4>2. Cardinality(Passed(m, a)) \in Nat
        BY PassedGrows
      <4>3. got[r][a] + (IF a \in Range(list) THEN 1 ELSE 0) <= Cardinality(Passed(m, a))
        BY DEF MayContinue
      <4> QED
        BY <1>3, <4>1, <4>2, <4>3
    <3>2. \A c \in S : SameAddr(c) \subseteq S =>
             \/ got[r][PeerAddr[c]] > 0
             \/ PeerAddr[c] \in Range(next)
             \/ place[Port[home[c]]] > k
      BY <1>1, <2>1 DEF MayContinue, SameEntry, S
    <3>3. MayContinue(r, k, next, stayed'[r])
      BY <1>0, <1>3, <1>6, <3>1, <3>2 DEF MayContinue, S
    <3> QED
      BY <1>6, <3>3, AwaitKeeps
  <2>2. CASE NextEntry(m, list, k, next)
    <3>1. PICK p \in Listed : k = place[p] /\ Range(next) = PeersOf(p)
      BY <2>2 DEF NextEntry
    <3>2. k > m /\ \A q \in Listed : PeersOf(q) # {} /\ place[q] > m => k <= place[q]
      BY <2>2 DEF NextEntry
    <3>3. \A a \in Addrs :
             got[r][a] + (IF a \in Range(next) THEN 1 ELSE 0) <= Cardinality(Passed(k, a))
      <4> SUFFICES ASSUME NEW a \in Addrs
                   PROVE  got[r][a] + (IF a \in Range(next) THEN 1 ELSE 0) <= Cardinality(Passed(k, a))
        OBVIOUS
      <4>1. got[r][a] <= Cardinality(Passed(m, a))
        <5>1. got[r][a] + (IF a \in Range(list) THEN 1 ELSE 0) <= Cardinality(Passed(m, a))
          BY DEF MayContinue
        <5>2. Cardinality(Passed(m, a)) \in Nat
          BY PassedGrows
        <5> QED
          BY <1>3, <5>1, <5>2
      <4>2. /\ Cardinality(Passed(m, a)) \in Nat /\ Cardinality(Passed(k, a)) \in Nat
            /\ Cardinality(Passed(m, a)) <= Cardinality(Passed(k, a))
        BY <3>2, PassedGrows
      <4>3. a \in Range(next) => Cardinality(Passed(m, a)) + 1 <= Cardinality(Passed(k, a))
        BY <3>1, <3>2, PassedNext
      <4> QED
        BY <1>3, <4>1, <4>2, <4>3
    <3>4. \A c \in S : SameAddr(c) \subseteq S =>
             \/ got[r][PeerAddr[c]] > 0
             \/ PeerAddr[c] \in Range(next)
             \/ place[Port[home[c]]] > k
      <4> SUFFICES ASSUME NEW c \in S, SameAddr(c) \subseteq S,
                          ~(got[r][PeerAddr[c]] > 0), ~(place[Port[home[c]]] > k)
                   PROVE  PeerAddr[c] \in Range(next)
        OBVIOUS
      <4>1. PeerAddr[c] \notin Range(list)
        BY <1>1, <2>2 DEF NextEntry, NoneFound
      <4>2. place[Port[home[c]]] > m
        BY <4>1 DEF MayContinue, S
      <4>3. k <= place[Port[home[c]]]
        BY <1>1, <3>2, <4>2
      <4>4. place[Port[home[c]]] = place[p]
        BY <1>1, <3>1, <4>3
      <4>5. Port[home[c]] = p
        BY <1>1, <3>1, <4>4 DEF TablesInv, PlacesInv, Listed
      <4> QED
        BY <1>1, <3>1, <4>5
    <3>5. MayContinue(r, k, next, stayed'[r])
      BY <1>0, <1>3, <1>6, <3>3, <3>4 DEF MayContinue, S
    <3> QED
      BY <1>6, <3>5, AwaitKeeps
  <2> QED
    BY <1>6, <2>1, <2>2
<1> QED
  BY <1>4, <1>5, <1>6, ContinueCases DEF MayContinue

-----------------------------------------------------------------------------
(* Types of the requests *)

LEMMA ReplyTypes ==
    ASSUME RequestTypes, NEW r \in Requests, row[r] = None,
           NEW status \in {"client", "log", "400", "409", "500"}, Reply(r, status),
           status = "client" => got[r] = [a \in Addrs |-> 0] /\ stayed'[r] = {},
           UNCHANGED <<row, got>>, stayed' \in [Requests -> SUBSET Conns],
           \A q \in Requests \ {r} : stayed'[q] = stayed[q] /\ raw'[q] = raw[q],
           DOMAIN raw' = Requests
    PROVE  RequestTypes'
<1>1. /\ req' = [req EXCEPT ![r] = status]
      /\ cursor' = [cursor EXCEPT ![r] = 0]
      /\ todo' = [todo EXCEPT ![r] = <<>>]
      /\ target' = [target EXCEPT ![r] = None]
  BY DEF Reply
<1>2. status \in {"idle", "client", "sending", "sent", "log"} \cup Answers
  BY DEF Answers
<1>3. /\ req'[r] = status /\ target'[r] = None
      /\ \A q \in Requests \ {r} : req'[q] = req[q] /\ target'[q] = target[q]
  BY <1>1 DEF RequestTypes
<1>4. /\ req' \in [Requests -> {"idle", "client", "sending", "sent", "log"} \cup Answers]
      /\ cursor' \in [Requests -> Nat]
      /\ todo' \in [Requests -> Seq(Addrs)]
      /\ target' \in [Requests -> Conns \cup {None}]
  BY <1>1, <1>2 DEF RequestTypes
<1>5. \A q \in Requests : target'[q] # None <=> Iterating(q)'
  BY <1>3 DEF RequestTypes, Iterating
<1>6. \A q \in Requests : row'[q] = IF req'[q] = "200" THEN Decode(raw'[q]) ELSE None
  BY <1>3 DEF RequestTypes
<1>7. \A q \in Requests : req'[q] \in {"idle", "client"} =>
         got'[q] = [a \in Addrs |-> 0] /\ stayed'[q] = {}
  BY <1>3 DEF RequestTypes
<1> QED
  BY <1>4, <1>5, <1>6, <1>7 DEF RequestTypes

LEMMA AwaitTypes ==
    ASSUME TablesInv, RequestTypes, NEW r \in Requests, row[r] = None,
           NEW keys, NEW k \in Nat, NEW next \in Seq(Addrs), next # <<>>,
           Lookup(Head(next)) # None, Await(r, keys, k, next),
           UNCHANGED <<row, got>>, stayed' \in [Requests -> SUBSET Conns],
           \A q \in Requests \ {r} : stayed'[q] = stayed[q] /\ raw'[q] = raw[q],
           DOMAIN raw' = Requests
    PROVE  RequestTypes'
<1>1. /\ req' = [req EXCEPT ![r] = "sending"]
      /\ cursor' = [cursor EXCEPT ![r] = k]
      /\ todo' = [todo EXCEPT ![r] = Tail(next)]
      /\ target' = [target EXCEPT ![r] = Lookup(Head(next))]
  BY DEF Await
<1>2. /\ Tail(next) \in Seq(Addrs)
      /\ Lookup(Head(next)) \in Conns /\ Lookup(Head(next)) # None
  BY LookupFinds, RangeOfTail DEF Known
<1>3. /\ req'[r] = "sending" /\ target'[r] = Lookup(Head(next))
      /\ \A q \in Requests \ {r} : req'[q] = req[q] /\ target'[q] = target[q]
  BY <1>1 DEF RequestTypes
<1>4. /\ req' \in [Requests -> {"idle", "client", "sending", "sent", "log"} \cup Answers]
      /\ cursor' \in [Requests -> Nat]
      /\ todo' \in [Requests -> Seq(Addrs)]
      /\ target' \in [Requests -> Conns \cup {None}]
  BY <1>1, <1>2 DEF RequestTypes
<1>5. \A q \in Requests : target'[q] # None <=> Iterating(q)'
  BY <1>2, <1>3 DEF RequestTypes, Iterating
<1>6. \A q \in Requests : row'[q] = IF req'[q] = "200" THEN Decode(raw'[q]) ELSE None
  BY <1>3 DEF RequestTypes
<1>7. \A q \in Requests : req'[q] \in {"idle", "client"} =>
         got'[q] = [a \in Addrs |-> 0] /\ stayed'[q] = {}
  BY <1>3 DEF RequestTypes
<1> QED
  BY <1>4, <1>5, <1>6, <1>7 DEF RequestTypes

LEMMA ContinueTypes ==
    ASSUME TablesInv, RequestTypes, NEW r \in Requests, row[r] = None,
           NEW keys, NEW m \in Nat, NEW list \in Seq(Addrs), Distinct(list),
           Continue(r, keys, m, list),
           UNCHANGED <<row, got>>, stayed' \in [Requests -> SUBSET Conns],
           \A q \in Requests \ {r} : stayed'[q] = stayed[q] /\ raw'[q] = raw[q],
           DOMAIN raw' = Requests
    PROVE  RequestTypes'
<1>1. CASE Reply(r, "500") \/ IterationOver(r)
  BY <1>1, ReplyTypes DEF IterationOver
<1>2. ASSUME NEW next \in Seq(Addrs), NEW k \in Nat, Await(r, keys, k, next),
             next # <<>>, Distinct(next), Lookup(Head(next)) # None,
             SameEntry(m, list, k, next) \/ NextEntry(m, list, k, next)
      PROVE  RequestTypes'
  BY <1>2, AwaitTypes
<1> QED
  BY <1>1, <1>2, ContinueCases

-----------------------------------------------------------------------------
(* The steps of a request *)

\* A request that does nothing, while the tables stay.
LEMMA OtherKeeps ==
    ASSUME NEW q \in Requests, RequestInv(q), UNCHANGED <<serverVars, place>>,
           req'[q] = req[q], cursor'[q] = cursor[q], todo'[q] = todo[q],
           target'[q] = target[q], got'[q] = got[q], stayed'[q] = stayed[q]
    PROVE  RequestInv(q)'
<1>1. UNCHANGED <<listeners, peers, up, home>>
  BY DEF serverVars, connVars
<1>2. Iterating(q)' = Iterating(q) /\ Known' = Known /\ Reachable' = Reachable
  BY <1>1 DEF Iterating, Known, Reachable, Listed
<1>3. /\ \A a \in Addrs : Accepted(a)' = Accepted(a) /\ (Due(q, a)' <=> Due(q, a))
      /\ \A c \in Conns : SameAddr(c)' = SameAddr(c)
  BY <1>1, <1>2 DEF Accepted, Due, SameAddr
<1>4. \A a \in Addrs : Passed(cursor[q], a)' = Passed(cursor[q], a)
  BY <1>1, <1>3 DEF Passed, Ahead
<1>5. DueOnce(q)'
  BY <1>2 DEF RequestInv, DueOnce
<1>6. \A a \in Addrs : Counted(q, a)'
  <2> SUFFICES ASSUME NEW a \in Addrs PROVE Counted(q, a)'
    OBVIOUS
  <2>1. (IF Due(q, a) THEN 1 ELSE 0)' = IF Due(q, a) THEN 1 ELSE 0
    BY <1>3
  <2>2. Counted(q, a)
    BY DEF RequestInv
  <2> QED
    BY <1>2, <1>3, <1>4, <2>1, <2>2 DEF Counted
<1>7. Covered(q)'
  BY <1>1, <1>2 DEF RequestInv, Covered, Fixed, SameAddr, Due
<1> QED
  BY <1>5, <1>6, <1>7 DEF RequestInv

LEMMA TablesKept ==
    ASSUME TablesInv, UNCHANGED <<serverVars, place, inserted>>
    PROVE  TablesInv'
<1>1. ServerInv'
  BY ServerNext DEF TablesInv
<1>2. PlacesInv'
  BY DEF TablesInv, PlacesInv, serverVars
<1>3. Known' = Known
  BY DEF Known, serverVars, connVars
<1> QED
  BY <1>1, <1>2, <1>3 DEF TablesInv

\* The other requests, while r takes a step.
LEMMA OthersKeep ==
    ASSUME SendInv, NEW r \in Requests, UNCHANGED <<serverVars, place>>,
           \A q \in Requests \ {r} :
              /\ req'[q] = req[q] /\ cursor'[q] = cursor[q] /\ todo'[q] = todo[q]
              /\ target'[q] = target[q] /\ got'[q] = got[q] /\ stayed'[q] = stayed[q]
    PROVE  \A q \in Requests \ {r} : RequestInv(q)'
BY OtherKeeps DEF SendInv

\* Whatever a step of r does to its iteration, it does to no other.
LEMMA OnlyThisIterates ==
    ASSUME RequestTypes, NEW r \in Requests,
           \/ \E status : Reply(r, status)
           \/ \E keys, k, next : Await(r, keys, k, next)
    PROVE  \A q \in Requests \ {r} :
              /\ req'[q] = req[q] /\ cursor'[q] = cursor[q]
              /\ todo'[q] = todo[q] /\ target'[q] = target[q]
BY DEF RequestTypes, Reply, Await

LEMMA ContinueIterates ==
    ASSUME NEW r \in Requests, NEW keys, NEW m, NEW list, Continue(r, keys, m, list)
    PROVE  \/ \E status : Reply(r, status)
           \/ \E k, next : Await(r, keys, k, next)
BY DEF Continue, IterationOver

\* The iteration begins: no one is served yet, and every listed place is still ahead.
LEMMA MayBegin ==
    ASSUME SendInv, NEW r \in Requests, req[r] = "idle"
    PROVE  MayContinue(r, 0, <<>>, Reachable)
<1>1. Distinct(<<>>) /\ Range(<<>>) = {}
  BY DEF Distinct, Range
<1>2. \A a \in Addrs : got[r][a] = 0
  BY DEF SendInv, RequestTypes
<1>3. \A a \in Addrs : Cardinality(Passed(0, a)) \in Nat /\ Cardinality(Accepted(a)) \in Nat
  BY PassedGrows, FS_CardinalityType DEF SendInv
<1>4. \A c \in Reachable : place[Port[home[c]]] > 0
  <2> SUFFICES ASSUME NEW c \in Reachable PROVE place[Port[home[c]]] > 0
    OBVIOUS
  <2>1. Port[home[c]] \in Listed
    BY ReachableListed DEF SendInv
  <2> QED
    BY <2>1 DEF Listed, SendInv, TablesInv, PlacesInv
<1> QED
  BY <1>1, <1>2, <1>3, <1>4 DEF MayContinue

LEMMA PostKeeps ==
    ASSUME SendInv, NEW r \in Requests, Post(r)
    PROVE  SendInv'
<1>1. PICK b \in Bodies :
         /\ raw' = [raw EXCEPT ![r] = Wire(b)]
         /\ IF Wire(b) = None THEN Reply(r, "400") /\ UNCHANGED stayed
            ELSE IF b.connection_id THEN Reply(r, "client") /\ UNCHANGED stayed
            ELSE /\ Continue(r, Cardinality(Listed), 0, <<>>)
                 /\ stayed' = [stayed EXCEPT ![r] = Reachable]
  BY DEF Post
<1>2. req[r] = "idle" /\ UNCHANGED <<serverVars, place, inserted, row, got>>
  BY DEF Post
<1>3. TablesInv'
  BY <1>2, TablesKept DEF SendInv
<1>4. /\ DOMAIN raw' = Requests /\ \A q \in Requests \ {r} : raw'[q] = raw[q]
      /\ row[r] = None /\ stayed[r] = {} /\ got[r] = [a \in Addrs |-> 0]
  BY <1>1, <1>2 DEF SendInv, RequestTypes
<1>5. CASE UNCHANGED stayed /\ \E status \in {"400", "client"} : Reply(r, status)
  <2>1. PICK status \in {"400", "client"} : Reply(r, status)
    BY <1>5
  <2>2. stayed' \in [Requests -> SUBSET Conns]
    BY <1>5 DEF SendInv, RequestTypes
  <2>3. RequestTypes'
    BY <1>2, <1>4, <1>5, <2>1, <2>2, ReplyTypes DEF SendInv
  <2>4. \A q \in Requests \ {r} : RequestInv(q)'
    BY <1>2, <1>5, <2>1, OnlyThisIterates, OthersKeep DEF SendInv
  <2>5. req'[r] = status
    BY <2>1 DEF Reply, SendInv, RequestTypes
  <2>6. \A a \in Addrs : got[r][a] <= Cardinality(Accepted(a))
    BY DEF SendInv, RequestInv, Counted
  <2>7. RequestInv(r)'
    BY <1>2, <2>5, <2>6, OverKeeps
  <2> QED
    BY <1>3, <2>3, <2>4, <2>7 DEF SendInv
<1>6. CASE /\ Continue(r, Cardinality(Listed), 0, <<>>)
           /\ stayed' = [stayed EXCEPT ![r] = Reachable]
  <2>1. /\ stayed' \in [Requests -> SUBSET Conns] /\ stayed'[r] = Reachable
        /\ \A q \in Requests \ {r} : stayed'[q] = stayed[q]
    BY <1>6 DEF SendInv, RequestTypes, Reachable, TablesInv, ServerInv, TypeOK
  <2>2. <<>> \in Seq(Addrs) /\ 0 \in Nat /\ MayContinue(r, 0, <<>>, stayed'[r])
    BY <1>2, <2>1, MayBegin
  <2>3. RequestTypes'
    BY <1>2, <1>4, <1>6, <2>1, <2>2, ContinueTypes DEF SendInv, MayContinue
  <2>4. \A q \in Requests \ {r} : RequestInv(q)'
    BY <1>2, <1>6, <2>1, ContinueIterates, OnlyThisIterates, OthersKeep DEF SendInv
  <2>5. RequestInv(r)'
    BY <1>2, <1>6, <2>2, ContinueKeeps DEF SendInv
  <2> QED
    BY <1>3, <2>3, <2>4, <2>5 DEF SendInv
<1> QED
  BY <1>1, <1>5, <1>6

\* The request resumes: what was due is in its list.
LEMMA ResumeKeeps ==
    ASSUME SendInv, NEW r \in Requests, Resume(r)
    PROVE  SendInv'
<1>1. /\ req[r] = "sent" /\ Continue(r, size[r], cursor[r], todo[r])
      /\ UNCHANGED <<serverVars, place, inserted, raw, row, got, stayed>>
  BY DEF Resume
<1>2. TablesInv'
  BY <1>1, TablesKept DEF SendInv
<1>3. /\ cursor[r] \in Nat /\ todo[r] \in Seq(Addrs) /\ row[r] = None /\ Iterating(r)
      /\ DOMAIN raw' = Requests /\ stayed' \in [Requests -> SUBSET Conns]
  BY <1>1 DEF SendInv, RequestTypes, Iterating
<1>4. \A a \in Addrs : Due(r, a) <=> a \in Range(todo[r])
  BY <1>1 DEF Due
<1>5. MayContinue(r, cursor[r], todo[r], stayed'[r])
  <2>1. DueOnce(r) /\ Covered(r) /\ \A a \in Addrs : Counted(r, a)
    BY DEF SendInv, RequestInv
  <2>2. \A a \in Addrs : (IF Due(r, a) THEN 1 ELSE 0) = IF a \in Range(todo[r]) THEN 1 ELSE 0
    BY <1>4
  <2>3. \A c \in stayed[r] : PeerAddr[c] \in Addrs
    BY PortAndAddr DEF SendInv, RequestTypes
  <2>4. \A a \in Addrs :
           /\ got[r][a] <= Cardinality(Accepted(a))
           /\ got[r][a] + (IF a \in Range(todo[r]) THEN 1 ELSE 0) <= Cardinality(Passed(cursor[r], a))
    BY <1>3, <2>1, <2>2 DEF Counted
  <2>5. stayed[r] \subseteq Reachable /\ \A c \in stayed[r] : SameAddr(c) \subseteq stayed[r] =>
           \/ got[r][PeerAddr[c]] > 0
           \/ PeerAddr[c] \in Range(todo[r])
           \/ place[Port[home[c]]] > cursor[r]
    BY <1>3, <1>4, <2>1, <2>3 DEF Covered, Fixed
  <2> QED
    BY <1>1, <1>3, <2>1, <2>4, <2>5 DEF MayContinue, DueOnce
<1>6. RequestTypes'
  BY <1>1, <1>3, <1>5, ContinueTypes DEF SendInv, MayContinue
<1>7. \A q \in Requests \ {r} : RequestInv(q)'
  BY <1>1, ContinueIterates, OnlyThisIterates, OthersKeep DEF SendInv
<1>8. RequestInv(r)'
  BY <1>1, <1>3, <1>5, ContinueKeeps DEF SendInv
<1> QED
  BY <1>2, <1>6, <1>7, <1>8 DEF SendInv

\* The bytes go out: the address counts once more and is due no longer.  One that must
\* be served has associations that are up only.
LEMMA ThreadSendKeeps ==
    ASSUME SendInv, NEW r \in Requests, ThreadSend(r)
    PROVE  SendInv'
<1> DEFINE b == PeerAddr[target[r]]
<1>1. /\ req[r] = "sending" /\ req' = [req EXCEPT ![r] = "sent"]
      /\ got' = IF target[r] \in up THEN [got EXCEPT ![r][b] = @ + 1] ELSE got
      /\ UNCHANGED <<serverVars, place, inserted, raw, iterVars, row, stayed>>
  BY DEF ThreadSend
<1>2. TablesInv'
  BY <1>1, TablesKept DEF SendInv
<1>3. UNCHANGED <<listeners, peers, up, home, cursor, todo, target, stayed, place>>
  BY <1>1 DEF serverVars, connVars, iterVars
<1>4. req'[r] = "sent" /\ \A q \in Requests \ {r} : req'[q] = req[q]
  BY <1>1 DEF SendInv, RequestTypes
<1>5. Iterating(r) /\ Iterating(r)'
  BY <1>1, <1>4 DEF Iterating
<1>6. /\ DueOnce(r) /\ Covered(r) /\ \A a \in Addrs : Counted(r, a)
      /\ target[r] \in Known /\ b \notin Range(todo[r])
  BY <1>5 DEF SendInv, RequestInv, DueOnce
<1>7. b \in Addrs /\ target[r] \in Conns
  BY <1>6, PortAndAddr DEF Known
<1>8. /\ got' \in [Requests -> [Addrs -> Nat]]
      /\ \A q \in Requests \ {r} : got'[q] = got[q]
      /\ \A a \in Addrs : got'[r][a] = IF a = b /\ target[r] \in up THEN got[r][a] + 1 ELSE got[r][a]
  BY <1>1, <1>7 DEF SendInv, RequestTypes
<1>9. RequestTypes'
  <2>1. req' \in [Requests -> {"idle", "client", "sending", "sent", "log"} \cup Answers]
    BY <1>1 DEF SendInv, RequestTypes
  <2>2. \A q \in Requests : target'[q] # None <=> Iterating(q)'
    BY <1>3, <1>4, <1>5 DEF SendInv, RequestTypes, Iterating
  <2>3. \A q \in Requests : row'[q] = IF req'[q] = "200" THEN Decode(raw'[q]) ELSE None
    BY <1>1, <1>4 DEF SendInv, RequestTypes
  <2>4. \A q \in Requests : req'[q] \in {"idle", "client"} =>
           got'[q] = [a \in Addrs |-> 0] /\ stayed'[q] = {}
    BY <1>3, <1>4, <1>8 DEF SendInv, RequestTypes
  <2> QED
    BY <1>1, <1>3, <1>8, <2>1, <2>2, <2>3, <2>4 DEF SendInv, RequestTypes
<1>10. \A q \in Requests \ {r} : RequestInv(q)'
  BY <1>1, <1>3, <1>4, <1>8, OthersKeep
<1>11. Known' = Known /\ Reachable' = Reachable /\ \A c \in Conns : SameAddr(c)' = SameAddr(c)
  BY <1>3 DEF Known, Reachable, Listed, SameAddr
<1>12. \A a \in Addrs : /\ Accepted(a)' = Accepted(a)
                        /\ Passed(cursor[r], a)' = Passed(cursor[r], a)
  BY <1>3, <1>11 DEF Accepted, Passed, Ahead
<1> HIDE DEF b
<1>13. /\ \A a \in Addrs : Due(r, a) <=> a \in Range(todo[r]) \/ a = b
       /\ \A a \in Addrs : Due(r, a)' <=> a \in Range(todo[r])
  BY <1>1, <1>3, <1>4 DEF Due, b
<1>14. \A a \in Addrs : Counted(r, a)'
  <2> SUFFICES ASSUME NEW a \in Addrs PROVE Counted(r, a)'
    OBVIOUS
  <2>1. /\ Cardinality(Accepted(a)) \in Nat /\ Cardinality(Passed(cursor[r], a)) \in Nat
        /\ Cardinality(Passed(cursor[r], a)) <= Cardinality(Accepted(a))
    <3>1. cursor[r] \in Nat
      BY DEF SendInv, RequestTypes
    <3>2. IsFiniteSet(Accepted(a)) /\ Cardinality(Passed(cursor[r], a)) \in Nat
      BY <3>1, PassedGrows DEF SendInv
    <3>3. Passed(cursor[r], a) \in SUBSET Accepted(a)
      BY DEF Passed
    <3> QED
      BY <3>2, <3>3, FS_Subset, FS_CardinalityType
  <2>2. got[r][a] \in Nat
    BY DEF SendInv, RequestTypes
  <2>3. got[r][a] + (IF Due(r, a) THEN 1 ELSE 0) <= Cardinality(Passed(cursor[r], a))
    BY <1>5, <1>6 DEF Counted
  <2>4. CASE a = b
    <3>1. Due(r, a) /\ ~Due(r, a)'
      BY <1>6, <1>13, <2>4
    <3>2. got'[r][a] \in {got[r][a], got[r][a] + 1}
      BY <1>8
    <3>3. got'[r][a] <= Cardinality(Passed(cursor[r], a))
      BY <2>1, <2>2, <2>3, <3>1, <3>2
    <3>4. got'[r][a] \in Nat
      BY <2>2, <3>2
    <3> QED
      BY <1>12, <2>1, <3>1, <3>3, <3>4 DEF Counted
  <2>5. CASE a # b
    <3>1. got'[r][a] = got[r][a] /\ (Due(r, a)' <=> Due(r, a))
      BY <1>8, <1>13, <2>5
    <3>2. (IF Due(r, a) THEN 1 ELSE 0)' = IF Due(r, a) THEN 1 ELSE 0
      BY <3>1
    <3> QED
      BY <1>5, <1>6, <1>12, <3>1, <3>2 DEF Counted
  <2> QED
    BY <2>4, <2>5
<1>15. Covered(r)'
  <2>1. stayed[r] \subseteq Reachable /\ Reachable \subseteq up
    BY <1>5, <1>6 DEF Covered, Reachable
  <2>2. \A a \in Addrs : got[r][a] > 0 => got'[r][a] > 0
    <3>1. \A a \in Addrs : got[r][a] \in Nat /\ got'[r][a] \in {got[r][a], got[r][a] + 1}
      BY <1>8 DEF SendInv, RequestTypes
    <3> QED
      BY <3>1
  <2>3. ASSUME NEW c \in Fixed(r)
        PROVE  \/ got'[r][PeerAddr[c]] > 0
               \/ Due(r, PeerAddr[c])'
               \/ place[Port[home[c]]] > cursor[r]
    <3>1. c \in Conns /\ c \in stayed[r] /\ SameAddr(c) \subseteq stayed[r] /\ PeerAddr[c] \in Addrs
      BY PortAndAddr DEF Fixed, SendInv, RequestTypes
    <3>2. \/ got[r][PeerAddr[c]] > 0 \/ Due(r, PeerAddr[c]) \/ place[Port[home[c]]] > cursor[r]
      BY <1>5, <1>6 DEF Covered
    <3>3. CASE PeerAddr[c] = b
      <4>1. target[r] \in SameAddr(c)
        BY <1>6, <3>3 DEF SameAddr, Known, b
      <4>2. target[r] \in up
        BY <2>1, <3>1, <4>1
      <4>3. got'[r][b] = got[r][b] + 1 /\ got[r][b] \in Nat
        BY <1>7, <1>8, <4>2 DEF SendInv, RequestTypes
      <4> QED
        BY <3>3, <4>3
    <3>4. CASE PeerAddr[c] # b
      BY <1>13, <2>2, <3>1, <3>2, <3>4
    <3> QED
      BY <3>3, <3>4
  <2>4. stayed[r] \subseteq Conns
    BY DEF SendInv, RequestTypes
  <2>5. Fixed(r)' = Fixed(r)
    BY <1>3, <1>11, <2>4 DEF Fixed
  <2> QED
    BY <1>3, <1>4, <1>11, <2>1, <2>3, <2>5 DEF Covered
<1>16. DueOnce(r)'
  BY <1>3, <1>5, <1>6, <1>11 DEF DueOnce
<1> QED
  BY <1>2, <1>9, <1>10, <1>14, <1>15, <1>16 DEF SendInv, RequestInv

\* The steps that answer, or leave nothing but the log.
LEMMA ReplyKeeps ==
    ASSUME SendInv, NEW r \in Requests, ClientSend(r) \/ ThreadSendFails(r) \/ LogFails(r)
    PROVE  SendInv'
<1>1. PICK status \in {"log", "409", "500"} :
         Reply(r, status) /\ (status = "log" => req[r] = "client")
  BY DEF ClientSend, ThreadSendFails, LogFails
<1>2. /\ req[r] \in {"client", "sending", "log"}
      /\ UNCHANGED <<serverVars, place, inserted, raw, row, got, stayed>>
  BY DEF ClientSend, ThreadSendFails, LogFails
<1>3. TablesInv'
  BY <1>2, TablesKept DEF SendInv
<1>4. /\ row[r] = None /\ (req[r] = "client" => stayed[r] = {})
      /\ DOMAIN raw' = Requests /\ stayed' \in [Requests -> SUBSET Conns]
  BY <1>2 DEF SendInv, RequestTypes
<1>5. RequestTypes'
  BY <1>1, <1>2, <1>4, ReplyTypes DEF SendInv
<1>6. \A q \in Requests \ {r} : RequestInv(q)'
  BY <1>1, <1>2, OnlyThisIterates, OthersKeep DEF SendInv
<1>7. req'[r] = status
  BY <1>1 DEF Reply, SendInv, RequestTypes
<1>8. \A a \in Addrs : got[r][a] <= Cardinality(Accepted(a))
  BY DEF SendInv, RequestInv, Counted
<1>9. RequestInv(r)'
  BY <1>1, <1>2, <1>4, <1>7, <1>8, OverKeeps
<1> QED
  BY <1>3, <1>5, <1>6, <1>9 DEF SendInv

\* The row is saved and the request answered with 200.
LEMMA LogKeeps ==
    ASSUME SendInv, NEW r \in Requests, Log(r)
    PROVE  SendInv'
<1>1. /\ req[r] = "log" /\ Reply(r, "200") /\ row' = [row EXCEPT ![r] = Decode(raw[r])]
      /\ UNCHANGED <<serverVars, place, inserted, raw, got, stayed>>
  BY DEF Log
<1>2. TablesInv'
  BY <1>1, TablesKept DEF SendInv
<1>3. /\ req' = [req EXCEPT ![r] = "200"] /\ cursor' = [cursor EXCEPT ![r] = 0]
      /\ todo' = [todo EXCEPT ![r] = <<>>] /\ target' = [target EXCEPT ![r] = None]
  BY <1>1 DEF Reply
<1>4. /\ req'[r] = "200" /\ target'[r] = None /\ row'[r] = Decode(raw[r])
      /\ \A q \in Requests \ {r} : req'[q] = req[q] /\ target'[q] = target[q] /\ row'[q] = row[q]
  BY <1>1, <1>3 DEF SendInv, RequestTypes
<1>5. RequestTypes'
  <2>1. /\ req' \in [Requests -> {"idle", "client", "sending", "sent", "log"} \cup Answers]
        /\ cursor' \in [Requests -> Nat] /\ todo' \in [Requests -> Seq(Addrs)]
        /\ target' \in [Requests -> Conns \cup {None}] /\ DOMAIN row' = Requests
    BY <1>1, <1>3 DEF SendInv, RequestTypes, Answers
  <2>2. \A q \in Requests : target'[q] # None <=> Iterating(q)'
    BY <1>4 DEF SendInv, RequestTypes, Iterating
  <2>3. \A q \in Requests : row'[q] = IF req'[q] = "200" THEN Decode(raw'[q]) ELSE None
    BY <1>1, <1>4 DEF SendInv, RequestTypes
  <2>4. \A q \in Requests : req'[q] \in {"idle", "client"} =>
           got'[q] = [a \in Addrs |-> 0] /\ stayed'[q] = {}
    BY <1>1, <1>4 DEF SendInv, RequestTypes
  <2> QED
    BY <1>1, <2>1, <2>2, <2>3, <2>4 DEF SendInv, RequestTypes
<1>6. \A q \in Requests \ {r} : RequestInv(q)'
  BY <1>1, OnlyThisIterates, OthersKeep DEF SendInv
<1>7. RequestInv(r)'
  <2>1. \A a \in Addrs : got[r][a] <= Cardinality(Accepted(a))
    BY DEF SendInv, RequestInv, Counted
  <2>2. \A c \in stayed[r] : SameAddr(c) \subseteq stayed[r] => got[r][PeerAddr[c]] > 0
    BY <1>1 DEF SendInv, RequestInv, Covered, Fixed
  <2> QED
    BY <1>1, <1>4, <2>1, <2>2, OverKeeps
<1> QED
  BY <1>2, <1>5, <1>6, <1>7 DEF SendInv

-----------------------------------------------------------------------------
(* The steps of the server meanwhile *)

\* What a step of the server may do to the tables: an association comes to one home
\* and keeps it, and an entry gets into _listeners only when it is new, one at a time.
LEMMA ServerMoves ==
    ASSUME ServerInv, Next
    PROVE  /\ \A c \in Conns : home[c] # None => home'[c] = home[c]
           /\ \E x : Known' \subseteq Known \cup {x}
           /\ \A e \in Starts : phase[e] \notin Fresh /\ listeners'[Port[e]] = e =>
                 listeners[Port[e]] = e
           /\ \E p : \A q \in Ports : q # p => listeners'[q] = listeners[q]
<1>1. ASSUME NEW e \in Starts, Register(e)
      PROVE  /\ UNCHANGED home
             /\ \A f \in Starts : phase[f] \notin Fresh /\ listeners'[Port[f]] = f =>
                   listeners[Port[f]] = f
             /\ \A q \in Ports : q # Port[e] => listeners'[q] = listeners[q]
  BY <1>1, PortAndAddr DEF Register, ServerInv, TypeOK, Fresh, connVars
<1>2. ASSUME NEW e \in Starts, Stop(e)
      PROVE  /\ UNCHANGED home
             /\ \A f \in Starts : listeners'[Port[f]] = f => listeners[Port[f]] = f
             /\ \A q \in Ports : q # Port[e] => listeners'[q] = listeners[q]
  BY <1>2, PortAndAddr, ServerAssumption DEF Stop, ServerInv, TypeOK, connVars
<1>3. ASSUME NEW e \in Starts, AcceptResumes(e)
      PROVE  /\ UNCHANGED listeners
             /\ \A d \in Conns : home[d] # None => home'[d] = home[d]
             /\ Known' \subseteq Known \cup {accepted[e]}
  <2> DEFINE c == accepted[e]
  <2>1. home' = [home EXCEPT ![c] = acceptsOn[e]] /\ UNCHANGED listeners /\ c # None
    BY <1>3 DEF AcceptResumes
  <2>2. home[c] = None
    BY <2>1 DEF ServerInv, TypeOK
  <2>3. \A d \in Conns \ {c} : home'[d] = home[d]
    BY <2>1 DEF ServerInv, TypeOK
  <2> QED
    BY <2>1, <2>2, <2>3 DEF Known
<1>4. ASSUME UNCHANGED <<listeners, home>>
      PROVE  /\ \A c \in Conns : home[c] # None => home'[c] = home[c]
             /\ Known' \subseteq Known
             /\ \A e \in Starts : listeners'[Port[e]] = e => listeners[Port[e]] = e
             /\ \A q \in Ports : listeners'[q] = listeners[q]
  BY <1>4 DEF Known
<1>5. ASSUME UNCHANGED home PROVE Known' \subseteq Known
  BY <1>5 DEF Known
<1>6. \/ UNCHANGED <<listeners, home>>
      \/ \E e \in Starts : Register(e) \/ Stop(e) \/ AcceptResumes(e)
  BY DEF Next, StartStep, StopStep, HandlerStep, Begin, Refuse, CreateFails, AcceptLoopBegins,
     Accept, ListenerClosed, PeersClosed, HandlersCancelled, StopTimesOut, StopReturns, Receive,
     CallbackReturns, PeerCloses, Leave, RecvFails, Finally, Closed, CloseCancelled, connVars
<1>7. CASE UNCHANGED <<listeners, home>>
  BY <1>4, <1>7
<1>8. CASE \E e \in Starts : Register(e)
  BY <1>1, <1>5, <1>8
<1>9. CASE \E e \in Starts : Stop(e)
  BY <1>2, <1>5, <1>9
<1>10. CASE \E e \in Starts : AcceptResumes(e)
  BY <1>3, <1>10
<1> QED
  BY <1>6, <1>7, <1>8, <1>9, <1>10

\* New keys go to the end.
LEMMA PlacesKept ==
    ASSUME TablesInv, Next, PlacesFollow
    PROVE  /\ PlacesInv'
           /\ \A p \in Ports : listeners[p] # None /\ listeners'[p] # None => place'[p] = place[p]
<1> DEFINE new == {p \in Ports : listeners'[p] # None /\ listeners[p] = None}
<1>1. /\ place' = [p \in Ports |->
                      IF listeners'[p] = None THEN 0
                      ELSE IF p \in new THEN inserted + 1 ELSE place[p]]
      /\ inserted' = inserted + Cardinality(new)
  BY DEF PlacesFollow
<1>2. PICK x : \A q \in Ports : q # x => listeners'[q] = listeners[q]
  BY ServerMoves DEF TablesInv
<1>3. new \subseteq {x}
  BY <1>2
<1>4. CASE new = {}
  <2>1. inserted' = inserted
    <3>1. Cardinality(new) = 0
      BY <1>4, FS_EmptySet
    <3>2. inserted' = inserted + Cardinality(new) /\ inserted \in Nat
      BY <1>1 DEF TablesInv, PlacesInv
    <3> HIDE DEF new
    <3> QED
      BY <3>1, <3>2
  <2>2. place' = [p \in Ports |-> IF listeners'[p] = None THEN 0 ELSE place[p]]
    BY <1>1, <1>4
  <2> QED
    BY <1>4, <2>1, <2>2 DEF TablesInv, PlacesInv
<1>5. CASE new # {}
  <2>1. new = {x} /\ x \in Ports /\ listeners'[x] # None /\ listeners[x] = None
    BY <1>3, <1>5
  <2>2. inserted' = inserted + 1
    BY <1>1, <2>1, FS_Singleton
  <2>3. inserted \in Nat /\ \A p \in Ports : place[p] \in 0..inserted
    BY DEF TablesInv, PlacesInv
  <2>4. place' = [p \in Ports |->
                     IF listeners'[p] = None THEN 0 ELSE IF p = x THEN inserted + 1 ELSE place[p]]
    BY <1>1, <2>1
  <2>5. \A p \in Ports : place'[p] = 0 <=> listeners'[p] = None
    BY <1>2, <2>1, <2>3, <2>4 DEF TablesInv, PlacesInv
  <2>6. \A p, q \in Ports : place'[p] = place'[q] => p = q \/ place'[p] = 0
    BY <2>3, <2>4 DEF TablesInv, PlacesInv
  <2>7. place' \in [Ports -> 0..inserted'] /\ inserted' \in Nat
    BY <2>2, <2>3, <2>4
  <2> QED
    BY <2>1, <2>4, <2>5, <2>6, <2>7 DEF PlacesInv
<1> QED
  BY <1>4, <1>5

\* An entry that an iteration has come to stays behind it, and the associations that
\* stay listed keep their places.
LEMMA ServerKeepsRequest ==
    ASSUME SendInv, TablesInv', Next, PlacesFollow, NEW r \in Requests,
           UNCHANGED <<req, iterVars, got>>,
           stayed'[r] = IF Iterating(r) THEN stayed[r] \cap Reachable' ELSE stayed[r]
    PROVE  RequestInv(r)'
<1>1. /\ DueOnce(r) /\ Covered(r) /\ \A a \in Addrs : Counted(r, a)
      /\ UNCHANGED <<req, cursor, todo, target, got>>
  BY DEF SendInv, RequestInv, iterVars
<1>2. /\ \A c \in Conns : home[c] # None => home'[c] = home[c]
      /\ \A e \in Starts : phase[e] \notin Fresh /\ listeners'[Port[e]] = e => listeners[Port[e]] = e
      /\ \A p \in Ports : listeners[p] # None /\ listeners'[p] # None => place'[p] = place[p]
  BY ServerMoves, PlacesKept DEF SendInv, TablesInv
<1>3. /\ Known \subseteq Known' /\ \A a \in Addrs : Accepted(a) \subseteq Accepted(a)'
      /\ \A c \in Conns : SameAddr(c) \subseteq SameAddr(c)'
  <2>1. Known \subseteq Known' /\ \A a \in Addrs : Accepted(a) \subseteq Accepted(a)'
    BY <1>2, ServerAssumption DEF Known, Accepted
  <2>2. \A c \in Conns : SameAddr(c) \subseteq SameAddr(c)'
    BY <1>2 DEF SameAddr
  <2> QED
    BY <2>1, <2>2
<1>4. \A a \in Addrs : Passed(cursor[r], a) \subseteq Passed(cursor[r], a)'
  <2> SUFFICES ASSUME NEW a \in Addrs, NEW c \in Passed(cursor[r], a)
               PROVE  c \in Passed(cursor[r], a)'
    OBVIOUS
  <2>1. c \in Conns /\ home[c] # None /\ home'[c] = home[c] /\ c \in Accepted(a)'
    BY <1>2, <1>3 DEF Passed, Accepted, Known
  <2>2. home[c] \in Starts /\ phase[home[c]] \notin Fresh
    BY <2>1 DEF SendInv, TablesInv, ServerInv, HandlersHaveHomes
  <2>3. Port[home[c]] \in Ports /\ home[c] # None
    BY <2>1, <2>2, PortAndAddr
  <2>4. Ahead(cursor[r], home[c])' => Ahead(cursor[r], home[c])
    BY <1>1, <1>2, <2>1, <2>2, <2>3 DEF Ahead
  <2> QED
    BY <2>1, <2>4 DEF Passed
<1>5. \A a \in Addrs : Due(r, a)' <=> Due(r, a)
  BY <1>1 DEF Due
<1>6. Iterating(r)' <=> Iterating(r)
  BY <1>1 DEF Iterating
<1>7. DueOnce(r)'
  BY <1>1, <1>3, <1>6 DEF DueOnce
<1>8. \A a \in Addrs : Counted(r, a)'
  <2> SUFFICES ASSUME NEW a \in Addrs PROVE Counted(r, a)'
    OBVIOUS
  <2>1. cursor[r] \in Nat /\ got[r][a] \in Nat
    BY DEF SendInv, RequestTypes
  <2>2. /\ IsFiniteSet(Accepted(a)') /\ IsFiniteSet(Passed(cursor[r], a)')
        /\ Cardinality(Accepted(a)') \in Nat /\ Cardinality(Passed(cursor[r], a)') \in Nat
    <3>1. IsFiniteSet(Known') /\ Accepted(a)' \in SUBSET Known' /\ Passed(cursor[r], a)' \in SUBSET Accepted(a)'
      BY DEF TablesInv, Accepted, Passed
    <3> QED
      BY <3>1, FS_Subset, FS_CardinalityType
  <2>3. /\ Cardinality(Accepted(a)) <= Cardinality(Accepted(a)')
        /\ Cardinality(Passed(cursor[r], a)) <= Cardinality(Passed(cursor[r], a)')
        /\ Cardinality(Accepted(a)) \in Nat /\ Cardinality(Passed(cursor[r], a)) \in Nat
    BY <1>3, <1>4, <2>2, FS_Subset, FS_CardinalityType
  <2>4. (IF Due(r, a) THEN 1 ELSE 0)' = IF Due(r, a) THEN 1 ELSE 0
    BY <1>5
  <2>5. got[r][a] <= Cardinality(Accepted(a)')
    BY <1>1, <2>1, <2>2, <2>3 DEF Counted
  <2>6. Iterating(r) => got[r][a] + (IF Due(r, a) THEN 1 ELSE 0) <= Cardinality(Passed(cursor[r], a)')
    BY <1>1, <2>1, <2>2, <2>3 DEF Counted
  <2> QED
    BY <1>1, <1>6, <2>4, <2>5, <2>6 DEF Counted
<1>9. Covered(r)'
  <2>1. stayed[r] \subseteq Conns /\ stayed'[r] \subseteq stayed[r]
    BY DEF SendInv, RequestTypes
  <2>2. Fixed(r)' \subseteq Fixed(r)
    BY <1>3, <2>1 DEF Fixed
  <2>3. ASSUME Iterating(r), NEW c \in Fixed(r)'
        PROVE  \/ got[r][PeerAddr[c]] > 0 \/ Due(r, PeerAddr[c])' \/ place'[Port[home'[c]]] > cursor[r]
    <3>1. c \in Fixed(r) /\ c \in stayed[r] /\ c \in Reachable' /\ c \in Conns
      BY <2>1, <2>2, <2>3 DEF Fixed
    <3>2. c \in Reachable
      BY <1>1, <2>3, <3>1 DEF Covered
    <3>3. /\ home[c] # None /\ Port[home[c]] \in Listed /\ PeerAddr[c] \in Addrs
      BY <3>2, ReachableListed DEF Known, SendInv
    <3>4. home'[c] = home[c]
      BY <1>2, <3>1, <3>3
    <3>5. Port[home'[c]] \in Listed'
      <4>1. PICK p \in Listed' : peers'[listeners'[p]][PeerAddr[c]] = c
        BY <3>1 DEF Reachable
      <4>2. /\ p \in Ports /\ listeners'[p] \in Starts /\ listeners'[p] # None
            /\ Port[listeners'[p]] = p
        BY <4>1, ServerAssumption DEF Listed, TablesInv, ServerInv, TypeOK
      <4>3. home'[c] = listeners'[p]
        BY <3>1, <3>3, <4>1, <4>2, ServerAssumption DEF TablesInv, ServerInv, PeersAtHome
      <4> QED
        BY <4>1, <4>2, <4>3
    <3>6. place'[Port[home[c]]] = place[Port[home[c]]]
      BY <1>2, <3>3, <3>4, <3>5 DEF Listed
    <3>7. \/ got[r][PeerAddr[c]] > 0 \/ Due(r, PeerAddr[c]) \/ place[Port[home[c]]] > cursor[r]
      BY <1>1, <2>3, <3>1 DEF Covered
    <3> QED
      BY <1>5, <3>3, <3>4, <3>6, <3>7
  <2>4. Iterating(r) => stayed'[r] \subseteq Reachable'
    OBVIOUS
  <2>5. req[r] \in {"log", "200"} => \A c \in Fixed(r)' : got[r][PeerAddr[c]] > 0
    BY <1>1, <2>2 DEF Covered
  <2> QED
    BY <1>1, <1>6, <2>3, <2>4, <2>5 DEF Covered
<1> QED
  BY <1>7, <1>8, <1>9 DEF RequestInv

LEMMA ServerStepKeeps ==
    ASSUME SendInv, ServerStep
    PROVE  SendInv'
<1>1. /\ Next /\ PlacesFollow
      /\ stayed' = [r \in Requests |-> IF Iterating(r) THEN stayed[r] \cap Reachable' ELSE stayed[r]]
      /\ UNCHANGED <<req, raw, iterVars, row, got>>
  BY DEF ServerStep
<1>2. TablesInv'
  <2>1. ServerInv'
    BY <1>1, ServerNext DEF SendInv, TablesInv
  <2>2. PlacesInv'
    BY <1>1, PlacesKept DEF SendInv
  <2>3. PICK x : Known' \subseteq Known \cup {x}
    BY <1>1, ServerMoves DEF SendInv, TablesInv
  <2>4. IsFiniteSet(Known \cup {x})
    BY FS_AddElement DEF SendInv, TablesInv
  <2>5. IsFiniteSet(Known')
    BY <2>3, <2>4, FS_Subset
  <2> QED
    BY <2>1, <2>2, <2>5 DEF TablesInv
<1>3. RequestTypes'
  <2>1. \A r \in Requests : stayed'[r] \subseteq stayed[r]
    BY <1>1
  <2>2. stayed' \in [Requests -> SUBSET Conns]
    BY <1>1 DEF SendInv, RequestTypes
  <2> QED
    BY <1>1, <2>1, <2>2 DEF SendInv, RequestTypes, iterVars, Iterating
<1>4. \A r \in Requests : RequestInv(r)'
  BY <1>1, <1>2, ServerKeepsRequest
<1> QED
  BY <1>2, <1>3, <1>4 DEF SendInv

-----------------------------------------------------------------------------
LEMMA SendInitInv == SendInit => SendInv
<1> SUFFICES ASSUME SendInit PROVE SendInv
  OBVIOUS
<1>1. ServerInv /\ home = [c \in Conns |-> None] /\ listeners = [p \in Ports |-> None]
  BY ServerInit DEF SendInit, Init
<1>2. Known = {}
  BY <1>1 DEF Known
<1>3. PlacesInv
  BY <1>1 DEF SendInit, PlacesInv
<1>4. TablesInv
  BY <1>1, <1>2, <1>3, FS_EmptySet DEF TablesInv
<1>5. RequestTypes
  BY DEF SendInit, RequestTypes, Iterating
<1>6. ASSUME NEW r \in Requests PROVE RequestInv(r)
  <2>1. /\ req[r] = "idle" /\ stayed[r] = {} /\ \A a \in Addrs : got[r][a] = 0
    BY DEF SendInit
  <2>2. \A a \in Addrs : Accepted(a) = {}
    BY <1>2 DEF Accepted
  <2> QED
    BY <2>1, <2>2, FS_EmptySet DEF RequestInv, DueOnce, Covered, Counted, Iterating, Fixed
<1> QED
  BY <1>4, <1>5, <1>6 DEF SendInv

LEMMA SendNextInv == SendInv /\ [SendNext]_sendVars => SendInv'
<1>1. ASSUME SendInv, UNCHANGED sendVars PROVE SendInv'
  <2>1. /\ UNCHANGED <<serverVars, place, inserted, row, got, stayed>>
        /\ UNCHANGED <<req, raw, cursor, todo, target>>
    BY <1>1 DEF sendVars, requestVars, iterVars
  <2>2. TablesInv'
    BY <1>1, <2>1, TablesKept DEF SendInv
  <2>3. RequestTypes'
    BY <1>1, <2>1 DEF SendInv, RequestTypes, Iterating
  <2>4. \A r \in Requests : RequestInv(r)'
    BY <1>1, <2>1, OtherKeeps DEF SendInv
  <2> QED
    BY <2>2, <2>3, <2>4 DEF SendInv
<1> QED
  BY <1>1, ServerStepKeeps, PostKeeps, ReplyKeeps, ThreadSendKeeps, ResumeKeeps, LogKeeps
  DEF SendNext, RequestStep

\* The inductive invariant holds in every reachable state.
THEOREM SendInvariant == SendSpec => []SendInv
BY SendInitInv, SendNextInv, PTL DEF SendSpec

\* With requests beside it the server does what it does on its own: a request only
\* reads its tables.  Every safety property of SctpServer holds of the composition.
THEOREM SendImplementsServer == SendSpec => Spec
<1>1. SendInit => Init
  BY DEF SendInit
<1>2. [SendNext]_sendVars => [Next]_serverVars
  BY DEF SendNext, ServerStep, RequestStep, Post, ClientSend, ThreadSend, ThreadSendFails, Resume,
         Log, LogFails, sendVars
<1> QED
  BY <1>1, <1>2, PTL DEF SendSpec, Spec

\* So do its theorems: listed peers are served, only its own stop silences the end of
\* an association, and a stop leaves nothing, while requests iterate over the tables.
THEOREM ServerBesideRequests ==
    SendSpec => [](ListedPeersAreServed /\ DownIsReported /\ StopLeavesNothing)
BY SendImplementsServer, ListedServed, DownReported, StopComplete, PTL

\* SendTypeOK: the places of _listeners are those of a dict, a waiting request has a
\* conn, and an answer 200 has its row saved.
THEOREM SendTypes == SendSpec => []SendTypeOK
<1>1. SendInv => SendTypeOK
  BY DEF SendInv, TablesInv, ServerInv, PlacesInv, RequestTypes, SendTypeOK, Iterating
<1> QED
  BY <1>1, SendInvariant, PTL

\* SentOnce: no address gets the bytes of a request more often than it has had
\* associations, whatever is started, stopped or replaced meanwhile.
THEOREM NoneSentTwice == SendSpec => []SentOnce
<1>1. SendInv => SentOnce
  <2> SUFFICES ASSUME SendInv, NEW r \in Requests, NEW c \in Conns
               PROVE  got[r][PeerAddr[c]] <= Cardinality(SameAddr(c))
    BY DEF SentOnce
  <2>1. SameAddr(c) = Accepted(PeerAddr[c])
    BY DEF SameAddr, Accepted, Known
  <2>2. PeerAddr[c] \in Addrs
    BY PortAndAddr
  <2> QED
    BY <2>1, <2>2 DEF SendInv, RequestInv, Counted
<1> QED
  BY <1>1, SendInvariant, PTL

\* EveryPeerServed: a broadcast answered with 200 has reached every association that
\* was up and listed all the while, although the dict it iterates over changes.
THEOREM EveryoneServed == SendSpec => []EveryPeerServed
<1>1. SendInv => EveryPeerServed
  BY DEF SendInv, RequestInv, Covered, Fixed, EveryPeerServed
<1> QED
  BY <1>1, SendInvariant, PTL
=============================================================================
