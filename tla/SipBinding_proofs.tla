-------------------------- MODULE SipBinding_proofs --------------------------
(***************************************************************************)
(* Proofs about SipBinding for any number of uplinks, MNs and prefixes:    *)
(* types and bindings, the weight policy, the even spread of round robin,  *)
(* and the refinement of BindingService by the weight policy.              *)
(***************************************************************************)
EXTENDS SipBinding, FiniteSetTheorems, WellFoundedInduction, TLAPS

-----------------------------------------------------------------------------
(* The vector mr_ha.                                                       *)

LEMMA UplinksFinite ==
    /\ Uplinks \subseteq Nat
    /\ \A S \in SUBSET Uplinks : IsFiniteSet(S) /\ Cardinality(S) \in Nat
<1>1. IsFiniteSet(Uplinks) /\ Uplinks \subseteq Nat
  BY FS_Interval, UplinkAssumption DEF Uplinks
<1>2. \A S \in SUBSET Uplinks : IsFiniteSet(S)
  BY <1>1, FS_Subset
<1>3. \A S \in SUBSET Uplinks : Cardinality(S) \in Nat
  BY <1>2, FS_CardinalityType
<1> QED BY <1>1, <1>2, <1>3

\* Counting the elements with a smaller key numbers a finite set from 0.
LEMMA CountBelow ==
    ASSUME NEW S, IsFiniteSet(S), NEW key \in [S -> Nat],
           \A u, w \in S : key[u] = key[w] => u = w
    PROVE  [u \in S |-> Cardinality({v \in S : key[v] < key[u]})]
              \in Bijection(S, 0..(Cardinality(S) - 1))
<1> DEFINE n == Cardinality(S)
           below(u) == {v \in S : key[v] < key[u]}
           f == [u \in S |-> Cardinality(below(u))]
<1>1. n \in Nat
  BY FS_CardinalityType
<1>2. \A u \in S : /\ IsFiniteSet(below(u))
                   /\ Cardinality(below(u)) \in Nat
                   /\ Cardinality(below(u)) < n
  <2> TAKE u \in S
  <2>1. below(u) \in SUBSET S /\ u \notin below(u)
    <3>1. key[u] \in Nat /\ ~(key[u] < key[u])
      OBVIOUS
    <3> QED BY <3>1
  <2>2. IsFiniteSet(below(u)) /\ Cardinality(below(u)) <= n
        /\ (n = Cardinality(below(u)) => S = below(u))
    BY <1>1, <2>1, FS_Subset
  <2>3. Cardinality(below(u)) \in Nat
    BY <2>2, FS_CardinalityType
  <2> QED BY <1>1, <2>1, <2>2, <2>3
<1>3. f \in [S -> 0..(n - 1)]
  <2> HIDE DEF n, below
  <2> QED BY <1>1, <1>2
<1>4. \A u, w \in S : key[u] < key[w] => f[u] < f[w]
  <2> TAKE u, w \in S
  <2> HAVE key[u] < key[w]
  <2>1. below(u) \in SUBSET below(w) /\ u \in below(w) /\ u \notin below(u)
    <3>1. \A v \in S : key[v] < key[u] => key[v] < key[w]
      OBVIOUS
    <3>2. ~(key[u] < key[u])
      OBVIOUS
    <3> QED BY <3>1, <3>2
  <2>2. Cardinality(below(u)) <= Cardinality(below(w))
        /\ (Cardinality(below(w)) = Cardinality(below(u)) => below(w) = below(u))
    BY <1>2, <2>1, FS_Subset
  <2>3. below(u) # below(w)
    BY <2>1
  <2> HIDE DEF below
  <2> QED BY <1>2, <2>2, <2>3
<1>5. f \in Injection(S, 0..(n - 1))
  <2>1. \A u, w \in S : f[u] = f[w] => u = w
    <3> SUFFICES ASSUME NEW u \in S, NEW w \in S, f[u] = f[w], u # w
                 PROVE  FALSE
      OBVIOUS
    <3>1. key[u] < key[w] \/ key[w] < key[u]
      OBVIOUS
    <3>2. f[u] \in Nat /\ f[w] \in Nat
      BY <1>2
    <3> QED BY <1>4, <3>1, <3>2
  <2> QED BY <1>3, <2>1 DEF Injection, IsInjective
<1>6. IsFiniteSet(0..(n - 1)) /\ Cardinality(0..(n - 1)) = n
  <2>1. (~(0 > n - 1) /\ n - 1 - 0 + 1 = n) \/ n = 0
    BY <1>1
  <2>2. 0 \in Int /\ n - 1 \in Int
    BY <1>1
  <2> HIDE DEF n
  <2> QED BY <1>1, <2>1, <2>2, FS_Interval
<1>7. f \in Surjection(S, 0..(n - 1))
  BY <1>5, <1>6, FS_Injection
<1> QED BY <1>5, <1>7 DEF Bijection

\* Every index below the size of mr_ha finds an entry.
LEMMA NthExists ==
    ASSUME NEW S \in SUBSET Uplinks, NEW k \in Nat, k < Cardinality(S)
    PROVE  /\ Nth(S, k) \in S
           /\ Cardinality({v \in S : v < Nth(S, k)}) = k
<1> DEFINE id == [u \in S |-> u]
           f == [u \in S |-> Cardinality({v \in S : id[v] < id[u]})]
<1>1. IsFiniteSet(S) /\ Cardinality(S) \in Nat /\ id \in [S -> Nat]
  BY UplinksFinite
<1>2. f \in Surjection(S, 0..(Cardinality(S) - 1))
  <2>1. \A u, w \in S : id[u] = id[w] => u = w
    OBVIOUS
  <2> HIDE DEF id
  <2> QED BY <1>1, <2>1, CountBelow DEF Bijection
<1>3. k \in 0..(Cardinality(S) - 1)
  BY <1>1
<1>4. PICK u \in S : f[u] = k
  <2> HIDE DEF f
  <2> QED BY <1>2, <1>3 DEF Surjection
<1>5. {v \in S : id[v] < id[u]} = {v \in S : v < u}
  OBVIOUS
<1>6. Cardinality({v \in S : v < u}) = k
  BY <1>4, <1>5
<1> QED BY <1>6 DEF Nth

\* The index of an uplink in mr_ha, and that it finds the uplink again.
LEMMA NthIndex ==
    ASSUME NEW S \in SUBSET Uplinks, NEW v \in S
    PROVE  \E k \in 0..(Cardinality(S) - 1) :
              \A j \in 0..(Cardinality(S) - 1) : Nth(S, j) = v <=> j = k
<1> DEFINE id == [u \in S |-> u]
           f == [u \in S |-> Cardinality({w \in S : id[w] < id[u]})]
           n == Cardinality(S)
<1>1. IsFiniteSet(S) /\ n \in Nat /\ id \in [S -> Nat]
  BY UplinksFinite
<1>2. f \in Bijection(S, 0..(n - 1))
  <2>1. \A u, w \in S : id[u] = id[w] => u = w
    OBVIOUS
  <2> HIDE DEF id
  <2> QED BY <1>1, <2>1, CountBelow
<1>3. \A u \in S : {w \in S : id[w] < id[u]} = {w \in S : w < u}
  OBVIOUS
<1>4. \A u \in S : f[u] = Cardinality({w \in S : w < u})
  BY <1>3
<1>5. \A j \in 0..(n - 1) : Nth(S, j) \in S /\ f[Nth(S, j)] = j
  <2> TAKE j \in 0..(n - 1)
  <2>1. j \in Nat /\ j < n
    BY <1>1
  <2>2. Nth(S, j) \in S /\ Cardinality({w \in S : w < Nth(S, j)}) = j
    BY <2>1, NthExists
  <2> HIDE DEF f
  <2> QED BY <1>4, <2>2
<1>6. f[v] \in 0..(n - 1) /\ \A u, w \in S : f[u] = f[w] => u = w
  <2> HIDE DEF f
  <2> QED BY <1>2 DEF Bijection, Injection, IsInjective
<1> HIDE DEF f, n
<1>7. \A j \in 0..(n - 1) : Nth(S, j) = v <=> j = f[v]
  BY <1>5, <1>6
<1> QED BY <1>6, <1>7 DEF n

\* A non-empty set of uplinks has a first one.
LEMMA FirstExists ==
    ASSUME NEW S \in SUBSET Uplinks, S # {}
    PROVE  First(S) \in S /\ \A v \in S : First(S) <= v
<1>1. IsFiniteSet(S) /\ Cardinality(S) \in Nat /\ Cardinality(S) # 0 /\ S \subseteq Nat
  BY UplinksFinite, FS_EmptySet
<1> DEFINE u == Nth(S, 0)
           B == {v \in S : v < u}
<1>2. u \in S /\ Cardinality(B) = 0
  BY <1>1, NthExists
<1>3. IsFiniteSet(B)
  <2>1. B \in SUBSET Uplinks
    OBVIOUS
  <2> QED BY <2>1, UplinksFinite
<1>4. B = {}
  <2> HIDE DEF B
  <2> QED BY <1>2, <1>3, FS_EmptySet
<1>5. \A v \in S : ~(v < u)
  BY <1>4
<1>6. \A v \in S : u <= v
  <2> HIDE DEF u, B
  <2> QED BY <1>1, <1>2, <1>5
<1> QED BY <1>2, <1>6 DEF First

LEMMA LiveUplinks ==
    \A c : /\ Live(c) \in SUBSET Uplinks
           /\ IsFiniteSet(Live(c)) /\ Cardinality(Live(c)) \in Nat
           /\ Live(c) # {} => Cardinality(Live(c)) > 0
           /\ Live(c) = {} => Cardinality(Live(c)) = 0
<1> TAKE c
<1>1. Live(c) \in SUBSET Uplinks
  BY DEF Live
<1> HIDE DEF Live
<1>2. IsFiniteSet(Live(c)) /\ Cardinality(Live(c)) \in Nat
  BY <1>1, UplinksFinite
<1>3. Cardinality(Live(c)) = 0 <=> Live(c) = {}
  BY <1>2, FS_EmptySet
<1> QED BY <1>1, <1>2, <1>3

\* Induction is by a least counterexample.
LEMMA LeastNat ==
    ASSUME NEW T, T \subseteq Nat, T # {}
    PROVE  \E x \in T : \A y \in T : x <= y
<1>1. PICK x \in T : \A y \in T : ~(<<y, x>> \in OpToRel(<, Nat))
  BY WFMin, NatLessThanWellFounded
<1>2. \A y \in T : ~(y < x)
  BY <1>1 DEF OpToRel
<1> QED BY <1>2

LEMMA RegisteredFinite ==
    ASSUME TypeOK
    PROVE  Registered \in SUBSET MNs /\ IsFiniteSet(Registered)
<1>1. mnlist \in Seq(MNs)
  BY DEF TypeOK
<1>2. /\ Len(mnlist) \in Nat /\ DOMAIN mnlist = 1..Len(mnlist)
      /\ \A k \in DOMAIN mnlist : mnlist[k] \in MNs
  BY <1>1
<1>3. Registered \in SUBSET MNs
  BY <1>2 DEF Registered
<1>4. mnlist \in Surjection(DOMAIN mnlist, Registered)
  <2>1. mnlist = [k \in DOMAIN mnlist |-> mnlist[k]]
    BY <1>1
  <2>2. mnlist \in [DOMAIN mnlist -> Registered]
    BY <2>1 DEF Registered
  <2> QED BY <2>2 DEF Surjection, Registered
<1>5. IsFiniteSet(DOMAIN mnlist)
  BY <1>2, FS_Interval
<1>6. IsFiniteSet(Registered)
  BY <1>4, <1>5, FS_Surjection
<1> QED BY <1>3, <1>6

LEMMA RankNat ==
    ASSUME TypeOK, NEW D \in SUBSET Registered, NEW m
    PROVE  Rank(m, D) \in Nat
<1>1. IsFiniteSet(D)
  BY RegisteredFinite, FS_Subset
<1> DEFINE E == {d \in D : Pos(d) < Pos(m)}
<1>2. E \in SUBSET D
  OBVIOUS
<1>3. IsFiniteSet(E)
  <2> HIDE DEF E
  <2> QED BY <1>1, <1>2, FS_Subset
<1>4. Cardinality(E) \in Nat
  <2> HIDE DEF E
  <2> QED BY <1>3, FS_CardinalityType
<1> QED BY <1>4 DEF Rank

LEMMA ModRange ==
    ASSUME NEW a \in Nat, NEW n \in Nat, n > 0
    PROVE  a % n \in Nat /\ a % n < n
  OBVIOUS

-----------------------------------------------------------------------------
(* The selection policies return entries of the list.                      *)

\* Whatever the policy, the entry chosen for an MN is an uplink; the policies
\* with a vector choose a live one.
LEMMA PickIsUplink ==
    ASSUME TypeOK, NEW m \in MNs, NEW u \in Pick(m)
    PROVE  u \in Uplinks /\ (Select # 0 => u \in Live(con))
<1> DEFINE L == Live(con)
           n == Cardinality(L)
<1>1. L \in SUBSET Uplinks /\ n \in Nat
  BY LiveUplinks
<1>2. round_count \in Nat
  BY RoundAssumption DEF TypeOK
<1>3. CASE Select = 0
  BY <1>3, HomeAssumption DEF Pick
<1>4. CASE Select = 1
  BY <1>4, <1>1 DEF Pick
<1>5. CASE Select \in 2..4
  <2>1. n # 0
    BY <1>5 DEF Pick
  <2>2. \E k \in Nat : k < n /\ u = Nth(L, k)
    <3>1. CASE Select = 2
      <4>1. u = Nth(L, round_count % n)
        BY <1>1, <2>1, <3>1 DEF Pick
      <4>2. round_count % n \in Nat /\ round_count % n < n
        BY <1>1, <1>2, <2>1, ModRange
      <4> QED BY <4>1, <4>2
    <3>2. CASE Select = 3
      <4>1. u = Nth(L, IF n = 1 THEN 0 ELSE 1)
        BY <1>1, <2>1, <3>2 DEF Pick
      <4> QED BY <1>1, <2>1, <4>1
    <3>3. CASE Select = 4
      <4>1. u = Nth(L, IF n = 1 \/ weight_count = 0 THEN 0 ELSE 1)
        BY <1>1, <2>1, <3>3 DEF Pick
      <4> QED BY <1>1, <2>1, <4>1
    <3> QED BY <1>5, <3>1, <3>2, <3>3
  <2>3. u \in L
    BY <1>1, <2>2, NthExists
  <2> QED BY <1>1, <2>3
<1> QED BY <1>3, <1>4, <1>5, SelectAssumption

\* re_homing gives an MN the contact of an uplink that is left, and -1 only when
\* none is left; weight_2 may give it anything.
LEMMA RehomeContactsLive ==
    ASSUME TypeOK, NEW c \in [Uplinks -> Contacts], NEW D \in SUBSET Registered,
           NEW f \in RehomeContacts(c, D), Select \in 1..4
    PROVE  \A m \in D :
              /\ f[m] \in Contacts
              /\ Select # 4 => \/ Live(c) = {} /\ f[m] = None
                               \/ \E u \in Live(c) : f[m] = c[u]
<1> DEFINE L == Live(c)
           n == Cardinality(L)
<1>1. L \in SUBSET Uplinks /\ n \in Nat /\ (n = 0 <=> L = {})
  BY LiveUplinks
<1>2. round_count \in Nat
  BY RoundAssumption DEF TypeOK
<1>3. \A u \in L : c[u] \in Contacts
  BY <1>1
<1>4. \A k \in Nat : k < n => Nth(L, k) \in L
  BY <1>1, NthExists
<1>5. CASE n = 0
  <2>1. f = [m \in D |-> None]
    BY <1>5 DEF RehomeContacts
  <2> QED BY <1>1, <1>5, <2>1 DEF Contacts
<1>6. CASE n > 0 /\ Select = 1
  <2>1. f \in [D -> {c[u] : u \in L}]
    BY <1>1, <1>6 DEF RehomeContacts
  <2> QED BY <1>3, <1>6, <2>1
<1>7. CASE n > 0 /\ Select = 2
  <2>1. f = [m \in D |-> c[Nth(L, (round_count + Rank(m, D)) % n)]]
    BY <1>1, <1>7 DEF RehomeContacts
  <2> TAKE m \in D
  <2>2. Rank(m, D) \in Nat
    BY RankNat
  <2>3. /\ (round_count + Rank(m, D)) % n \in Nat
        /\ (round_count + Rank(m, D)) % n < n
    BY <1>1, <1>2, <1>7, <2>2, ModRange
  <2>4. Nth(L, (round_count + Rank(m, D)) % n) \in L
    BY <1>4, <2>3
  <2> QED BY <1>3, <2>1, <2>4
<1>8. CASE n > 0 /\ Select = 3
  <2>1. f = [m \in D |-> c[Nth(L, 0)]]
    BY <1>1, <1>8 DEF RehomeContacts
  <2>2. Nth(L, 0) \in L
    BY <1>1, <1>4, <1>8
  <2> QED BY <1>3, <2>1, <2>2
<1>9. CASE n > 0 /\ Select = 4
  <2> DEFINE turn2(m) == Select = 4 /\ weight_count2 = 0 /\ Rank(m, D) = 0
  <2>1. CASE n > 1
    <3>1. f = [m \in D |-> c[Nth(L, IF turn2(m) THEN 1 ELSE 0)]]
      BY <1>1, <1>9, <2>1 DEF RehomeContacts
    <3>2. Nth(L, 0) \in L /\ Nth(L, 1) \in L
      BY <1>1, <1>4, <2>1
    <3> QED BY <1>3, <1>9, <3>1, <3>2
  <2>2. CASE n = 1
    <3>1. PICK g \in Contacts : f = [m \in D |-> IF turn2(m) THEN g ELSE c[Nth(L, 0)]]
      BY <1>1, <1>9, <2>2 DEF RehomeContacts
    <3>2. Nth(L, 0) \in L
      BY <1>1, <1>4, <2>2
    <3> QED BY <1>3, <1>9, <3>1, <3>2
  <2> QED BY <1>1, <1>9, <2>1, <2>2
<1> QED BY <1>1, <1>5, <1>6, <1>7, <1>8, <1>9

-----------------------------------------------------------------------------
(* Type correctness.                                                       *)

LEMMA WithEntryType ==
    ASSUME TypeOK, NEW m \in MNs
    PROVE  WithEntry(m) \in Seq(MNs)
  BY DEF TypeOK, WithEntry

LEMMA PickCountersType ==
    ASSUME TypeOK, PickCounters
    PROVE  /\ round_count' \in 0..(RoundMod - 1)
           /\ weight_count' \in {0, 1} /\ weight_count2' \in {0, 1}
<1>1. RoundMod \in Nat /\ RoundMod > 0 /\ round_count + 1 \in Nat
  BY RoundAssumption DEF TypeOK
<1>2. (round_count + 1) % RoundMod \in 0..(RoundMod - 1)
  BY <1>1, ModRange
<1> QED BY <1>2 DEF TypeOK, PickCounters

LEMMA RehomeCountersType ==
    ASSUME TypeOK, NEW c, NEW D \in SUBSET Registered, RehomeCounters(c, D)
    PROVE  /\ round_count' \in 0..(RoundMod - 1)
           /\ weight_count' \in {0, 1} /\ weight_count2' \in {0, 1}
<1>1. IsFiniteSet(D)
  BY RegisteredFinite, FS_Subset
<1>2. Cardinality(D) \in Nat
  BY <1>1, FS_CardinalityType
<1>3. RoundMod \in Nat /\ RoundMod > 0 /\ round_count + Cardinality(D) \in Nat
  BY <1>2, RoundAssumption DEF TypeOK
<1>4. (round_count + Cardinality(D)) % RoundMod \in 0..(RoundMod - 1)
  BY <1>3, ModRange
<1> QED BY <1>4 DEF TypeOK, RehomeCounters

LEMMA PacketType ==
    ASSUME NEW method \in {5, 6, 7, 9, 12}, NEW m \in MNs \cup {None},
           NEW u \in Uplinks, NEW c \in Contacts \cup Urls
    PROVE  Packet(method, m, u, c) \in Packets
  BY DEF Packet, Packets

LEMMA StopType ==
    ASSUME TypeOK, NEW why \in Statuses, Stop(why)
    PROVE  TypeOK'
  BY DEF TypeOK, Stop, counters

LEMMA ForwardType ==
    ASSUME TypeOK, NEW m \in MNs, Forward(m)
    PROVE  TypeOK'
<1>1. CASE Stop("no_binding")
  BY <1>1, StopType DEF Statuses
<1>2. CASE /\ Owners(mncon[m]) # {}
           /\ sent' = {Packet(7, m, First(Owners(mncon[m])), mncon[m])}
           /\ UNCHANGED <<con, mnlist, mncon, cns, counters, status, late>>
  <2>1. First(Owners(mncon[m])) \in Uplinks
    <3>1. Owners(mncon[m]) \in SUBSET Uplinks
      BY DEF Owners
    <3> QED BY <1>2, <3>1, FirstExists
  <2>2. Packet(7, m, First(Owners(mncon[m])), mncon[m]) \in Packets
    BY <2>1, PacketType DEF TypeOK
  <2> QED BY <1>2, <2>2 DEF TypeOK, counters
<1> QED BY <1>1, <1>2 DEF Forward

LEMMA SendRegType ==
    ASSUME TypeOK, NEW u \in Uplinks, NEW a \in Addrs, send_reg_msg(u, a)
    PROVE  TypeOK'
<1>1. a \in Contacts
  BY DEF Contacts
<1>2. con' \in [Uplinks -> Contacts] /\ mncon' \in [MNs -> Contacts]
  BY <1>1 DEF TypeOK, send_reg_msg
<1>3. late' \in Seq(Addrs)
  BY DEF TypeOK, send_reg_msg
<1> QED BY <1>2, <1>3 DEF TypeOK, send_reg_msg, counters

LEMMA LateType ==
    ASSUME TypeOK, late_register
    PROVE  TypeOK'
<1>1. Head(late) \in Addrs /\ Tail(late) \in Seq(Addrs)
  BY DEF TypeOK, late_register
<1>2. Head(late)[1] \in Uplinks /\ Head(late) \in Contacts
  BY <1>1 DEF Addrs, Contacts
<1>3. Packet(5, None, Head(late)[1], Head(late)) \in Packets
  BY <1>2, PacketType
<1> QED BY <1>1, <1>3 DEF TypeOK, late_register, counters

LEMMA RehomeAllType ==
    ASSUME TypeOK, NEW u \in Uplinks, Select \in 1..4, rehome_all(u)
    PROVE  TypeOK'
<1> DEFINE D == {m \in Registered : mncon[m] = con[u]}
           c == [con EXCEPT ![u] = None]
<1>1. c \in [Uplinks -> Contacts] /\ con' = c
  BY DEF TypeOK, rehome_all, Contacts
<1>2. PICK f \in RehomeContacts(c, D) :
          mncon' = [m \in MNs |-> IF m \in D THEN f[m] ELSE mncon[m]]
  BY DEF rehome_all
<1>3. \A m \in D : f[m] \in Contacts
  <2> HIDE DEF c
  <2> QED BY <1>1, RehomeContactsLive
<1>4. mncon' \in [MNs -> Contacts]
  BY <1>2, <1>3 DEF TypeOK
<1>5. /\ round_count' \in 0..(RoundMod - 1)
      /\ weight_count' \in {0, 1} /\ weight_count2' \in {0, 1}
  <2>1. RehomeCounters(c, D)
    BY DEF rehome_all
  <2> HIDE DEF c
  <2> QED BY <2>1, RehomeCountersType
<1> QED BY <1>1, <1>4, <1>5 DEF TypeOK, rehome_all

LEMMA RehomeFirstType ==
    ASSUME TypeOK, NEW u \in Uplinks, NumUplinks > 1, mnlist # <<>>, rehome_first(u)
    PROVE  TypeOK'
<1>1. Other(u) \in Uplinks
  BY UplinkAssumption DEF Other, Uplinks
<1>2. mnlist[1] \in MNs
  BY DEF TypeOK
<1>3. con[Other(u)] \in Contacts /\ None \in Contacts
  BY <1>1 DEF TypeOK, Contacts
<1>4. con' \in [Uplinks -> Contacts] /\ mncon' \in [MNs -> Contacts]
  BY <1>2, <1>3 DEF TypeOK, rehome_first
<1>5. sent' \subseteq Packets
  <2>1. /\ Packet(9, None, Other(u), con[Other(u)]) \in Packets
        /\ Packet(9, mnlist[1], Other(u), con[Other(u)]) \in Packets
    BY <1>1, <1>2, <1>3, PacketType
  <2> QED BY <2>1 DEF rehome_first
<1> QED BY <1>4, <1>5 DEF TypeOK, rehome_first, counters

\* Every handler keeps the types.
LEMMA TypeStep ==
    ASSUME TypeOK, [Next]_vars
    PROVE  TypeOK'
<1>1. ASSUME NEW m \in MNs, recv_register(m)
      PROVE  TypeOK'
  <2>1. CASE Stop("no_uplink")
    BY <2>1, StopType DEF Statuses
  <2>2. CASE \E u \in Pick(m) :
                /\ mnlist' = WithEntry(m)
                /\ mncon' = [mncon EXCEPT ![m] = con[u]]
                /\ PickCounters
                /\ sent' = {Packet(5, m, u, Url(u))}
                /\ UNCHANGED <<con, cns, status, late>>
    <3>1. PICK u \in Pick(m) :
                /\ mnlist' = WithEntry(m)
                /\ mncon' = [mncon EXCEPT ![m] = con[u]]
                /\ PickCounters
                /\ sent' = {Packet(5, m, u, Url(u))}
                /\ UNCHANGED <<con, cns, status, late>>
      BY <2>2
    <3>2. u \in Uplinks /\ con[u] \in Contacts
      BY PickIsUplink DEF TypeOK
    <3>3. Packet(5, m, u, Url(u)) \in Packets
      BY <3>2, PacketType DEF Urls
    <3>4. /\ round_count' \in 0..(RoundMod - 1)
          /\ weight_count' \in {0, 1} /\ weight_count2' \in {0, 1}
      BY <3>1, PickCountersType
    <3>5. mnlist' \in Seq(MNs)
      BY <3>1, WithEntryType
    <3>6. mncon' \in [MNs -> Contacts]
      BY <3>1, <3>2 DEF TypeOK
    <3> QED BY <3>1, <3>3, <3>4, <3>5, <3>6 DEF TypeOK
  <2> QED BY <1>1, <2>1, <2>2 DEF recv_register
<1>2. ASSUME NEW m \in MNs, recv_from_mn(m)
      PROVE  TypeOK'
  BY <1>2, ForwardType, StopType DEF recv_from_mn, Statuses
<1>3. ASSUME NEW c \in CNs, NEW m \in MNs, recv_from_cn(c, m)
      PROVE  TypeOK'
  <2>1. CASE Stop("no_peer")
    BY <2>1, StopType DEF Statuses
  <2>2. CASE ~Stop("no_peer")
    BY <1>3, <2>2 DEF recv_from_cn, TypeOK, counters
  <2> QED BY <2>1, <2>2
<1>4. ASSUME NEW c \in CNs, NEW m \in MNs, recv_200ok_from_cn(c, m)
      PROVE  TypeOK'
  BY <1>4 DEF recv_200ok_from_cn, TypeOK, counters
<1>5. ASSUME NEW c \in CNs, NEW m \in MNs, recv_200ok_from_mn(c, m)
      PROVE  TypeOK'
  <2>1. CASE Stop("no_peer")
    BY <2>1, StopType DEF Statuses
  <2>2. CASE Forward(m)
    BY <2>2, ForwardType
  <2> QED BY <1>5, <2>1, <2>2 DEF recv_200ok_from_mn
<1>6. ASSUME NEW c \in CNs, NEW m \in MNs, recv_rehoming(c, m)
      PROVE  TypeOK'
  BY <1>3, <1>6 DEF recv_rehoming
<1>7. ASSUME NEW c \in CNs, recv_refer(c)
      PROVE  TypeOK'
  <2>1. CASE Stop("no_uplink")
    BY <2>1, StopType DEF Statuses
  <2>2. CASE /\ Live(con) # {}
             /\ cns' = cns \cup {c}
             /\ sent' = {Packet(12, None, First(Live(con)), con[First(Live(con))])}
             /\ UNCHANGED <<con, mnlist, mncon, counters, status, late>>
    <3>1. First(Live(con)) \in Uplinks
      BY <2>2, LiveUplinks, FirstExists
    <3>2. Packet(12, None, First(Live(con)), con[First(Live(con))]) \in Packets
      BY <3>1, PacketType DEF TypeOK
    <3> QED BY <2>2, <3>2 DEF TypeOK, counters
  <2> QED BY <1>7, <2>1, <2>2 DEF recv_refer
<1>8. ASSUME NEW c \in CNs, NEW m \in MNs, recv_reinvite(c, m)
      PROVE  TypeOK'
  <2>1. CASE Stop("no_peer")
    BY <2>1, StopType DEF Statuses
  <2>2. CASE ~Stop("no_peer")
    BY <1>8, <2>2 DEF recv_reinvite, TypeOK, counters
  <2> QED BY <2>1, <2>2
<1>9. ASSUME NEW m \in MNs, recv_mn_bu(m)
      PROVE  TypeOK'
  <2>1. CASE Stop("no_uplink")
    BY <2>1, StopType DEF Statuses
  <2>2. CASE /\ Live(con) # {}
             /\ mnlist' = WithEntry(m)
             /\ mncon' = [mncon EXCEPT ![m] = con[First(Live(con))]]
             /\ sent' = {Packet(12, m, First(Live(con)), con[First(Live(con))])}
             /\ UNCHANGED <<con, cns, counters, status, late>>
    <3>1. First(Live(con)) \in Uplinks /\ con[First(Live(con))] \in Contacts
      BY <2>2, LiveUplinks, FirstExists DEF TypeOK
    <3>2. Packet(12, m, First(Live(con)), con[First(Live(con))]) \in Packets
      BY <3>1, PacketType
    <3>3. mnlist' \in Seq(MNs)
      BY <2>2, WithEntryType
    <3> QED BY <2>2, <3>1, <3>2, <3>3 DEF TypeOK, counters
  <2> QED BY <1>9, <2>1, <2>2 DEF recv_mn_bu
<1>10. ASSUME NEW u \in Uplinks, NewAddress(u)
       PROVE  TypeOK'
  BY <1>10, SendRegType DEF NewAddress, Addrs
<1>11. ASSUME NEW u \in Uplinks, re_homing(u)
       PROVE  TypeOK'
  <2>1. CASE Stop("no_peer") \/ Stop("bad_index")
    BY <2>1, StopType DEF Statuses
  <2>2. CASE Select # 0 /\ rehome_all(u)
    BY <2>2, RehomeAllType, SelectAssumption
  <2>3. CASE NumUplinks > 1 /\ mnlist # <<>> /\ rehome_first(u)
    BY <2>3, RehomeFirstType
  <2> QED BY <1>11, <2>1, <2>2, <2>3 DEF re_homing
<1>12. ASSUME NEW m \in MNs, recv_temp_move(m)
       PROVE  TypeOK'
  <2>1. CASE Stop("no_peer")
    BY <2>1, StopType DEF Statuses
  <2>2. CASE ~Stop("no_peer")
    <3>1. Packet(6, m, HomeUplink[m], mncon[m]) \in Packets
      BY PacketType, HomeAssumption DEF TypeOK
    <3> QED BY <1>12, <2>2, <3>1 DEF recv_temp_move, TypeOK, counters
  <2> QED BY <2>1, <2>2
<1>13. CASE UNCHANGED vars
  BY <1>13 DEF vars, TypeOK
<1> QED
  BY <1>1, <1>2, <1>3, <1>4, <1>5, <1>6, <1>7, <1>8, <1>9, <1>10, <1>11, <1>12,
     <1>13, LateType
  DEF Next, RecvPacket

\* Every handler keeps the types: in particular the round robin counter stays in
\* range and every packet leaves through an interface that exists.
THEOREM TypeCorrect == Spec => []TypeOK
<1>1. Init => TypeOK
  BY RoundAssumption DEF Init, TypeOK, Contacts, Statuses
<1>2. TypeOK /\ [Next]_vars => TypeOK'
  BY TypeStep
<1> QED BY <1>1, <1>2, PTL DEF Spec

-----------------------------------------------------------------------------
(* What a step can do to the bindings.                                     *)

\* No binding changes; the process stops at assert(bu != NULL) only for an MN
\* whose contact no uplink has.
Quiet ==
    /\ UNCHANGED <<con, mnlist, mncon>>
    /\ \/ status' # "no_binding"
       \/ status' = status
       \/ \E m \in Registered : Owners(mncon[m]) = {}

\* MN m gets the contact of an uplink, which the policies with a vector take
\* among the live ones.
Bind(m) ==
    /\ mnlist' = WithEntry(m)
    /\ \E u \in Uplinks : /\ Select # 0 => u \in Live(con)
                         /\ mncon' = [mncon EXCEPT ![m] = con[u]]
    /\ UNCHANGED <<con, status>>

LEMMA ForwardQuiet ==
    ASSUME NEW m \in Registered, Forward(m)
    PROVE  Quiet
  BY DEF Forward, Stop, Quiet, counters

\* A lost uplink, by policy.
Rehome(u) ==
    \/ Select # 0 /\ rehome_all(u)
    \/ Select = 0 /\ NumUplinks > 1 /\ mnlist # <<>> /\ rehome_first(u)

\* Every step is one of these four.
LEMMA Effects ==
    ASSUME TypeOK, [Next]_vars
    PROVE  \/ Quiet
           \/ \E m \in MNs : Bind(m)
           \/ \E u \in Uplinks : NewAddress(u)
           \/ \E u \in Uplinks : Rehome(u)
<1>1. ASSUME NEW m \in MNs, recv_register(m)
      PROVE  Quiet \/ Bind(m)
  <2>1. CASE Stop("no_uplink")
    BY <2>1 DEF Stop, Quiet, counters
  <2>2. CASE ~Stop("no_uplink")
    <3>1. PICK u \in Pick(m) : /\ mnlist' = WithEntry(m)
                              /\ mncon' = [mncon EXCEPT ![m] = con[u]]
                              /\ UNCHANGED <<con, cns, status>>
      BY <1>1, <2>2 DEF recv_register
    <3>2. u \in Uplinks /\ (Select # 0 => u \in Live(con))
      BY PickIsUplink
    <3> QED BY <3>1, <3>2 DEF Bind
  <2> QED BY <2>1, <2>2
<1>2. ASSUME NEW m \in MNs, recv_from_mn(m)
      PROVE  Quiet
  BY <1>2, ForwardQuiet DEF recv_from_mn, Stop, Quiet, counters
<1>3. ASSUME NEW c \in CNs, NEW m \in MNs, recv_from_cn(c, m)
      PROVE  Quiet
  BY <1>3 DEF recv_from_cn, Stop, Quiet, counters
<1>4. ASSUME NEW c \in CNs, NEW m \in MNs, recv_200ok_from_cn(c, m)
      PROVE  Quiet
  BY <1>4 DEF recv_200ok_from_cn, Quiet, counters
<1>5. ASSUME NEW c \in CNs, NEW m \in MNs, recv_200ok_from_mn(c, m)
      PROVE  Quiet
  <2>1. CASE Stop("no_peer")
    BY <2>1 DEF Stop, Quiet, counters
  <2>2. CASE m \in Registered /\ Forward(m)
    BY <2>2, ForwardQuiet
  <2> QED BY <1>5, <2>1, <2>2 DEF recv_200ok_from_mn
<1>6. ASSUME NEW c \in CNs, NEW m \in MNs, recv_rehoming(c, m)
      PROVE  Quiet
  BY <1>3, <1>6 DEF recv_rehoming
<1>7. ASSUME NEW c \in CNs, recv_refer(c)
      PROVE  Quiet
  BY <1>7 DEF recv_refer, Stop, Quiet, counters
<1>8. ASSUME NEW c \in CNs, NEW m \in MNs, recv_reinvite(c, m)
      PROVE  Quiet
  BY <1>8 DEF recv_reinvite, Stop, Quiet, counters
<1>9. ASSUME NEW m \in MNs, recv_mn_bu(m)
      PROVE  Quiet \/ Bind(m)
  <2>1. CASE Stop("no_uplink")
    BY <2>1 DEF Stop, Quiet, counters
  <2>2. CASE ~Stop("no_uplink")
    <3>1. /\ Live(con) # {}
          /\ mnlist' = WithEntry(m)
          /\ mncon' = [mncon EXCEPT ![m] = con[First(Live(con))]]
          /\ UNCHANGED <<con, cns, counters, status, late>>
      BY <1>9, <2>2 DEF recv_mn_bu
    <3>2. First(Live(con)) \in Live(con) /\ First(Live(con)) \in Uplinks
      BY <3>1, LiveUplinks, FirstExists
    <3> QED BY <3>1, <3>2 DEF Bind
  <2> QED BY <2>1, <2>2
<1>10. ASSUME NEW u \in Uplinks, re_homing(u)
       PROVE  Quiet \/ Rehome(u)
  BY <1>10 DEF re_homing, Rehome, Stop, Quiet, counters
<1>11. ASSUME NEW m \in MNs, recv_temp_move(m)
       PROVE  Quiet
  BY <1>11 DEF recv_temp_move, Stop, Quiet, counters
<1>12. late_register => Quiet
  BY DEF late_register, Quiet
<1>13. CASE UNCHANGED vars
  BY <1>13 DEF vars, Quiet
<1> QED
  BY <1>1, <1>2, <1>3, <1>4, <1>5, <1>6, <1>7, <1>8, <1>9, <1>10, <1>11, <1>12,
     <1>13
  DEF Next, RecvPacket

LEMMA RenewedRegistered ==
    ASSUME NEW S \in Renewed
    PROVE  S \subseteq Registered
<1>1. RenewMoved \subseteq Registered
  BY DEF RenewMoved, Registered
<1> QED BY <1>1, SelectAssumption DEF Renewed

LEMMA WithEntryRegisters ==
    ASSUME TypeOK, NEW m \in MNs, mnlist' = WithEntry(m)
    PROVE  Registered' = Registered \cup {m}
<1>1. CASE m \in Registered
  BY <1>1 DEF WithEntry, Registered
<1>2. CASE m \notin Registered
  <2>1. mnlist' = <<m>> \o mnlist /\ mnlist \in Seq(MNs)
    BY <1>2 DEF WithEntry, TypeOK
  <2>2. /\ DOMAIN mnlist' = 1..(Len(mnlist) + 1) /\ Len(mnlist) \in Nat
        /\ DOMAIN mnlist = 1..Len(mnlist)
        /\ mnlist'[1] = m
        /\ \A k \in 1..Len(mnlist) : mnlist'[k + 1] = mnlist[k]
    BY <2>1
  <2>3. Registered' \subseteq Registered \cup {m}
    <3> SUFFICES ASSUME NEW k \in DOMAIN mnlist'
                 PROVE  mnlist'[k] \in Registered \cup {m}
      BY DEF Registered
    <3>1. CASE k = 1
      BY <2>2, <3>1
    <3>2. CASE k # 1
      <4>1. k - 1 \in 1..Len(mnlist) /\ k = (k - 1) + 1
        BY <2>2, <3>2
      <4>2. mnlist'[k] = mnlist[k - 1]
        BY <2>2, <4>1
      <4> QED BY <2>2, <4>1, <4>2 DEF Registered
    <3> QED BY <3>1, <3>2
  <2>4. Registered \cup {m} \subseteq Registered'
    <3>1. m \in Registered'
      BY <2>2 DEF Registered
    <3>2. ASSUME NEW k \in DOMAIN mnlist
          PROVE  mnlist[k] \in Registered'
      <4>1. k + 1 \in DOMAIN mnlist' /\ mnlist'[k + 1] = mnlist[k]
        BY <2>2
      <4> QED BY <4>1 DEF Registered
    <3> QED BY <3>1, <3>2 DEF Registered
  <2> QED BY <2>3, <2>4
<1> QED BY <1>1, <1>2

-----------------------------------------------------------------------------
(* The bindings.                                                           *)

\* A policy that keeps the bindings: weight, or random and round robin where an
\* uplink loses its address before it gets another, or by prefix with the single
\* MN its re_homing moves.
SingleMN == \A m, n \in MNs : m = n

SoundPolicy ==
    \/ Select = 3
    \/ Select \in {1, 2} /\ ~Readdress
    \/ Select = 0 /\ ~Readdress /\ SingleMN

LEMMA BindBound ==
    ASSUME TypeOK, BoundToLive, NEW m \in MNs, Bind(m)
    PROVE  BoundToLive'
<1>1. PICK u \in Uplinks : mncon' = [mncon EXCEPT ![m] = con[u]]
  BY DEF Bind
<1>2. Registered' = Registered \cup {m} /\ con' = con
  BY WithEntryRegisters DEF Bind
<1> SUFFICES ASSUME NEW k \in MNs, mncon'[k] # None
             PROVE  k \in Registered' /\ Owners(mncon[k])' # {}
  BY DEF BoundToLive
<1>4. CASE k = m
  <2>1. mncon'[k] = con'[u]
    BY <1>1, <1>2, <1>4 DEF TypeOK
  <2> QED BY <1>2, <1>4, <2>1 DEF Owners
<1>5. CASE k # m
  <2>1. mncon'[k] = mncon[k]
    BY <1>1, <1>5 DEF TypeOK
  <2> QED BY <1>2, <2>1 DEF BoundToLive, Owners
<1> QED BY <1>4, <1>5

\* A contact that is not the old one of u still has its owner when u gets an
\* address; if u had one, the weight policy has moved every MN.
LEMMA NewAddressBound ==
    ASSUME TypeOK, BoundToLive, SoundPolicy, NEW u \in Uplinks, NewAddress(u)
    PROVE  BoundToLive'
<1>1. PICK p \in Prefixes : (Readdress \/ con[u] = None) /\ send_reg_msg(u, <<u, p>>)
  BY DEF NewAddress
<1> DEFINE a == <<u, p>>
<1>2. PICK S \in Renewed : mncon' = [m \in MNs |-> IF m \in S THEN a ELSE mncon[m]]
  BY <1>1 DEF send_reg_msg
<1>3. S \subseteq Registered
  BY RenewedRegistered
<1>4. con' = [con EXCEPT ![u] = a] /\ con'[u] = a /\ Registered' = Registered
  BY <1>1 DEF send_reg_msg, TypeOK, Registered
<1> SUFFICES ASSUME NEW k \in MNs, mncon'[k] # None
             PROVE  k \in Registered' /\ Owners(mncon[k])' # {}
  BY DEF BoundToLive
<1>5. CASE k \in S
  BY <1>2, <1>3, <1>4, <1>5 DEF Owners
<1>6. CASE k \notin S
  <2>1. mncon'[k] = mncon[k] /\ k \in Registered
    BY <1>2, <1>6 DEF BoundToLive
  <2>2. Select # 3
    BY <1>6, <2>1 DEF Renewed
  <2>3. con[u] = None
    BY <1>1, <2>2 DEF SoundPolicy
  <2>4. PICK v \in Uplinks : con[v] = mncon[k]
    BY <2>1 DEF BoundToLive, Owners
  <2>5. con'[v] = mncon'[k]
    BY <1>4, <2>1, <2>3, <2>4 DEF TypeOK
  <2> QED BY <1>4, <2>1, <2>5 DEF Owners
<1> QED BY <1>5, <1>6

\* The MNs of the lost uplink get a contact that is left; the others keep theirs,
\* which another uplink owns.
LEMMA RehomeBound ==
    ASSUME TypeOK, BoundToLive, Select \in 1..3, NEW u \in Uplinks, rehome_all(u)
    PROVE  BoundToLive'
<1> DEFINE D == {m \in Registered : mncon[m] = con[u]}
           c == [con EXCEPT ![u] = None]
<1>1. c \in [Uplinks -> Contacts] /\ con' = c /\ Registered' = Registered
  BY DEF TypeOK, rehome_all, Contacts, Registered
<1>2. PICK f \in RehomeContacts(c, D) :
          mncon' = [m \in MNs |-> IF m \in D THEN f[m] ELSE mncon[m]]
  BY DEF rehome_all
<1>3. \A m \in D : f[m] = None \/ \E v \in Live(c) : f[m] = c[v]
  <2> HIDE DEF c
  <2> QED BY <1>1, RehomeContactsLive
<1> SUFFICES ASSUME NEW k \in MNs, mncon'[k] # None
             PROVE  k \in Registered' /\ Owners(mncon[k])' # {}
  BY DEF BoundToLive
<1>4. CASE k \in D
  <2>1. PICK v \in Live(c) : mncon'[k] = c[v]
    BY <1>2, <1>3, <1>4
  <2> QED BY <1>1, <1>4, <2>1 DEF Owners, Live
<1>5. CASE k \notin D
  <2>1. mncon'[k] = mncon[k] /\ k \in Registered
    BY <1>2, <1>5 DEF BoundToLive
  <2>2. PICK v \in Uplinks : con[v] = mncon[k]
    BY <2>1 DEF BoundToLive, Owners
  <2>3. v # u
    BY <1>5, <2>1, <2>2
  <2>4. con'[v] = mncon'[k]
    BY <1>1, <2>1, <2>2, <2>3 DEF TypeOK
  <2> QED BY <1>1, <2>1, <2>4 DEF Owners
<1> QED BY <1>4, <1>5

\* The single MN gets the contact of another uplink, which keeps it.
LEMMA RehomeFirstBound ==
    ASSUME TypeOK, BoundToLive, NEW u \in Uplinks, NumUplinks > 1, mnlist # <<>>,
           SingleMN, rehome_first(u)
    PROVE  BoundToLive'
<1>1. Other(u) \in Uplinks /\ Other(u) # u
  BY UplinkAssumption DEF Other, Uplinks
<1>2. mnlist[1] \in MNs /\ mnlist[1] \in Registered /\ Registered' = Registered
  BY DEF TypeOK, rehome_first, Registered
<1>3. con'[Other(u)] = con[Other(u)]
  BY <1>1 DEF TypeOK, rehome_first
<1>4. mncon'[mnlist[1]] = con'[Other(u)]
  BY <1>2, <1>3 DEF TypeOK, rehome_first
<1>5. \A k \in MNs : k = mnlist[1]
  BY <1>2 DEF SingleMN
<1> QED BY <1>1, <1>2, <1>4, <1>5 DEF BoundToLive, Owners

LEMMA BoundStep ==
    ASSUME SoundPolicy, TypeOK, BoundToLive, [Next]_vars
    PROVE  BoundToLive'
<1>1. CASE Quiet
  BY <1>1 DEF Quiet, BoundToLive, Owners, Registered
<1>2. ASSUME NEW m \in MNs, Bind(m)
      PROVE  BoundToLive'
  BY <1>2, BindBound
<1>3. ASSUME NEW u \in Uplinks, NewAddress(u)
      PROVE  BoundToLive'
  BY <1>3, NewAddressBound
<1>4. ASSUME NEW u \in Uplinks, Rehome(u)
      PROVE  BoundToLive'
  <2>1. CASE Select # 0
    BY <1>4, <2>1, RehomeBound DEF SoundPolicy, Rehome
  <2>2. CASE Select = 0
    BY <1>4, <2>2, RehomeFirstBound DEF SoundPolicy, Rehome
  <2> QED BY <2>1, <2>2
<1> QED BY <1>1, <1>2, <1>3, <1>4, Effects

\* For a sound policy, an MN entry never keeps the address of an uplink that was
\* lost or readdressed, whatever the order of REGISTERs, packets, new addresses
\* and lost uplinks.
THEOREM BindingsAreLive ==
    ASSUME SoundPolicy
    PROVE  Spec => []BoundToLive
<1>1. Init => BoundToLive
  BY DEF Init, BoundToLive
<1>2. TypeOK /\ BoundToLive /\ [Next]_vars => BoundToLive'
  BY BoundStep
<1> QED BY <1>1, <1>2, TypeCorrect, PTL DEF Spec

-----------------------------------------------------------------------------
(* The weight policy.                                                      *)

LEMMA NoOrphanStep ==
    ASSUME Select = 3, TypeOK, NoOrphan, [Next]_vars
    PROVE  NoOrphan'
<1>1. CASE Quiet
  BY <1>1 DEF Quiet, NoOrphan, Live, Registered
<1>2. ASSUME NEW m \in MNs, Bind(m)
      PROVE  NoOrphan'
  <2>1. Registered' = Registered \cup {m} /\ con' = con
    BY <1>2, WithEntryRegisters DEF Bind
  <2> Select # 0
    OBVIOUS
  <2>2. PICK u \in Uplinks : u \in Live(con) /\ mncon' = [mncon EXCEPT ![m] = con[u]]
    BY <1>2, Zenon DEF Bind
  <2>3. con[u] # None
    BY <2>2 DEF Live
  <2>4. Registered \in SUBSET MNs
    BY RegisteredFinite
  <2> QED BY <2>1, <2>2, <2>3, <2>4 DEF NoOrphan, TypeOK
<1>3. ASSUME NEW u \in Uplinks, NewAddress(u)
      PROVE  NoOrphan'
  <2>1. PICK p \in Prefixes : send_reg_msg(u, <<u, p>>)
    BY <1>3 DEF NewAddress
  <2>2. mncon' = [m \in MNs |-> IF m \in Registered THEN <<u, p>> ELSE mncon[m]]
    BY <2>1 DEF send_reg_msg, Renewed
  <2>3. Registered' = Registered /\ Registered \in SUBSET MNs
    BY <2>1, RegisteredFinite DEF send_reg_msg, Registered
  <2>4. <<u, p>> # None
    BY NoneAssumption DEF Addrs
  <2> QED BY <2>2, <2>3, <2>4 DEF NoOrphan
<1>4. ASSUME NEW u \in Uplinks, rehome_all(u)
      PROVE  NoOrphan'
  <2> DEFINE D == {m \in Registered : mncon[m] = con[u]}
             c == [con EXCEPT ![u] = None]
  <2>1. /\ c \in [Uplinks -> Contacts] /\ con' = c
        /\ Registered' = Registered /\ Registered \in SUBSET MNs
    BY <1>4, RegisteredFinite DEF TypeOK, rehome_all, Contacts, Registered
  <2>2. PICK f \in RehomeContacts(c, D) :
            mncon' = [m \in MNs |-> IF m \in D THEN f[m] ELSE mncon[m]]
    BY <1>4 DEF rehome_all
  <2>3. \A m \in D : Live(c) = {} \/ \E v \in Live(c) : f[m] = c[v]
    <3> HIDE DEF c
    <3> QED BY <2>1, RehomeContactsLive
  <2> SUFFICES ASSUME Live(c) # {}, NEW m \in Registered
               PROVE  mncon'[m] # None
    BY <2>1 DEF NoOrphan
  <2>4. CASE m \in D
    <3>1. PICK v \in Live(c) : f[m] = c[v]
      BY <2>3, <2>4
    <3> QED BY <2>1, <2>2, <2>4, <3>1 DEF Live
  <2>5. CASE m \notin D
    <3>1. Live(con) # {}
      BY DEF Live, TypeOK
    <3> QED BY <2>1, <2>2, <2>5, <3>1 DEF NoOrphan
  <2> QED BY <2>4, <2>5
<1> QED BY <1>1, <1>2, <1>3, <1>4, Effects DEF Rehome

\* In the weight policy no MN is without a contact while an uplink is live, so
\* re_homing and send_reg_msg between them move every MN that has to move.
THEOREM WeightNoOrphan ==
    ASSUME Select = 3
    PROVE  Spec => []NoOrphan
<1>1. Init => NoOrphan
  BY DEF Init, NoOrphan, Live
<1>2. TypeOK /\ NoOrphan /\ [Next]_vars => NoOrphan'
  BY NoOrphanStep
<1> QED BY <1>1, <1>2, TypeCorrect, PTL DEF Spec

\* In the weight policy assert(bu != NULL) of recv never fails: an MN with a
\* contact has one that an uplink owns, and an MN without one is there only when
\* every uplink is dead, so that the lookup by -1 still finds an entry.
THEOREM WeightForwards ==
    ASSUME Select = 3
    PROVE  Spec => []ForwardAssert
<1>1. Init => ForwardAssert
  BY DEF Init, ForwardAssert
<1>2. TypeOK /\ BoundToLive /\ NoOrphan /\ ForwardAssert /\ [Next]_vars => ForwardAssert'
  <2> SUFFICES ASSUME TypeOK, BoundToLive, NoOrphan, ForwardAssert, [Next]_vars
               PROVE  ForwardAssert'
    OBVIOUS
  <2>1. \A m \in Registered : Owners(mncon[m]) # {}
    <3> SUFFICES ASSUME NEW m \in Registered, mncon[m] = None
                 PROVE  Owners(None) # {}
      BY RegisteredFinite DEF BoundToLive
    <3>1. Live(con) = {}
      BY DEF NoOrphan
    <3>2. 1 \in Uplinks
      BY UplinkAssumption DEF Uplinks
    <3> QED BY <3>1, <3>2 DEF Live, Owners
  <2>2. CASE Quiet
    BY <2>1, <2>2 DEF Quiet, ForwardAssert
  <2>3. ASSUME NEW m \in MNs, Bind(m)
        PROVE  ForwardAssert'
    BY <2>3 DEF Bind, ForwardAssert
  <2>4. ASSUME NEW u \in Uplinks, NewAddress(u)
        PROVE  ForwardAssert'
    BY <2>4 DEF NewAddress, send_reg_msg, ForwardAssert
  <2>5. ASSUME NEW u \in Uplinks, rehome_all(u)
        PROVE  ForwardAssert'
    BY <2>5 DEF rehome_all, ForwardAssert
  <2> QED BY <2>2, <2>3, <2>4, <2>5, Effects DEF Rehome
<1>3. Spec => []BoundToLive
  BY BindingsAreLive DEF SoundPolicy
<1> QED BY <1>1, <1>2, <1>3, TypeCorrect, WeightNoOrphan, PTL DEF Spec

\* The scheduled REGISTERs of the router: one that is no longer its uplink's
\* present address is followed by one that is, unless the uplink is lost.
LateFollows ==
    \A k \in DOMAIN late :
        LET a == late[k]
        IN  \/ con[a[1]] \in {None, a}
            \/ \E j \in DOMAIN late : j > k /\ late[j] = con[a[1]]

LEMMA LateStep ==
    ASSUME TypeOK, LateFollows, [Next]_vars
    PROVE  LateFollows'
<1>1. CASE UNCHANGED <<con, late>>
  BY <1>1 DEF LateFollows
<1>2. ASSUME late_register
      PROVE  LateFollows'
  <2>1. /\ late' = Tail(late) /\ con' = con /\ late \in Seq(Addrs) /\ late # <<>>
    BY <1>2 DEF late_register, TypeOK
  <2>2. /\ DOMAIN late = 1..Len(late) /\ Len(late) \in Nat \ {0}
        /\ DOMAIN late' = 1..(Len(late) - 1)
        /\ \A k \in DOMAIN late' : late'[k] = late[k + 1]
    BY <2>1
  <2> SUFFICES ASSUME NEW k \in DOMAIN late', con[late'[k][1]] \notin {None, late'[k]}
               PROVE  \E j \in DOMAIN late' : j > k /\ late'[j] = con[late'[k][1]]
    BY <2>1 DEF LateFollows
  <2>3. k + 1 \in DOMAIN late /\ late'[k] = late[k + 1]
    BY <2>2
  <2>4. PICK j \in DOMAIN late : j > k + 1 /\ late[j] = con[late[k + 1][1]]
    BY <2>3 DEF LateFollows
  <2>5. j - 1 \in DOMAIN late' /\ j - 1 > k /\ late'[j - 1] = late[j]
    BY <2>2, <2>4
  <2> QED BY <2>3, <2>4, <2>5
<1>3. ASSUME NEW u \in Uplinks, NewAddress(u)
      PROVE  LateFollows'
  <2>1. PICK p \in Prefixes : send_reg_msg(u, <<u, p>>)
    BY <1>3 DEF NewAddress
  <2> DEFINE a == <<u, p>>
  <2>2. /\ con' = [con EXCEPT ![u] = a] /\ late' = Append(late, a)
        /\ late \in Seq(Addrs) /\ con \in [Uplinks -> Contacts]
    BY <2>1 DEF send_reg_msg, TypeOK
  <2>3. a[1] = u
    OBVIOUS
  <2> HIDE DEF a
  <2>4. /\ DOMAIN late = 1..Len(late) /\ Len(late) \in Nat
        /\ DOMAIN late' = 1..(Len(late) + 1) /\ late'[Len(late) + 1] = a
        /\ \A k \in DOMAIN late : late'[k] = late[k]
    BY <2>2
  <2> SUFFICES ASSUME NEW k \in DOMAIN late', con'[late'[k][1]] \notin {None, late'[k]}
               PROVE  \E j \in DOMAIN late' : j > k /\ late'[j] = con'[late'[k][1]]
    BY DEF LateFollows
  <2>5. CASE late'[k][1] = u
    <3>1. con'[u] = a
      BY <2>2
    <3>2. k # Len(late) + 1
      BY <2>4, <2>5, <3>1
    <3>3. Len(late) + 1 \in DOMAIN late' /\ Len(late) + 1 > k
      BY <2>4, <3>2
    <3> QED BY <2>4, <2>5, <3>1, <3>3
  <2>6. CASE late'[k][1] # u
    <3>1. k \in DOMAIN late /\ late'[k] = late[k]
      BY <2>3, <2>4, <2>6
    <3>2. late[k][1] \in Uplinks
      BY <2>2, <3>1 DEF Addrs
    <3>3. con'[late[k][1]] = con[late[k][1]]
      BY <2>2, <2>6, <3>1, <3>2
    <3>4. PICK j \in DOMAIN late : j > k /\ late[j] = con[late[k][1]]
      BY <3>1, <3>3 DEF LateFollows
    <3> QED BY <2>4, <3>1, <3>3, <3>4
  <2> QED BY <2>5, <2>6
<1>4. ASSUME NEW u \in Uplinks, Rehome(u)
      PROVE  LateFollows'
  <2>1. con' = [con EXCEPT ![u] = None] /\ late' = late
    BY <1>4 DEF Rehome, rehome_all, rehome_first
  <2>2. late \in Seq(Addrs) /\ con \in [Uplinks -> Contacts]
    BY DEF TypeOK
  <2>3. ASSUME NEW k \in DOMAIN late
        PROVE  con'[late[k][1]] = None \/ con'[late[k][1]] = con[late[k][1]]
    BY <2>1, <2>2 DEF Addrs
  <2> QED BY <2>1, <2>3 DEF LateFollows
<1>5. (\E m \in MNs : recv_register(m)) \/ (\E c \in CNs : recv_refer(c)) => UNCHANGED <<con, late>>
  BY DEF recv_register, recv_refer, Stop
<1>6. (\E m \in MNs : recv_from_mn(m) \/ recv_temp_move(m) \/ recv_mn_bu(m)) => UNCHANGED <<con, late>>
  BY DEF recv_from_mn, recv_temp_move, recv_mn_bu, Forward, Stop
<1>7. (\E c \in CNs, m \in MNs : \/ recv_from_cn(c, m) \/ recv_200ok_from_cn(c, m)
                                \/ recv_200ok_from_mn(c, m) \/ recv_rehoming(c, m)
                                \/ recv_reinvite(c, m))
         => UNCHANGED <<con, late>>
  BY DEF recv_from_cn, recv_200ok_from_cn, recv_200ok_from_mn, recv_rehoming,
         recv_reinvite, Forward, Stop
<1>8. ASSUME NEW u \in Uplinks, re_homing(u)
      PROVE  Rehome(u) \/ UNCHANGED <<con, late>>
  BY <1>8 DEF re_homing, Rehome, Stop
<1>9. UNCHANGED vars => UNCHANGED <<con, late>>
  BY DEF vars
<1> QED BY <1>1, <1>2, <1>3, <1>4, <1>5, <1>6, <1>7, <1>8, <1>9 DEF Next, RecvPacket

\* Each way a packet gets onto an uplink.
LEMMA ForwardOut ==
    ASSUME TypeOK, BoundToLive, NoOrphan, OutThroughLive, NEW m \in Registered, Forward(m)
    PROVE  OutThroughLive'
<1>1. CASE Stop("no_binding")
  BY <1>1 DEF Stop, OutThroughLive, StillCurrent, Live
<1>2. CASE ~Stop("no_binding")
  <2> DEFINE S == Owners(mncon[m])
  <2>1. /\ S # {} /\ sent' = {Packet(7, m, First(S), mncon[m])} /\ con' = con
    BY <1>2 DEF Forward
  <2>2. First(S) \in S
    <3>1. S \in SUBSET Uplinks
      BY DEF Owners
    <3> HIDE DEF S
    <3> QED BY <2>1, <3>1, FirstExists
  <2>3. con[First(S)] = mncon[m]
    BY <2>2 DEF Owners
  <2>4. Live(con) # {} => mncon[m] # None
    BY DEF NoOrphan
  <2> QED BY <2>1, <2>3, <2>4 DEF OutThroughLive, Live, Packet
<1> QED BY <1>1, <1>2

LEMMA OutStep ==
    ASSUME Select = 3, TypeOK, BoundToLive, NoOrphan, LateFollows, OutThroughLive,
           [Next]_vars
    PROVE  OutThroughLive'
<1>1. \A why : Stop(why) => OutThroughLive'
  BY DEF Stop, OutThroughLive, StillCurrent, Live
<1>2. ASSUME sent' = {}
      PROVE  OutThroughLive'
  BY <1>2 DEF OutThroughLive
<1>3. ASSUME NEW u \in Live(con), NEW m, con' = con,
             sent' = {Packet(12, m, u, con[u])}
      PROVE  OutThroughLive'
  BY <1>3 DEF OutThroughLive, Live, Packet
<1>4. ASSUME NEW m \in MNs, recv_register(m)
      PROVE  OutThroughLive'
  <2>1. CASE Stop("no_uplink")
    BY <1>1, <2>1
  <2>2. CASE ~Stop("no_uplink")
    <3>1. PICK u \in Pick(m) : sent' = {Packet(5, m, u, Url(u))} /\ con' = con
      BY <1>4, <2>2 DEF recv_register
    <3>2. u \in Live(con) /\ m # None
      BY PickIsUplink, NoneAssumption
    <3> QED BY <3>1, <3>2 DEF OutThroughLive, Live, Packet
  <2> QED BY <2>1, <2>2
<1>5. ASSUME NEW m \in MNs, recv_from_mn(m)
      PROVE  OutThroughLive'
  BY <1>1, <1>5, ForwardOut DEF recv_from_mn
<1>6. ASSUME NEW c \in CNs, NEW m \in MNs, recv_from_cn(c, m)
      PROVE  OutThroughLive'
  BY <1>1, <1>2, <1>6 DEF recv_from_cn
<1>7. ASSUME NEW c \in CNs, NEW m \in MNs, recv_200ok_from_cn(c, m)
      PROVE  OutThroughLive'
  BY <1>2, <1>7 DEF recv_200ok_from_cn
<1>8. ASSUME NEW c \in CNs, NEW m \in MNs, recv_200ok_from_mn(c, m)
      PROVE  OutThroughLive'
  BY <1>1, <1>8, ForwardOut DEF recv_200ok_from_mn
<1>9. ASSUME NEW c \in CNs, NEW m \in MNs, recv_rehoming(c, m)
      PROVE  OutThroughLive'
  BY <1>6, <1>9 DEF recv_rehoming
<1>10. Live(con) # {} => First(Live(con)) \in Live(con)
  BY LiveUplinks, FirstExists
<1>11. ASSUME NEW c \in CNs, recv_refer(c)
       PROVE  OutThroughLive'
  <2>1. CASE Stop("no_uplink")
    BY <1>1, <2>1
  <2>2. CASE ~Stop("no_uplink")
    BY <1>3, <1>10, <1>11, <2>2 DEF recv_refer
  <2> QED BY <2>1, <2>2
<1>12. ASSUME NEW c \in CNs, NEW m \in MNs, recv_reinvite(c, m)
       PROVE  OutThroughLive'
  BY <1>1, <1>2, <1>12 DEF recv_reinvite
<1>13. ASSUME NEW m \in MNs, recv_mn_bu(m)
       PROVE  OutThroughLive'
  <2>1. CASE Stop("no_uplink")
    BY <1>1, <2>1
  <2>2. CASE ~Stop("no_uplink")
    BY <1>3, <1>10, <1>13, <2>2 DEF recv_mn_bu
  <2> QED BY <2>1, <2>2
<1>14. ASSUME NEW u \in Uplinks, NewAddress(u)
       PROVE  OutThroughLive'
  BY <1>2, <1>14 DEF NewAddress, send_reg_msg
<1>15. ASSUME NEW u \in Uplinks, re_homing(u)
       PROVE  OutThroughLive'
  BY <1>1, <1>2, <1>15 DEF re_homing, rehome_all
<1>16. ASSUME NEW m \in MNs, recv_temp_move(m)
       PROVE  OutThroughLive'
  <2>1. CASE Stop("no_peer")
    BY <1>1, <2>1
  <2>2. CASE ~Stop("no_peer")
    <3>1. /\ m \in Registered /\ con' = con
          /\ sent' = {Packet(6, m, HomeUplink[m], mncon[m])}
      BY <1>16, <2>2 DEF recv_temp_move
    <3>2. Live(con) # {} => \E u \in Live(con) : con[u] = mncon[m]
      BY <3>1 DEF NoOrphan, BoundToLive, Owners, Live
    <3> QED BY <3>1, <3>2 DEF OutThroughLive, Live, Packet
  <2> QED BY <2>1, <2>2
<1>17. ASSUME late_register
       PROVE  OutThroughLive'
  <2>0. PICK a : a = late[1]
    OBVIOUS
  <2>1. /\ late' = Tail(late) /\ con' = con /\ late \in Seq(Addrs) /\ late # <<>>
        /\ Head(late) = a /\ sent' = {Packet(5, None, a[1], a)}
    BY <1>17, <2>0 DEF late_register, TypeOK
  <2>2. /\ DOMAIN late = 1..Len(late) /\ Len(late) \in Nat \ {0}
        /\ DOMAIN late' = 1..(Len(late) - 1)
        /\ \A k \in DOMAIN late' : late'[k] = late[k + 1]
    BY <2>1
  <2>3. con[a[1]] \in {None, a} \/ \E j \in DOMAIN late : j > 1 /\ late[j] = con[a[1]]
    BY <2>0, <2>2 DEF LateFollows
  <2>4. ASSUME NEW j \in DOMAIN late, j > 1
        PROVE  j - 1 \in DOMAIN late' /\ late'[j - 1] = late[j]
    BY <2>2, <2>4
  <2>5. StillCurrent(a)'
    BY <2>1, <2>3, <2>4 DEF StillCurrent
  <2>6. \A p \in sent' : p.method = 5 /\ p.mn = None /\ p.contact = a
    BY <2>1 DEF Packet
  <2> QED BY <2>5, <2>6 DEF OutThroughLive
<1>18. CASE UNCHANGED vars
  BY <1>18 DEF vars, OutThroughLive, StillCurrent, Live
<1> QED
  BY <1>4, <1>5, <1>6, <1>7, <1>8, <1>9, <1>11, <1>12, <1>13, <1>14, <1>15, <1>16,
     <1>17, <1>18
  DEF Next, RecvPacket

\* In the weight policy, while an uplink is live, what the router sends for an MN
\* goes out through a live uplink under the contact that uplink has at this moment:
\* get_mr_ha_entry_by_caddr never finds a dead entry by the contact -1.  The INVITE
\* that answers a 302 carries the contact of a live uplink, and a REGISTER of the
\* router that became stale in its 0.1 s is followed by one that is not.
THEOREM WeightOutThroughLive ==
    ASSUME Select = 3
    PROVE  Spec => []OutThroughLive
<1>1. Init => OutThroughLive /\ LateFollows
  BY DEF Init, OutThroughLive, LateFollows
<1>2. TypeOK /\ LateFollows /\ [Next]_vars => LateFollows'
  BY LateStep
<1>3. TypeOK /\ BoundToLive /\ NoOrphan /\ LateFollows /\ OutThroughLive /\ [Next]_vars
        => OutThroughLive'
  BY OutStep
<1>4. Spec => []BoundToLive
  BY BindingsAreLive DEF SoundPolicy
<1> QED BY <1>1, <1>2, <1>3, <1>4, TypeCorrect, WeightNoOrphan, PTL DEF Spec

-----------------------------------------------------------------------------
(* Facts about every policy.                                               *)

\* No step inserts an entry for an MN that has one.
LEMMA OneEntryStep ==
    ASSUME TypeOK, OneEntry, [Next]_vars
    PROVE  OneEntry'
<1>1. CASE mnlist' = mnlist
  BY <1>1 DEF OneEntry
<1>2. ASSUME NEW m \in MNs, mnlist' = WithEntry(m)
      PROVE  OneEntry'
  <2>1. CASE m \in Registered
    BY <1>1, <1>2, <2>1 DEF WithEntry
  <2>2. CASE m \notin Registered
    <3>1. mnlist' = <<m>> \o mnlist /\ mnlist \in Seq(MNs)
      BY <1>2, <2>2 DEF WithEntry, TypeOK
    <3>2. /\ DOMAIN mnlist' = 1..(Len(mnlist) + 1) /\ Len(mnlist) \in Nat
          /\ DOMAIN mnlist = 1..Len(mnlist) /\ mnlist'[1] = m
          /\ \A k \in DOMAIN mnlist' :
                k # 1 => k - 1 \in DOMAIN mnlist /\ mnlist'[k] = mnlist[k - 1]
      BY <3>1
    <3>3. \A k \in DOMAIN mnlist : mnlist[k] # m
      BY <2>2 DEF Registered
    <3> SUFFICES ASSUME NEW j \in DOMAIN mnlist', NEW k \in DOMAIN mnlist',
                        mnlist'[j] = mnlist'[k]
                 PROVE  j = k
      BY DEF OneEntry
    <3>4. CASE j = 1 \/ k = 1
      BY <3>2, <3>3, <3>4
    <3>5. CASE j # 1 /\ k # 1
      <4>1. j - 1 = k - 1
        BY <3>2, <3>5 DEF OneEntry
      <4> QED BY <3>2, <4>1
    <3> QED BY <3>4, <3>5
  <2> QED BY <2>1, <2>2
<1>3. mnlist' = mnlist \/ \E m \in MNs : mnlist' = WithEntry(m)
  BY Effects DEF Quiet, Bind, NewAddress, send_reg_msg, Rehome, rehome_all, rehome_first
<1> QED BY <1>1, <1>2, <1>3

\* Under every policy an MN has at most one entry in siplist_head_, although
\* REGISTER and method 13 both insert: the loops of re_homing and of the renewal
\* meet each MN once.
THEOREM EntriesAreUnique == Spec => []OneEntry
<1>1. Init => OneEntry
  BY DEF Init, OneEntry
<1>2. TypeOK /\ OneEntry /\ [Next]_vars => OneEntry'
  BY OneEntryStep
<1> QED BY <1>1, <1>2, TypeCorrect, PTL DEF Spec

LEMMA LosesStep ==
    ASSUME Select \in 1..3, TypeOK, [Next]_vars
    PROVE  LosesOnlyLast
<1> SUFFICES ASSUME NEW m \in Registered, mncon[m] # None, mncon'[m] = None
             PROVE  Live(con') = {}
  BY DEF LosesOnlyLast
<1>0. m \in MNs
  BY RegisteredFinite
<1>1. CASE Quiet
  BY <1>1 DEF Quiet
<1>2. ASSUME NEW k \in MNs, Bind(k)
      PROVE  FALSE
  <2> Select # 0
    OBVIOUS
  <2>1. PICK u \in Uplinks : u \in Live(con) /\ mncon' = [mncon EXCEPT ![k] = con[u]]
    BY <1>2, Zenon DEF Bind
  <2>2. con[u] # None
    BY <2>1 DEF Live
  <2> QED BY <1>0, <2>1, <2>2 DEF TypeOK
<1>3. ASSUME NEW u \in Uplinks, NewAddress(u)
      PROVE  FALSE
  <2>1. PICK p \in Prefixes : send_reg_msg(u, <<u, p>>)
    BY <1>3 DEF NewAddress
  <2>2. <<u, p>> # None
    BY NoneAssumption DEF Addrs
  <2> QED BY <1>0, <2>1, <2>2 DEF send_reg_msg
<1>4. ASSUME NEW u \in Uplinks, rehome_all(u)
      PROVE  Live(con') = {}
  <2> DEFINE D == {k \in Registered : mncon[k] = con[u]}
             c == [con EXCEPT ![u] = None]
  <2>1. c \in [Uplinks -> Contacts] /\ con' = c
    BY <1>4 DEF TypeOK, rehome_all, Contacts
  <2>2. PICK f \in RehomeContacts(c, D) :
            mncon' = [k \in MNs |-> IF k \in D THEN f[k] ELSE mncon[k]]
    BY <1>4 DEF rehome_all
  <2>3. m \in D /\ f[m] = None
    BY <1>0, <2>2
  <2>4. Live(c) = {} \/ \E v \in Live(c) : f[m] = c[v]
    <3> HIDE DEF c
    <3> QED BY <2>1, <2>3, RehomeContactsLive
  <2> QED BY <2>1, <2>3, <2>4 DEF Live
<1> QED BY <1>1, <1>2, <1>3, <1>4, Effects DEF Rehome

\* Under random, round robin and weight a bound MN loses its contact only in the
\* step that takes the last uplink: the rehome loops find every live uplink.
THEOREM ContactsLostLast ==
    ASSUME Select \in 1..3
    PROVE  Spec => [][LosesOnlyLast]_vars
<1>1. TypeOK /\ [Next]_vars => [LosesOnlyLast]_vars
  BY LosesStep
<1> QED BY <1>1, TypeCorrect, PTL DEF Spec

-----------------------------------------------------------------------------
(* Addresses and how they change.                                          *)

\* compute_new_address keeps the host part, so an uplink only ever has an address
\* of its own.
Own(c) == \A u \in Uplinks : c[u] # None => c[u][1] = u
OwnAddress == Own(con)

\* No step gives an uplink an address of another one.
LEMMA OwnAddressStep ==
    ASSUME TypeOK, OwnAddress, [Next]_vars
    PROVE  OwnAddress'
<1>1. CASE con' = con
  BY <1>1 DEF OwnAddress, Own
<1>2. ASSUME NEW u \in Uplinks, NewAddress(u)
      PROVE  OwnAddress'
  BY <1>2 DEF NewAddress, send_reg_msg, OwnAddress, Own, TypeOK
<1>3. ASSUME NEW u \in Uplinks, Rehome(u)
      PROVE  OwnAddress'
  <2>1. con' = [con EXCEPT ![u] = None]
    BY <1>3 DEF Rehome, rehome_all, rehome_first
  <2> QED BY <2>1 DEF OwnAddress, Own, TypeOK
<1>4. Quiet \/ (\E m \in MNs : Bind(m)) => con' = con
  BY DEF Quiet, Bind
<1> QED BY <1>1, <1>2, <1>3, <1>4, Effects

\* A lost uplink is lost by re_homing.
LEMMA LostByRehome ==
    ASSUME TypeOK, [Next]_vars, NEW u \in Uplinks, con[u] # None, con'[u] = None
    PROVE  Rehome(u)
<1>1. ~(con' = con)
  OBVIOUS
<1>2. ASSUME NEW v \in Uplinks, NewAddress(v)
      PROVE  FALSE
  <2>1. PICK p \in Prefixes : con' = [con EXCEPT ![v] = <<v, p>>]
    BY <1>2 DEF NewAddress, send_reg_msg
  <2>2. <<v, p>> # None
    BY NoneAssumption DEF Addrs
  <2> QED BY <2>1, <2>2 DEF TypeOK
<1>3. ASSUME NEW v \in Uplinks, Rehome(v)
      PROVE  v = u
  <2>1. con' = [con EXCEPT ![v] = None]
    BY <1>3 DEF Rehome, rehome_all, rehome_first
  <2> QED BY <2>1 DEF TypeOK
<1> QED BY <1>1, <1>2, <1>3, Effects DEF Quiet, Bind

\* A new address comes from NewAddress.
LEMMA GainedByNewAddress ==
    ASSUME TypeOK, [Next]_vars, NEW u \in Uplinks, con'[u] # None, con'[u] # con[u]
    PROVE  NewAddress(u)
<1>1. ASSUME NEW v \in Uplinks, NewAddress(v)
      PROVE  v = u
  <2>1. PICK p \in Prefixes : con' = [con EXCEPT ![v] = <<v, p>>]
    BY <1>1 DEF NewAddress, send_reg_msg
  <2> QED BY <2>1 DEF TypeOK
<1>2. ASSUME NEW v \in Uplinks, Rehome(v)
      PROVE  FALSE
  <2>1. con' = [con EXCEPT ![v] = None]
    BY <1>2 DEF Rehome, rehome_all, rehome_first
  <2> QED BY <2>1 DEF TypeOK
<1> QED BY <1>1, <1>2, Effects DEF Quiet, Bind

-----------------------------------------------------------------------------
(* Round robin: the turns.                                                 *)

\* A number is its quotient times the divisor plus its remainder.
LEMMA DivMod ==
    ASSUME NEW x \in Nat, NEW n \in Nat, n > 0
    PROVE  \E q \in Nat : x = n * q + (x % n)
<1> DEFINE q == x \div n
<1>1. q \in Nat /\ x = n * q + (x % n)
  OBVIOUS
<1> QED BY <1>1

\* The remainder of n * q + r is r.
LEMMA ModUnique ==
    ASSUME NEW n \in Nat, n > 0, NEW q \in Nat, NEW r \in 0..(n - 1)
    PROVE  (n * q + r) % n = r
<1> DEFINE x == n * q + r
<1>1. x \in Nat
  OBVIOUS
<1>2. PICK p \in Nat : x = n * p + (x % n)
  BY <1>1, DivMod
<1>3. x % n \in 0..(n - 1)
  <2> HIDE DEF x
  <2> QED BY <1>1, ModRange
<1> DEFINE s == x % n
<1>4. n * p + s = n * q + r /\ s \in 0..(n - 1)
  BY <1>2, <1>3
<1>5. ASSUME p < q PROVE FALSE
  <2>1. n * q >= n * p + n
    BY <1>5
  <2> HIDE DEF s
  <2> QED BY <1>4, <2>1
<1>6. ASSUME q < p PROVE FALSE
  <2>1. n * p >= n * q + n
    BY <1>6
  <2> HIDE DEF s
  <2> QED BY <1>4, <2>1
<1>7. p = q
  BY <1>5, <1>6
<1> HIDE DEF s
<1>8. s = r
  BY <1>4, <1>7
<1> QED BY <1>8 DEF s

\* The turns 0..N-1 on which a counter that starts at rc gives x modulo n.
Turns(N, n, rc, x) == {r \in 0..(N - 1) : (rc + r) % n = x}

\* Two different numbers with the same remainder are at least the divisor apart.
LEMMA ModApart ==
    ASSUME NEW n \in Nat, n > 0, NEW x \in Nat, NEW y \in Nat, x < y, x % n = y % n
    PROVE  y >= x + n
<1>1. PICK p \in Nat : x = n * p + (x % n)
  BY DivMod
<1>2. PICK q \in Nat : y = n * q + (y % n)
  BY DivMod
<1> DEFINE s == x % n
<1>3. s \in Nat
  BY ModRange
<1>4. x = n * p + s /\ y = n * q + s
  BY <1>1, <1>2
<1> HIDE DEF s
<1>5. q > p
  <2> SUFFICES ASSUME q <= p PROVE FALSE
    OBVIOUS
  <2>1. n * q <= n * p
    OBVIOUS
  <2> QED BY <2>1, <1>3, <1>4
<1>6. n * q >= n * p + n
  BY <1>5
<1> QED BY <1>3, <1>4, <1>6

\* Going back by less than n from a number of at least n reaches every remainder.
LEMMA ModBack ==
    ASSUME NEW n \in Nat, n > 0, NEW a \in 0..(n - 1), NEW b \in 0..(n - 1),
           NEW x \in Nat, x % n = a, x >= n
    PROVE  (x - (IF b <= a THEN a - b ELSE a - b + n)) % n = b
<1>1. PICK q \in Nat : x = n * q + a
  BY DivMod
<1>2. q >= 1
  <2> SUFFICES ASSUME q = 0 PROVE FALSE
    OBVIOUS
  <2> QED BY <1>1
<1> DEFINE d == IF b <= a THEN a - b ELSE a - b + n
           k == IF b <= a THEN q ELSE q - 1
<1>3. k \in Nat
  BY <1>2
<1>4. n * (q - 1) = n * q - n
  OBVIOUS
<1>5. x - d = n * k + b
  BY <1>1, <1>4
<1>6. (n * k + b) % n = b
  BY <1>3, ModUnique
<1> QED BY <1>5, <1>6

\* Round robin over N turns: no residue comes up more than once more than
\* another.
LEMMA TurnsEven ==
    ASSUME NEW N \in Nat, NEW n \in Nat, n > 0, NEW rc \in Nat,
           NEW a \in 0..(n - 1), NEW b \in 0..(n - 1)
    PROVE  Cardinality(Turns(N, n, rc, a)) <= Cardinality(Turns(N, n, rc, b)) + 1
<1> DEFINE A == Turns(N, n, rc, a)
           B == Turns(N, n, rc, b)
<1>1. \A x : /\ Turns(N, n, rc, x) \in SUBSET (0..(N - 1))
             /\ IsFiniteSet(Turns(N, n, rc, x)) /\ Cardinality(Turns(N, n, rc, x)) \in Nat
  <2> TAKE x
  <2>1. Turns(N, n, rc, x) \in SUBSET (0..(N - 1))
    BY DEF Turns
  <2>2. IsFiniteSet(0..(N - 1))
    BY FS_Interval
  <2>3. IsFiniteSet(Turns(N, n, rc, x))
    BY <2>1, <2>2, FS_Subset
  <2> QED BY <2>1, <2>3, FS_CardinalityType
<1>2. CASE A = {}
  <2>1. Cardinality(A) = 0
    BY <1>2, FS_EmptySet
  <2> QED BY <1>1, <2>1
<1>3. CASE A # {}
  <2>1. A \subseteq Nat
    BY <1>1
  <2>2. PICK least \in A : \A y \in A : least <= y
    <3> HIDE DEF A
    <3> QED BY <1>3, <2>1, LeastNat
  <2> DEFINE d == IF b <= a THEN a - b ELSE a - b + n
             R == A \ {least}
             f == [r \in R |-> r - d]
  <2>3. d \in Nat /\ d < n
    OBVIOUS
  <2>4. ASSUME NEW r \in R
        PROVE  r - d \in B
    <3>1. /\ r \in Nat /\ r \in 0..(N - 1) /\ least \in Nat /\ least < r
          /\ (rc + r) % n = a /\ (rc + least) % n = a
      BY <2>1, <2>2 DEF Turns
    <3>2. rc + r >= rc + least + n
      <4>1. rc + r \in Nat /\ rc + least \in Nat /\ rc + least < rc + r
        BY <3>1
      <4> QED BY <3>1, <4>1, ModApart
    <3>3. (rc + (r - d)) % n = b
      <4>1. rc + r \in Nat /\ rc + r >= n
        BY <3>1, <3>2
      <4> DEFINE x == rc + r
      <4>2. x \in Nat /\ x >= n /\ x % n = a
        BY <3>1, <4>1
      <4> HIDE DEF x
      <4>3. (x - d) % n = b
        BY <4>2, ModBack
      <4>4. x - d = rc + (r - d)
        <5> HIDE DEF d
        <5> QED BY <2>3, <3>1 DEF x
      <4> QED BY <4>3, <4>4
    <3>4. r - d \in 0..(N - 1)
      <4> HIDE DEF d
      <4> QED BY <2>3, <3>1, <3>2
    <3> QED BY <3>3, <3>4 DEF Turns
  <2>5. f \in Injection(R, B)
    <3>1. f \in [R -> B]
      BY <2>4
    <3>2. \A r, s \in R : f[r] = f[s] => r = s
      <4> HIDE DEF d
      <4> QED BY <2>1, <2>3
    <3> HIDE DEF f
    <3> QED BY <3>1, <3>2 DEF Injection, IsInjective
  <2>6. Cardinality(R) <= Cardinality(B)
    <3> HIDE DEF R, B, f
    <3> QED BY <1>1, <2>5, FS_Injection DEF B
  <2>7. Cardinality(R) = Cardinality(A) - 1
    <3> HIDE DEF A
    <3>1. IsFiniteSet(A)
      BY <1>1 DEF A
    <3> QED BY <2>2, <3>1, FS_RemoveElement
  <2> HIDE DEF A, B, R
  <2> QED BY <1>1, <2>6, <2>7 DEF A, B
<1> QED BY <1>2, <1>3

\* Pos finds the MN's entry of the list.
LEMMA PosFinds ==
    ASSUME NEW m \in Registered
    PROVE  Pos(m) \in DOMAIN mnlist /\ mnlist[Pos(m)] = m
<1>1. \E k \in DOMAIN mnlist : mnlist[k] = m
  BY DEF Registered
<1> QED BY <1>1 DEF Pos

\* The list scan meets the MNs of D one after the other.
LEMMA RankBijection ==
    ASSUME TypeOK, NEW D \in SUBSET Registered
    PROVE  [m \in D |-> Rank(m, D)] \in Bijection(D, 0..(Cardinality(D) - 1))
<1> DEFINE key == [m \in D |-> Pos(m)]
           f == [m \in D |-> Cardinality({d \in D : key[d] < key[m]})]
<1>1. IsFiniteSet(D)
  BY RegisteredFinite, FS_Subset
<1>2. DOMAIN mnlist \subseteq Nat
  BY DEF TypeOK
<1>3. key \in [D -> Nat] /\ \A u, w \in D : key[u] = key[w] => u = w
  BY <1>2, PosFinds
<1>4. f \in Bijection(D, 0..(Cardinality(D) - 1))
  <2> HIDE DEF key
  <2> QED BY <1>1, <1>3, CountBelow
<1>5. \A m \in D : {d \in D : key[d] < key[m]} = {d \in D : Pos(d) < Pos(m)}
  OBVIOUS
<1>6. f = [m \in D |-> Rank(m, D)]
  BY <1>5 DEF Rank
<1> QED BY <1>4, <1>6

\* The MNs whose turn gives x are as many as there are such turns.
LEMMA TurnsOfMNs ==
    ASSUME TypeOK, NEW D \in SUBSET Registered, NEW n \in Nat, n > 0, NEW rc \in Nat, NEW x
    PROVE  Cardinality({m \in D : (rc + Rank(m, D)) % n = x})
              = Cardinality(Turns(Cardinality(D), n, rc, x))
<1> DEFINE N == Cardinality(D)
           r == [m \in D |-> Rank(m, D)]
           A == {m \in D : (rc + Rank(m, D)) % n = x}
           B == Turns(N, n, rc, x)
           g == [m \in A |-> r[m]]
<1>1. IsFiniteSet(D)
  BY RegisteredFinite, FS_Subset
<1>2. IsFiniteSet(A)
  <2>1. A \in SUBSET D
    OBVIOUS
  <2> QED BY <1>1, <2>1, FS_Subset
<1>3. r \in Bijection(D, 0..(N - 1))
  BY RankBijection
<1>4. /\ \A m \in D : r[m] \in 0..(N - 1) /\ r[m] = Rank(m, D)
      /\ \A u, w \in D : r[u] = r[w] => u = w
      /\ \A t \in 0..(N - 1) : \E m \in D : r[m] = t
  <2>1. \A m \in D : r[m] = Rank(m, D)
    OBVIOUS
  <2> HIDE DEF r, N
  <2> QED BY <1>3, <2>1 DEF Bijection, Injection, Surjection, IsInjective
<1>5. g \in Bijection(A, B)
  <2> HIDE DEF r, N
  <2>1. g \in [A -> B]
    BY <1>4 DEF Turns
  <2>2. \A u, w \in A : g[u] = g[w] => u = w
    BY <1>4
  <2>3. \A t \in B : \E m \in A : g[m] = t
    <3> SUFFICES ASSUME NEW t \in B
                 PROVE  \E m \in A : g[m] = t
      OBVIOUS
    <3>1. t \in 0..(N - 1) /\ (rc + t) % n = x
      BY DEF Turns
    <3>2. PICK m \in D : r[m] = t
      BY <1>4, <3>1
    <3>3. m \in A
      BY <1>4, <3>1, <3>2
    <3> QED BY <3>2, <3>3
  <2> HIDE DEF A, B, g
  <2> QED BY <2>1, <2>2, <2>3 DEF Bijection, Injection, Surjection, IsInjective
<1> HIDE DEF A, B, g
<1>6. Cardinality(B) = Cardinality(A)
  BY <1>2, <1>5, FS_Bijection DEF ExistsBijection
<1> QED BY <1>6 DEF A, B, N

-----------------------------------------------------------------------------
(* Round robin: re_homing.                                                 *)

\* The MNs that round robin gives to uplink v are those whose turn is v's index.
LEMMA RoundTurns ==
    ASSUME TypeOK, OwnAddress, Select = 2, NEW u \in Uplinks, rehome_all(u), con[u] # None,
           NEW v \in Live(con')
    PROVE  LET D == {m \in Registered : mncon[m] = con[u]}
               n == Cardinality(Live(con'))
           IN  \E k \in 0..(n - 1) :
                  Cardinality({m \in D : mncon'[m] = con[v]})
                     = Cardinality(Turns(Cardinality(D), n, round_count, k))
<1> DEFINE D == {m \in Registered : mncon[m] = con[u]}
           c == [con EXCEPT ![u] = None]
           L == Live(c)
           n == Cardinality(L)
<1>1. /\ con' = c /\ c \in [Uplinks -> Contacts] /\ con \in [Uplinks -> Contacts]
      /\ D \in SUBSET Registered /\ Registered \in SUBSET MNs
      /\ round_count \in Nat
  BY RegisteredFinite, RoundAssumption DEF rehome_all, TypeOK, Contacts
<1>2. PICK f \in RehomeContacts(c, D) :
          mncon' = [m \in MNs |-> IF m \in D THEN f[m] ELSE mncon[m]]
  BY DEF rehome_all
<1>3. L \in SUBSET Uplinks /\ n \in Nat /\ n > 0 /\ v \in L
  BY <1>1, LiveUplinks
<1>4. f = [m \in D |-> c[Nth(L, (round_count + Rank(m, D)) % n)]]
  <2> HIDE DEF c, D
  <2> QED BY <1>3 DEF RehomeContacts
<1>5. PICK k \in 0..(n - 1) : \A j \in 0..(n - 1) : Nth(L, j) = v <=> j = k
  <2> HIDE DEF L
  <2> QED BY <1>3, NthIndex
<1>6. \A w \in L : c[w] = con[v] <=> w = v
  <2>1. v \in Uplinks /\ c[v] # None /\ v # u /\ c[v] = con[v] /\ con[v][1] = v
    BY <1>1, <1>3 DEF Live, OwnAddress, Own
  <2>2. \A w \in L : w \in Uplinks /\ c[w] = con[w] /\ con[w][1] = w
    BY <1>1 DEF Live, OwnAddress, Own
  <2> HIDE DEF L, c
  <2> QED BY <2>1, <2>2
<1>7. \A m \in D : /\ (round_count + Rank(m, D)) % n \in 0..(n - 1)
                   /\ Nth(L, (round_count + Rank(m, D)) % n) \in L
  <2> TAKE m \in D
  <2>1. round_count + Rank(m, D) \in Nat
    <3>1. Rank(m, D) \in Nat
      <4> HIDE DEF D
      <4> QED BY <1>1, RankNat
    <3> QED BY <1>1, <3>1
  <2> DEFINE t == (round_count + Rank(m, D)) % n
  <2>2. t \in Nat /\ t < n
    <3> HIDE DEF D, n
    <3> QED BY <1>3, <2>1, ModRange
  <2> HIDE DEF t, L
  <2>3. Nth(L, t) \in L
    BY <1>3, <2>2, NthExists
  <2> QED BY <1>3, <2>2, <2>3 DEF t
<1>8. \A m \in D : mncon'[m] = con[v] <=> (round_count + Rank(m, D)) % n = k
  <2> TAKE m \in D
  <2> DEFINE t == (round_count + Rank(m, D)) % n
  <2>1. mncon'[m] = c[Nth(L, t)]
    BY <1>1, <1>2, <1>4
  <2>2. t \in 0..(n - 1) /\ Nth(L, t) \in L
    BY <1>7
  <2> HIDE DEF t, L, c, D, n
  <2> QED BY <1>5, <1>6, <2>1, <2>2 DEF t
<1>9. {m \in D : mncon'[m] = con[v]} = {m \in D : (round_count + Rank(m, D)) % n = k}
  BY <1>8
<1>10. Cardinality({m \in D : (round_count + Rank(m, D)) % n = k})
         = Cardinality(Turns(Cardinality(D), n, round_count, k))
  <2> HIDE DEF D, n
  <2> QED BY <1>1, <1>3, TurnsOfMNs
<1>11. Live(con') = L
  BY <1>1
<1> HIDE DEF L, c, D
<1>12. \E j \in 0..(n - 1) :
         Cardinality({m \in D : mncon'[m] = con[v]})
            = Cardinality(Turns(Cardinality(D), n, round_count, j))
  BY <1>9, <1>10
<1> QED BY <1>11, <1>12 DEF D

\* Every step of round robin has EvenSpread: only re_homing loses an address.
LEMMA EvenStep ==
    ASSUME TypeOK, OwnAddress, Select = 2, [Next]_vars
    PROVE  EvenSpread
<1> SUFFICES ASSUME NEW u \in Uplinks, con[u] # None, con'[u] = None,
                    NEW v \in Live(con'), NEW w \in Live(con')
             PROVE  LET D == {m \in Registered : mncon[m] = con[u]}
                        share(x) == Cardinality({m \in D : mncon'[m] = con[x]})
                    IN  share(v) <= share(w) + 1
  BY DEF EvenSpread
<1> DEFINE D == {m \in Registered : mncon[m] = con[u]}
           n == Cardinality(Live(con'))
           share(x) == Cardinality({m \in D : mncon'[m] = con[x]})
<1>1. rehome_all(u)
  BY LostByRehome DEF Rehome
<1>2. PICK j \in 0..(n - 1) :
         share(v) = Cardinality(Turns(Cardinality(D), n, round_count, j))
  BY <1>1, RoundTurns
<1>3. PICK k \in 0..(n - 1) :
         share(w) = Cardinality(Turns(Cardinality(D), n, round_count, k))
  BY <1>1, RoundTurns
<1>4. n \in Nat /\ n > 0 /\ round_count \in Nat /\ Cardinality(D) \in Nat
  <2>1. D \in SUBSET Registered
    OBVIOUS
  <2>2. IsFiniteSet(D)
    <3> HIDE DEF D
    <3> QED BY <2>1, RegisteredFinite, FS_Subset
  <2>3. Cardinality(D) \in Nat
    <3> HIDE DEF D
    <3> QED BY <2>2, FS_CardinalityType
  <2> HIDE DEF D
  <2> QED BY <2>3, LiveUplinks, RoundAssumption DEF TypeOK
<1>5. share(v) <= share(w) + 1
  <2> HIDE DEF D, n, share
  <2> QED BY <1>2, <1>3, <1>4, TurnsEven
<1> QED BY <1>5

\* In round robin re_homing spreads the MNs of the lost uplink evenly: of the
\* uplinks that are left none takes more than one MN more than another, wherever
\* round_count stands and however many MNs and uplinks there are.
THEOREM RoundSpreadsEvenly ==
    ASSUME Select = 2
    PROVE  Spec => [][EvenSpread]_vars
<1>1. Init => OwnAddress
  BY DEF Init, OwnAddress, Own
<1>2. TypeOK /\ OwnAddress /\ [Next]_vars => OwnAddress' /\ [EvenSpread]_vars
  BY OwnAddressStep, EvenStep
<1> QED BY <1>1, <1>2, TypeCorrect, PTL DEF Spec

-----------------------------------------------------------------------------
(* Round robin: the loop of renew_mn_coa_entry_round_robin.                *)

ScanStates == [old1 : Contacts, c1 : Nat, c2 : Nat, nw : Nat]
ScanStart == [old1 |-> None, c1 |-> 0, c2 |-> 0, nw |-> 0]

\* f holds the variables of the loop after each of the first n iterations.
IsScan(f, n) ==
    /\ f \in [0..n -> ScanStates]
    /\ f[0] = ScanStart
    /\ \A k \in 1..n : f[k] = RenewStep(f[k - 1], mnlist[k])

Scan(o, a, b, w) == [old1 |-> o, c1 |-> a, c2 |-> b, nw |-> w]

\* The iteration by cases: the first MN, an MN with the contact of the first one
\* (kept or moved by its count), the first MN with another contact, and an MN
\* with another contact (kept or moved by their count).
LEMMA RenewStepCases ==
    ASSUME NEW o, NEW a \in Nat, NEW b \in Nat, NEW w \in Nat, NEW m
    PROVE  LET s == RenewStep(Scan(o, a, b, w), m)
           IN  /\ a = 0 => s = Scan(mncon[m], 1, b, w + 1)
               /\ a > 0 /\ mncon[m] = o =>
                     s = IF a <= w THEN Scan(o, a + 1, b, w) ELSE Scan(o, a, b, w + 1)
               /\ a > 0 /\ mncon[m] # o /\ b = 0 => s = Scan(o, a, 1, w + 1)
               /\ a > 0 /\ mncon[m] # o /\ b > 0 =>
                     s = IF b <= w THEN Scan(o, a, b + 1, w) ELSE Scan(o, a, b, w + 1)
<1> DEFINE r == Scan(o, a, b, w)
           t == Scan(o, a, b, w + 1)
<1>0. r.old1 = o /\ r.c1 = a /\ r.c2 = b /\ r.nw = w /\ [r EXCEPT !.nw = @ + 1] = t
  BY DEF Scan
<1>1. CASE a = 0
  <2>1. [t EXCEPT !.old1 = mncon[m], !.c1 = 1] = Scan(mncon[m], 1, b, w + 1)
    <3>1. [t EXCEPT !.old1 = mncon[m]] = Scan(mncon[m], a, b, w + 1)
      BY DEF Scan
    <3>2. [Scan(mncon[m], a, b, w + 1) EXCEPT !.c1 = 1] = Scan(mncon[m], 1, b, w + 1)
      BY DEF Scan
    <3> QED BY <3>1, <3>2
  <2> HIDE DEF r, t
  <2>2. RenewStep(r, m) = [[r EXCEPT !.nw = @ + 1] EXCEPT !.old1 = mncon[m], !.c1 = 1]
    BY <1>0, <1>1 DEF RenewStep
  <2>3. RenewStep(r, m) = [t EXCEPT !.old1 = mncon[m], !.c1 = 1]
    BY <1>0, <2>2, Zenon
  <2> QED BY <1>1, <2>1, <2>3 DEF r
<1>2. CASE a > 0 /\ mncon[m] = o
  BY <1>2 DEF RenewStep, Scan
<1>3. CASE a > 0 /\ mncon[m] # o /\ b = 0
  <2>1. [t EXCEPT !.c2 = 1] = Scan(o, a, 1, w + 1)
    BY DEF Scan
  <2> HIDE DEF r, t
  <2>2. RenewStep(r, m) = [[r EXCEPT !.nw = @ + 1] EXCEPT !.c2 = 1]
    BY <1>0, <1>3 DEF RenewStep
  <2>3. RenewStep(r, m) = [t EXCEPT !.c2 = 1]
    BY <1>0, <2>2, Zenon
  <2> QED BY <1>3, <2>1, <2>3 DEF r
<1>4. CASE a > 0 /\ mncon[m] # o /\ b > 0
  BY <1>4 DEF RenewStep, Scan
<1> QED BY <1>1, <1>2, <1>3, <1>4

\* One iteration of the loop keeps the types of its counters.
LEMMA RenewStepType ==
    ASSUME TypeOK, NEW s \in ScanStates, NEW m \in MNs
    PROVE  RenewStep(s, m) \in ScanStates
<1>1. PICK o \in Contacts, a \in Nat, b \in Nat, w \in Nat : s = Scan(o, a, b, w)
  BY DEF ScanStates, Scan
<1>2. mncon[m] \in Contacts
  BY DEF TypeOK
<1>3. \A p \in Contacts, i, j, k \in Nat : Scan(p, i, j, k) \in ScanStates
  BY DEF ScanStates, Scan
<1> QED BY <1>1, <1>2, <1>3, RenewStepCases

\* The function by which the loop is written exists: a least index at which the
\* values below leave the next one undefined would be a contradiction.
LEMMA ScanExists ==
    ASSUME TypeOK, NEW n \in 0..Len(mnlist)
    PROVE  \E f : IsScan(f, n)
<1>0. Len(mnlist) \in Nat /\ \A k \in 1..Len(mnlist) : mnlist[k] \in MNs
  BY DEF TypeOK
<1> DEFINE T == {k \in 0..Len(mnlist) : ~\E f : IsScan(f, k)}
<1> SUFFICES ASSUME T # {} PROVE FALSE
  OBVIOUS
<1>1. T \subseteq Nat
  BY <1>0
<1>2. PICK k \in T : \A j \in T : k <= j
  <2> HIDE DEF T
  <2> QED BY <1>1, LeastNat
<1>3. k # 0
  <2> DEFINE f == [j \in 0..0 |-> ScanStart]
  <2>1. IsScan(f, 0)
    BY DEF IsScan, ScanStart, ScanStates, Contacts
  <2> QED BY <1>2, <2>1
<1>4. k \in Nat /\ k - 1 \in 0..Len(mnlist) /\ k \in 1..Len(mnlist)
  BY <1>0, <1>2, <1>3
<1>5. PICK f : IsScan(f, k - 1)
  <2>1. k - 1 \notin T
    BY <1>1, <1>2, <1>4
  <2> QED BY <1>4, <2>1
<1> DEFINE g == [j \in 0..k |-> IF j = k THEN RenewStep(f[k - 1], mnlist[k]) ELSE f[j]]
<1>6. f \in [0..(k - 1) -> ScanStates]
  BY <1>5 DEF IsScan
<1>7. RenewStep(f[k - 1], mnlist[k]) \in ScanStates
  BY <1>0, <1>4, <1>6, RenewStepType
<1>8. g \in [0..k -> ScanStates]
  <2> DEFINE x == RenewStep(f[k - 1], mnlist[k])
  <2> HIDE DEF x
  <2>1. x \in ScanStates
    BY <1>7 DEF x
  <2> QED BY <1>4, <1>6, <2>1 DEF x
<1>9. g[0] = ScanStart
  BY <1>3, <1>4, <1>5 DEF IsScan
<1>10. \A j \in 1..k : g[j] = RenewStep(g[j - 1], mnlist[j])
  <2> TAKE j \in 1..k
  <2>1. j - 1 \in 0..k /\ j - 1 # k /\ g[j - 1] = f[j - 1]
    BY <1>4
  <2>2. CASE j = k
    BY <1>4, <2>1, <2>2
  <2>3. CASE j # k
    <3>1. j \in 1..(k - 1) /\ g[j] = f[j]
      BY <1>4, <2>3
    <3>2. f[j] = RenewStep(f[j - 1], mnlist[j])
      BY <1>5, <3>1 DEF IsScan
    <3> QED BY <2>1, <3>1, <3>2
  <2> QED BY <2>2, <2>3
<1>11. IsScan(g, k)
  <2> HIDE DEF g
  <2> QED BY <1>8, <1>9, <1>10 DEF IsScan
<1> QED BY <1>2, <1>11

\* RenewMoved in terms of the loop.
LEMMA RenewMovedScan ==
    ASSUME TypeOK
    PROVE  \E f : /\ IsScan(f, Len(mnlist))
                  /\ RenewMoved = {mnlist[k] : k \in {j \in DOMAIN mnlist :
                                                       f[j].nw # f[j - 1].nw}}
<1> DEFINE N == Len(mnlist)
           IsFix(f) == f = [k \in 0..N |-> IF k = 0 THEN ScanStart
                                           ELSE RenewStep(f[k - 1], mnlist[k])]
           scan == CHOOSE f : IsFix(f)
<1>0. N \in Nat /\ \A k \in 1..N : mnlist[k] \in MNs
  BY DEF TypeOK
<1>1. PICK g : IsScan(g, N)
  BY <1>0, ScanExists
<1>2. IsFix(g)
  <2>1. g = [k \in 0..N |-> g[k]]
    BY <1>1 DEF IsScan
  <2>2. \A k \in 0..N : g[k] = IF k = 0 THEN ScanStart ELSE RenewStep(g[k - 1], mnlist[k])
    <3> TAKE k \in 0..N
    <3>1. CASE k = 0
      BY <1>1, <3>1 DEF IsScan
    <3>2. CASE k # 0
      <4>1. k \in 1..N
        BY <1>0, <3>2
      <4> QED BY <1>1, <3>2, <4>1 DEF IsScan
    <3> QED BY <3>1, <3>2
  <2> HIDE DEF N
  <2> QED BY <2>1, <2>2
<1>3. IsFix(scan)
  BY <1>2
<1>4. scan = g
  <2> HIDE DEF scan
  <2>1. /\ scan = [k \in 0..N |-> scan[k]] /\ scan[0] = ScanStart
        /\ \A k \in 1..N : scan[k] = RenewStep(scan[k - 1], mnlist[k])
    <3> HIDE DEF N
    <3>1. scan = [k \in 0..N |-> scan[k]]
      BY <1>3
    <3>2. \A k \in 0..N : scan[k] = IF k = 0 THEN ScanStart
                                     ELSE RenewStep(scan[k - 1], mnlist[k])
      BY <1>3
    <3>3. 0 \in 0..N /\ \A k \in 1..N : k \in 0..N /\ k # 0
      BY <1>0
    <3> QED BY <3>1, <3>2, <3>3
  <2>2. /\ g = [k \in 0..N |-> g[k]] /\ g[0] = ScanStart
        /\ \A k \in 1..N : g[k] = RenewStep(g[k - 1], mnlist[k])
    BY <1>1 DEF IsScan
  <2> DEFINE T == {k \in 0..N : scan[k] # g[k]}
  <2>3. CASE T = {}
    BY <2>1, <2>2, <2>3
  <2>4. CASE T # {}
    <3>1. T \subseteq Nat
      BY <1>0
    <3>2. PICK k \in T : \A j \in T : k <= j
      <4> HIDE DEF T
      <4> QED BY <2>4, <3>1, LeastNat
    <3>3. k \in 1..N /\ k - 1 \in 0..N /\ k - 1 \notin T
      BY <1>0, <2>1, <2>2, <3>1, <3>2
    <3> QED BY <2>1, <2>2, <3>2, <3>3
  <2> QED BY <2>3, <2>4
<1>5. RenewMoved = {mnlist[k] : k \in {j \in DOMAIN mnlist : scan[j].nw # scan[j - 1].nw}}
  BY DEF RenewMoved, ScanStart
<1> QED BY <1>1, <1>4, <1>5

FirstContact == mncon[mnlist[1]]

\* The iterations among the first k that move an MN, that keep one with the
\* contact of the first MN, and that keep one with another contact.
MovesTo(f, k) == {j \in 1..k : f[j].nw # f[j - 1].nw}
KeepsFirst(f, k) ==
    {j \in 1..k : f[j].nw = f[j - 1].nw /\ mncon[mnlist[j]] = FirstContact}
KeepsOther(f, k) ==
    {j \in 1..k : f[j].nw = f[j - 1].nw /\ mncon[mnlist[j]] # FirstContact}

\* new_count counts the moves; old1_count and old2_count are one ahead of the
\* MNs kept and never get further ahead of new_count than one.
CountsMatch(f, k) ==
    /\ Cardinality(MovesTo(f, k)) = f[k].nw
    /\ f[k].c1 = IF k = 0 THEN 0 ELSE Cardinality(KeepsFirst(f, k)) + 1
    /\ k > 0 => f[k].old1 = FirstContact
    /\ Cardinality(KeepsOther(f, k)) = IF f[k].c2 = 0 THEN 0 ELSE f[k].c2 - 1
    /\ f[k].c1 <= f[k].nw + 1
    /\ f[k].c2 <= f[k].nw + 1

\* The sets the loop counts are finite.
LEMMA CountsFinite ==
    ASSUME NEW f, NEW k \in Nat
    PROVE  /\ IsFiniteSet(MovesTo(f, k)) /\ Cardinality(MovesTo(f, k)) \in Nat
           /\ IsFiniteSet(KeepsFirst(f, k)) /\ Cardinality(KeepsFirst(f, k)) \in Nat
           /\ IsFiniteSet(KeepsOther(f, k)) /\ Cardinality(KeepsOther(f, k)) \in Nat
<1>1. IsFiniteSet(1..k)
  BY FS_Interval
<1>2. \A S \in SUBSET (1..k) : IsFiniteSet(S) /\ Cardinality(S) \in Nat
  BY <1>1, FS_Subset, FS_CardinalityType
<1>3. /\ MovesTo(f, k) \in SUBSET (1..k) /\ KeepsFirst(f, k) \in SUBSET (1..k)
      /\ KeepsOther(f, k) \in SUBSET (1..k)
  BY DEF MovesTo, KeepsFirst, KeepsOther
<1> QED BY <1>2, <1>3

\* One more iteration adds its index to one of the three sets.
LEMMA CountsGrow ==
    ASSUME NEW f, NEW k \in Nat, k > 0
    PROVE  LET moves == f[k].nw # f[k - 1].nw
               first == mncon[mnlist[k]] = FirstContact
           IN  /\ Cardinality(MovesTo(f, k)) = Cardinality(MovesTo(f, k - 1))
                                               + (IF moves THEN 1 ELSE 0)
               /\ Cardinality(KeepsFirst(f, k)) = Cardinality(KeepsFirst(f, k - 1))
                                               + (IF ~moves /\ first THEN 1 ELSE 0)
               /\ Cardinality(KeepsOther(f, k)) = Cardinality(KeepsOther(f, k - 1))
                                               + (IF ~moves /\ ~first THEN 1 ELSE 0)
<1> DEFINE moves == f[k].nw # f[k - 1].nw
           first == mncon[mnlist[k]] = FirstContact
           Grow(S, T, add) == /\ IsFiniteSet(S) /\ k \notin S /\ Cardinality(S) \in Nat
                              /\ T = IF add THEN S \cup {k} ELSE S
<1>1. k - 1 \in Nat /\ 1..k = (1..(k - 1)) \cup {k} /\ k \notin 1..(k - 1)
  OBVIOUS
<1>2. \A S, T : \A add \in BOOLEAN :
         Grow(S, T, add) => Cardinality(T) = Cardinality(S) + (IF add THEN 1 ELSE 0)
  <2> SUFFICES ASSUME NEW S, NEW T, NEW add \in BOOLEAN, Grow(S, T, add)
               PROVE  Cardinality(T) = Cardinality(S) + (IF add THEN 1 ELSE 0)
    OBVIOUS
  <2>1. Cardinality(S \cup {k}) = Cardinality(S) + 1
    BY FS_AddElement
  <2> QED BY <2>1
<1>3. Grow(MovesTo(f, k - 1), MovesTo(f, k), moves)
  <2>1. MovesTo(f, k) = IF moves THEN MovesTo(f, k - 1) \cup {k} ELSE MovesTo(f, k - 1)
    BY <1>1 DEF MovesTo
  <2>2. k \notin MovesTo(f, k - 1)
    BY <1>1 DEF MovesTo
  <2> QED BY <1>1, <2>1, <2>2, CountsFinite
<1>4. Grow(KeepsFirst(f, k - 1), KeepsFirst(f, k), ~moves /\ first)
  <2>1. KeepsFirst(f, k) = IF ~moves /\ first THEN KeepsFirst(f, k - 1) \cup {k}
                                              ELSE KeepsFirst(f, k - 1)
    BY <1>1 DEF KeepsFirst
  <2>2. k \notin KeepsFirst(f, k - 1)
    BY <1>1 DEF KeepsFirst
  <2> QED BY <1>1, <2>1, <2>2, CountsFinite
<1>5. Grow(KeepsOther(f, k - 1), KeepsOther(f, k), ~moves /\ ~first)
  <2>1. KeepsOther(f, k) = IF ~moves /\ ~first THEN KeepsOther(f, k - 1) \cup {k}
                                               ELSE KeepsOther(f, k - 1)
    BY <1>1 DEF KeepsOther
  <2>2. k \notin KeepsOther(f, k - 1)
    BY <1>1 DEF KeepsOther
  <2> QED BY <1>1, <2>1, <2>2, CountsFinite
<1> HIDE DEF Grow
<1> QED BY <1>2, <1>3, <1>4, <1>5

\* One iteration keeps the counters equal to the sizes of those sets.
LEMMA CountsStep ==
    ASSUME TypeOK, NEW f, IsScan(f, Len(mnlist)), NEW k \in 1..Len(mnlist),
           CountsMatch(f, k - 1)
    PROVE  CountsMatch(f, k)
<1>1. Len(mnlist) \in Nat /\ k \in Nat /\ k > 0 /\ k - 1 \in 0..Len(mnlist) /\ k - 1 \in Nat
  BY DEF TypeOK
<1>2. PICK o \in Contacts, a \in Nat, b \in Nat, w \in Nat : f[k - 1] = Scan(o, a, b, w)
  <2>1. f[k - 1] \in ScanStates
    BY <1>1 DEF IsScan
  <2> QED BY <2>1 DEF ScanStates, Scan
<1>3. f[k] = RenewStep(Scan(o, a, b, w), mnlist[k])
  BY <1>2 DEF IsScan
<1> DEFINE x == mncon[mnlist[k]]
           M == Cardinality(MovesTo(f, k - 1))
           A == Cardinality(KeepsFirst(f, k - 1))
           B == Cardinality(KeepsOther(f, k - 1))
           M1 == Cardinality(MovesTo(f, k))
           A1 == Cardinality(KeepsFirst(f, k))
           B1 == Cardinality(KeepsOther(f, k))
<1>4. \A p, i, j, n : /\ Scan(p, i, j, n).old1 = p /\ Scan(p, i, j, n).c1 = i
                      /\ Scan(p, i, j, n).c2 = j /\ Scan(p, i, j, n).nw = n
  BY DEF Scan
<1>5. /\ M = w /\ (a = IF k = 1 THEN 0 ELSE A + 1) /\ (k > 1 => o = FirstContact)
      /\ (B = IF b = 0 THEN 0 ELSE b - 1) /\ a <= w + 1 /\ b <= w + 1
  BY <1>1, <1>2, <1>4 DEF CountsMatch
<1>6. M \in Nat /\ A \in Nat /\ B \in Nat
  BY <1>1, CountsFinite
<1>7. /\ M1 = M + (IF f[k].nw # w THEN 1 ELSE 0)
      /\ A1 = A + (IF f[k].nw = w /\ x = FirstContact THEN 1 ELSE 0)
      /\ B1 = B + (IF f[k].nw = w /\ x # FirstContact THEN 1 ELSE 0)
  BY <1>1, <1>2, <1>4, CountsGrow
<1>8. k = 1 => x = FirstContact /\ A = 0
  <2> SUFFICES ASSUME k = 1 PROVE A = 0
    BY DEF FirstContact
  <2>1. KeepsFirst(f, k - 1) = {}
    BY DEF KeepsFirst
  <2> QED BY <2>1, FS_EmptySet
<1> HIDE DEF x, M, A, B, M1, A1, B1
<1>9. SUFFICES /\ M1 = f[k].nw /\ f[k].c1 = A1 + 1 /\ f[k].old1 = FirstContact
               /\ (B1 = IF f[k].c2 = 0 THEN 0 ELSE f[k].c2 - 1)
               /\ f[k].c1 <= f[k].nw + 1 /\ f[k].c2 <= f[k].nw + 1
  BY <1>1 DEF CountsMatch, M1, A1, B1
<1>10. CASE a = 0
  <2>1. k = 1
    BY <1>1, <1>5, <1>6, <1>10
  <2>2. f[k] = Scan(x, 1, b, w + 1)
    BY <1>3, <1>10, RenewStepCases DEF x
  <2> QED BY <1>4, <1>5, <1>6, <1>7, <1>8, <2>1, <2>2
<1>11. a > 0 => k > 1 /\ o = FirstContact /\ a = A + 1
  BY <1>1, <1>5
<1>12. CASE a > 0 /\ x = o
  <2>1. f[k] = IF a <= w THEN Scan(o, a + 1, b, w) ELSE Scan(o, a, b, w + 1)
    BY <1>3, <1>12, RenewStepCases DEF x
  <2>2. CASE a <= w
    BY <1>4, <1>5, <1>6, <1>7, <1>11, <1>12, <2>1, <2>2
  <2>3. CASE ~(a <= w)
    BY <1>4, <1>5, <1>6, <1>7, <1>11, <1>12, <2>1, <2>3
  <2> QED BY <2>2, <2>3
<1>13. CASE a > 0 /\ x # o /\ b = 0
  <2>1. f[k] = Scan(o, a, 1, w + 1)
    BY <1>3, <1>13, RenewStepCases DEF x
  <2> QED BY <1>4, <1>5, <1>6, <1>7, <1>11, <1>13, <2>1
<1>14. CASE a > 0 /\ x # o /\ b > 0
  <2>1. f[k] = IF b <= w THEN Scan(o, a, b + 1, w) ELSE Scan(o, a, b, w + 1)
    BY <1>3, <1>14, RenewStepCases DEF x
  <2>2. CASE b <= w
    BY <1>4, <1>5, <1>6, <1>7, <1>11, <1>14, <2>1, <2>2
  <2>3. CASE ~(b <= w)
    BY <1>4, <1>5, <1>6, <1>7, <1>11, <1>14, <2>1, <2>3
  <2> QED BY <2>2, <2>3
<1> QED BY <1>10, <1>12, <1>13, <1>14

\* Whatever the contacts of the MNs, the loop keeps no more of either kind than
\* it moves.
LEMMA CountsHold ==
    ASSUME TypeOK, NEW f, IsScan(f, Len(mnlist)), NEW k \in 0..Len(mnlist)
    PROVE  CountsMatch(f, k)
<1>0. Len(mnlist) \in Nat
  BY DEF TypeOK
<1> DEFINE T == {j \in 0..Len(mnlist) : ~CountsMatch(f, j)}
<1> SUFFICES ASSUME T # {} PROVE FALSE
  OBVIOUS
<1>1. T \subseteq Nat
  BY <1>0
<1>2. PICK j \in T : \A i \in T : j <= i
  <2> HIDE DEF T
  <2> QED BY <1>1, LeastNat
<1>3. CountsMatch(f, 0)
  <2>1. MovesTo(f, 0) = {} /\ KeepsFirst(f, 0) = {} /\ KeepsOther(f, 0) = {}
    BY DEF MovesTo, KeepsFirst, KeepsOther
  <2>2. Cardinality(MovesTo(f, 0)) = 0 /\ Cardinality(KeepsOther(f, 0)) = 0
    BY <2>1, FS_EmptySet
  <2>3. f[0] = ScanStart
    BY DEF IsScan
  <2>4. f[0].c1 = 0 /\ f[0].c2 = 0 /\ f[0].nw = 0
    BY <2>3 DEF ScanStart
  <2> QED BY <2>2, <2>4 DEF CountsMatch
<1>4. j # 0
  BY <1>2, <1>3
<1>5. j \in 1..Len(mnlist) /\ j - 1 \in 0..Len(mnlist) /\ j - 1 \notin T
  BY <1>0, <1>1, <1>2, <1>4
<1> QED BY <1>2, <1>5, CountsStep

\* What the loop of renew_mn_coa_entry_round_robin achieves: of the MNs it does
\* not move, no contact has more than it moves.
LEMMA RenewMovedMany ==
    ASSUME TypeOK, OneEntry, NEW c
    PROVE  /\ IsFiniteSet(RenewMoved) /\ RenewMoved \in SUBSET Registered
           /\ Cardinality({m \in Registered : m \notin RenewMoved /\ mncon[m] = c})
                 <= Cardinality(RenewMoved)
<1> DEFINE N == Len(mnlist)
<1>1. N \in Nat /\ DOMAIN mnlist = 1..N
  BY DEF TypeOK
<1>2. PICK f : /\ IsScan(f, N)
               /\ RenewMoved = {mnlist[k] : k \in {j \in DOMAIN mnlist :
                                                     f[j].nw # f[j - 1].nw}}
  BY RenewMovedScan
<1>3. CountsMatch(f, N)
  BY <1>1, <1>2, CountsHold
<1> DEFINE M == MovesTo(f, N)
           A == KeepsFirst(f, N)
           B == KeepsOther(f, N)
           K == {m \in Registered : m \notin RenewMoved /\ mncon[m] = c}
<1>4. RenewMoved = {mnlist[k] : k \in M}
  BY <1>1, <1>2 DEF MovesTo
<1>5. /\ IsFiniteSet(M) /\ IsFiniteSet(A) /\ IsFiniteSet(B)
      /\ Cardinality(A) <= Cardinality(M) /\ Cardinality(B) <= Cardinality(M)
  <2>1. /\ IsFiniteSet(M) /\ Cardinality(M) \in Nat /\ IsFiniteSet(A)
        /\ Cardinality(A) \in Nat /\ IsFiniteSet(B) /\ Cardinality(B) \in Nat
    BY <1>1, CountsFinite
  <2>2. f[N] \in ScanStates
    BY <1>1, <1>2 DEF IsScan
  <2>3. f[N].c1 \in Nat /\ f[N].c2 \in Nat /\ f[N].nw \in Nat
    BY <2>2 DEF ScanStates
  <2>4. N = 0 => Cardinality(A) = 0
    <3> SUFFICES ASSUME N = 0 PROVE Cardinality(A) = 0
      OBVIOUS
    <3>1. A = {}
      BY DEF KeepsFirst
    <3> QED BY <3>1, FS_EmptySet
  <2> HIDE DEF M, A, B, N
  <2> QED BY <1>3, <2>1, <2>3, <2>4 DEF CountsMatch, M, A, B
<1>6. /\ IsFiniteSet(RenewMoved) /\ Cardinality(RenewMoved) = Cardinality(M)
  <2> DEFINE g == [k \in M |-> mnlist[k]]
  <2>1. M \subseteq DOMAIN mnlist
    BY <1>1 DEF MovesTo
  <2>2. g \in Bijection(M, RenewMoved)
    <3>1. g \in [M -> RenewMoved] /\ \A m \in RenewMoved : \E k \in M : g[k] = m
      BY <1>4
    <3>2. \A j, k \in M : g[j] = g[k] => j = k
      BY <2>1 DEF OneEntry
    <3> HIDE DEF g, M
    <3> QED BY <3>1, <3>2 DEF Bijection, Injection, Surjection, IsInjective
  <2> HIDE DEF g, M
  <2> QED BY <1>5, <2>2, FS_Bijection DEF ExistsBijection
<1>7. RenewMoved \in SUBSET Registered
  BY <1>2 DEF Registered
<1> DEFINE h == [m \in K |-> Pos(m)]
           U == IF c = FirstContact THEN A ELSE B
<1>8. \A m \in K : Pos(m) \in U
  <2> TAKE m \in K
  <2>1. Pos(m) \in 1..N /\ mnlist[Pos(m)] = m
    BY <1>1, PosFinds
  <2>2. Pos(m) \notin M
    BY <1>4, <2>1
  <2>3. f[Pos(m)].nw = f[Pos(m) - 1].nw
    BY <2>1, <2>2 DEF MovesTo
  <2> QED BY <2>1, <2>3 DEF KeepsFirst, KeepsOther
<1>9. h \in Injection(K, U)
  <2>1. h \in [K -> U]
    BY <1>8
  <2>2. \A m, n \in K : h[m] = h[n] => m = n
    BY PosFinds
  <2> HIDE DEF h, K, U
  <2> QED BY <2>1, <2>2 DEF Injection, IsInjective
<1>10. Cardinality(K) <= Cardinality(M)
  <2>1. IsFiniteSet(U) /\ Cardinality(U) <= Cardinality(M) /\ Cardinality(U) \in Nat
    <3>1. Cardinality(A) \in Nat /\ Cardinality(B) \in Nat
      BY <1>1, CountsFinite
    <3> HIDE DEF A, B
    <3> QED BY <1>5, <3>1
  <2>2. IsFiniteSet(K) /\ Cardinality(K) <= Cardinality(U)
    <3> HIDE DEF h, K, U
    <3> QED BY <1>9, <2>1, FS_Injection
  <2>3. Cardinality(K) \in Nat /\ Cardinality(M) \in Nat
    <3> HIDE DEF K, M
    <3> QED BY <1>5, <2>2, FS_CardinalityType
  <2> HIDE DEF K, M, U
  <2> QED BY <2>1, <2>2, <2>3
<1> HIDE DEF K
<1> QED BY <1>6, <1>7, <1>10 DEF K

\* Every step of round robin has RenewShare: only send_reg_msg gives an address.
LEMMA ShareStep ==
    ASSUME TypeOK, OneEntry, Select = 2, [Next]_vars
    PROVE  RenewShare
<1> SUFFICES ASSUME NEW u \in Uplinks, con'[u] # None, con'[u] # con[u], NEW c \in Contacts
             PROVE  LET bound(x) == Cardinality({m \in Registered : mncon'[m] = x})
                    IN  bound(c) <= bound(con'[u])
  BY DEF RenewShare
<1> DEFINE S(x) == {m \in Registered : mncon'[m] = x}
           K == {m \in Registered : m \notin RenewMoved /\ mncon[m] = c}
           a == con'[u]
<1>1. PICK p \in Prefixes : send_reg_msg(u, <<u, p>>)
  BY GainedByNewAddress DEF NewAddress
<1>2. /\ a = <<u, p>>
      /\ mncon' = [m \in MNs |-> IF m \in RenewMoved THEN a ELSE mncon[m]]
  BY <1>1 DEF send_reg_msg, Renewed, TypeOK
<1>3. Registered \in SUBSET MNs /\ IsFiniteSet(Registered)
  BY RegisteredFinite
<1>4. \A x : IsFiniteSet(S(x)) /\ Cardinality(S(x)) \in Nat
  <2> TAKE x
  <2>1. S(x) \in SUBSET Registered
    OBVIOUS
  <2> HIDE DEF S
  <2> QED BY <1>3, <2>1, FS_Subset, FS_CardinalityType
<1>5. CASE c = a
  BY <1>4, <1>5
<1>6. CASE c # a
  <2>1. S(c) = K
    BY <1>2, <1>3, <1>6
  <2>2. Cardinality(K) <= Cardinality(RenewMoved) /\ RenewMoved \in SUBSET Registered
        /\ IsFiniteSet(RenewMoved)
    BY RenewMovedMany
  <2>3. RenewMoved \in SUBSET S(a)
    BY <1>2, <1>3, <2>2
  <2>4. Cardinality(RenewMoved) <= Cardinality(S(a)) /\ Cardinality(RenewMoved) \in Nat
    <3> HIDE DEF S, a
    <3> QED BY <1>4, <2>2, <2>3, FS_Subset, FS_CardinalityType
  <2>5. Cardinality(S(c)) <= Cardinality(S(a))
    <3> HIDE DEF S, a, K
    <3> QED BY <1>4, <2>1, <2>2, <2>4
  <2> QED BY <2>5
<1> QED BY <1>5, <1>6

\* In round robin an uplink that gets an address takes over so many MNs that no
\* other contact has more than the new one, for any list and any contacts in it,
\* although the loop only tells the first contact from the others.
THEOREM RoundRenewsShare ==
    ASSUME Select = 2
    PROVE  Spec => [][RenewShare]_vars
<1>1. TypeOK /\ OneEntry /\ [Next]_vars => [RenewShare]_vars
  BY ShareStep
<1> QED BY <1>1, TypeCorrect, EntriesAreUnique, PTL DEF Spec

-----------------------------------------------------------------------------
(* The refinement of BindingService by the weight policy.                  *)

\* ServedBy as a function of the contacts c and the contact x of the MN.
ServeOf(c, x) ==
    LET S == {v \in Uplinks : c[v] = x}
    IN  IF x # None /\ S # {} THEN First(S) ELSE None

LEMMA ServedByIs ==
    \A m : ServedBy(m) = ServeOf(con, mncon[m]) /\ ServedBy(m)' = ServeOf(con', mncon'[m])
  BY DEF ServedBy, ServeOf, Owners

\* No two uplinks have the same address, so the first owner of a contact is its
\* only one.
LEMMA OwnerServes ==
    ASSUME NEW c \in [Uplinks -> Contacts], Own(c)
    PROVE  /\ ServeOf(c, None) = None
           /\ \A u \in Uplinks : c[u] # None => ServeOf(c, c[u]) = u
<1>1. ServeOf(c, None) = None
  BY DEF ServeOf
<1>2. ASSUME NEW u \in Uplinks, c[u] # None
      PROVE  ServeOf(c, c[u]) = u
  <2> DEFINE S == {v \in Uplinks : c[v] = c[u]}
  <2>1. S = {u}
    BY <1>2 DEF Own
  <2>2. First(S) \in S
    <3> HIDE DEF S
    <3> QED BY <2>1, FirstExists
  <2> QED BY <1>2, <2>1, <2>2 DEF ServeOf
<1> QED BY <1>1, <1>2

\* The uplink that serves a bound MN is live and has the MN's contact.
LEMMA ServedByLive ==
    ASSUME TypeOK, OwnAddress, BoundToLive, NEW m \in MNs
    PROVE  \/ mncon[m] = None /\ ServedBy(m) = None
           \/ /\ mncon[m] # None /\ ServedBy(m) \in Live(con)
              /\ mncon[m] = con[ServedBy(m)] /\ m \in Registered
<1>1. con \in [Uplinks -> Contacts] /\ Own(con)
  BY DEF TypeOK, OwnAddress
<1>2. CASE mncon[m] = None
  BY <1>1, <1>2, OwnerServes, ServedByIs
<1>3. CASE mncon[m] # None
  <2>1. PICK u \in Uplinks : con[u] = mncon[m]
    BY <1>3 DEF BoundToLive, Owners
  <2>2. ServedBy(m) = u
    BY <1>1, <1>3, <2>1, OwnerServes, ServedByIs
  <2> QED BY <1>3, <2>1, <2>2 DEF Live, BoundToLive
<1> QED BY <1>2, <1>3

via == [m \in MNs |-> ServedBy(m)]

ServiceInv == TypeOK /\ OwnAddress /\ BoundToLive /\ NoOrphan

LEMMA BindJoins ==
    ASSUME ServiceInv, OwnAddress', TypeOK', Select # 0, NEW m \in MNs, Bind(m)
    PROVE  Service!Join(m)
<1>1. PICK u \in Uplinks : u \in Live(con) /\ mncon' = [mncon EXCEPT ![m] = con[u]]
  BY Zenon DEF Bind
<1>2. Registered' = Registered \cup {m} /\ con' = con
  BY WithEntryRegisters DEF Bind, ServiceInv
<1>3. con[u] # None
  BY <1>1 DEF Live
<1>4. via' = [via EXCEPT ![m] = u]
  <2> SUFFICES ASSUME NEW k \in MNs
               PROVE  ServedBy(k)' = IF k = m THEN u ELSE ServedBy(k)
    BY DEF via
  <2>1. con \in [Uplinks -> Contacts] /\ Own(con) /\ mncon \in [MNs -> Contacts]
    BY DEF ServiceInv, TypeOK, OwnAddress
  <2>2. CASE k = m
    BY <1>1, <1>2, <1>3, <2>1, <2>2, OwnerServes, ServedByIs
  <2>3. CASE k # m
    BY <1>1, <1>2, <2>1, <2>3, ServedByIs
  <2> QED BY <2>2, <2>3
<1>5. Live(con)' = Live(con)
  BY <1>2 DEF Live
<1> QED BY <1>1, <1>2, <1>4, <1>5 DEF Service!Join, via

LEMMA NewAddressGains ==
    ASSUME ServiceInv, OwnAddress', TypeOK', Select = 3, NEW u \in Uplinks, NewAddress(u)
    PROVE  Service!Gain(u)
<1>1. PICK p \in Prefixes : send_reg_msg(u, <<u, p>>)
  BY DEF NewAddress
<1> DEFINE a == <<u, p>>
<1>2. /\ mncon' = [m \in MNs |-> IF m \in Registered THEN a ELSE mncon[m]]
      /\ con' = [con EXCEPT ![u] = a]
      /\ Registered' = Registered
  BY <1>1 DEF send_reg_msg, Renewed, Registered
<1>3. a # None /\ con \in [Uplinks -> Contacts] /\ con' \in [Uplinks -> Contacts] /\ Own(con')
  BY NoneAssumption DEF Addrs, ServiceInv, TypeOK, OwnAddress
<1>4. con'[u] = a /\ \A v \in Uplinks : v # u => con'[v] = con[v]
  BY <1>2, <1>3
<1>5. Live(con)' = Live(con) \cup {u}
  BY <1>3, <1>4 DEF Live
<1>6. Registered \in SUBSET MNs
  BY RegisteredFinite DEF ServiceInv
<1>7. via' = [m \in MNs |-> IF m \in Registered THEN u ELSE via[m]]
  <2> SUFFICES ASSUME NEW k \in MNs
               PROVE  ServedBy(k)' = IF k \in Registered THEN u ELSE ServedBy(k)
    BY DEF via
  <2>1. CASE k \in Registered
    BY <1>2, <1>3, <1>4, <2>1, OwnerServes, ServedByIs
  <2>2. CASE k \notin Registered
    <3>1. mncon[k] = None /\ ServedBy(k) = None
      BY <2>2, ServedByLive DEF ServiceInv
    <3>2. mncon'[k] = None
      BY <1>2, <2>2, <3>1
    <3> QED BY <1>3, <2>2, <3>1, <3>2, OwnerServes, ServedByIs
  <2> QED BY <2>1, <2>2
<1> HIDE DEF a
<1> QED BY <1>2, <1>5, <1>6, <1>7 DEF Service!Gain, via

\* re_homing of a live uplink moves its MNs; of a dead one it changes nothing.
LEMMA RehomeLoses ==
    ASSUME ServiceInv, OwnAddress', TypeOK', Select = 3, NEW u \in Uplinks, rehome_all(u)
    PROVE  Service!Lose(u) \/ UNCHANGED <<con, mnlist, mncon>>
<1> DEFINE D == {m \in Registered : mncon[m] = con[u]}
           c == [con EXCEPT ![u] = None]
<1>1. /\ c \in [Uplinks -> Contacts] /\ con' = c /\ con \in [Uplinks -> Contacts]
      /\ mncon \in [MNs -> Contacts]
      /\ Registered' = Registered /\ mnlist' = mnlist
      /\ Own(c) /\ Own(con)
  BY DEF ServiceInv, TypeOK, OwnAddress, rehome_all, Contacts, Registered
<1>2. PICK f \in RehomeContacts(c, D) :
          mncon' = [m \in MNs |-> IF m \in D THEN f[m] ELSE mncon[m]]
  BY DEF rehome_all
<1>3. \A m \in D : IF Live(c) = {} THEN f[m] = None
                                   ELSE \E v \in Live(c) : f[m] = c[v]
  <2>1. TypeOK /\ Select \in 1..4 /\ Select # 4 /\ D \in SUBSET Registered
    BY DEF ServiceInv
  <2> HIDE DEF c, D
  <2> QED BY <1>1, <2>1, RehomeContactsLive
<1>4. Live(con)' = Live(con) \ {u} /\ Live(con)' = Live(c)
  BY <1>1 DEF Live
<1>5. CASE con[u] = None
  <2>1. con' = con
    BY <1>1, <1>5
  <2>2. \A m \in D : f[m] = mncon[m]
    <3> SUFFICES ASSUME NEW m \in D
                 PROVE  f[m] = mncon[m]
      OBVIOUS
    <3>1. mncon[m] = None /\ m \in Registered
      BY <1>5
    <3>2. Live(con) = {}
      BY <3>1 DEF ServiceInv, NoOrphan
    <3> QED BY <1>1, <1>3, <2>1, <3>1, <3>2
  <2>3. mncon' = mncon
    BY <1>1, <1>2, <2>2
  <2> QED BY <1>1, <2>1, <2>3
<1>6. CASE con[u] # None
  <2> DEFINE T == IF Live(con) \subseteq {u} THEN {None} ELSE Live(con) \ {u}
             g == [m \in MNs |-> IF m \in D THEN ServedBy(m)' ELSE CHOOSE t \in T : TRUE]
  <2>1. \A m \in MNs : m \in D <=> ServedBy(m) = u
    <3> TAKE m \in MNs
    <3>1. CASE m \in D
      BY <1>1, <1>6, <3>1, OwnerServes, ServedByIs
    <3>2. CASE ServedBy(m) = u
      <4>1. u # None
        BY NoneAssumption
      <4> QED BY <3>2, <4>1, ServedByLive DEF ServiceInv
    <3> QED BY <3>1, <3>2
  <2>2. \A m \in D : ServedBy(m)' \in T
    <3> SUFFICES ASSUME NEW m \in D
                 PROVE  ServedBy(m)' \in T
      OBVIOUS
    <3>0. m \in MNs
      BY RegisteredFinite DEF ServiceInv
    <3>1. mncon'[m] = f[m]
      BY <1>2, <3>0
    <3>2. CASE Live(c) = {}
      <4>1. ServedBy(m)' = None
        BY <1>1, <1>3, <3>1, <3>2, OwnerServes, ServedByIs
      <4> QED BY <1>4, <3>2, <4>1
    <3>3. CASE Live(c) # {}
      <4>1. PICK v \in Live(c) : f[m] = c[v]
        BY <1>3, <3>3
      <4>2. v \in Uplinks /\ c[v] # None
        BY <4>1 DEF Live
      <4>3. ServedBy(m)' = v
        BY <1>1, <3>1, <4>1, <4>2, OwnerServes, ServedByIs
      <4> QED BY <1>4, <4>1, <4>3
    <3> QED BY <3>2, <3>3
  <2>3. T # {}
    OBVIOUS
  <2>4. g \in [MNs -> T]
    <3> HIDE DEF T, D
    <3> QED BY <2>2, <2>3
  <2>5. \A m \in MNs : m \notin D => ServedBy(m)' = ServedBy(m)
    <3> SUFFICES ASSUME NEW m \in MNs, m \notin D
                 PROVE  ServedBy(m)' = ServedBy(m)
      OBVIOUS
    <3>1. mncon'[m] = mncon[m]
      BY <1>2
    <3>2. CASE mncon[m] = None
      BY <1>1, <3>1, <3>2, OwnerServes, ServedByIs
    <3>3. CASE mncon[m] # None
      <4>1. /\ ServedBy(m) \in Live(con) /\ ServedBy(m) # u
            /\ mncon[m] = con[ServedBy(m)]
        BY <2>1, <3>3, ServedByLive DEF ServiceInv
      <4>2. ServedBy(m) \in Uplinks /\ c[ServedBy(m)] = mncon[m]
        BY <1>1, <4>1 DEF Live
      <4> QED BY <1>1, <3>1, <3>3, <4>2, OwnerServes, ServedByIs
    <3> QED BY <3>2, <3>3
  <2>6. via' = [m \in MNs |-> IF via[m] = u THEN g[m] ELSE via[m]]
    <3> SUFFICES ASSUME NEW m \in MNs
                 PROVE  ServedBy(m)' = IF ServedBy(m) = u THEN g[m] ELSE ServedBy(m)
      BY DEF via
    <3> QED BY <2>1, <2>5
  <2> HIDE DEF g
  <2> QED BY <1>1, <1>4, <2>4, <2>6 DEF Service!Lose, via
<1> QED BY <1>5, <1>6

\* With the weight policy the router keeps the promise of BindingService: a member
\* is served by a live uplink while there is one; the loss of an uplink moves its
\* own MNs and no others; packets and registrations of others move nobody.
THEOREM WeightImplementsService ==
    ASSUME Select = 3
    PROVE  Spec => ImplementsService
<1>1. Init => Service!Init /\ OwnAddress
  <2> SUFFICES ASSUME Init
               PROVE  Service!Init /\ OwnAddress
    OBVIOUS
  <2>1. Live(con) = {} /\ Registered = {} /\ OwnAddress
    BY DEF Init, Live, Registered, OwnAddress, Own
  <2>2. \A m \in MNs : ServedBy(m) = None
    BY DEF Init, ServedBy
  <2> QED BY <2>1, <2>2 DEF Service!Init
<1>2. TypeOK /\ OwnAddress /\ [Next]_vars => OwnAddress'
  BY OwnAddressStep
<1>3. ServiceInv /\ OwnAddress' /\ TypeOK' /\ [Next]_vars
        => [Service!Next]_(Service!svars)
  <2> SUFFICES ASSUME ServiceInv, OwnAddress', TypeOK', [Next]_vars
               PROVE  [Service!Next]_(Service!svars)
    OBVIOUS
  <2>1. UNCHANGED <<con, mnlist, mncon>> => UNCHANGED Service!svars
    BY DEF Service!svars, Live, Registered, ServedBy, Owners
  <2>2. CASE Quiet
    BY <2>1, <2>2 DEF Quiet
  <2>3. ASSUME NEW m \in MNs, Bind(m)
        PROVE  Service!Next
    BY <2>3, BindJoins DEF Service!Next
  <2>4. ASSUME NEW u \in Uplinks, NewAddress(u)
        PROVE  Service!Next
    BY <2>4, NewAddressGains DEF Service!Next
  <2>5. ASSUME NEW u \in Uplinks, rehome_all(u)
        PROVE  Service!Next \/ UNCHANGED <<con, mnlist, mncon>>
    BY <2>5, RehomeLoses DEF Service!Next
  <2> QED BY <2>1, <2>2, <2>3, <2>4, <2>5, Effects DEF ServiceInv, Rehome
<1>4. Spec => []BoundToLive
  BY BindingsAreLive DEF SoundPolicy
<1>5. Spec => []NoOrphan
  BY WeightNoOrphan
<1> QED
  BY <1>1, <1>2, <1>3, <1>4, <1>5, TypeCorrect, PTL
  DEF Spec, ServiceInv, ImplementsService, Service!Spec
=============================================================================
