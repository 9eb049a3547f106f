------------------------- MODULE SipSession_proofs -------------------------
(***************************************************************************)
(* PeersKnown and DeliveredWhole for any number of prefixes, packets per   *)
(* message, link changes, registrations, messages and losses.              *)
(***************************************************************************)
EXTENDS SipSession, FiniteSetTheorems, TLAPS

-----------------------------------------------------------------------------
(* Queues.                                                                 *)

Elems(s) == {s[i] : i \in DOMAIN s}

\* No data packet occurs twice in the queue s.
Once(s) == \A i, j \in DOMAIN s : s[i].method = 7 /\ s[i] = s[j] => i = j

LEMMA WithoutQueue ==
    ASSUME NEW s \in Seq(Msgs), NEW k \in DOMAIN s
    PROVE  /\ Without(s, k) \in Seq(Msgs) /\ s[k] \in Elems(s)
           /\ Elems(Without(s, k)) \subseteq Elems(s)
           /\ Once(s) => /\ Once(Without(s, k))
                         /\ s[k].method = 7 => s[k] \notin Elems(Without(s, k))
<1> DEFINE t == Without(s, k)
           at(i) == IF i < k THEN i ELSE i + 1
<1>1. /\ Len(s) \in Nat /\ Len(s) > 0 /\ DOMAIN s = 1..Len(s) /\ k \in 1..Len(s)
      /\ \A i \in DOMAIN s : s[i] \in Msgs
  OBVIOUS
<1>2. /\ t = [i \in 1..(Len(s) - 1) |-> IF i < k THEN s[i] ELSE s[i + 1]]
      /\ DOMAIN t = 1..(Len(s) - 1)
  BY DEF Without
<1>3. ASSUME NEW i \in DOMAIN t
      PROVE  at(i) \in DOMAIN s /\ at(i) # k /\ t[i] = s[at(i)] /\ i \in Nat
  BY <1>1, <1>2
<1>4. \A i, j \in DOMAIN t : at(i) = at(j) => i = j
  BY <1>1, <1>2
<1>5. t \in Seq(Msgs)
  BY <1>1, <1>2, <1>3
<1> HIDE DEF t, at
<1>6. Elems(t) \subseteq Elems(s) /\ s[k] \in Elems(s)
  BY <1>3 DEF Elems
<1>7. ASSUME Once(s)
      PROVE  Once(t) /\ (s[k].method = 7 => s[k] \notin Elems(t))
  <2>1. s[k].method = 7 => s[k] \notin Elems(t)
    BY <1>3, <1>7 DEF Once, Elems
  <2>2. ASSUME NEW i \in DOMAIN t, NEW j \in DOMAIN t, t[i].method = 7, t[i] = t[j]
        PROVE  i = j
    BY <1>3, <1>4, <1>7, <2>2 DEF Once
  <2> QED BY <2>1, <2>2 DEF Once
<1> QED BY <1>5, <1>6, <1>7 DEF t

LEMMA AppendQueue ==
    ASSUME NEW s \in Seq(Msgs), NEW ms \in Seq(Msgs)
    PROVE  /\ s \o ms \in Seq(Msgs)
           /\ Elems(s \o ms) = Elems(s) \cup Elems(ms)
           /\ /\ Once(s) /\ Once(ms)
              /\ \A m \in Elems(s) \cap Elems(ms) : m.method # 7
              => Once(s \o ms)
<1> DEFINE t == s \o ms
<1>1. /\ t \in Seq(Msgs) /\ Len(s) \in Nat /\ Len(ms) \in Nat
      /\ DOMAIN s = 1..Len(s) /\ DOMAIN ms = 1..Len(ms)
      /\ DOMAIN t = 1..(Len(s) + Len(ms))
      /\ \A i \in DOMAIN t : t[i] = IF i <= Len(s) THEN s[i] ELSE ms[i - Len(s)]
  OBVIOUS
<1>2. \A i \in DOMAIN t : \/ i \in DOMAIN s /\ t[i] = s[i]
                          \/ i - Len(s) \in DOMAIN ms /\ t[i] = ms[i - Len(s)]
  BY <1>1
<1>3. /\ \A i \in DOMAIN s : i \in DOMAIN t /\ t[i] = s[i]
      /\ \A i \in DOMAIN ms : i + Len(s) \in DOMAIN t /\ t[i + Len(s)] = ms[i]
  BY <1>1
<1> HIDE DEF t
<1>4. Elems(t) = Elems(s) \cup Elems(ms)
  BY <1>2, <1>3 DEF Elems
<1>5. ASSUME Once(s), Once(ms), \A m \in Elems(s) \cap Elems(ms) : m.method # 7,
             NEW i \in DOMAIN t, NEW j \in DOMAIN t, t[i].method = 7, t[i] = t[j]
      PROVE  i = j
  <2>1. CASE i \in DOMAIN s /\ t[i] = s[i] /\ j \in DOMAIN s /\ t[j] = s[j]
    BY <1>5, <2>1 DEF Once
  <2>2. CASE /\ i - Len(s) \in DOMAIN ms /\ t[i] = ms[i - Len(s)]
             /\ j - Len(s) \in DOMAIN ms /\ t[j] = ms[j - Len(s)]
    <3>1. i - Len(s) = j - Len(s)
      BY <1>5, <2>2 DEF Once
    <3> QED BY <1>1, <3>1
  <2>3. CASE /\ i \in DOMAIN s /\ t[i] = s[i]
             /\ j - Len(s) \in DOMAIN ms /\ t[j] = ms[j - Len(s)]
    BY <1>5, <2>3 DEF Elems
  <2>4. CASE /\ i - Len(s) \in DOMAIN ms /\ t[i] = ms[i - Len(s)]
             /\ j \in DOMAIN s /\ t[j] = s[j]
    BY <1>5, <2>4 DEF Elems
  <2> QED BY <1>2, <2>1, <2>2, <2>3, <2>4
<1> QED BY <1>1, <1>4, <1>5 DEF Once, t

-----------------------------------------------------------------------------
(* The network.                                                            *)

\* Each data packet is on its way to one destination, once.
Distinct(n) ==
    /\ \A d \in Dests : Once(n[d])
    /\ \A d, e \in Dests : \A m \in Elems(n[d]) \cap Elems(n[e]) : m.method = 7 => d = e

LEMMA PutNet ==
    ASSUME NEW n \in [Dests -> Seq(Msgs)], NEW d \in Dests, NEW ms \in Seq(Msgs)
    PROVE  /\ Put(n, d, ms) \in [Dests -> Seq(Msgs)]
           /\ Put(n, d, ms)[d] = n[d] \o ms
           /\ \A e \in Dests : e # d => Put(n, d, ms)[e] = n[e]
<1>1. n[d] \in Seq(Msgs) /\ n[d] \o ms \in Seq(Msgs)
  OBVIOUS
<1> QED BY <1>1 DEF Put

LEMMA PutDistinct ==
    ASSUME NEW n \in [Dests -> Seq(Msgs)], NEW d \in Dests, NEW ms \in Seq(Msgs),
           Distinct(n), Once(ms),
           \A e \in Dests : \A m \in Elems(n[e]) \cap Elems(ms) : m.method # 7
    PROVE  Distinct(Put(n, d, ms))
<1> DEFINE t == Put(n, d, ms)
<1>0. /\ t[d] = n[d] \o ms
      /\ \A e \in Dests : e # d => t[e] = n[e]
  BY PutNet
<1> HIDE DEF t
<1>1. Elems(t[d]) = Elems(n[d]) \cup Elems(ms)
  BY <1>0, AppendQueue
<1>2. Once(n[d] \o ms)
  <2>1. Once(n[d]) /\ \A m \in Elems(n[d]) \cap Elems(ms) : m.method # 7
    BY DEF Distinct
  <2> QED BY <2>1, AppendQueue
<1>3. \A e \in Dests : Once(t[e])
  BY <1>0, <1>2 DEF Distinct
<1>4. ASSUME NEW e \in Dests, NEW f \in Dests,
             NEW m \in Elems(t[e]) \cap Elems(t[f]), m.method = 7
      PROVE  e = f
  <2>1. CASE m \in Elems(n[e]) /\ m \in Elems(n[f])
    BY <1>4, <2>1 DEF Distinct
  <2>2. CASE m \in Elems(ms)
    <3>1. m \notin Elems(n[e]) /\ m \notin Elems(n[f])
      BY <1>4, <2>2
    <3> QED BY <1>0, <1>1, <3>1
  <2> QED BY <1>0, <1>1, <2>1, <2>2
<1>5. Distinct(t)
  BY <1>3, <1>4 DEF Distinct
<1> QED BY <1>5 DEF t

LEMMA TakeNet ==
    ASSUME net \in [Dests -> Seq(Msgs)], NEW d \in Dests, NEW k \in Arrivals(d)
    PROVE  /\ Take(d, k) \in [Dests -> Seq(Msgs)]
           /\ net[d][k] \in Elems(net[d])
           /\ \A e \in Dests : Elems(Take(d, k)[e]) \subseteq Elems(net[e])
           /\ Distinct(net) =>
                /\ Distinct(Take(d, k))
                /\ net[d][k].method = 7 =>
                     \A e \in Dests : net[d][k] \notin Elems(Take(d, k)[e])
<1> DEFINE t == Take(d, k)
           m == net[d][k]
           q == Without(net[d], k)
<1>0. net[d] \in Seq(Msgs) /\ k \in DOMAIN net[d]
  BY DEF Arrivals
<1>1. q \in Seq(Msgs) /\ m \in Elems(net[d]) /\ Elems(q) \subseteq Elems(net[d])
  BY <1>0, WithoutQueue
<1>2. /\ t \in [Dests -> Seq(Msgs)] /\ t[d] = q
      /\ \A e \in Dests \ {d} : t[e] = net[e]
  <2>1. t = [net EXCEPT ![d] = q]
    BY DEF Take
  <2> HIDE DEF q, t
  <2> QED BY <1>1, <2>1
<1>3. \A e \in Dests : Elems(t[e]) \subseteq Elems(net[e])
  <2> HIDE DEF q, t
  <2> QED BY <1>1, <1>2
<1>4. ASSUME Distinct(net)
      PROVE  /\ Distinct(t)
             /\ m.method = 7 => \A e \in Dests : m \notin Elems(t[e])
  <2>1. Once(q) /\ (m.method = 7 => m \notin Elems(q))
    BY <1>0, <1>4, WithoutQueue DEF Distinct
  <2> HIDE DEF t, m, q
  <2>2. \A e \in Dests : Once(t[e])
    BY <1>2, <1>4, <2>1 DEF Distinct
  <2>3. Distinct(t)
    BY <1>3, <1>4, <2>2 DEF Distinct
  <2>4. ASSUME m.method = 7, NEW e \in Dests, m \in Elems(t[e])
        PROVE  FALSE
    <3>1. e = d
      BY <1>1, <1>3, <1>4, <2>4 DEF Distinct
    <3> QED BY <1>2, <2>1, <2>4, <3>1
  <2> QED BY <2>3, <2>4
<1> QED BY <1>1, <1>2, <1>3, <1>4

-----------------------------------------------------------------------------
(* The inductive invariant.                                                *)

\* The nodes that have an entry in the router.
Entries == MR!Registered \cup cns

\* The packets that may be on their way to d, when the nodes of E have an entry in
\* the router and c data messages were sent.
Fits(E, c, d, m) ==
    /\ m.method = 7 => \E s \in 0..(c - 1), f \in 1..Frags : m = Data(s)[f]
    /\ m.method # 7 => m.seq = -2
    /\ d = MR_IN => m.method = 5 \/ (m.method = 1 /\ {MN, CN} \subseteq E)
    /\ d = MN_HA => m.method = 0 \/ (m.method = 5 /\ MN \in E)
    /\ d = MR_HA => \/ m.method = 0 /\ MN \in E
                    \/ m.method \in {5, 9} /\ m.id \in Uplinks /\ m.contact \in Addrs
    /\ d = CN => /\ MN \in E
                 /\ \/ m.method \in {1, 9} /\ m.contact \in Addrs
                    \/ m.method = 6 /\ m.contact \in Addrs \cup {MR_HA}
    /\ d = MN => m.method \in {0, 7} /\ {MN, CN} \subseteq E
    /\ d \in Addrs => m.method \in {0, 7} /\ MN \in E

\* The network n when the MN has got the packets g.
NetOK(n, E, c, g) ==
    /\ n \in [Dests -> Seq(Msgs)]
    /\ \A d \in Dests : \A m \in Elems(n[d]) :
          Fits(E, c, d, m) /\ (m.method = 7 => <<m.seq, m.frag>> \notin g)
    /\ Distinct(n)

\* What the router keeps of SipBinding.
RouterOK ==
    /\ con \in [Uplinks -> Addrs \cup {None}]
    /\ mnlist \in Seq({MN})
    /\ mncon \in [{MN} -> Addrs \cup {None}]
    /\ cns \subseteq {CN}
    /\ late \in Seq(Addrs)

\* The application of the CN sends to MN_HA or to a care-of address.
CnStates ==
    [started : BOOLEAN, dst : {MN_HA} \cup Addrs, seq : 0..MaxData, talking : BOOLEAN]

\* The home agents and the CN learned what they know from packets.
Learned ==
    /\ crossed \subseteq {CN, MR_HA}
    /\ halist \in Seq(Uplinks)
    /\ \A j, k \in DOMAIN halist : halist[j] = halist[k] => j = k
    /\ hacon \in [Uplinks -> Addrs \cup {None}]
    /\ \A k \in DOMAIN halist : hacon[halist[k]] \in Addrs
    /\ mnha => MN \in Entries
    /\ cn \in CnStates
    /\ cn.dst \in Addrs => MN \in Entries
    /\ cn.talking => cn.dst \in Addrs

\* The packets counted in asm_info, S, are packets of its message among those that
\* came, g.
Counted(a, S, g) ==
    /\ S \subseteq 1..Frags
    /\ \A f \in S : <<a.seq, f>> \in g
    /\ a.seq = -1 => S = {}
    /\ \/ a.t = Frags * Size /\ a.r = Size * Cardinality(S) /\ S # {}
       \/ a.t = SigBytes /\ a.r = SigBytes + Size * Cardinality(S)
       \/ a.t = 0 /\ a.r = 0 /\ a.seq = -1

Assembled ==
    /\ asm \in [seq : -1..(cn.seq - 1), t : {0, SigBytes, Frags * Size}, r : Nat]
    /\ got \subseteq (0..(cn.seq - 1)) \X (1..Frags)
    /\ \E S \in SUBSET (1..Frags) : Counted(asm, S, got)

SessionInv ==
    /\ RouterOK
    /\ Learned
    /\ Assembled
    /\ NetOK(net, Entries, cn.seq, got)
    /\ PeersKnown
    /\ DeliveredWhole

-----------------------------------------------------------------------------
(* What sending and receiving do to the invariant of the network.          *)

LEMMA NetGrows ==
    ASSUME NEW n, NEW E, NEW E2, NEW c \in Nat, NEW c2 \in Nat, NEW g,
           NetOK(n, E, c, g), E \subseteq E2, c <= c2
    PROVE  NetOK(n, E2, c2, g)
<1>1. ASSUME NEW d, NEW m, Fits(E, c, d, m)
      PROVE  Fits(E2, c2, d, m)
  <2>1. 0..(c - 1) \subseteq 0..(c2 - 1)
    OBVIOUS
  <2> QED BY <1>1, <2>1 DEF Fits
<1> QED BY <1>1 DEF NetOK

LEMMA OneQueue ==
    ASSUME NEW m \in Msgs
    PROVE  <<m>> \in Seq(Msgs) /\ Elems(<<m>>) = {m} /\ Once(<<m>>)
<1>1. <<m>> \in Seq(Msgs) /\ DOMAIN <<m>> = {1} /\ <<m>>[1] = m
  OBVIOUS
<1> QED BY <1>1 DEF Elems, Once

LEMMA NetPut ==
    ASSUME NEW n, NEW E, NEW c, NEW g, NetOK(n, E, c, g),
           NEW d \in Dests, NEW m \in Msgs, Fits(E, c, d, m),
           m.method = 7 => /\ <<m.seq, m.frag>> \notin g
                           /\ \A e \in Dests : m \notin Elems(n[e])
    PROVE  NetOK(Put(n, d, <<m>>), E, c, g)
<1> DEFINE t == Put(n, d, <<m>>)
<1>1. <<m>> \in Seq(Msgs) /\ Elems(<<m>>) = {m} /\ Once(<<m>>)
  BY OneQueue
<1>2. n \in [Dests -> Seq(Msgs)] /\ Distinct(n)
  BY DEF NetOK
<1>3. \A e \in Dests : \A x \in Elems(n[e]) \cap Elems(<<m>>) : x.method # 7
  BY <1>1
<1>4. Distinct(t)
  BY <1>1, <1>2, <1>3, PutDistinct
<1>5. /\ t \in [Dests -> Seq(Msgs)] /\ t[d] = n[d] \o <<m>>
      /\ \A e \in Dests : e # d => t[e] = n[e]
  BY <1>1, <1>2, PutNet
<1> HIDE DEF t
<1>6. Elems(t[d]) = Elems(n[d]) \cup {m}
  BY <1>1, <1>2, <1>5, AppendQueue
<1>7. NetOK(t, E, c, g)
  BY <1>4, <1>5, <1>6 DEF NetOK
<1> QED BY <1>7 DEF t

LEMMA NetPutNothing ==
    ASSUME NEW n, NEW E, NEW c, NEW g, NetOK(n, E, c, g), NEW d \in Dests
    PROVE  Put(n, d, <<>>) = n
<1>1. n \in [Dests -> Seq(Msgs)] /\ n[d] \in Seq(Msgs)
  BY DEF NetOK
<1>2. n[d] \o <<>> = n[d]
  BY <1>1
<1> QED BY <1>1, <1>2 DEF Put

\* Signalling with the fields that Fits asks for.
LEMMA NetPutSig ==
    ASSUME NEW n, NEW E, NEW c, NEW g, NetOK(n, E, c, g),
           NEW d \in Dests, NEW w \in 0..2, NEW x \in {0, 1, 5, 6, 9}, NEW a \in Dests,
           NEW i \in 0..2, Fits(E, c, d, Sig(w, x, a, i))
    PROVE  NetOK(Put(n, d, <<Sig(w, x, a, i)>>), E, c, g)
<1>1. 0 \in 0..Frags
  BY BoundsAssumption
<1>2. Sig(w, x, a, i) \in Msgs /\ Sig(w, x, a, i).method # 7
  BY <1>1 DEF Sig, Msgs
<1> QED BY <1>2, NetPut

LEMMA NetTake ==
    ASSUME NEW E, NEW c, NEW g, NetOK(net, E, c, g), NEW d \in Dests, NEW k \in Arrivals(d)
    PROVE  LET m == net[d][k]
           IN  /\ NetOK(Take(d, k), E, c, g)
               /\ m \in Msgs /\ Fits(E, c, d, m)
               /\ m.method = 7 =>
                     /\ <<m.seq, m.frag>> \notin g
                     /\ \A e \in Dests : m \notin Elems(Take(d, k)[e])
                     /\ NetOK(Take(d, k), E, c, g \cup {<<m.seq, m.frag>>})
<1> DEFINE m == net[d][k]
           t == Take(d, k)
<1>1. net \in [Dests -> Seq(Msgs)] /\ Distinct(net)
  BY DEF NetOK
<1>2. /\ t \in [Dests -> Seq(Msgs)] /\ m \in Elems(net[d])
      /\ \A e \in Dests : Elems(t[e]) \subseteq Elems(net[e])
      /\ Distinct(t)
      /\ m.method = 7 => \A e \in Dests : m \notin Elems(t[e])
  BY <1>1, TakeNet
<1>3. m \in Msgs
  <2>1. net[d] \in Seq(Msgs) /\ k \in DOMAIN net[d]
    BY <1>1 DEF Arrivals
  <2> QED BY <2>1
<1>4. Fits(E, c, d, m) /\ (m.method = 7 => <<m.seq, m.frag>> \notin g)
  BY <1>2 DEF NetOK
<1> HIDE DEF t, m
<1>5. NetOK(t, E, c, g)
  BY <1>2 DEF NetOK
<1>6. ASSUME m.method = 7
      PROVE  NetOK(t, E, c, g \cup {<<m.seq, m.frag>>})
  <2>1. ASSUME NEW e \in Dests, NEW x \in Elems(t[e]), x.method = 7
        PROVE  <<x.seq, x.frag>> # <<m.seq, m.frag>>
    <3>1. Fits(E, c, e, x)
      BY <1>5, <2>1 DEF NetOK
    <3>2. \E s \in 0..(c - 1), f \in 1..Frags : x = Data(s)[f]
      BY <2>1, <3>1 DEF Fits
    <3>3. \E s \in 0..(c - 1), f \in 1..Frags : m = Data(s)[f]
      BY <1>4, <1>6 DEF Fits
    <3>4. x # m
      BY <1>2, <1>6, <2>1
    <3> QED BY <3>2, <3>3, <3>4 DEF Data
  <2> QED BY <1>5, <2>1 DEF NetOK
<1> QED BY <1>2, <1>3, <1>4, <1>5, <1>6 DEF t, m

LEMMA NetPutData ==
    ASSUME NEW n, NEW E, NEW c \in 0..MaxData, NEW g, NetOK(n, E, c, g),
           NEW d \in Addrs, MN \in E, g \subseteq (0..(c - 1)) \X (1..Frags)
    PROVE  NetOK(Put(n, d, Data(c)), E, c + 1, g)
<1> DEFINE ms == Data(c)
           t == Put(n, d, ms)
           rec(f) == [path |-> 0, method |-> 7, contact |-> CN, id |-> 0, seq |-> c,
                     frag |-> f]
<1>0. Frags \in Nat /\ MaxData \in Nat /\ c \in Nat /\ CN \in Dests /\ d \in Dests
  BY BoundsAssumption DEF Dests
<1>1. ms = [f \in 1..Frags |-> rec(f)]
  BY DEF Data
<1>2. \A f \in 1..Frags : rec(f) \in Msgs
  BY <1>0 DEF Msgs
<1>3. ms \in Seq(Msgs) /\ DOMAIN ms = 1..Frags
  BY <1>0, <1>1, <1>2
<1>4. Elems(ms) = {rec(f) : f \in 1..Frags}
  BY <1>1 DEF Elems
<1>5. Once(ms)
  BY <1>1 DEF Once
<1>6. ASSUME NEW e \in Dests, NEW m \in Elems(n[e]), m.method = 7
      PROVE  m \notin Elems(ms)
  <2>1. \E s \in 0..(c - 1), f \in 1..Frags : m = Data(s)[f]
    BY <1>6 DEF NetOK, Fits
  <2>2. m.seq # c
    BY <1>0, <2>1 DEF Data
  <2> QED BY <1>4, <2>2
<1>7. NetOK(n, E, c + 1, g)
  <2>1. c + 1 \in Nat /\ c <= c + 1
    BY <1>0
  <2> QED BY <1>0, <2>1, NetGrows, Zenon
<1> HIDE DEF ms
<1>8. /\ t \in [Dests -> Seq(Msgs)] /\ Distinct(t)
      /\ Elems(t[d]) = Elems(n[d]) \cup Elems(ms)
      /\ \A e \in Dests : e # d => t[e] = n[e]
  <2>1. n \in [Dests -> Seq(Msgs)] /\ Distinct(n)
    BY DEF NetOK
  <2>2. \A e \in Dests : \A m \in Elems(n[e]) \cap Elems(ms) : m.method # 7
    BY <1>6
  <2>3. Distinct(t)
    BY <1>0, <1>3, <1>5, <2>1, <2>2, PutDistinct
  <2>4. /\ t \in [Dests -> Seq(Msgs)] /\ t[d] = n[d] \o ms
        /\ \A e \in Dests : e # d => t[e] = n[e]
    BY <1>0, <1>3, <2>1, PutNet
  <2> HIDE DEF t
  <2>5. Elems(t[d]) = Elems(n[d]) \cup Elems(ms)
    BY <1>0, <1>3, <2>1, <2>4, AppendQueue
  <2> QED BY <2>3, <2>4, <2>5
<1>9. ASSUME NEW m \in Elems(ms)
      PROVE  Fits(E, c + 1, d, m) /\ <<m.seq, m.frag>> \notin g
  <2>1. PICK f \in 1..Frags : m = rec(f)
    BY <1>4
  <2>2. /\ m = Data(c)[f] /\ m.method = 7 /\ m.seq = c /\ c \in 0..((c + 1) - 1)
        /\ <<m.seq, m.frag>> \notin g
    BY <1>0, <2>1 DEF Data
  <2>3. d \notin {MN, CN, MN_HA, MR_HA, MR_IN}
    BY NodesAssumption
  <2> QED BY <2>2, <2>3 DEF Fits
<1> HIDE DEF t
<1> QED BY <1>7, <1>8, <1>9 DEF NetOK, ms, t

-----------------------------------------------------------------------------
(* The steps of the router, which is SipBinding with select_ 0.            *)

LEMMA SameEntries ==
    ASSUME mnlist' = mnlist, cns' = cns
    PROVE  Entries' = Entries
BY DEF Entries, MR!Registered

LEMMA EntriesKnown ==
    ASSUME RouterOK
    PROVE  /\ MN \in Entries <=> MN \in MR!Registered
           /\ CN \in Entries <=> CN \in cns
           /\ mnlist # <<>> => MN \in Entries /\ mnlist[1] = MN
<1>1. MR!Registered \subseteq {MN}
  BY DEF RouterOK, MR!Registered
<1>2. mnlist # <<>> => MN \in MR!Registered /\ mnlist[1] = MN
  BY DEF RouterOK, MR!Registered
<1> QED BY <1>1, <1>2, NodesAssumption DEF Entries, RouterOK

LEMMA NewAddressStep ==
    ASSUME RouterOK, NEW u \in Uplinks, MR!NewAddress(u)
    PROVE  RouterOK' /\ mnlist' = mnlist /\ cns' = cns /\ status' = status
<1>1. PICK p \in Prefixes : MR!send_reg_msg(u, <<u, p>>)
  BY DEF MR!NewAddress
<1>2. /\ <<u, p>> \in Addrs
      /\ con' = [con EXCEPT ![u] = <<u, p>>] /\ late' = Append(late, <<u, p>>)
      /\ mnlist' = mnlist /\ cns' = cns /\ status' = status
  BY <1>1 DEF MR!send_reg_msg, Addrs
<1>3. mncon' = [m \in {MN} |-> mncon[m]]
  BY <1>1 DEF MR!send_reg_msg, MR!Renewed
<1> QED BY <1>2, <1>3 DEF RouterOK

LEMMA RegisterStep ==
    ASSUME RouterOK, MR!recv_register(MN)
    PROVE  /\ RouterOK' /\ status' = status /\ con' = con
           /\ Entries' = Entries \cup {MN}
           /\ \A p \in sent' : p.via \in Uplinks
<1>0. [m \in {MN} |-> 1][MN] = 1
  OBVIOUS
<1>1. MR!Pick(MN) = {1}
  BY <1>0 DEF MR!Pick
<1>2. /\ mnlist' = MR!WithEntry(MN)
      /\ mncon' = [mncon EXCEPT ![MN] = con[1]]
      /\ sent' = {MR!Packet(5, MN, 1, MR!Url(1))}
      /\ con' = con /\ cns' = cns /\ status' = status /\ late' = late
  BY <1>1 DEF MR!recv_register
<1>3. 1 \in Uplinks
  BY DEF Uplinks
<1>4. mnlist' \in Seq({MN}) /\ MR!Registered' = MR!Registered \cup {MN}
  <2>1. CASE MN \in MR!Registered
    BY <1>2, <2>1 DEF MR!WithEntry, MR!Registered, RouterOK
  <2>2. CASE MN \notin MR!Registered
    <3>1. mnlist' = <<MN>> \o mnlist /\ mnlist \in Seq({MN})
      BY <1>2, <2>2 DEF MR!WithEntry, RouterOK
    <3>2. /\ mnlist' \in Seq({MN}) /\ Len(mnlist') = Len(mnlist) + 1
          /\ mnlist'[1] = MN /\ 1 \in DOMAIN mnlist'
      BY <3>1
    <3>3. MR!Registered' = {MN} /\ MR!Registered \subseteq {MN}
      BY <3>1, <3>2 DEF MR!Registered
    <3> QED BY <3>2, <3>3
  <2> QED BY <2>1, <2>2
<1>5. \A p \in sent' : p.via = 1
  BY <1>2 DEF MR!Packet
<1> QED BY <1>2, <1>3, <1>4, <1>5 DEF RouterOK, Entries

LEMMA OkStep ==
    ASSUME RouterOK, MR!recv_200ok_from_mn(CN, MN), {MN, CN} \subseteq Entries
    PROVE  /\ UNCHANGED <<con, mnlist, mncon, cns, late>>
           /\ status' \in {status, "no_binding"}
           /\ status' = "run" =>
                \A p \in sent' : p.via \in Uplinks /\ con[p.via] = mncon[MN]
<1>1. MN \in MR!Registered /\ CN \in cns
  BY EntriesKnown
<1>2. status = "run" /\ MR!Forward(MN)
  BY <1>1 DEF MR!recv_200ok_from_mn
<1> DEFINE S == MR!Owners(mncon[MN])
<1>3. CASE S = {}
  BY <1>2, <1>3 DEF MR!Forward, MR!Stop
<1>4. CASE S # {}
  <2>1. sent' = {MR!Packet(7, MN, MR!First(S), mncon[MN])}
    BY <1>2, <1>4 DEF MR!Forward
  <2>2. MR!First(S) \in S
    <3>1. S \subseteq 1..2
      BY DEF MR!Owners, MR!Uplinks
    <3>2. \E v \in S : \A w \in S : v <= w
      BY <1>4, <3>1
    <3> QED BY <3>2 DEF MR!First
  <2>3. con[MR!First(S)] = mncon[MN] /\ MR!First(S) \in Uplinks
    BY <2>2 DEF MR!Owners, MR!Uplinks, Uplinks
  <2> QED BY <1>2, <1>4, <2>1, <2>3 DEF MR!Forward, MR!Packet
<1> QED BY <1>3, <1>4

LEMMA FromCnStep ==
    ASSUME RouterOK, MR!recv_from_cn(CN, MN), MN \in Entries
    PROVE  /\ UNCHANGED <<con, mnlist, mncon, status, late>> /\ RouterOK'
           /\ Entries' = Entries \cup {CN}
<1>1. MN \in MR!Registered
  BY EntriesKnown
<1>2. UNCHANGED <<con, mnlist, mncon, status, late>> /\ cns' = cns \cup {CN}
  BY <1>1 DEF MR!recv_from_cn
<1> QED BY <1>2 DEF RouterOK, Entries, MR!Registered

LEMMA RehomingStep ==
    ASSUME RouterOK, NEW u \in Uplinks, mnlist # <<>>, MR!re_homing(u)
    PROVE  /\ RouterOK' /\ UNCHANGED <<mnlist, cns, status>>
           /\ MR!Other(u) \in Uplinks /\ mncon'[MN] = con[MR!Other(u)]
<1>1. MR!rehome_first(u)
  BY DEF MR!re_homing
<1>2. mnlist[1] = MN
  BY EntriesKnown
<1>3. MR!Other(u) \in Uplinks
  BY DEF MR!Other, Uplinks
<1>4. /\ con' = [con EXCEPT ![u] = None]
      /\ mncon' = [mncon EXCEPT ![MN] = con[MR!Other(u)]]
      /\ UNCHANGED <<mnlist, cns, status, late>>
  BY <1>1, <1>2 DEF MR!rehome_first
<1> QED BY <1>3, <1>4 DEF RouterOK

-----------------------------------------------------------------------------
(* Reassembly.                                                             *)

LEMMA FragmentSets ==
    ASSUME NEW S \in SUBSET (1..Frags)
    PROVE  /\ IsFiniteSet(S) /\ Cardinality(S) \in 0..Frags
           /\ Cardinality(S) = Frags => S = 1..Frags
           /\ \A f \in (1..Frags) \ S : Cardinality(S \cup {f}) = Cardinality(S) + 1
           /\ \A f \in 1..Frags : Cardinality({f}) = 1
<1>1. Frags \in Nat
  BY BoundsAssumption
<1>2. IsFiniteSet(1..Frags) /\ Cardinality(1..Frags) = Frags
  BY <1>1, FS_Interval
<1>3. /\ IsFiniteSet(S) /\ Cardinality(S) <= Frags
      /\ Cardinality(S) = Frags => S = 1..Frags
  BY <1>2, FS_Subset
<1>4. Cardinality(S) \in Nat
  BY <1>3, FS_CardinalityType
<1>5. \A f \in (1..Frags) \ S : Cardinality(S \cup {f}) = Cardinality(S) + 1
  BY <1>3, FS_AddElement
<1>6. \A f \in 1..Frags : Cardinality({f}) = 1
  BY FS_Singleton
<1> QED BY <1>1, <1>3, <1>4, <1>5, <1>6

LEMMA DataAssembled ==
    ASSUME Assembled, NEW m \in Msgs, m.seq \in 0..(cn.seq - 1), m.frag \in 1..Frags,
           <<m.seq, m.frag>> \notin got, cn.seq \in Nat, cn' = cn,
           asm' = Reassemble(m, Size, Frags * Size),
           got' = got \cup {<<m.seq, m.frag>>}
    PROVE  /\ Assembled'
           /\ asm'.t = asm'.r => \A f \in 1..Frags : <<m.seq, f>> \in got'
<1>0. Frags \in Nat /\ m.seq \in Nat /\ m.seq # -1 /\ m.seq # -2 /\ Frags >= 1
  BY BoundsAssumption
<1>1. PICK S \in SUBSET (1..Frags) : Counted(asm, S, got)
  BY DEF Assembled
<1>2. got' \subseteq (0..(cn'.seq - 1)) \X (1..Frags)
  BY DEF Assembled
<1>3. CASE m.seq = asm.seq
  <2> DEFINE T == S \cup {m.frag}
  <2>1. asm' = [asm EXCEPT !.r = @ + Size]
    BY <1>3 DEF Reassemble
  <2>2. asm'.seq = m.seq /\ asm'.t = asm.t /\ asm'.r = asm.r + 10
    BY <1>3, <2>1 DEF Assembled, Size
  <2>3. m.frag \notin S
    BY <1>1, <1>3 DEF Counted
  <2>4. T \in SUBSET (1..Frags) /\ Cardinality(T) = Cardinality(S) + 1
    BY <2>3, FragmentSets
  <2>5. Cardinality(S) \in Nat /\ Cardinality(T) \in Nat /\ T # {}
    BY <2>4, FragmentSets
  <2>6. \/ asm.t = Frags * 10 /\ asm.r = 10 * Cardinality(S)
        \/ asm.t = 1 /\ asm.r = 1 + 10 * Cardinality(S)
    BY <1>0, <1>1, <1>3 DEF Counted, Size, SigBytes
  <2>7. \/ asm'.t = Frags * 10 /\ asm'.r = 10 * Cardinality(T)
        \/ asm'.t = 1 /\ asm'.r = 1 + 10 * Cardinality(T)
    BY <2>2, <2>4, <2>5, <2>6
  <2>8. \A f \in T : <<asm'.seq, f>> \in got'
    BY <1>1, <1>3, <2>2 DEF Counted
  <2> HIDE DEF T
  <2>9. Counted(asm', T, got')
    BY <1>0, <2>2, <2>4, <2>5, <2>7, <2>8 DEF Counted, Size, SigBytes
  <2>10. asm' \in [seq : -1..(cn'.seq - 1), t : {0, SigBytes, Frags * Size}, r : Nat]
    BY <2>1 DEF Assembled, Size
  <2>11. ASSUME asm'.t = asm'.r
         PROVE  T = 1..Frags
    <3>1. Cardinality(T) = Frags
      BY <1>0, <2>4, <2>5, <2>7, <2>11
    <3> QED BY <2>4, <3>1, FragmentSets
  <2> QED BY <1>2, <2>2, <2>4, <2>8, <2>9, <2>10, <2>11 DEF Assembled
<1>4. CASE m.seq # asm.seq
  <2> DEFINE T == {m.frag}
  <2>1. asm' = [seq |-> m.seq, t |-> Frags * Size, r |-> Size]
    BY <1>0, <1>4 DEF Reassemble
  <2>2. T \in SUBSET (1..Frags) /\ Cardinality(T) = 1 /\ T # {}
    BY FragmentSets
  <2>3. \A f \in T : <<asm'.seq, f>> \in got'
    BY <2>1
  <2> HIDE DEF T
  <2>4. Counted(asm', T, got')
    BY <1>0, <2>1, <2>2, <2>3 DEF Counted, Size, SigBytes
  <2>5. asm' \in [seq : -1..(cn'.seq - 1), t : {0, SigBytes, Frags * Size}, r : Nat]
    BY <2>1 DEF Size
  <2>6. ASSUME asm'.t = asm'.r
        PROVE  T = 1..Frags
    <3>1. Cardinality(T) = Frags
      BY <1>0, <2>1, <2>2, <2>6 DEF Size
    <3> QED BY <2>2, <3>1, FragmentSets
  <2>7. Assembled'
    BY <1>2, <2>2, <2>4, <2>5 DEF Assembled
  <2>8. asm'.seq = m.seq
    BY <2>1
  <2> QED BY <2>3, <2>6, <2>7, <2>8
<1> QED BY <1>3, <1>4

LEMMA SigAssembled ==
    ASSUME Assembled, NEW m \in Msgs, m.seq = -2, cn' = cn, got' = got,
           asm' = Reassemble(m, SigBytes, SigBytes)
    PROVE  Assembled'
<1>1. asm' = [asm EXCEPT !.t = SigBytes, !.r = SigBytes]
  BY DEF Assembled, Reassemble
<1>2. Cardinality({}) = 0
  BY FS_EmptySet
<1>3. asm'.seq = asm.seq /\ asm'.t = 1 /\ asm'.r = 1
  BY <1>1 DEF Assembled, SigBytes
<1>4. Counted(asm', {}, got')
  <2>1. asm'.t = SigBytes /\ asm'.r = SigBytes + Size * Cardinality({})
    BY <1>2, <1>3 DEF SigBytes, Size
  <2> QED BY <2>1 DEF Counted
<1>5. asm' \in [seq : -1..(cn'.seq - 1), t : {0, SigBytes, Frags * Size}, r : Nat]
  <2>1. SigBytes \in Nat
    BY DEF SigBytes
  <2> QED BY <1>1, <2>1 DEF Assembled
<1>6. \E S \in SUBSET (1..Frags) : Counted(asm', S, got')
  BY <1>4
<1>7. got' \subseteq (0..(cn'.seq - 1)) \X (1..Frags)
  BY DEF Assembled
<1> QED BY <1>5, <1>6, <1>7 DEF Assembled

LEMMA AssemblyKept ==
    ASSUME Assembled, asm' = asm, got' = got, cn.seq \in Nat, cn'.seq \in Nat,
           cn.seq <= cn'.seq
    PROVE  Assembled'
<1>1. 0..(cn.seq - 1) \subseteq 0..(cn'.seq - 1) /\ -1..(cn.seq - 1) \subseteq -1..(cn'.seq - 1)
  OBVIOUS
<1> QED BY <1>1 DEF Assembled

-----------------------------------------------------------------------------
(* The signalling each handler sends fits its destination.                 *)

LEMMA NodeSigFits ==
    ASSUME NEW E, NEW c
    PROVE  /\ Fits(E, c, MN_HA, Sig(0, 0, CN, 0))
           /\ Fits(E, c, MR_IN, Sig(0, 5, MN, 0))
           /\ {MN, CN} \subseteq E => Fits(E, c, MR_IN, Sig(0, 1, MN, 0))
           /\ MN \in E => /\ \A w \in Uplinks : Fits(E, c, MN_HA, Sig(w, 5, MR_HA, 0))
                          /\ Fits(E, c, CN, Sig(0, 6, MR_HA, 0))
                          /\ Fits(E, c, MR_HA, Sig(0, 0, CN, 0))
<1>1. {MN, CN, MN_HA, MR_HA, MR_IN} \cap Addrs = {}
  BY NodesAssumption
<1>2. /\ Fits(E, c, MN_HA, Sig(0, 0, CN, 0))
      /\ MN \in E => \A w \in Uplinks : Fits(E, c, MN_HA, Sig(w, 5, MR_HA, 0))
  BY <1>1, NodesAssumption DEF Fits, Sig
<1>3. /\ Fits(E, c, MR_IN, Sig(0, 5, MN, 0))
      /\ {MN, CN} \subseteq E => Fits(E, c, MR_IN, Sig(0, 1, MN, 0))
  BY <1>1, NodesAssumption DEF Fits, Sig
<1>4. MN \in E => Fits(E, c, CN, Sig(0, 6, MR_HA, 0))
  BY <1>1, NodesAssumption DEF Fits, Sig
<1>5. MN \in E => Fits(E, c, MR_HA, Sig(0, 0, CN, 0))
  BY <1>1, NodesAssumption DEF Fits, Sig
<1> QED BY <1>2, <1>3, <1>4, <1>5

LEMMA AddrSigFits ==
    ASSUME NEW E, NEW c, NEW a \in Addrs, NEW u \in Uplinks, NEW w \in 0..2
    PROVE  /\ Fits(E, c, MR_HA, Sig(w, 5, a, u)) /\ Fits(E, c, MR_HA, Sig(w, 9, a, u))
           /\ MN \in E => /\ \A x \in {1, 6, 9} : Fits(E, c, CN, Sig(w, x, a, 0))
                          /\ Fits(E, c, a, Sig(w, 0, CN, 0))
<1>1. {MN, CN, MN_HA, MR_HA, MR_IN} \cap Addrs = {}
  BY NodesAssumption
<1>2. Fits(E, c, MR_HA, Sig(w, 5, a, u)) /\ Fits(E, c, MR_HA, Sig(w, 9, a, u))
  BY <1>1, NodesAssumption DEF Fits, Sig
<1>3. MN \in E => \A x \in {1, 6, 9} : Fits(E, c, CN, Sig(w, x, a, 0))
  BY <1>1, NodesAssumption DEF Fits, Sig
<1>4. MN \in E => Fits(E, c, a, Sig(w, 0, CN, 0))
  BY <1>1, NodesAssumption DEF Fits, Sig
<1> QED BY <1>2, <1>3, <1>4

-----------------------------------------------------------------------------
(* Every action keeps the invariant.                                       *)

LEMMA Known ==
    ASSUME SessionInv
    PROVE  /\ cn.seq \in Nat /\ cn.seq \in 0..MaxData
           /\ {MN, CN, MN_HA, MR_HA, MR_IN} \subseteq Dests /\ Addrs \subseteq Dests
           /\ Uplinks \subseteq 0..2 /\ 0 \in 0..2
           /\ NetOK(net, Entries, cn.seq, got)
<1>1. MaxData \in Nat
  BY BoundsAssumption
<1>2. cn.seq \in 0..MaxData
  BY DEF SessionInv, Learned, CnStates
<1> QED BY <1>1, <1>2 DEF SessionInv, Dests, Uplinks

LEMMA LearnedKept ==
    ASSUME Learned, UNCHANGED <<crossed, mnha, halist, hacon, cn>>, Entries \subseteq Entries'
    PROVE  Learned'
BY DEF Learned

LEMMA NewAddress ==
    ASSUME SessionInv, NEW u \in Uplinks, new_address(u)
    PROVE  SessionInv'
<1>1. MR!NewAddress(u) /\ RouterOK
  BY DEF new_address, SessionInv
<1>2. RouterOK' /\ mnlist' = mnlist /\ cns' = cns /\ status' = status
  BY <1>1, NewAddressStep
<1>3. Entries' = Entries
  BY <1>2, SameEntries
<1>4. UNCHANGED <<net, crossed, mnha, halist, hacon, cn, asm, got, app>>
  BY DEF new_address, agents, ends
<1>5. Learned'
  BY <1>3, <1>4, LearnedKept DEF SessionInv
<1>6. Assembled'
  BY <1>4 DEF SessionInv, Assembled
<1>7. NetOK(net', Entries', cn'.seq, got')
  BY <1>3, <1>4, Known
<1> QED BY <1>2, <1>4, <1>5, <1>6, <1>7 DEF SessionInv, PeersKnown, DeliveredWhole

LEMMA LateRegister ==
    ASSUME SessionInv, late_register
    PROVE  SessionInv'
<1> DEFINE a == Head(late)
<1>1. /\ late # <<>> /\ late' = Tail(late)
      /\ net' = Put(net, MR_HA, Via(a[1], 5, a, a[1]))
      /\ UNCHANGED <<con, mnlist, mncon, cns, status>>
      /\ UNCHANGED <<crossed, mnha, halist, hacon, cn, asm, got, app>>
  BY DEF late_register, MR!late_register, agents, ends
<1>2. late \in Seq(Addrs)
  BY DEF SessionInv, RouterOK
<1>3. a \in Addrs /\ Tail(late) \in Seq(Addrs)
  BY <1>1, <1>2
<1>4. RouterOK' /\ Entries' = Entries
  BY <1>1, <1>3, SameEntries DEF SessionInv, RouterOK
<1> HIDE DEF a
<1>5. a[1] \in Uplinks
  BY <1>3 DEF Addrs
<1>6. Learned' /\ Assembled'
  BY <1>1, <1>4, LearnedKept DEF SessionInv, Assembled
<1>7. NetOK(net', Entries, cn.seq, got)
  <2>1. /\ NetOK(net, Entries, cn.seq, got) /\ MR_HA \in Dests
        /\ a \in Dests /\ a[1] \in 0..2
    BY <1>3, <1>5, Known
  <2>2. Fits(Entries, cn.seq, MR_HA, Sig(a[1], 5, a, a[1]))
    BY <1>3, <1>5, <2>1, AddrSigFits
  <2>3. NetOK(Put(net, MR_HA, <<Sig(a[1], 5, a, a[1])>>), Entries, cn.seq, got)
    BY <2>1, <2>2, NetPutSig
  <2>4. NetOK(Put(net, MR_HA, <<>>), Entries, cn.seq, got)
    BY <2>1, NetPutNothing
  <2> QED BY <1>1, <2>3, <2>4 DEF Via
<1> QED BY <1>1, <1>4, <1>6, <1>7 DEF SessionInv, PeersKnown, DeliveredWhole

LEMMA LinkDown ==
    ASSUME SessionInv, NEW u \in Uplinks, link_down(u)
    PROVE  SessionInv'
<1> DEFINE o == MR!Other(u)
           n == Put(net, MR_HA, Via(o, 9, con[o], u))
<1>1. /\ MR!re_homing(u) /\ mnlist # <<>> /\ RouterOK
      /\ net' = IF cns = {} THEN n ELSE Put(n, CN, Via(o, 9, mncon'[MN], 0))
      /\ UNCHANGED <<crossed, mnha, halist, hacon, cn, asm, got, app>>
  BY DEF link_down, agents, ends, SessionInv
<1>2. /\ RouterOK' /\ UNCHANGED <<mnlist, cns, status>>
      /\ o \in Uplinks /\ mncon'[MN] = con[o]
  BY <1>1, RehomingStep
<1>3. Entries' = Entries /\ MN \in Entries
  BY <1>1, <1>2, SameEntries, EntriesKnown
<1>4. Learned'
  BY <1>1, <1>3, LearnedKept DEF SessionInv
<1>5. Assembled'
  BY <1>1 DEF SessionInv, Assembled
<1>6. NetOK(net', Entries, cn.seq, got)
  <2> HIDE DEF o
  <2>1. /\ NetOK(net, Entries, cn.seq, got) /\ MR_HA \in Dests /\ CN \in Dests
        /\ u \in 0..2 /\ 0 \in 0..2 /\ o \in 0..2
    BY <1>2, Known
  <2>2. CASE con[o] = None
    <3>1. n = net
      BY <2>1, <2>2, NetPutNothing DEF Via
    <3>2. Put(n, CN, <<>>) = n
      BY <2>1, <3>1, NetPutNothing
    <3> QED BY <1>1, <2>1, <2>2, <3>1, <3>2 DEF Via
  <2>3. CASE con[o] # None
    <3>1. con[o] \in Addrs /\ con[o] \in Dests
      BY <1>1, <1>2, <2>3, Known DEF RouterOK
    <3>2. /\ Fits(Entries, cn.seq, MR_HA, Sig(o, 9, con[o], u))
          /\ Fits(Entries, cn.seq, CN, Sig(o, 9, con[o], 0))
      BY <1>3, <2>1, <3>1, AddrSigFits
    <3>3. NetOK(Put(net, MR_HA, <<Sig(o, 9, con[o], u)>>), Entries, cn.seq, got)
      BY <2>1, <3>1, <3>2, NetPutSig
    <3>4. n = Put(net, MR_HA, <<Sig(o, 9, con[o], u)>>)
      BY <2>3 DEF Via
    <3> HIDE DEF n
    <3>5. NetOK(n, Entries, cn.seq, got)
      BY <3>3, <3>4
    <3>6. NetOK(Put(n, CN, <<Sig(o, 9, con[o], 0)>>), Entries, cn.seq, got)
      BY <2>1, <3>1, <3>2, <3>5, NetPutSig
    <3> QED BY <1>1, <1>2, <2>3, <3>5, <3>6 DEF Via
  <2> QED BY <2>2, <2>3
<1> QED BY <1>1, <1>2, <1>3, <1>4, <1>5, <1>6 DEF SessionInv, PeersKnown, DeliveredWhole

LEMMA RecvInside ==
    ASSUME SessionInv, mr_recv_inside
    PROVE  SessionInv'
<1>0. /\ RouterOK /\ NetOK(net, Entries, cn.seq, got)
      /\ {MR_IN, CN, MN_HA, MR_HA} \subseteq Dests /\ 0 \in 0..2 /\ Uplinks \subseteq 0..2
      /\ UNCHANGED <<crossed, mnha, halist, hacon, cn, asm, got, app>>
  BY Known DEF mr_recv_inside, agents, ends, SessionInv
<1>1. PICK k \in Arrivals(MR_IN) :
        \/ /\ net[MR_IN][k].method = 5 /\ MR!recv_register(MN)
           /\ \E p \in sent' :
                 net' = Put(Take(MR_IN, k), MN_HA, Via(p.via, 5, MR_HA, 0))
        \/ /\ net[MR_IN][k].method = 1 /\ MR!recv_200ok_from_mn(CN, MN)
           /\ IF status' # "run" THEN net' = net
              ELSE \E p \in sent' :
                      net' = Put(Take(MR_IN, k), CN, Via(p.via, 1, mncon[MN], 0))
  BY DEF mr_recv_inside
<1> DEFINE m == net[MR_IN][k]
           n == Take(MR_IN, k)
<1>2. NetOK(n, Entries, cn.seq, got) /\ Fits(Entries, cn.seq, MR_IN, m)
  BY <1>0, NetTake
<1>3. Assembled'
  BY <1>0 DEF SessionInv, Assembled
<1> HIDE DEF m, n
<1>4. CASE /\ m.method = 5 /\ MR!recv_register(MN)
           /\ \E p \in sent' : net' = Put(n, MN_HA, Via(p.via, 5, MR_HA, 0))
  <2>1. /\ RouterOK' /\ status' = status /\ Entries' = Entries \cup {MN}
        /\ \A p \in sent' : p.via \in Uplinks
    BY <1>0, <1>4, RegisterStep
  <2>2. Learned'
    BY <1>0, <2>1, LearnedKept DEF SessionInv
  <2>3. NetOK(n, Entries', cn.seq, got)
    BY <1>2, <2>1, NetGrows, Known
  <2>4. PICK w \in Uplinks : net' = Put(n, MN_HA, Via(w, 5, MR_HA, 0))
    BY <1>4, <2>1
  <2>5. Fits(Entries', cn.seq, MN_HA, Sig(w, 5, MR_HA, 0))
    BY <2>1, NodeSigFits
  <2>6. NetOK(Put(n, MN_HA, <<Sig(w, 5, MR_HA, 0)>>), Entries', cn.seq, got)
    BY <1>0, <2>3, <2>5, NetPutSig
  <2>7. NetOK(Put(n, MN_HA, <<>>), Entries', cn.seq, got)
    BY <1>0, <2>3, NetPutNothing
  <2>8. NetOK(net', Entries', cn.seq, got)
    BY <2>4, <2>6, <2>7 DEF Via
  <2> QED BY <1>0, <1>3, <2>1, <2>2, <2>8 DEF SessionInv, PeersKnown, DeliveredWhole
<1>5. CASE /\ m.method = 1 /\ MR!recv_200ok_from_mn(CN, MN)
           /\ IF status' # "run" THEN net' = net
              ELSE \E p \in sent' : net' = Put(n, CN, Via(p.via, 1, mncon[MN], 0))
  <2>1. {MN, CN} \subseteq Entries
    BY <1>2, <1>5 DEF Fits
  <2>2. /\ UNCHANGED <<con, mnlist, mncon, cns, late>> /\ status' \in {status, "no_binding"}
        /\ status' = "run" =>
             \A p \in sent' : p.via \in Uplinks /\ con[p.via] = mncon[MN]
    BY <1>0, <1>5, <2>1, OkStep
  <2>3. RouterOK' /\ Entries' = Entries /\ PeersKnown'
    BY <1>0, <2>2, SameEntries DEF RouterOK, SessionInv, PeersKnown
  <2>4. Learned'
    BY <1>0, <2>3, LearnedKept DEF SessionInv
  <2>5. CASE status' = "run"
    <3>1. PICK w \in Uplinks : /\ con[w] = mncon[MN]
                               /\ net' = Put(n, CN, Via(w, 1, mncon[MN], 0))
      BY <1>5, <2>2, <2>5
    <3>2. ASSUME mncon[MN] # None PROVE NetOK(net', Entries, cn.seq, got)
      <4>1. mncon[MN] \in Addrs /\ mncon[MN] \in Dests /\ w \in 0..2
        BY <1>0, <3>2, Known DEF RouterOK
      <4>2. Fits(Entries, cn.seq, CN, Sig(w, 1, mncon[MN], 0))
        BY <2>1, <4>1, AddrSigFits
      <4>3. NetOK(Put(n, CN, <<Sig(w, 1, mncon[MN], 0)>>), Entries, cn.seq, got)
        BY <1>0, <1>2, <4>1, <4>2, NetPutSig
      <4> QED BY <3>1, <3>2, <4>3 DEF Via
    <3>3. ASSUME mncon[MN] = None PROVE NetOK(net', Entries, cn.seq, got)
      <4>1. net' = Put(n, CN, <<>>)
        BY <3>1, <3>3 DEF Via
      <4> QED BY <1>0, <1>2, <4>1, NetPutNothing
    <3>4. NetOK(net', Entries, cn.seq, got)
      BY <3>2, <3>3
    <3> QED BY <1>0, <1>3, <2>3, <2>4, <3>4 DEF SessionInv, DeliveredWhole
  <2>6. CASE status' # "run"
    BY <1>0, <1>3, <1>5, <2>3, <2>4, <2>6 DEF SessionInv, DeliveredWhole
  <2> QED BY <2>5, <2>6
<1> QED BY <1>1, <1>4, <1>5 DEF m, n

LEMMA RecvOutside ==
    ASSUME SessionInv, NEW a \in Addrs, mr_recv_outside(a)
    PROVE  SessionInv'
<1>0. /\ RouterOK /\ a \in Dests /\ MN \in Dests
      /\ NetOK(net, Entries, cn.seq, got)
      /\ UNCHANGED <<crossed, mnha, halist, hacon, cn, asm, got, app>>
  BY Known DEF mr_recv_outside, agents, ends, SessionInv
<1>1. PICK k \in Arrivals(a) :
        \/ MR!recv_from_cn(CN, MN) /\ net' = Put(Take(a, k), MN, <<net[a][k]>>)
        \/ net' = Take(a, k) /\ UNCHANGED router
  BY DEF mr_recv_outside
<1> DEFINE m == net[a][k]
<1>2. /\ NetOK(Take(a, k), Entries, cn.seq, got)
      /\ m \in Msgs /\ Fits(Entries, cn.seq, a, m)
      /\ m.method = 7 => /\ <<m.seq, m.frag>> \notin got
                         /\ \A e \in Dests : m \notin Elems(Take(a, k)[e])
  BY <1>0, NetTake
<1>3. Assembled'
  BY <1>0 DEF SessionInv, Assembled
<1> HIDE DEF m
<1>4. CASE MR!recv_from_cn(CN, MN) /\ net' = Put(Take(a, k), MN, <<m>>)
  <2>1. MN \in Entries /\ m.method \in {0, 7}
    BY <1>2 DEF Fits
  <2>2. /\ RouterOK' /\ status' = status /\ Entries' = Entries \cup {CN}
    BY <1>0, <1>4, <2>1, FromCnStep
  <2>3. Learned'
    BY <1>0, <2>2, LearnedKept DEF SessionInv
  <2>4. NetOK(Take(a, k), Entries', cn.seq, got)
    BY <1>2, <2>2, NetGrows, Known
  <2>5. Fits(Entries', cn.seq, MN, m)
    BY <1>2, <2>1, <2>2, NodesAssumption DEF Fits
  <2>6. NetOK(net', Entries', cn.seq, got)
    BY <1>0, <1>2, <1>4, <2>4, <2>5, NetPut
  <2> QED BY <1>0, <1>3, <2>2, <2>3, <2>6 DEF SessionInv, PeersKnown, DeliveredWhole
<1>5. CASE net' = Take(a, k) /\ UNCHANGED router
  <2>1. RouterOK' /\ Entries' = Entries /\ status' = status
    BY <1>0, <1>5, SameEntries DEF RouterOK, router
  <2>2. Learned'
    BY <1>0, <2>1, LearnedKept DEF SessionInv
  <2> QED BY <1>0, <1>2, <1>3, <1>5, <2>1, <2>2 DEF SessionInv, PeersKnown, DeliveredWhole
<1> QED BY <1>1, <1>4, <1>5 DEF m

LEMMA RouterKept ==
    ASSUME SessionInv, UNCHANGED router
    PROVE  RouterOK' /\ Entries' = Entries /\ PeersKnown'
BY SameEntries DEF SessionInv, RouterOK, PeersKnown, router

LEMMA MnHaRecv ==
    ASSUME SessionInv, mn_ha_recv
    PROVE  SessionInv'
<1>0. /\ NetOK(net, Entries, cn.seq, got)
      /\ {MN_HA, CN, MR_HA} \subseteq Dests /\ 0 \in 0..2
      /\ UNCHANGED <<router, crossed, halist, hacon, cn, asm, got, app>>
  BY Known DEF mn_ha_recv, ends
<1>1. RouterOK' /\ Entries' = Entries /\ PeersKnown'
  BY <1>0, RouterKept
<1>2. PICK k \in Arrivals(MN_HA) :
        \/ net[MN_HA][k].method = 5 /\ mnha' = TRUE /\ net' = Take(MN_HA, k)
        \/ /\ mnha /\ net' = Put(Take(MN_HA, k), CN, <<Sig(0, 6, MR_HA, 0)>>)
           /\ UNCHANGED mnha
        \/ UNCHANGED <<mnha, net>>
  BY DEF mn_ha_recv
<1> DEFINE m == net[MN_HA][k]
<1>3. NetOK(Take(MN_HA, k), Entries, cn.seq, got) /\ Fits(Entries, cn.seq, MN_HA, m)
  BY <1>0, NetTake
<1>4. Assembled'
  BY <1>0 DEF SessionInv, Assembled
<1> HIDE DEF m
<1>5. m.method = 5 => MN \in Entries
  BY <1>3 DEF Fits
<1>6. mnha' => MN \in Entries
  BY <1>2, <1>5 DEF SessionInv, Learned, m
<1>7. Learned'
  BY <1>0, <1>1, <1>6 DEF SessionInv, Learned
<1>8. NetOK(net', Entries, cn.seq, got)
  <2>1. CASE mnha /\ net' = Put(Take(MN_HA, k), CN, <<Sig(0, 6, MR_HA, 0)>>)
    <3>1. MN \in Entries
      BY <2>1 DEF SessionInv, Learned
    <3>2. Fits(Entries, cn.seq, CN, Sig(0, 6, MR_HA, 0))
      BY <3>1, NodeSigFits
    <3> QED BY <1>0, <1>3, <2>1, <3>2, NetPutSig
  <2> QED BY <1>0, <1>2, <1>3, <2>1
<1> QED BY <1>0, <1>1, <1>4, <1>7, <1>8 DEF SessionInv, DeliveredWhole

LEMMA MrHaRecv ==
    ASSUME SessionInv, mr_ha_recv
    PROVE  SessionInv'
<1>0. /\ NetOK(net, Entries, cn.seq, got)
      /\ {MR_HA, CN} \subseteq Dests /\ Addrs \subseteq Dests /\ 0 \in 0..2
      /\ UNCHANGED <<router, mnha, cn, asm, got, app>>
  BY Known DEF mr_ha_recv, ends
<1>1. RouterOK' /\ Entries' = Entries /\ PeersKnown'
  BY <1>0, RouterKept
<1>2. PICK q \in Arrivals(MR_HA) :
        LET m == net[MR_HA][q]
            known == \E k \in DOMAIN halist : halist[k] = m.id
        IN  /\ NoteCrossing(MR_HA, q)
            /\ \/ /\ m.method \in {5, 9}
                  /\ halist' = IF known THEN halist ELSE <<m.id>> \o halist
                  /\ hacon' = [hacon EXCEPT ![m.id] = m.contact]
                  /\ net' = Take(MR_HA, q)
               \/ /\ m.method = 0 /\ halist # <<>>
                  /\ net' = Put(Take(MR_HA, q), CN, <<Sig(0, 6, hacon[Head(halist)], 0)>>)
                  /\ UNCHANGED <<halist, hacon>>
               \/ UNCHANGED <<halist, hacon, net>>
  BY DEF mr_ha_recv
<1> DEFINE m == net[MR_HA][q]
           known == \E k \in DOMAIN halist : halist[k] = m.id
<1>3. crossed' \subseteq {CN, MR_HA}
  BY <1>2 DEF NoteCrossing, SessionInv, Learned
<1>4. NetOK(Take(MR_HA, q), Entries, cn.seq, got) /\ Fits(Entries, cn.seq, MR_HA, m)
  BY <1>0, NetTake
<1>5. Assembled'
  BY <1>0 DEF SessionInv, Assembled
<1> HIDE DEF m
<1>6. /\ halist \in Seq(Uplinks) /\ hacon \in [Uplinks -> Addrs \cup {None}]
      /\ \A j, k \in DOMAIN halist : halist[j] = halist[k] => j = k
      /\ \A k \in DOMAIN halist : hacon[halist[k]] \in Addrs
  BY DEF SessionInv, Learned
<1>7. CASE /\ m.method \in {5, 9}
           /\ halist' = IF known THEN halist ELSE <<m.id>> \o halist
           /\ hacon' = [hacon EXCEPT ![m.id] = m.contact]
           /\ net' = Take(MR_HA, q)
  <2>1. m.id \in Uplinks /\ m.contact \in Addrs
    BY <1>4, <1>7 DEF Fits
  <2>2. /\ hacon' \in [Uplinks -> Addrs \cup {None}]
        /\ \A v \in Uplinks : v = m.id \/ hacon[v] \in Addrs => hacon'[v] \in Addrs
    BY <1>6, <1>7, <2>1
  <2>3. /\ halist' \in Seq(Uplinks)
        /\ \A j, k \in DOMAIN halist' : halist'[j] = halist'[k] => j = k
        /\ \A k \in DOMAIN halist' : hacon'[halist'[k]] \in Addrs
    <3>1. CASE known
      BY <1>6, <1>7, <2>2, <3>1
    <3>2. CASE ~known
      <4> DEFINE h == <<m.id>> \o halist
      <4>1. /\ h \in Seq(Uplinks) /\ Len(halist) \in Nat
            /\ DOMAIN halist = 1..Len(halist) /\ DOMAIN h = 1..(Len(halist) + 1)
            /\ h[1] = m.id
            /\ \A k \in DOMAIN h : k # 1 => k - 1 \in DOMAIN halist /\ h[k] = halist[k - 1]
        BY <1>6, <2>1
      <4>2. halist' = h
        BY <1>7, <3>2
      <4> HIDE DEF h
      <4>3. ASSUME NEW j \in DOMAIN h, NEW k \in DOMAIN h, h[j] = h[k]
            PROVE  j = k
        <5>1. CASE j = 1 \/ k = 1
          BY <3>2, <4>1, <4>3, <5>1
        <5>2. CASE j # 1 /\ k # 1
          <6>1. j - 1 = k - 1
            BY <1>6, <4>1, <4>3, <5>2
          <6> QED BY <4>1, <6>1
        <5> QED BY <5>1, <5>2
      <4>4. ASSUME NEW k \in DOMAIN h
            PROVE  hacon'[h[k]] \in Addrs
        <5>1. CASE k = 1
          BY <2>1, <2>2, <4>1, <5>1
        <5>2. CASE k # 1
          <6>1. h[k] \in Uplinks /\ hacon[h[k]] \in Addrs
            BY <1>6, <4>1, <5>2
          <6> QED BY <2>2, <6>1
        <5> QED BY <5>1, <5>2
      <4> QED BY <4>1, <4>2, <4>3, <4>4
    <3> QED BY <3>1, <3>2
  <2>4. Learned'
    BY <1>0, <1>1, <1>3, <2>2, <2>3 DEF SessionInv, Learned
  <2> QED BY <1>0, <1>1, <1>4, <1>5, <1>7, <2>4 DEF SessionInv, DeliveredWhole
<1>8. CASE /\ m.method = 0 /\ halist # <<>>
           /\ net' = Put(Take(MR_HA, q), CN, <<Sig(0, 6, hacon[Head(halist)], 0)>>)
           /\ UNCHANGED <<halist, hacon>>
  <2> DEFINE a == hacon[Head(halist)]
  <2>1. MN \in Entries
    BY <1>4, <1>8 DEF Fits
  <2>2. 1 \in DOMAIN halist /\ Head(halist) = halist[1]
    BY <1>6, <1>8
  <2>3. a \in Addrs
    BY <1>6, <2>2
  <2> HIDE DEF a
  <2>4. Fits(Entries, cn.seq, CN, Sig(0, 6, a, 0))
    <3>1. 1 \in Uplinks
      BY DEF Uplinks
    <3> QED BY <2>1, <2>3, <3>1, AddrSigFits
  <2>5. NetOK(Put(Take(MR_HA, q), CN, <<Sig(0, 6, a, 0)>>), Entries, cn.seq, got)
    BY <1>0, <1>4, <2>3, <2>4, NetPutSig
  <2>6. Learned'
    BY <1>0, <1>1, <1>3, <1>8 DEF SessionInv, Learned
  <2> QED BY <1>0, <1>1, <1>5, <1>8, <2>5, <2>6 DEF SessionInv, DeliveredWhole, a
<1>9. CASE UNCHANGED <<halist, hacon, net>>
  <2>1. Learned'
    BY <1>0, <1>1, <1>3, <1>9 DEF SessionInv, Learned
  <2> QED BY <1>0, <1>1, <1>5, <1>9, <2>1 DEF SessionInv, DeliveredWhole
<1> QED BY <1>2, <1>7, <1>8, <1>9 DEF m

LEMMA CnInvite ==
    ASSUME SessionInv, cn_invite
    PROVE  SessionInv'
<1>0. /\ cn' = [cn EXCEPT !.started = TRUE]
      /\ net' = Put(net, MN_HA, <<Sig(0, 0, CN, 0)>>)
      /\ UNCHANGED <<router, crossed, mnha, halist, hacon, asm, got, app>>
      /\ NetOK(net, Entries, cn.seq, got) /\ {MN_HA, CN} \subseteq Dests /\ 0 \in 0..2
  BY Known DEF cn_invite, agents
<1>1. RouterOK' /\ Entries' = Entries /\ PeersKnown'
  BY <1>0, RouterKept
<1>2. /\ cn \in CnStates /\ cn' \in CnStates
      /\ cn'.dst = cn.dst /\ cn'.seq = cn.seq /\ cn'.talking = cn.talking
  BY <1>0 DEF SessionInv, Learned, CnStates
<1>3. Learned'
  BY <1>0, <1>1, <1>2 DEF SessionInv, Learned, CnStates
<1>4. Assembled'
  BY <1>0, <1>2 DEF SessionInv, Assembled
<1>5. NetOK(net', Entries, cn.seq, got)
  <2>1. Fits(Entries, cn.seq, MN_HA, Sig(0, 0, CN, 0))
    BY NodeSigFits
  <2> QED BY <1>0, <2>1, NetPutSig
<1> QED BY <1>0, <1>1, <1>2, <1>3, <1>4, <1>5 DEF SessionInv, DeliveredWhole

LEMMA TalkStep ==
    ASSUME NEW n, NEW c \in CnStates, c.dst \in Addrs, c.seq = cn.seq,
           NetOK(n, Entries, cn.seq, got), MN \in Entries, Assembled,
           Talk(n, c), asm' = asm, got' = got
    PROVE  /\ cn' \in CnStates /\ cn'.dst = c.dst /\ cn'.talking = c.talking
           /\ NetOK(net', Entries, cn'.seq, got) /\ Assembled'
<1>0. MaxData \in Nat /\ c.seq \in 0..MaxData /\ cn.seq \in Nat
  BY BoundsAssumption DEF CnStates
<1>1. CASE c.seq < MaxData
  <2>1. /\ net' = Put(n, c.dst, Data(c.seq))
        /\ cn' = [c EXCEPT !.seq = c.seq + 1]
    BY <1>1 DEF Talk
  <2>2. c.seq + 1 \in 0..MaxData
    BY <1>0, <1>1
  <2>3. /\ cn' \in CnStates /\ cn'.dst = c.dst /\ cn'.talking = c.talking
        /\ cn'.seq = cn.seq + 1
    BY <2>1, <2>2 DEF CnStates
  <2>4. got \subseteq (0..(cn.seq - 1)) \X (1..Frags)
    BY DEF Assembled
  <2>5. NetOK(Put(n, c.dst, Data(cn.seq)), Entries, cn.seq + 1, got)
    BY <1>0, <2>4, NetPutData
  <2>6. Assembled'
    BY <1>0, <2>3, AssemblyKept
  <2> QED BY <2>1, <2>3, <2>5, <2>6
<1>2. CASE ~(c.seq < MaxData)
  <2>1. net' = n /\ cn' = [c EXCEPT !.seq = c.seq]
    BY <1>2 DEF Talk
  <2>2. cn' = c
    BY <2>1 DEF CnStates
  <2>3. Assembled'
    BY <1>0, <2>2, AssemblyKept
  <2> QED BY <2>1, <2>2, <2>3
<1> QED BY <1>1, <1>2

LEMMA CnSendData ==
    ASSUME SessionInv, cn_send_data
    PROVE  SessionInv'
<1>0. /\ cn.talking /\ Talk(net, cn) /\ NetOK(net, Entries, cn.seq, got) /\ Assembled
      /\ UNCHANGED <<router, crossed, mnha, halist, hacon, asm, got, app>>
  BY Known DEF cn_send_data, agents, SessionInv
<1>1. RouterOK' /\ Entries' = Entries /\ PeersKnown'
  BY <1>0, RouterKept
<1>2. cn \in CnStates /\ cn.dst \in Addrs /\ MN \in Entries
  BY <1>0 DEF SessionInv, Learned, CnStates
<1>3. /\ cn' \in CnStates /\ cn'.dst = cn.dst /\ cn'.talking = cn.talking
      /\ NetOK(net', Entries, cn'.seq, got) /\ Assembled'
  BY <1>0, <1>2, TalkStep
<1>4. Learned'
  BY <1>0, <1>1, <1>2, <1>3 DEF SessionInv, Learned, CnStates
<1> QED BY <1>0, <1>1, <1>3, <1>4 DEF SessionInv, DeliveredWhole

LEMMA CnRecv ==
    ASSUME SessionInv, cn_recv
    PROVE  SessionInv'
<1>0. /\ NetOK(net, Entries, cn.seq, got) /\ Assembled
      /\ {MR_HA, CN} \subseteq Dests /\ Addrs \subseteq Dests /\ 0 \in 0..2 /\ cn.seq \in Nat
      /\ UNCHANGED <<router, mnha, halist, hacon, asm, got, app>>
  BY Known DEF cn_recv, agents, SessionInv
<1>1. RouterOK' /\ Entries' = Entries /\ PeersKnown'
  BY <1>0, RouterKept
<1>2. PICK k \in Arrivals(CN) :
        LET m == net[CN][k]
        IN  /\ NoteCrossing(CN, k)
            /\ \/ /\ m.method = 6 /\ UNCHANGED cn
                  /\ net' = Put(Take(CN, k), m.contact, <<Sig(0, 0, CN, 0)>>)
               \/ /\ m.method = 1
                  /\ Talk(Take(CN, k), [cn EXCEPT !.talking = TRUE, !.dst = m.contact])
               \/ /\ m.method = 9 /\ net' = Take(CN, k)
                  /\ cn' = [cn EXCEPT !.dst = m.contact]
  BY DEF cn_recv, invite_to_temp_move
<1> DEFINE m == net[CN][k]
<1>3. crossed' \subseteq {CN, MR_HA}
  BY <1>2 DEF NoteCrossing, SessionInv, Learned
<1>4. NetOK(Take(CN, k), Entries, cn.seq, got) /\ Fits(Entries, cn.seq, CN, m)
  BY <1>0, NetTake
<1>5. /\ MN \in Entries
      /\ \/ m.method \in {1, 9} /\ m.contact \in Addrs
         \/ m.method = 6 /\ m.contact \in Addrs \cup {MR_HA}
  BY <1>4 DEF Fits
<1>6. cn \in CnStates
  BY DEF SessionInv, Learned, CnStates
<1> HIDE DEF m
<1>7. CASE /\ m.method = 6 /\ UNCHANGED cn
           /\ net' = Put(Take(CN, k), m.contact, <<Sig(0, 0, CN, 0)>>)
  <2>1. Fits(Entries, cn.seq, m.contact, Sig(0, 0, CN, 0))
    <3>1. CASE m.contact = MR_HA
      BY <1>5, <3>1, NodeSigFits
    <3>2. CASE m.contact \in Addrs
      <4>1. 1 \in Uplinks
        BY DEF Uplinks
      <4> QED BY <1>0, <1>5, <3>2, <4>1, AddrSigFits
    <3> QED BY <1>5, <1>7, <3>1, <3>2
  <2>2. m.contact \in Dests
    BY <1>0, <1>5, <1>7
  <2>3. NetOK(net', Entries, cn.seq, got)
    BY <1>0, <1>4, <1>7, <2>1, <2>2, NetPutSig
  <2>4. Learned'
    BY <1>0, <1>1, <1>3, <1>7 DEF SessionInv, Learned
  <2>5. Assembled'
    BY <1>0, <1>7 DEF Assembled
  <2> QED BY <1>0, <1>1, <1>7, <2>3, <2>4, <2>5 DEF SessionInv, DeliveredWhole
<1>8. CASE m.method = 1 /\ Talk(Take(CN, k), [cn EXCEPT !.talking = TRUE, !.dst = m.contact])
  <2> DEFINE c == [cn EXCEPT !.talking = TRUE, !.dst = m.contact]
  <2>0. m.contact \in Addrs
    BY <1>5, <1>8
  <2>1. c \in CnStates /\ c.dst \in Addrs /\ c.seq = cn.seq
    <3> DEFINE b == [cn EXCEPT !.talking = TRUE]
    <3>1. b \in CnStates /\ b.seq = cn.seq
      BY <1>6 DEF CnStates
    <3>2. c = [b EXCEPT !.dst = m.contact]
      OBVIOUS
    <3> HIDE DEF b, c
    <3> QED BY <2>0, <3>1, <3>2 DEF CnStates
  <2> HIDE DEF c
  <2>2. /\ cn' \in CnStates /\ cn'.dst = c.dst
        /\ NetOK(net', Entries, cn'.seq, got) /\ Assembled'
    BY <1>0, <1>4, <1>5, <1>8, <2>1, TalkStep DEF c
  <2>3. Learned'
    BY <1>0, <1>1, <1>3, <1>5, <2>1, <2>2 DEF SessionInv, Learned, CnStates
  <2> QED BY <1>0, <1>1, <2>2, <2>3 DEF SessionInv, DeliveredWhole
<1>9. CASE m.method = 9 /\ net' = Take(CN, k) /\ cn' = [cn EXCEPT !.dst = m.contact]
  <2>1. cn' \in CnStates /\ cn'.dst \in Addrs /\ cn'.seq = cn.seq
    BY <1>5, <1>6, <1>9 DEF CnStates
  <2>2. Learned'
    BY <1>0, <1>1, <1>3, <1>5, <2>1 DEF SessionInv, Learned, CnStates
  <2>3. Assembled'
    BY <1>0, <2>1 DEF Assembled
  <2> QED BY <1>0, <1>1, <1>4, <1>9, <2>1, <2>2, <2>3 DEF SessionInv, DeliveredWhole
<1> QED BY <1>2, <1>7, <1>8, <1>9 DEF m

LEMMA MnRegister ==
    ASSUME SessionInv, mn_register
    PROVE  SessionInv'
<1>0. /\ net' = Put(net, MR_IN, <<Sig(0, 5, MN, 0)>>)
      /\ UNCHANGED <<router, crossed, mnha, halist, hacon, cn, asm, got, app>>
      /\ NetOK(net, Entries, cn.seq, got) /\ {MR_IN, MN} \subseteq Dests /\ 0 \in 0..2
  BY Known DEF mn_register, agents, ends
<1>1. RouterOK' /\ Entries' = Entries /\ PeersKnown'
  BY <1>0, RouterKept
<1>2. Fits(Entries, cn.seq, MR_IN, Sig(0, 5, MN, 0))
  BY NodeSigFits
<1>3. NetOK(net', Entries, cn.seq, got)
  BY <1>0, <1>2, NetPutSig
<1>4. Learned' /\ Assembled'
  BY <1>0, <1>1, LearnedKept DEF SessionInv, Assembled
<1> QED BY <1>0, <1>1, <1>3, <1>4 DEF SessionInv, DeliveredWhole

LEMMA MnRecv ==
    ASSUME SessionInv, mn_recv
    PROVE  SessionInv'
<1>0. /\ NetOK(net, Entries, cn.seq, got) /\ Assembled /\ cn.seq \in Nat
      /\ {MN, MR_IN} \subseteq Dests /\ 0 \in 0..2
      /\ UNCHANGED <<router, crossed, mnha, halist, hacon, cn>>
  BY Known DEF mn_recv, agents, SessionInv
<1>1. RouterOK' /\ Entries' = Entries /\ PeersKnown'
  BY <1>0, RouterKept
<1>2. PICK k \in Arrivals(MN) :
        LET m == net[MN][k]
        IN  \/ /\ m.method = 0
               /\ asm' = Reassemble(m, SigBytes, SigBytes)
               /\ net' = IF asm'.t = asm'.r
                         THEN Put(Take(MN, k), MR_IN, <<Sig(0, 1, MN, 0)>>) ELSE Take(MN, k)
               /\ UNCHANGED <<got, app>>
            \/ /\ m.method = 7
               /\ asm' = Reassemble(m, Size, Frags * Size)
               /\ net' = Take(MN, k)
               /\ got' = got \cup {<<m.seq, m.frag>>}
               /\ app' = IF asm'.t = asm'.r THEN app \cup {m.seq} ELSE app
  BY DEF mn_recv
<1> DEFINE m == net[MN][k]
<1>3. /\ NetOK(Take(MN, k), Entries, cn.seq, got)
      /\ m \in Msgs /\ Fits(Entries, cn.seq, MN, m)
      /\ m.method = 7 => /\ <<m.seq, m.frag>> \notin got
                         /\ NetOK(Take(MN, k), Entries, cn.seq, got \cup {<<m.seq, m.frag>>})
  BY <1>0, NetTake
<1>4. Learned'
  BY <1>0, <1>1, LearnedKept DEF SessionInv
<1>5. \/ /\ m.method = 0
         /\ asm' = Reassemble(m, SigBytes, SigBytes)
         /\ net' = IF asm'.t = asm'.r THEN Put(Take(MN, k), MR_IN, <<Sig(0, 1, MN, 0)>>)
                                      ELSE Take(MN, k)
         /\ UNCHANGED <<got, app>>
      \/ /\ m.method = 7
         /\ asm' = Reassemble(m, Size, Frags * Size)
         /\ net' = Take(MN, k)
         /\ got' = got \cup {<<m.seq, m.frag>>}
         /\ app' = IF asm'.t = asm'.r THEN app \cup {m.seq} ELSE app
  BY <1>2
<1> HIDE DEF m
<1>6. CASE m.method = 0
  <2>1. m.seq = -2 /\ {MN, CN} \subseteq Entries
    BY <1>3, <1>6 DEF Fits
  <2>2. Assembled'
    BY <1>0, <1>3, <1>5, <1>6, <2>1, SigAssembled
  <2>3. Fits(Entries, cn.seq, MR_IN, Sig(0, 1, MN, 0))
    BY <2>1, NodeSigFits
  <2>4. NetOK(Put(Take(MN, k), MR_IN, <<Sig(0, 1, MN, 0)>>), Entries, cn.seq, got)
    BY <1>0, <1>3, <2>3, NetPutSig
  <2>5. NetOK(net', Entries, cn.seq, got)
    BY <1>3, <1>5, <1>6, <2>4
  <2> QED BY <1>0, <1>1, <1>4, <1>5, <1>6, <2>2, <2>5 DEF SessionInv, DeliveredWhole
<1>7. CASE m.method = 7
  <2>1. PICK s \in 0..(cn.seq - 1), f \in 1..Frags : m = Data(s)[f]
    BY <1>3, <1>7 DEF Fits
  <2>2. m.seq = s /\ m.frag = f
    BY <2>1 DEF Data
  <2>3. /\ Assembled'
        /\ asm'.t = asm'.r => \A g \in 1..Frags : <<m.seq, g>> \in got'
    BY <1>0, <1>3, <1>5, <1>7, <2>1, <2>2, DataAssembled
  <2>4. DeliveredWhole'
    BY <1>5, <1>7, <2>3 DEF SessionInv, DeliveredWhole
  <2>5. NetOK(net', Entries', cn'.seq, got')
    <3> DEFINE G == got \cup {<<m.seq, m.frag>>}
    <3>1. got' = G /\ net' = Take(MN, k)
      BY <1>5, <1>7
    <3>2. NetOK(Take(MN, k), Entries, cn.seq, G)
      BY <1>3, <1>7, Zenon
    <3> HIDE DEF G
    <3> QED BY <1>0, <1>1, <3>1, <3>2
  <2> QED BY <1>1, <1>4, <2>3, <2>4, <2>5 DEF SessionInv
<1> QED BY <1>5, <1>6, <1>7

LEMMA LoseData ==
    ASSUME SessionInv, lose_data
    PROVE  SessionInv'
<1>0. /\ NetOK(net, Entries, cn.seq, got) /\ MN \in Dests
      /\ UNCHANGED <<router, crossed, mnha, halist, hacon, cn, asm, got, app>>
  BY Known DEF lose_data, agents, ends
<1>1. RouterOK' /\ Entries' = Entries /\ PeersKnown'
  BY <1>0, RouterKept
<1>2. PICK k \in Arrivals(MN) : net' = Take(MN, k)
  BY DEF lose_data
<1>3. NetOK(net', Entries, cn.seq, got)
  BY <1>0, <1>2, NetTake
<1>4. Learned' /\ Assembled'
  BY <1>0, <1>1, LearnedKept DEF SessionInv, Assembled
<1> QED BY <1>0, <1>1, <1>3, <1>4 DEF SessionInv, DeliveredWhole

-----------------------------------------------------------------------------
(* The theorems.                                                           *)

LEMMA SessionInit == Init => SessionInv
<1> SUFFICES ASSUME Init PROVE SessionInv
  OBVIOUS
<1> USE DEF Init
<1>1. /\ con = [u \in Uplinks |-> None] /\ mnlist = <<>> /\ mncon = [m \in {MN} |-> None]
      /\ cns = {} /\ status = "run" /\ late = <<>>
  BY DEF MR!Init, MR!Uplinks, Uplinks
<1>2. RouterOK /\ PeersKnown
  BY <1>1 DEF RouterOK, PeersKnown
<1>3. Learned
  <2>1. 0 \in 0..MaxData
    BY BoundsAssumption
  <2>2. MN_HA \notin Addrs
    BY NodesAssumption
  <2> QED BY <2>1, <2>2 DEF Learned, CnStates
<1>4. Assembled
  <2>1. Counted(asm, {}, got)
    BY DEF Counted
  <2>2. asm \in [seq : -1..(cn.seq - 1), t : {0, SigBytes, Frags * Size}, r : Nat]
    OBVIOUS
  <2> QED BY <2>1, <2>2 DEF Assembled
<1>5. NetOK(net, Entries, cn.seq, got)
  BY DEF NetOK, Distinct, Elems, Once
<1> QED BY <1>2, <1>3, <1>4, <1>5 DEF SessionInv, DeliveredWhole

LEMMA SessionStep == SessionInv /\ [Next]_vars => SessionInv'
<1> SUFFICES ASSUME SessionInv, [Next]_vars PROVE SessionInv'
  OBVIOUS
<1>1. CASE Deliver
  BY <1>1, RecvInside, RecvOutside, MnHaRecv, MrHaRecv, CnRecv, MnRecv DEF Deliver
<1>2. CASE late_register \/ \E u \in Uplinks : new_address(u) \/ link_down(u)
  BY <1>2, NewAddress, LinkDown, LateRegister
<1>3. CASE cn_invite \/ cn_send_data \/ mn_register \/ lose_data
  BY <1>3, CnInvite, CnSendData, MnRegister, LoseData
<1>4. CASE UNCHANGED vars
  <2>1. UNCHANGED <<router, net, crossed, mnha, halist, hacon, cn, asm, got, app>>
    BY <1>4 DEF vars, agents, ends
  <2>2. RouterOK' /\ Entries' = Entries /\ PeersKnown'
    BY <2>1, RouterKept
  <2>3. Learned' /\ Assembled'
    BY <2>1, <2>2, LearnedKept DEF SessionInv, Assembled
  <2> QED BY <2>1, <2>2, <2>3 DEF SessionInv, DeliveredWhole
<1> QED BY <1>1, <1>2, <1>3, <1>4 DEF Next

\* A list of distinct uplinks has no more than two entries.
LEMMA ShortList ==
    ASSUME NEW s \in Seq(Uplinks), \A j, k \in DOMAIN s : s[j] = s[k] => j = k
    PROVE  Len(s) <= 2
<1> SUFFICES ASSUME Len(s) > 2 PROVE FALSE
  OBVIOUS
<1>1. {1, 2, 3} \subseteq DOMAIN s
  OBVIOUS
<1>2. s[1] \in {1, 2} /\ s[2] \in {1, 2} /\ s[3] \in {1, 2}
  BY <1>1 DEF Uplinks
<1>3. s[1] # s[2] /\ s[2] # s[3] /\ s[1] # s[3]
  BY <1>1
<1> QED BY <1>2, <1>3

LEMMA InvTypes == SessionInv => TypeOK
<1> SUFFICES ASSUME SessionInv PROVE TypeOK
  OBVIOUS
<1>1. /\ net \in [Dests -> Seq(Msgs)] /\ late \in Seq(Addrs) /\ crossed \subseteq {CN, MR_HA}
      /\ halist \in Seq(Uplinks) /\ hacon \in [Uplinks -> Addrs \cup {None}]
  BY DEF SessionInv, NetOK, RouterOK, Learned
<1>2. Len(halist) <= 2
  BY ShortList DEF SessionInv, Learned
<1>3. cn \in [started : BOOLEAN, dst : Dests, seq : 0..MaxData, talking : BOOLEAN]
  <2>1. {MN_HA} \cup Addrs \subseteq Dests
    BY DEF Dests
  <2> QED BY <2>1 DEF SessionInv, Learned, CnStates
<1>4. asm \in [seq : -1..MaxData, t : {0, SigBytes, Frags * Size},
               r : 0..(SigBytes + Frags * Size)]
  <2>1. PICK S \in SUBSET (1..Frags) : Counted(asm, S, got)
    BY DEF SessionInv, Assembled
  <2>2. Cardinality(S) \in 0..Frags /\ Frags \in Nat
    BY FragmentSets, BoundsAssumption
  <2>3. /\ asm \in [seq : -1..(cn.seq - 1), t : {0, SigBytes, Frags * Size}, r : Nat]
        /\ cn.seq \in 0..MaxData /\ MaxData \in Nat
    BY Known, BoundsAssumption DEF SessionInv, Assembled
  <2>4. \/ asm.r = 10 * Cardinality(S)
        \/ asm.r = 1 + 10 * Cardinality(S)
        \/ asm.r = 0
    BY <2>1 DEF Counted, Size, SigBytes
  <2>5. asm.r \in Nat /\ asm.r <= 1 + Frags * 10
    BY <2>2, <2>3, <2>4
  <2>6. asm.r \in 0..(SigBytes + Frags * Size)
    BY <2>2, <2>5 DEF Size, SigBytes
  <2>7. asm.seq \in -1..MaxData
    BY <2>3
  <2> QED BY <2>3, <2>6, <2>7
<1>5. ASSUME NEW d \in Dests, NEW k \in DOMAIN net[d]
      PROVE  net[d][k].method \in Handled(d)
  <2>1. Fits(Entries, cn.seq, d, net[d][k])
    BY <1>5 DEF SessionInv, NetOK, Elems
  <2>2. \/ d \in {MR_IN, MN_HA, MR_HA, CN}
        \/ d \in Addrs \cup {MN} /\ d \notin {MR_IN, MN_HA, MR_HA, CN}
    BY NodesAssumption DEF Dests
  <2>3. CASE d = MR_IN
    BY <2>1, <2>3 DEF Fits, Handled
  <2>4. CASE d = MN_HA
    BY <2>1, <2>4, NodesAssumption DEF Fits, Handled
  <2>5. CASE d = MR_HA
    BY <2>1, <2>5, NodesAssumption DEF Fits, Handled
  <2>6. CASE d = CN
    BY <2>1, <2>6, NodesAssumption DEF Fits, Handled
  <2>7. CASE d \in Addrs \cup {MN} /\ d \notin {MR_IN, MN_HA, MR_HA, CN}
    BY <2>1, <2>7 DEF Fits, Handled
  <2> QED BY <2>2, <2>3, <2>4, <2>5, <2>6, <2>7
<1> QED BY <1>1, <1>2, <1>3, <1>4, <1>5 DEF TypeOK

\* The inductive invariant holds in every state of a call: what each node has learned
\* and what is on its way to it agree with the entries of the router.
THEOREM SessionHolds == Spec => []SessionInv
BY SessionInit, SessionStep, PTL DEF Spec

\* Every queue holds only packets of the methods its node has a branch for, on
\* whichever path and in whatever order they arrive; the home agent keeps
\* at most one entry per uplink, and the byte count of asm_info never exceeds one data
\* message and one signalling message.
THEOREM SessionTypes == Spec => []TypeOK
BY SessionHolds, InvTypes, PTL

\* The asserts of recv on the entries of the MN and the CN never fail in a call.
THEOREM PeersAreKnown == Spec => []PeersKnown
<1>1. SessionInv => PeersKnown
  BY DEF SessionInv
<1> QED BY <1>1, SessionHolds, PTL

\* recv_msg of the MN is given a data message only when all its packets came.
THEOREM DataDeliveredWhole == Spec => []DeliveredWhole
<1>1. SessionInv => DeliveredWhole
  BY DEF SessionInv
<1> QED BY <1>1, SessionHolds, PTL
=============================================================================
