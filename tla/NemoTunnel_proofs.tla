------------------------ MODULE NemoTunnel_proofs ------------------------
(***************************************************************************)
(* TunnelsMatch, DeliveredClean, EntriesFound and InboundLive for any      *)
(* number of packets and link events, with and without losses.             *)
(*                                                                         *)
(* The invariant NemoInv says which entries each list may hold and which   *)
(* packets may be in flight: one operator for each leg of a journey, with  *)
(* the stack of tunnels the packet carries there.  Each handler is shown   *)
(* to turn a leg into the next one.                                        *)
(***************************************************************************)
EXTENDS NemoTunnel, SequenceTheorems, WellFoundedInduction, TLAPS

Pairs == Addresses \X Addresses
Stacks == Seq(Pairs)
Push(st, d, s) == Append(st, <<d, s>>)

Pkt(type, zone, src, dst, tun, haddr, coa, pfx) ==
    [type |-> type, src |-> src, dst |-> dst, haddr |-> haddr, coa |-> coa,
     pfx |-> pfx, tun |-> tun, zone |-> zone]

\* Stacks of one, two and three tunnels, the last one on top.
One(d, s) == Push(<<>>, d, s)
Two(d, s, d2, s2) == Push(One(d, s), d2, s2)
Three(d, s, d2, s2, d3, s3) == Push(Two(d, s, d2, s2), d3, s3)

-----------------------------------------------------------------------------
(* The invariant: the binding lists.                                       *)

MrEntries ==
    {UplinkEntry(1), UplinkEntry(2)} \cup
    [type : {"MN"}, addr : {"mn"}, haddr : {"mnhoa"}, caddr : {"c1", "c2"},
     prefix : {Unset}, eface : {1}]

\* The own home address, and the one of the other uplink once REHOME came.
HaEntries(nemo, h, c, otherH, otherHA) ==
    [type : {"MR"}, addr : {Unset}, haddr : {h}, caddr : {c, otherH}, prefix : {nemo},
     eface : {0}] \cup
    [type : {"MR"}, addr : {Unset}, haddr : {otherH}, caddr : {otherHA}, prefix : {Zero},
     eface : {0}]

Ha1Entries == HaEntries("nemo1", "h1", "c1", "h2", "ha2")
Ha2Entries == HaEntries("nemo2", "h2", "c2", "h1", "ha1")

MnhaEntries ==
    [type : {"MN"}, addr : {"cn"}, haddr : {"cnhoa"}, caddr : {"cn"}, prefix : {Unset},
     eface : {0}] \cup
    [type : {"MN"}, addr : {"ha1"}, haddr : {"mnhoa"}, caddr : {"mn"}, prefix : {Unset},
     eface : {0}]

\* Home addresses and care-of addresses in the packets of the CN and the MN.
CnHomes == {"cnhoa", "mnhoa", "h2", Zero}
MnHomes == {"mnhoa", Zero}
MnCares == {"mn", "cn", Unset, Zero}

MnEntries ==
    [type : {"MN_HA"}, addr : {"mnha"}, haddr : {"mnhoa"}, caddr : {Unset, "mn", "cn"},
     prefix : {Unset}, eface : {1}] \cup
    [type : {"MN"}, addr : {"cn"}, haddr : CnHomes, caddr : {"cn"}, prefix : {Unset},
     eface : {0}]

CnEntries ==
    {HomeEntry("cnhoa", 0)} \cup
    [type : {"MN"}, addr : {"ha1"}, haddr : MnHomes, caddr : MnCares, prefix : {Unset},
     eface : {0}]

Has(t, field, v) == \E i \in DOMAIN t : t[i][field] = v

\* The router knows the MN; the CN has registered.
Known == Has(tbl["mr"], "addr", "mn")
Called == "cn" \in bound

TableOK(n, t) ==
    /\ t \in Seq(Entries)
    /\ n = "mr" => t \in Seq(MrEntries) /\ Has(t, "eface", 2) /\ Has(t, "prefix", "nemo1")
    /\ n = "ha1" => t \in Seq(Ha1Entries) /\ Has(t, "haddr", "h1")
    /\ n = "ha2" => t \in Seq(Ha2Entries) /\ Has(t, "haddr", "h2")
    /\ n = "mnha" => t \in Seq(MnhaEntries)
    /\ n = "mn" => t \in Seq(MnEntries) /\ Has(t, "type", "MN_HA")
    /\ n = "cn" => t \in Seq(CnEntries) /\ Has(t, "type", "MN_HA")

TablesOK == tbl \in [Nodes -> Seq(Entries)] /\ \A n \in Nodes : TableOK(n, tbl[n])

-----------------------------------------------------------------------------
(* The invariant: the packets in flight, one operator for each leg of a    *)
(* journey.                                                                *)

\* BU of the MN to MN_HA and to the CN; BU of the CN to MN_HA and to the MN.
MNHomeBU(z, d) == Pkt("BU", z, "mn", d, One("mnha", "mn"), "mnhoa", "mn", Zero)
MNHomeBU2 == Pkt("BU", "net", "ha1", "mnha", <<>>, "mnhoa", "mn", Zero)
MNPeerBU(z, d) == Pkt("BU", z, "mn", d, Two("cn", "mn", "cn", "mn"), "mnhoa", "mn", Zero)
MNPeerBU2 == Pkt("BU", "net", "ha1", "cn", One("cn", "ha1"), "mnhoa", "mn", Zero)
CNHomeBU == Pkt("BU", "net", "cn", "mnha", One("mnha", "cn"), "cnhoa", "cn", Zero)
CNPeerBU(d) == Pkt("BU", "net", "cn", d, One("mn", "cn"), "cnhoa", "cn", Zero)
CNPeerBU2 == Pkt("BU", "nemo", "cn", "mn", <<>>, "cnhoa", "cn", Zero)

\* BU of the router for an uplink, or, by send_bu_msg's lookup, for the MN.
RouterBU(ha, h, c, n) == Pkt("BU", "net", c, ha, One(ha, c), h, c, n)
StrayBU == Pkt("BU", "net", "c1", "mn", One("mn", "c1"), "mnhoa", "c1", Unset)

BUs(p, known, called) ==
    \/ p = MNHomeBU("nemo", "nemo1")
    \/ p = MNHomeBU("net", "ha1")
    \/ p = MNHomeBU2
    \/ called /\ p = MNPeerBU("nemo", "nemo1")
    \/ called /\ p = MNPeerBU("net", "ha1")
    \/ called /\ p = MNPeerBU2
    \/ called /\ p = CNHomeBU
    \/ called /\ known /\ \E d \in {"ha1", "c1", "h2"} : p = CNPeerBU(d)
    \/ called /\ known /\ p = CNPeerBU2
    \/ p = RouterBU("ha1", "h1", "c1", "nemo1")
    \/ p = RouterBU("ha2", "h2", "c2", "nemo2")
    \/ p = StrayBU

HomeBack(d) == Pkt("BACK", "net", "mnha", d, One("mn", "mnha"), "mnhoa", "mn", Zero)
HomeBack2 == Pkt("BACK", "nemo", "mnha", "mn", <<>>, "mnhoa", "mn", Zero)
PeerBack(d) == Pkt("BACK", "net", "cn", d, Two("cn", "ha1", "mn", "cn"), "mnhoa", "mn", Zero)
PeerBack2 == Pkt("BACK", "nemo", "cn", "mn", One("cn", "ha1"), "mnhoa", "mn", Zero)
CNBack == Pkt("BACK", "net", "mnha", "cn", One("mnha", "cn"), "cnhoa", "cn", Zero)
RouterBack(ha, h, c, n) == Pkt("BACK", "net", ha, c, <<>>, h, c, n)

BACKs(p, called) ==
    \/ \E d \in {"ha1", "c1", "h2"} : p = HomeBack(d)
    \/ p = HomeBack2
    \/ called /\ \E d \in {"ha1", "c1", "h2"} : p = PeerBack(d)
    \/ called /\ p = PeerBack2
    \/ called /\ p = CNBack
    \/ p = RouterBack("ha1", "h1", "c1", "nemo1")
    \/ p = RouterBack("ha2", "h2", "c2", "nemo2")

Rehome(ha, h, otherHA, otherH, otherC) ==
    Pkt("REHOME", "net", otherC, ha, One(ha, otherHA), h, otherH, Zero)

REHOMEs(p) ==
    \/ p = Rehome("ha1", "h1", "ha2", "h2", "c2")
    \/ p = Rehome("ha2", "h2", "ha1", "h1", "c1")

\* Application packets of the MN for f, by way of g.
MNData(z, s, d, st, h, c) == Pkt("DATA", z, s, d, st, h, c, Zero)

MNDATAs(p, known) ==
    \E f \in {"cnhoa", "cn"}, g \in {"mnha", "cn"}, h \in MnHomes, c \in MnCares :
        \/ p = MNData("nemo", "mn", "nemo1", Two(f, "mn", g, "mn"), h, c)
        \/ /\ known
           /\ \/ p = MNData("net", "h1", "ha1", Two(f, "mn", g, "h1"), h, c)
              \/ p = MNData("net", "h2", "ha2", Three(f, "mn", g, "mn", "ha1", "h2"), h, c)
              \/ p = MNData("net", "ha2", "ha1", Three(f, "mn", g, "mn", "ha1", "h2"), h, c)
              \/ p = MNData("net", "ha1", "ha1", Two(f, "mn", g, "mn"), h, c)
              \/ p = MNData("net", "ha1", g, Two(f, "mn", g, "mn"), h, c)
              \/ p = MNData("net", "ha1", g, Two(f, "mn", g, "h1"), h, c)
              \/ p = MNData("net", "ha1", "cn", One("cn", "mn"), h, c)

\* Application packets of the CN.
CNData(z, s, d, a, h) == Pkt("DATA", z, s, d, One(a, "cn"), h, "cn", Zero)

CNDATAs(p) ==
    \/ \E a \in {"mnhoa", "mn"} : p = CNData("net", "cn", "mnha", a, "cnhoa")
    \/ \E d \in {"ha1", "c1", "h2"}, h \in CnHomes : p = CNData("net", "cn", d, "mn", h)
    \/ p = CNData("net", "cn", "ha2", "mn", "h2")
    \/ \E d \in {"c2", "h1"} : p = CNData("net", "ha2", d, "mn", "h2")
    \/ \E h \in CnHomes : p = CNData("nemo", "cn", "mn", "mn", h)

InFlight(p, known, called) ==
    \/ BUs(p, known, called)
    \/ BACKs(p, called)
    \/ REHOMEs(p)
    \/ called /\ MNDATAs(p, known)
    \/ called /\ CNDATAs(p)

NotCalled ==
    ~Called => tbl["cn"] = <<HomeEntry("cnhoa", 0)>> /\ ~Has(tbl["mnha"], "haddr", "cnhoa")

LinksOK ==
    /\ link \in [Uplinks -> {"up", "down", "expired"}]
    /\ told \in [Uplinks -> Addresses]
    /\ bound \subseteq {"mn", "cn"}

NemoInv ==
    /\ TablesOK
    /\ LinksOK
    /\ NotCalled
    /\ \A p \in net : InFlight(p, Known, Called)
    /\ DeliveredClean
    /\ EntriesFound

-----------------------------------------------------------------------------
(* Stacks, packets and binding lists.                                       *)

\* Append, and what SubSeq and the last index give back.
LEMMA PushPop ==
    ASSUME NEW st \in Stacks, NEW d \in Addresses, NEW s \in Addresses
    PROVE  /\ Push(st, d, s) \in Stacks
           /\ Push(st, d, s) # <<>>
           /\ Len(Push(st, d, s)) = Len(st) + 1
           /\ Push(st, d, s)[Len(st) + 1] = <<d, s>>
           /\ SubSeq(Push(st, d, s), 1, Len(st)) = st
<1> DEFINE q == Append(st, <<d, s>>)
<1>1. <<d, s>> \in Pairs
  BY DEF Pairs
<1>2. /\ q \in Seq(Pairs) /\ Len(q) = Len(st) + 1 /\ q # <<>>
      /\ q[Len(st) + 1] = <<d, s>>
      /\ \A i \in 1 .. Len(st) : q[i] = st[i]
  BY <1>1, AppendProperties DEF Stacks
<1>3. SubSeq(q, 1, Len(st)) \in Seq(Pairs) /\ Len(SubSeq(q, 1, Len(st))) = Len(st)
      /\ \A i \in 1 .. Len(st) : SubSeq(q, 1, Len(st))[i] = q[i]
  <2>1. Len(st) \in Nat
    BY LenProperties DEF Stacks
  <2> QED BY <1>2, <2>1, SubSeqProperties
<1>4. SubSeq(q, 1, Len(st)) = st
  BY <1>2, <1>3, SeqEqual DEF Stacks
<1> QED BY <1>2, <1>4 DEF Push, Stacks

\* delete_tunnel takes off what add_tunnel put on last.
LEMMA DelTun ==
    ASSUME NEW st \in Stacks, NEW a \in Addresses, NEW b \in Addresses,
           NEW ty, NEW z, NEW s, NEW d, NEW h, NEW c, NEW x
    PROVE  delete_tunnel(Pkt(ty, z, s, d, Push(st, a, b), h, c, x)) = Pkt(ty, z, b, a, st, h, c, x)
<1>1. Len(st) \in Nat
  BY LenProperties DEF Stacks
<1> DEFINE t == Push(st, a, b)
           p == Pkt(ty, z, s, d, t, h, c, x)
<1>2. t # <<>> /\ Len(t) - 1 = Len(st) /\ t[Len(t)][1] = a /\ t[Len(t)][2] = b
      /\ SubSeq(t, 1, Len(t) - 1) = st
  BY <1>1, PushPop
<1>3. p.tun = t
  BY DEF Pkt
<1>4. delete_tunnel(p) = [p EXCEPT !.tun = st, !.dst = a, !.src = b]
  BY <1>2, <1>3 DEF delete_tunnel
<1> QED BY <1>4 DEF Pkt

LEMMA AddTun ==
    ASSUME NEW st, NEW ty, NEW z, NEW s, NEW d, NEW h, NEW c, NEW x
    PROVE  add_tunnel(Pkt(ty, z, s, d, st, h, c, x)) = Pkt(ty, z, s, d, Push(st, d, s), h, c, x)
BY DEF add_tunnel, Pkt, Push

LEMMA Redirect ==
    ASSUME NEW st, NEW ty, NEW z, NEW s, NEW d, NEW h, NEW c, NEW x, NEW a
    PROVE  /\ To(Pkt(ty, z, s, d, st, h, c, x), a) = Pkt(ty, z, s, a, st, h, c, x)
           /\ From(Pkt(ty, z, s, d, st, h, c, x), a) = Pkt(ty, z, a, d, st, h, c, x)
BY DEF To, From, Pkt

LEMMA Rezone ==
    ASSUME NEW st, NEW ty, NEW z, NEW s, NEW d, NEW h, NEW c, NEW x
    PROVE  /\ Inside(Pkt(ty, z, s, d, st, h, c, x)) = Pkt(ty, "nemo", s, d, st, h, c, x)
           /\ Outside(Pkt(ty, z, s, d, st, h, c, x)) = Pkt(ty, "net", s, d, st, h, c, x)
BY DEF Inside, Outside, Pkt

LEMMA Fields ==
    ASSUME NEW st, NEW ty, NEW z, NEW s, NEW d, NEW h, NEW c, NEW x
    PROVE  LET p == Pkt(ty, z, s, d, st, h, c, x)
           IN  /\ p.type = ty /\ p.zone = z /\ p.src = s /\ p.dst = d
               /\ p.tun = st /\ p.haddr = h /\ p.coa = c /\ p.pfx = x
BY DEF Pkt

\* A set of indices that is not empty has a least one.
LEMMA LeastIndex ==
    ASSUME NEW I, I \subseteq Nat, I # {}
    PROVE  \E m \in I : \A j \in I : m <= j
<1>1. PICK m \in I : \A j \in I : ~ (<<j, m>> \in OpToRel(<, Nat))
  BY WFMin, NatLessThanWellFounded
<1>2. \A j \in I : ~(j < m)
  BY <1>1 DEF OpToRel
<1> QED BY <1>2

\* get_entry returns NULL only if there is no match.
LEMMA GetEntry ==
    ASSUME NEW E, NEW t \in Seq(E), NEW f, NEW v
    PROVE  LET i == get_entry(t, f, v)
           IN  \/ i = 0 /\ \A j \in DOMAIN t : t[j][f] # v
               \/ i # 0 /\ i \in DOMAIN t /\ t[i][f] = v
<1> DEFINE I == {i \in DOMAIN t : t[i][f] = v}
<1>1. CASE I = {}
  BY <1>1 DEF get_entry
<1>2. CASE I # {}
  <2>1. I \subseteq Nat /\ 0 \notin I
    BY LenProperties
  <2>2. PICK m \in I : \A j \in I : m <= j
    BY <1>2, <2>1, LeastIndex
  <2>3. get_entry(t, f, v) \in I
    BY <1>2, <2>2 DEF get_entry
  <2> QED BY <2>1, <2>3
<1> QED BY <1>1, <1>2

LEMMA SameField ==
    /\ \A r : r.addr = r["addr"] /\ r.haddr = r["haddr"] /\ r.caddr = r["caddr"]
              /\ r.prefix = r["prefix"] /\ r.type = r["type"] /\ r.eface = r["eface"]
    /\ tbl.mr = tbl["mr"] /\ tbl.mn = tbl["mn"] /\ tbl.cn = tbl["cn"] /\ tbl.mnha = tbl["mnha"]
OBVIOUS

\* The entries of every node are BUEntries.
LEMMA NodeEntries ==
    /\ MrEntries \subseteq Entries /\ Ha1Entries \subseteq Entries
    /\ Ha2Entries \subseteq Entries /\ MnhaEntries \subseteq Entries
    /\ MnEntries \subseteq Entries /\ CnEntries \subseteq Entries
<1> USE DEF Entries, Addresses, Unset, Zero, Uplinks
<1>1. MrEntries \subseteq Entries
  BY DEF MrEntries, UplinkEntry, HA, HoA, CoA, Nemo
<1>2. Ha1Entries \subseteq Entries /\ Ha2Entries \subseteq Entries
  BY DEF Ha1Entries, Ha2Entries, HaEntries
<1>3. MnhaEntries \subseteq Entries
  BY DEF MnhaEntries
<1>4. MnEntries \subseteq Entries
  BY DEF MnEntries, CnHomes
<1>5. CnEntries \subseteq Entries
  BY DEF CnEntries, HomeEntry, MnHomes, MnCares
<1> QED BY <1>1, <1>2, <1>3, <1>4, <1>5

\* A new care-of address in one entry.
LEMMA NewCare ==
    ASSUME NEW E, E \subseteq Entries, NEW t \in Seq(E), NEW i \in DOMAIN t, NEW c,
           [t[i] EXCEPT !.caddr = c] \in E
    PROVE  LET r == [t EXCEPT ![i].caddr = c]
           IN  /\ r \in Seq(E) /\ DOMAIN r = DOMAIN t
               /\ \A j \in DOMAIN t : /\ r[j].type = t[j].type /\ r[j].addr = t[j].addr
                                      /\ r[j].haddr = t[j].haddr /\ r[j].prefix = t[j].prefix
                                      /\ r[j].eface = t[j].eface
               /\ r[i].caddr = c /\ \A j \in DOMAIN t \ {i} : r[j] = t[j]
<1> DEFINE e == [t[i] EXCEPT !.caddr = c]
           r == [t EXCEPT ![i] = e]
<1>1. DOMAIN t = 1..Len(t) /\ Len(t) \in Nat
  BY LenProperties
<1>2. r \in Seq(E) /\ Len(r) = Len(t)
      /\ \A j \in 1 .. Len(t) : r[j] = IF j = i THEN e ELSE t[j]
  <2>1. e \in E
    OBVIOUS
  <2> HIDE DEF e
  <2> QED BY <1>1, <2>1, ExceptSeq
<1>3. t[i] \in Entries
  BY <1>1, ElementOfSeq
<1>4. e.type = t[i].type /\ e.addr = t[i].addr /\ e.haddr = t[i].haddr /\ e.prefix = t[i].prefix
      /\ e.eface = t[i].eface /\ e.caddr = c
  BY <1>3 DEF Entries
<1>5. DOMAIN r = DOMAIN t
  OBVIOUS
<1> HIDE DEF e
<1>6. \A j \in DOMAIN t : /\ r[j].type = t[j].type /\ r[j].addr = t[j].addr
                                      /\ r[j].haddr = t[j].haddr /\ r[j].prefix = t[j].prefix
                                      /\ r[j].eface = t[j].eface
  BY <1>4, <1>5
<1>7. r[i].caddr = c /\ \A j \in DOMAIN t \ {i} : r[j] = t[j]
  BY <1>4
<1> QED BY <1>2, <1>5, <1>6, <1>7 DEF e

\* A new entry at the head of the list.
LEMMA NewHead ==
    ASSUME NEW E, NEW t \in Seq(E), NEW e \in E
    PROVE  LET r == <<e>> \o t
           IN  /\ r \in Seq(E)
               /\ 1 \in DOMAIN r /\ r[1] = e
               /\ \A j \in DOMAIN t : j + 1 \in DOMAIN r /\ r[j + 1] = t[j]
               /\ \A j \in DOMAIN r : j = 1 \/ (j - 1 \in DOMAIN t /\ r[j] = t[j - 1])
<1> DEFINE h == <<e>>
           r == h \o t
<1>1. h \in Seq(E) /\ Len(h) = 1 /\ h[1] = e
  OBVIOUS
<1>2. DOMAIN t = 1..Len(t) /\ Len(t) \in Nat
  BY LenProperties
<1> HIDE DEF h
<1>3. r \in Seq(E) /\ Len(r) = 1 + Len(t)
      /\ \A i \in 1 .. 1 + Len(t) : r[i] = IF i <= 1 THEN h[i] ELSE t[i - 1]
  <2>1. /\ r \in Seq(E) /\ Len(r) = Len(h) + Len(t)
        /\ \A i \in 1 .. Len(h) + Len(t) : r[i] = IF i <= Len(h) THEN h[i] ELSE t[i - Len(h)]
    BY <1>1, ConcatProperties, Zenon
  <2> HIDE DEF r
  <2> QED BY <1>1, <1>2, <2>1
<1>4. DOMAIN r = 1 .. Len(r)
  BY <1>3, LenProperties
<1> HIDE DEF r
<1> QED BY <1>1, <1>2, <1>3, <1>4 DEF h, r

\* No entry is removed, and none loses its keys.
Keeps(t, r) ==
    \A v : /\ Has(t, "type", v) => Has(r, "type", v)
           /\ Has(t, "addr", v) => Has(r, "addr", v)
           /\ Has(t, "haddr", v) => Has(r, "haddr", v)
           /\ Has(t, "prefix", v) => Has(r, "prefix", v)
           /\ Has(t, "eface", v) => Has(r, "eface", v)

\* A new care-of address leaves the keys of the list alone.
LEMMA CareKeeps ==
    ASSUME NEW E, E \subseteq Entries, NEW t \in Seq(E), NEW i \in DOMAIN t, NEW c,
           [t[i] EXCEPT !.caddr = c] \in E
    PROVE  LET r == [t EXCEPT ![i].caddr = c]
           IN  /\ r \in Seq(E) /\ Keeps(t, r)
               /\ \A v : Has(r, "haddr", v) => Has(t, "haddr", v)
               /\ \A v : Has(r, "caddr", v) => Has(t, "caddr", v) \/ v = c
<1> DEFINE r == [t EXCEPT ![i].caddr = c]
<1>1. /\ r \in Seq(E) /\ DOMAIN r = DOMAIN t
      /\ \A j \in DOMAIN t : /\ r[j].type = t[j].type /\ r[j].addr = t[j].addr
                             /\ r[j].haddr = t[j].haddr /\ r[j].prefix = t[j].prefix
                             /\ r[j].eface = t[j].eface
  BY NewCare
<1>4. r[i].caddr = c
  <2>1. t[i] \in Entries
    BY ElementOfSeq, LenProperties
  <2>2. r[i] = [t[i] EXCEPT !.caddr = c]
    OBVIOUS
  <2> HIDE DEF r
  <2> QED BY <2>1, <2>2 DEF Entries
<1>5. \A j \in DOMAIN t \ {i} : r[j] = t[j]
  OBVIOUS
<1> HIDE DEF r
<1>2. Keeps(t, r) /\ \A v : Has(r, "haddr", v) => Has(t, "haddr", v)
  BY <1>1 DEF Keeps, Has
<1>3. \A v : Has(r, "caddr", v) => Has(t, "caddr", v) \/ v = c
  BY <1>1, <1>4, <1>5 DEF Has
<1> QED BY <1>1, <1>2, <1>3 DEF r

\* registration keeps every key, and adds at most that of the packet.
LEMMA Registers ==
    ASSUME NEW E, E \subseteq Entries, NEW t \in Seq(E), NEW p, NEW type,
           NewEntry(type, p) \in E,
           \A e \in E : e.haddr = p.haddr => [e EXCEPT !.caddr = p.coa] \in E
    PROVE  LET r == registration(t, p, type)
           IN  /\ r \in Seq(E) /\ Keeps(t, r)
               /\ Has(r, "haddr", p.haddr)
               /\ \A v : Has(r, "haddr", v) => Has(t, "haddr", v) \/ v = p.haddr
               /\ \A v : Has(r, "caddr", v) => Has(t, "caddr", v) \/ v = p.coa
<1> DEFINE i == get_entry(t, "haddr", p.haddr)
           r == registration(t, p, type)
<1>1. \/ i = 0 /\ \A j \in DOMAIN t : t[j]["haddr"] # p.haddr
      \/ i # 0 /\ i \in DOMAIN t /\ t[i]["haddr"] = p.haddr
  BY GetEntry
<1>2. CASE i = 0
  <2> DEFINE e == NewEntry(type, p)
  <2>1. r = <<e>> \o t
    BY <1>2 DEF registration
  <2>2. e["haddr"] = p.haddr /\ e["caddr"] = p.coa
    BY DEF NewEntry
  <2> HIDE DEF e, r
  <2>3. /\ r \in Seq(E)
        /\ 1 \in DOMAIN r /\ r[1] = e
        /\ \A j \in DOMAIN t : j + 1 \in DOMAIN r /\ r[j + 1] = t[j]
        /\ \A j \in DOMAIN r : j = 1 \/ (j - 1 \in DOMAIN t /\ r[j] = t[j - 1])
    BY <2>1, NewHead DEF e
  <2>4. Keeps(t, r) /\ Has(r, "haddr", p.haddr)
    BY <2>2, <2>3 DEF Keeps, Has
  <2>5. \A v : Has(r, "haddr", v) => Has(t, "haddr", v) \/ v = p.haddr
    BY <2>2, <2>3 DEF Has
  <2>6. \A v : Has(r, "caddr", v) => Has(t, "caddr", v) \/ v = p.coa
    BY <2>2, <2>3 DEF Has
  <2> QED BY <2>3, <2>4, <2>5, <2>6 DEF r
<1>3. CASE i # 0
  <2>1. r = [t EXCEPT ![i].caddr = p.coa]
    BY <1>3 DEF registration
  <2>2. i \in DOMAIN t /\ t[i].haddr = p.haddr /\ t[i] \in E
    BY <1>1, <1>3
  <2> HIDE DEF i, r
  <2>3. [t[i] EXCEPT !.caddr = p.coa] \in E
    BY <2>2
  <2>4. /\ r \in Seq(E) /\ Keeps(t, r)
        /\ \A v : Has(r, "haddr", v) => Has(t, "haddr", v)
        /\ \A v : Has(r, "caddr", v) => Has(t, "caddr", v) \/ v = p.coa
    BY <2>1, <2>2, <2>3, CareKeeps
  <2>5. Has(r, "haddr", p.haddr)
    BY <2>2, <2>4 DEF Keeps, Has
  <2> QED BY <2>4, <2>5 DEF r
<1> QED BY <1>2, <1>3

\* The same for get_mr_ha_entry.
LEMMA GetUplink ==
    ASSUME NEW E, NEW t \in Seq(E), NEW f, NEW v
    PROVE  LET i == get_mr_ha_entry(t, f, v)
           IN  \/ i = 0 /\ \A j \in DOMAIN t : ~(t[j].type = "MR_HA" /\ t[j][f] = v)
               \/ i # 0 /\ i \in DOMAIN t /\ t[i].type = "MR_HA" /\ t[i][f] = v
<1> DEFINE I == {i \in DOMAIN t : t[i].type = "MR_HA" /\ t[i][f] = v}
<1>1. CASE I = {}
  BY <1>1 DEF get_mr_ha_entry
<1>2. CASE I # {}
  <2>1. I \subseteq Nat /\ 0 \notin I
    BY LenProperties
  <2>2. PICK m \in I : \A j \in I : m <= j
    BY <1>2, <2>1, LeastIndex
  <2>3. get_mr_ha_entry(t, f, v) \in I
    BY <1>2, <2>2 DEF get_mr_ha_entry
  <2> QED BY <2>1, <2>3
<1> QED BY <1>1, <1>2

-----------------------------------------------------------------------------
(* Which packets reach which handler.                                      *)

\* The destination decides which agent gets a packet.
LEMMA Route ==
    ASSUME NEW ty, NEW s, NEW d, NEW st, NEW h, NEW c, NEW x
    PROVE  LET in == Receiver(Pkt(ty, "nemo", s, d, st, h, c, x))
               out == Receiver(Pkt(ty, "net", s, d, st, h, c, x))
           IN  /\ in = IF d = "nemo1" THEN "mr" ELSE d
               /\ d \in {"ha1", "ha2", "mnha", "cn"} => out = d
               /\ d \in {"c1", "c2"} => out \in {"mr", "none"}
               /\ d \in {"h1", "h2", "mn"} => out = "none"
<1> DEFINE p == Pkt(ty, "nemo", s, d, st, h, c, x)
           q == Pkt(ty, "net", s, d, st, h, c, x)
<1>1. p.zone = "nemo" /\ p.dst = d /\ q.zone = "net" /\ q.dst = d
  BY Fields
<1> HIDE DEF p, q
<1>2. Receiver(p) = IF d = "nemo1" THEN "mr" ELSE d
  BY <1>1 DEF Receiver
<1>3. d \in {"ha1", "ha2", "mnha", "cn"} => Receiver(q) = d
  BY <1>1 DEF Receiver, CoA, Uplinks
<1>4. d \in {"c1", "c2"} => Receiver(q) \in {"mr", "none"}
  BY <1>1 DEF Receiver, CoA, Uplinks
<1>5. d \in {"h1", "h2", "mn"} => Receiver(q) = "none"
  BY <1>1 DEF Receiver, CoA, Uplinks
<1> QED BY <1>2, <1>3, <1>4, <1>5 DEF p, q

\* The four kinds of packets differ in their type.
LEMMA Kinds ==
    ASSUME NEW p, NEW known, NEW called
    PROVE  /\ BUs(p, known, called) => p.type = "BU"
           /\ BACKs(p, called) => p.type = "BACK"
           /\ REHOMEs(p) => p.type = "REHOME"
           /\ MNDATAs(p, known) \/ CNDATAs(p) => p.type = "DATA"
<1>1. BUs(p, known, called) => p.type = "BU"
  BY Fields DEF BUs, MNHomeBU, MNHomeBU2, MNPeerBU, MNPeerBU2, CNHomeBU, CNPeerBU, CNPeerBU2,
     RouterBU, StrayBU
<1>2. BACKs(p, called) => p.type = "BACK"
  BY Fields DEF BACKs, HomeBack, HomeBack2, PeerBack, PeerBack2, CNBack, RouterBack
<1>3. REHOMEs(p) => p.type = "REHOME"
  BY Fields DEF REHOMEs, Rehome
<1>4. MNDATAs(p, known) => p.type = "DATA"
  BY Fields DEF MNDATAs, MNData
<1>5. CNDATAs(p) => p.type = "DATA"
  BY Fields DEF CNDATAs, CNData
<1> QED BY <1>1, <1>2, <1>3, <1>4, <1>5

\* Which binding updates reach which agent.
LEMMA BUArrives ==
    ASSUME NemoInv, NEW p \in net, NEW n \in Nodes, Arrives(p, "BU", n)
    PROVE  /\ n = "mr" => \/ p = MNHomeBU("nemo", "nemo1")
                          \/ Called /\ p = MNPeerBU("nemo", "nemo1")
                          \/ Called /\ Known /\ p = CNPeerBU("c1")
           /\ n = "ha1" => \/ p = MNHomeBU("net", "ha1")
                           \/ Called /\ p = MNPeerBU("net", "ha1")
                           \/ Called /\ Known /\ p = CNPeerBU("ha1")
                           \/ p = RouterBU("ha1", "h1", "c1", "nemo1")
           /\ n = "ha2" => p = RouterBU("ha2", "h2", "c2", "nemo2")
           /\ n = "mnha" => p = MNHomeBU2 \/ (Called /\ p = CNHomeBU)
           /\ n = "mn" => Called /\ p = CNPeerBU2
           /\ n = "cn" => Called /\ p = MNPeerBU2
<1>1. p.type = "BU" /\ Receiver(p) = n
  BY DEF Arrives
<1>2. InFlight(p, Known, Called)
  BY DEF NemoInv
<1>3. BUs(p, Known, Called)
  BY <1>1, <1>2, Kinds DEF InFlight
<1>4. n # "none"
  BY DEF Nodes, Hosts
<1>5. /\ Receiver(MNHomeBU("nemo", "nemo1")) = "mr" /\ Receiver(MNPeerBU("nemo", "nemo1")) = "mr"
      /\ Receiver(MNHomeBU("net", "ha1")) = "ha1" /\ Receiver(MNPeerBU("net", "ha1")) = "ha1"
      /\ Receiver(MNHomeBU2) = "mnha" /\ Receiver(MNPeerBU2) = "cn"
      /\ Receiver(CNHomeBU) = "mnha" /\ Receiver(CNPeerBU2) = "mn"
      /\ Receiver(CNPeerBU("ha1")) = "ha1" /\ Receiver(CNPeerBU("h2")) = "none"
      /\ Receiver(CNPeerBU("c1")) \in {"mr", "none"} /\ Receiver(StrayBU) = "none"
      /\ \A h, c, x : /\ Receiver(RouterBU("ha1", h, c, x)) = "ha1"
                      /\ Receiver(RouterBU("ha2", h, c, x)) = "ha2"
  BY Route DEF MNHomeBU, MNHomeBU2, MNPeerBU, MNPeerBU2, CNHomeBU, CNPeerBU, CNPeerBU2, RouterBU,
     StrayBU
<1> QED BY <1>1, <1>3, <1>4, <1>5 DEF BUs

\* Which acknowledgements reach which agent: none the second home agent.
LEMMA BACKArrives ==
    ASSUME NemoInv, NEW p \in net, NEW n \in Nodes, Arrives(p, "BACK", n)
    PROVE  /\ n = "mr" => \/ p = HomeBack("c1")
                          \/ Called /\ p = PeerBack("c1")
                          \/ p = RouterBack("ha1", "h1", "c1", "nemo1")
                          \/ p = RouterBack("ha2", "h2", "c2", "nemo2")
           /\ n = "ha1" => p = HomeBack("ha1") \/ (Called /\ p = PeerBack("ha1"))
           /\ n # "ha2"
<1>1. p.type = "BACK" /\ Receiver(p) = n
  BY DEF Arrives
<1>2. InFlight(p, Known, Called)
  BY DEF NemoInv
<1>3. BACKs(p, Called)
  BY <1>1, <1>2, Kinds DEF InFlight
<1>4. n # "none"
  BY DEF Nodes, Hosts
<1>5. /\ Receiver(HomeBack("ha1")) = "ha1" /\ Receiver(PeerBack("ha1")) = "ha1"
      /\ Receiver(HomeBack("h2")) = "none" /\ Receiver(PeerBack("h2")) = "none"
      /\ Receiver(HomeBack("c1")) \in {"mr", "none"} /\ Receiver(PeerBack("c1")) \in {"mr", "none"}
      /\ Receiver(HomeBack2) = "mn" /\ Receiver(PeerBack2) = "mn" /\ Receiver(CNBack) = "cn"
      /\ \A ha, h, x : /\ Receiver(RouterBack(ha, h, "c1", x)) \in {"mr", "none"}
                       /\ Receiver(RouterBack(ha, h, "c2", x)) \in {"mr", "none"}
  BY Route DEF HomeBack, HomeBack2, PeerBack, PeerBack2, CNBack, RouterBack
<1> QED BY <1>1, <1>3, <1>4, <1>5 DEF BACKs

\* A REHOME reaches the home agent of the lost uplink.
LEMMA REHOMEArrives ==
    ASSUME NemoInv, NEW p \in net, NEW n \in Nodes, Arrives(p, "REHOME", n)
    PROVE  /\ n = "ha1" => p = Rehome("ha1", "h1", "ha2", "h2", "c2")
           /\ n = "ha2" => p = Rehome("ha2", "h2", "ha1", "h1", "c1")
<1>1. p.type = "REHOME" /\ Receiver(p) = n
  BY DEF Arrives
<1>2. InFlight(p, Known, Called)
  BY DEF NemoInv
<1>3. REHOMEs(p)
  BY <1>1, <1>2, Kinds DEF InFlight
<1> QED BY <1>1, <1>3, Route DEF REHOMEs, Rehome

\* The packets of MN and CN, by the node they reach.
MNArrives(p, n) ==
    \E f \in {"cnhoa", "cn"}, g \in {"mnha", "cn"}, h \in MnHomes, c \in MnCares :
        \/ n = "mr" /\ p = MNData("nemo", "mn", "nemo1", Two(f, "mn", g, "mn"), h, c)
        \/ /\ Known
           /\ \/ n = "ha1" /\ p = MNData("net", "h1", "ha1", Two(f, "mn", g, "h1"), h, c)
              \/ n = "ha2" /\ p = MNData("net", "h2", "ha2", Three(f, "mn", g, "mn", "ha1", "h2"), h, c)
              \/ n = "ha1" /\ p = MNData("net", "ha2", "ha1", Three(f, "mn", g, "mn", "ha1", "h2"), h, c)
              \/ n = "ha1" /\ p = MNData("net", "ha1", "ha1", Two(f, "mn", g, "mn"), h, c)
              \/ n = g /\ p = MNData("net", "ha1", g, Two(f, "mn", g, "mn"), h, c)
              \/ n = g /\ p = MNData("net", "ha1", g, Two(f, "mn", g, "h1"), h, c)
              \/ n = "cn" /\ p = MNData("net", "ha1", "cn", One("cn", "mn"), h, c)

CNArrives(p, n) ==
    \/ n = "mnha" /\ \E a \in {"mnhoa", "mn"} : p = CNData("net", "cn", "mnha", a, "cnhoa")
    \/ n = "ha1" /\ \E h \in CnHomes : p = CNData("net", "cn", "ha1", "mn", h)
    \/ n = "ha2" /\ p = CNData("net", "cn", "ha2", "mn", "h2")
    \/ n = "mr" /\ \E s \in {"cn", "ha2"}, d \in {"c1", "c2"}, h \in CnHomes :
                        p = CNData("net", s, d, "mn", h)
    \/ n = "mn" /\ \E h \in CnHomes : p = CNData("nemo", "cn", "mn", "mn", h)

\* Application packets arrive only after the CN has registered.
LEMMA DATAArrives ==
    ASSUME NemoInv, NEW p \in net, NEW n \in Nodes, Arrives(p, "DATA", n)
    PROVE  Called /\ (MNArrives(p, n) \/ CNArrives(p, n))
<1>1. p.type = "DATA" /\ Receiver(p) = n
  BY DEF Arrives
<1>2. InFlight(p, Known, Called)
  BY DEF NemoInv
<1>3. Called /\ (MNDATAs(p, Known) \/ CNDATAs(p))
  BY <1>1, <1>2, Kinds DEF InFlight
<1>4. n # "none"
  BY DEF Nodes, Hosts
<1>5. CASE MNDATAs(p, Known)
  <2>1. PICK f \in {"cnhoa", "cn"}, g \in {"mnha", "cn"}, h \in MnHomes, c \in MnCares :
        \/ p = MNData("nemo", "mn", "nemo1", Two(f, "mn", g, "mn"), h, c)
        \/ /\ Known
           /\ \/ p = MNData("net", "h1", "ha1", Two(f, "mn", g, "h1"), h, c)
              \/ p = MNData("net", "h2", "ha2", Three(f, "mn", g, "mn", "ha1", "h2"), h, c)
              \/ p = MNData("net", "ha2", "ha1", Three(f, "mn", g, "mn", "ha1", "h2"), h, c)
              \/ p = MNData("net", "ha1", "ha1", Two(f, "mn", g, "mn"), h, c)
              \/ p = MNData("net", "ha1", g, Two(f, "mn", g, "mn"), h, c)
              \/ p = MNData("net", "ha1", g, Two(f, "mn", g, "h1"), h, c)
              \/ p = MNData("net", "ha1", "cn", One("cn", "mn"), h, c)
    BY <1>5 DEF MNDATAs
  <2>2. \A s, d, st : Receiver(MNData("net", s, d, st, h, c)) =
            IF d \in {"ha1", "ha2", "mnha", "cn"} THEN d
            ELSE Receiver(MNData("net", s, d, st, h, c))
    BY Route DEF MNData
  <2>3. \A s, st : Receiver(MNData("nemo", s, "nemo1", st, h, c)) = "mr"
    BY Route DEF MNData
  <2>4. MNArrives(p, n)
    BY <1>1, <2>1, <2>2, <2>3 DEF MNArrives
  <2> QED BY <1>3, <2>4
<1>6. CASE CNDATAs(p)
  <2>1. CNArrives(p, n)
    BY <1>1, <1>4, <1>6, Route DEF CNDATAs, CNArrives, CNData, CnHomes
  <2> QED BY <1>3, <2>1
<1> QED BY <1>3, <1>5, <1>6

-----------------------------------------------------------------------------
(* What has to be shown of a handler.                                      *)

\* Legs stay possible when the MN or the CN becomes known.
LEMMA InFlightMono ==
    ASSUME NEW p, NEW k, NEW k2, NEW c, NEW c2, k => k2, c => c2, InFlight(p, k, c)
    PROVE  InFlight(p, k2, c2)
<1>1. BUs(p, k, c) => BUs(p, k2, c2)
  BY DEF BUs
<1>2. BACKs(p, c) => BACKs(p, c2)
  BY DEF BACKs
<1>3. MNDATAs(p, k) => MNDATAs(p, k2)
  BY DEF MNDATAs
<1> QED BY <1>1, <1>2, <1>3 DEF InFlight

\* Known once node n has the list t.
KnownAfter(n, t) == IF n = "mr" THEN Has(t, "addr", "mn") ELSE Known

\* A call of recv that changes one list and sends out.
LEMMA HandledKeeps ==
    ASSUME NemoInv, NEW p, NEW n \in Nodes, NEW t, NEW out, Handled(p, n, t, out),
           TableOK(n, t),
           n = "mr" /\ Known => Has(t, "addr", "mn"),
           \/ Called
           \/ n \notin {"cn", "mnha"}
           \/ n = "mnha" /\ ~Has(t, "haddr", "cnhoa"),
           \A q \in out : InFlight(q, KnownAfter(n, t), Called),
           DeliveredClean', EntriesFound'
    PROVE  NemoInv'
<1>1. tbl' = [tbl EXCEPT ![n] = t] /\ tbl \in [Nodes -> Seq(Entries)] /\ t \in Seq(Entries)
  BY DEF Handled, NemoInv, TablesOK, TableOK
<1>2. tbl' \in [Nodes -> Seq(Entries)] /\ tbl'[n] = t /\ \A m \in Nodes \ {n} : tbl'[m] = tbl[m]
  BY <1>1
<1>3. TablesOK'
  <2>1. \A m \in Nodes : TableOK(m, tbl'[m])
    BY <1>2 DEF NemoInv, TablesOK
  <2> QED BY <1>2, <2>1 DEF TablesOK
<1>4. LinksOK' /\ (Called <=> Called')
  BY DEF Handled, NemoInv, LinksOK, Called
<1>5. Known' <=> KnownAfter(n, t)
  <2>1. "mr" \in Nodes
    BY DEF Nodes
  <2> QED BY <1>2, <2>1 DEF Known, KnownAfter
<1>6. NotCalled'
  <2>1. "cn" \in Nodes /\ "mnha" \in Nodes
    BY DEF Nodes, Hosts
  <2> QED BY <1>2, <1>4, <2>1 DEF NemoInv, NotCalled
<1>7. \A q \in net' : InFlight(q, Known', Called')
  <2>1. ASSUME NEW q \in net
        PROVE  InFlight(q, Known', Called')
    <3>1. InFlight(q, Known, Called) /\ (Known => Known')
      BY <1>5 DEF NemoInv, KnownAfter
    <3> QED BY <1>4, <3>1, InFlightMono
  <2>2. ASSUME NEW q \in out
        PROVE  InFlight(q, Known', Called')
    BY <1>4, <1>5, InFlightMono
  <2> QED BY <2>1, <2>2 DEF Handled
<1> QED BY <1>3, <1>4, <1>6, <1>7 DEF NemoInv

\* A call of recv that changes no list.
LEMMA QuietKeeps ==
    ASSUME NemoInv, NEW p, NEW n \in Nodes, NEW out, Quietly(p, n, out),
           \A q \in out : InFlight(q, Known, Called)
    PROVE  NemoInv'
<1>1. tbl' = tbl
  <2>1. tbl \in [Nodes -> Seq(Entries)]
    BY DEF NemoInv, TablesOK
  <2> QED BY <2>1 DEF Quietly, Handled
<1>2. TablesOK' /\ LinksOK' /\ NotCalled' /\ DeliveredClean' /\ EntriesFound'
      /\ Called' = Called /\ Known' = Known
  BY <1>1 DEF Quietly, Handled, NemoInv, TablesOK, LinksOK, NotCalled, DeliveredClean,
     EntriesFound, Called, Known
<1>3. \A q \in net' : InFlight(q, Known', Called')
  BY <1>2 DEF Quietly, Handled, NemoInv
<1> QED BY <1>2, <1>3 DEF NemoInv

\* A packet that is dropped.
LEMMA LostKeeps ==
    ASSUME NemoInv, NEW p, NEW n \in Nodes, Quietly(p, n, {})
    PROVE  NemoInv'
<1>1. \A q \in {} : InFlight(q, Known, Called)
  OBVIOUS
<1> QED BY <1>1, QuietKeeps

\* MN_HA's assert ends the simulation.
LEMMA AbortKeeps ==
    ASSUME NemoInv, NEW p, Aborted(p, "home")
    PROVE  NemoInv'
<1>1. TablesOK' /\ LinksOK' /\ NotCalled' /\ DeliveredClean' /\ EntriesFound'
      /\ Called' = Called /\ Known' = Known
  BY DEF Aborted, NemoInv, TablesOK, LinksOK, NotCalled, DeliveredClean,
     EntriesFound, Called, Known
<1>2. \A q \in net' : InFlight(q, Known', Called')
  BY <1>1 DEF Aborted, NemoInv
<1> QED BY <1>1, <1>2 DEF NemoInv

-----------------------------------------------------------------------------
(* The stack of tunnels.                                                   *)

LEMMA AddressIn ==
    /\ "ha1" \in Addresses /\ "ha2" \in Addresses /\ "h1" \in Addresses /\ "h2" \in Addresses
    /\ "c1" \in Addresses /\ "c2" \in Addresses /\ "mnha" \in Addresses /\ "mn" \in Addresses
    /\ "cn" \in Addresses /\ "mnhoa" \in Addresses /\ "cnhoa" \in Addresses
    /\ "nemo1" \in Addresses /\ "nemo2" \in Addresses /\ Zero \in Addresses /\ Unset \in Addresses
BY DEF Addresses

LEMMA StackZero == <<>> \in Stacks
BY EmptySeq DEF Stacks

LEMMA StackOne ==
    ASSUME NEW a \in Addresses, NEW b \in Addresses
    PROVE  One(a, b) \in Stacks /\ One(a, b) # <<>> /\ Len(One(a, b)) = 1
<1> DEFINE z == <<>>
<1>1. z \in Stacks /\ Len(z) = 0
  BY StackZero, EmptySeq
<1>2. One(a, b) = Push(z, a, b)
  BY DEF One
<1> HIDE DEF z
<1>3. Len(Push(z, a, b)) = Len(z) + 1
  BY <1>1, PushPop
<1>4. Push(z, a, b) \in Stacks /\ Push(z, a, b) # <<>>
  BY <1>1, PushPop
<1> QED BY <1>1, <1>2, <1>3, <1>4

LEMMA StackTwo ==
    ASSUME NEW a \in Addresses, NEW b \in Addresses, NEW c \in Addresses, NEW d \in Addresses
    PROVE  Two(a, b, c, d) \in Stacks /\ Two(a, b, c, d) # <<>> /\ Len(Two(a, b, c, d)) = 2
<1> DEFINE z == One(a, b)
<1>1. z \in Stacks /\ Len(z) = 1
  BY StackOne
<1>2. Two(a, b, c, d) = Push(z, c, d)
  BY DEF Two
<1> HIDE DEF z
<1>3. Len(Push(z, c, d)) = Len(z) + 1
  BY <1>1, PushPop
<1>4. Push(z, c, d) \in Stacks /\ Push(z, c, d) # <<>>
  BY <1>1, PushPop
<1> QED BY <1>1, <1>2, <1>3, <1>4

LEMMA PopOne ==
    ASSUME NEW a, NEW b, NEW ty, NEW z, NEW src, NEW dst, NEW h, NEW coa, NEW x,
           a \in Addresses, b \in Addresses
    PROVE  delete_tunnel(Pkt(ty, z, src, dst, One(a, b), h, coa, x))
             = Pkt(ty, z, b, a, <<>>, h, coa, x)
BY StackZero, DelTun DEF One

LEMMA PopTwo ==
    ASSUME NEW a, NEW b, NEW c, NEW d, NEW ty, NEW z, NEW src, NEW dst, NEW h, NEW coa, NEW x,
           a \in Addresses, b \in Addresses, c \in Addresses, d \in Addresses
    PROVE  delete_tunnel(Pkt(ty, z, src, dst, Two(a, b, c, d), h, coa, x))
             = Pkt(ty, z, d, c, One(a, b), h, coa, x)
BY StackOne, DelTun DEF Two

LEMMA PushZero ==
    ASSUME NEW ty, NEW z, NEW src, NEW dst, NEW h, NEW coa, NEW x
    PROVE  add_tunnel(Pkt(ty, z, src, dst, <<>>, h, coa, x))
             = Pkt(ty, z, src, dst, One(dst, src), h, coa, x)
BY AddTun DEF One

LEMMA PushOne ==
    ASSUME NEW a, NEW b, NEW ty, NEW z, NEW src, NEW dst, NEW h, NEW coa, NEW x
    PROVE  add_tunnel(Pkt(ty, z, src, dst, One(a, b), h, coa, x))
             = Pkt(ty, z, src, dst, Two(a, b, dst, src), h, coa, x)
BY AddTun DEF Two

LEMMA PushTwo ==
    ASSUME NEW a, NEW b, NEW c, NEW d, NEW ty, NEW z, NEW src, NEW dst, NEW h, NEW coa, NEW x
    PROVE  add_tunnel(Pkt(ty, z, src, dst, Two(a, b, c, d), h, coa, x))
             = Pkt(ty, z, src, dst, Three(a, b, c, d, dst, src), h, coa, x)
BY AddTun DEF Three

-----------------------------------------------------------------------------
(* The mobile router.                                                      *)

LEMMA SeqIn ==
    ASSUME NEW S, NEW E, NEW t \in Seq(S), \A i \in DOMAIN t : t[i] \in E
    PROVE  t \in Seq(E)
<1>1. Len(t) \in Nat /\ t \in [1..Len(t) -> S] /\ DOMAIN t = 1..Len(t)
  BY LenProperties
<1>2. t \in [1..Len(t) -> E]
  BY <1>1
<1> QED BY <1>1, <1>2, SeqDef

LEMMA NewRoute ==
    ASSUME NEW t \in Seq(Entries), NEW m \in DOMAIN t, NEW a \in Addresses, NEW u \in Uplinks
    PROVE  LET r == [t EXCEPT ![m].caddr = a, ![m].eface = u]
           IN  /\ r \in Seq(Entries) /\ DOMAIN r = DOMAIN t
               /\ r[m] = [t[m] EXCEPT !.caddr = a, !.eface = u]
               /\ \A j \in DOMAIN t \ {m} : r[j] = t[j]
<1> DEFINE e == [t[m] EXCEPT !.caddr = a, !.eface = u]
           r == [t EXCEPT ![m].caddr = a, ![m].eface = u]
<1>1. DOMAIN t = 1..Len(t) /\ Len(t) \in Nat /\ t \in [1..Len(t) -> Entries]
  BY LenProperties
<1>2. t[m] \in Entries
  BY <1>1
<1>3. e \in Entries
  BY <1>2 DEF Entries
<1>4. r = [t EXCEPT ![m] = e]
  BY <1>1
<1>5. r \in Seq(Entries) /\ Len(r) = Len(t)
      /\ \A j \in 1 .. Len(t) : r[j] = IF j = m THEN e ELSE t[j]
  <2> HIDE DEF e, r
  <2> QED BY <1>1, <1>3, <1>4, ExceptSeq
<1>6. DOMAIN r = DOMAIN t
  BY <1>1, <1>4
<1> HIDE DEF e, r
<1>7. r[m] = e /\ \A j \in DOMAIN t \ {m} : r[j] = t[j]
  BY <1>1, <1>5
<1> QED BY <1>5, <1>6, <1>7 DEF r, e

\* The MN as registration enters it, before it gets its uplink.
Fresh == [type |-> "MN", addr |-> "mn", haddr |-> "mnhoa", caddr |-> "mn", prefix |-> Unset,
          eface |-> 0]

\* The three rows of the router's list.
LEMMA MrRows ==
    ASSUME NEW e \in MrEntries
    PROVE  /\ e \in Entries
           /\ e = UplinkEntry(1) \/ e = UplinkEntry(2) \/
              (e.type = "MN" /\ e.addr = "mn" /\ e.haddr = "mnhoa" /\ e.caddr \in {"c1", "c2"}
               /\ e.prefix = Unset /\ e.eface = 1)
           /\ UplinkEntry(1).type = "MR_HA" /\ UplinkEntry(1).addr = "ha1"
           /\ UplinkEntry(1).haddr = "h1" /\ UplinkEntry(1).caddr = "c1"
           /\ UplinkEntry(1).prefix = "nemo1" /\ UplinkEntry(1).eface = 1
           /\ UplinkEntry(2).type = "MR_HA" /\ UplinkEntry(2).addr = "ha2"
           /\ UplinkEntry(2).haddr = "h2" /\ UplinkEntry(2).caddr = "c2"
           /\ UplinkEntry(2).prefix = "nemo2" /\ UplinkEntry(2).eface = 2
BY NodeEntries DEF MrEntries, UplinkEntry, HA, HoA, CoA, Nemo

\* Registration at the router binds the MN to the uplink of its prefix.
LEMMA MrBinds ==
    ASSUME NEW t0, TableOK("mr", t0), NEW q, NewEntry("MN", q) = Fresh, q.haddr = "mnhoa"
    PROVE  LET t == IF get_entry(t0, "haddr", "mnhoa") = 0
                    THEN registration(t0, q, "MN") ELSE t0
               m == get_entry(t, "haddr", "mnhoa")
               h == get_mr_ha_entry(t, "prefix", "nemo1")
               r == [t EXCEPT ![m].caddr = t[h].caddr, ![m].eface = t[h].eface]
           IN  /\ h # 0 /\ t[h].eface = 1 /\ t[h].addr = "ha1"
               /\ TableOK("mr", r) /\ Has(r, "addr", "mn")
<1> DEFINE t == IF get_entry(t0, "haddr", "mnhoa") = 0
                THEN registration(t0, q, "MN") ELSE t0
           m == get_entry(t, "haddr", "mnhoa")
           h == get_mr_ha_entry(t, "prefix", "nemo1")
           r == [t EXCEPT ![m].caddr = t[h].caddr, ![m].eface = t[h].eface]
<1> HIDE DEF t, m, h, r
<1>1. /\ t0 \in Seq(MrEntries) /\ t0 \in Seq(Entries)
      /\ Has(t0, "eface", 2) /\ Has(t0, "prefix", "nemo1")
  BY DEF TableOK
<1>2. Fresh \in Entries
  BY DEF Fresh, Entries, Addresses, Unset, Uplinks
<1>3. /\ t \in Seq(Entries) /\ m \in DOMAIN t /\ t[m].haddr = "mnhoa"
      /\ \A j \in DOMAIN t : t[j] \in MrEntries \/ (j = m /\ t[j] = Fresh)
      /\ Has(t, "eface", 2) /\ Has(t, "prefix", "nemo1")
  <2>1. CASE get_entry(t0, "haddr", "mnhoa") = 0
    <3>1. t = <<Fresh>> \o t0
      BY <2>1 DEF registration, t
    <3>2. \A j \in DOMAIN t0 : t0[j]["haddr"] # "mnhoa" /\ t0[j] \in MrEntries
      BY <1>1, <2>1, GetEntry
    <3>3. /\ t \in Seq(Entries)
          /\ 1 \in DOMAIN t /\ t[1] = Fresh
          /\ \A j \in DOMAIN t0 : j + 1 \in DOMAIN t /\ t[j + 1] = t0[j]
          /\ \A j \in DOMAIN t : j = 1 \/ (j - 1 \in DOMAIN t0 /\ t[j] = t0[j - 1])
      <4>1. t0 \in Seq(Entries)
        BY <1>1
      <4> QED BY <1>2, <3>1, <4>1, NewHead
    <3>4. Fresh["haddr"] = "mnhoa"
      BY DEF Fresh
    <3>5. m \in DOMAIN t /\ t[m]["haddr"] = "mnhoa"
      BY <3>3, <3>4, GetEntry DEF m
    <3>6. m = 1
      BY <3>2, <3>3, <3>5
    <3>7. \A f, v : Has(t0, f, v) => Has(t, f, v)
      BY <3>3 DEF Has
    <3> QED BY <1>1, <3>2, <3>3, <3>5, <3>6, <3>7
  <2>2. CASE get_entry(t0, "haddr", "mnhoa") # 0
    <3>1. m \in DOMAIN t /\ t[m]["haddr"] = "mnhoa" /\ t = t0
      BY <1>1, <2>2, GetEntry DEF m, t
    <3> QED BY <1>1, <3>1
  <2> QED BY <2>1, <2>2
<1>4. \A e \in MrEntries : e.prefix = "nemo1" => e = UplinkEntry(1)
  BY MrRows DEF Unset
<1>5. \A e \in MrEntries : e.eface = 2 => e = UplinkEntry(2)
  BY MrRows
<1>6. Fresh.prefix = Unset /\ Fresh.type = "MN" /\ Fresh.eface = 0 /\ Fresh.addr = "mn"
  BY DEF Fresh
<1>7. PICK j1 \in DOMAIN t : t[j1] = UplinkEntry(1)
  <2>1. PICK j \in DOMAIN t : t[j]["prefix"] = "nemo1"
    BY <1>3 DEF Has
  <2> QED BY <1>3, <1>4, <1>6, <2>1 DEF Unset
<1>8. PICK j2 \in DOMAIN t : t[j2] = UplinkEntry(2)
  <2>1. PICK j \in DOMAIN t : t[j]["eface"] = 2
    BY <1>3 DEF Has
  <2> QED BY <1>3, <1>5, <1>6, <2>1
<1>9. UplinkEntry(1) \in MrEntries /\ UplinkEntry(2) \in MrEntries
  BY DEF MrEntries
<1>10. h # 0 /\ h \in DOMAIN t /\ t[h] = UplinkEntry(1)
  <2>1. t[j1].type = "MR_HA" /\ t[j1]["prefix"] = "nemo1"
    BY <1>7, <1>9, MrRows
  <2>2. h # 0 /\ h \in DOMAIN t /\ t[h].type = "MR_HA" /\ t[h]["prefix"] = "nemo1"
    BY <1>3, <2>1, GetUplink DEF h
  <2> QED BY <1>3, <1>4, <1>6, <2>2
<1>11. t[h].caddr = "c1" /\ t[h].eface = 1 /\ t[h].addr = "ha1"
  BY <1>9, <1>10, MrRows
<1>12. /\ r \in Seq(Entries) /\ DOMAIN r = DOMAIN t
       /\ r[m] = [t[m] EXCEPT !.caddr = "c1", !.eface = 1]
       /\ \A j \in DOMAIN t \ {m} : r[j] = t[j]
  <2>1. "c1" \in Addresses /\ 1 \in Uplinks /\ r = [t EXCEPT ![m].caddr = "c1", ![m].eface = 1]
    BY <1>11 DEF Addresses, Uplinks, r
  <2> QED BY <1>3, <2>1, NewRoute
<1>13. t[m] = Fresh \/ (t[m].type = "MN" /\ t[m].addr = "mn" /\ t[m].haddr = "mnhoa"
                       /\ t[m].prefix = Unset /\ t[m] \in Entries)
  BY <1>3, <1>9, MrRows
<1>14. r[m] \in MrEntries /\ r[m].addr = "mn"
  <2>1. CASE t[m] = Fresh
    <3>1. r[m] = [type |-> "MN", addr |-> "mn", haddr |-> "mnhoa", caddr |-> "c1",
                  prefix |-> Unset, eface |-> 1]
      <4>1. r[m] = [Fresh EXCEPT !.caddr = "c1", !.eface = 1]
        BY <1>12, <2>1
      <4> QED BY <4>1 DEF Fresh
    <3> QED BY <3>1 DEF MrEntries
  <2>2. CASE t[m].type = "MN" /\ t[m].addr = "mn" /\ t[m].haddr = "mnhoa"
             /\ t[m].prefix = Unset /\ t[m] \in Entries
    BY <1>12, <2>2 DEF MrEntries, Entries
  <2> QED BY <1>13, <2>1, <2>2
<1>15. \A j \in DOMAIN r : r[j] \in MrEntries
  BY <1>3, <1>12, <1>14
<1>16. r \in Seq(MrEntries)
  BY <1>12, <1>15, SeqIn
<1>17. j1 # m /\ j2 # m
  BY <1>3, <1>7, <1>8, <1>9, MrRows
<1>18. Has(r, "eface", 2) /\ Has(r, "prefix", "nemo1") /\ Has(r, "addr", "mn")
  <2>1. r[j1].prefix = "nemo1" /\ r[j2].eface = 2
    BY <1>7, <1>8, <1>9, <1>12, <1>17, MrRows
  <2> QED BY <1>3, <1>7, <1>8, <1>12, <1>14, <2>1 DEF Has
<1> QED BY <1>10, <1>11, <1>12, <1>16, <1>18 DEF TableOK, t, m, h, r

\* The router finds the MN, and no node outside, by its address.
LEMMA MrTable ==
    ASSUME NemoInv
    PROVE  /\ "mr" \in Nodes /\ TableOK("mr", tbl["mr"]) /\ tbl["mr"] \in Seq(MrEntries)
           /\ \A v : get_entry(tbl.mr, "addr", v) # 0 =>
                  v \in {"ha1", "ha2", "mn"} /\ (v = "mn" => Known)
           /\ Known => get_entry(tbl.mr, "addr", "mn") # 0
<1>1. "mr" \in Nodes
  BY DEF Nodes
<1>2. TableOK("mr", tbl["mr"])
  BY <1>1 DEF NemoInv, TablesOK
<1>3. tbl["mr"] \in Seq(MrEntries)
  BY <1>2 DEF TableOK
<1> DEFINE t == tbl["mr"]
<1> HIDE DEF t
<1>4. ASSUME NEW v, get_entry(t, "addr", v) # 0
      PROVE  v \in {"ha1", "ha2", "mn"} /\ (v = "mn" => Has(t, "addr", "mn"))
  <2>1. PICK i \in DOMAIN t : t[i]["addr"] = v
    BY <1>3, <1>4, GetEntry DEF t
  <2>2. t[i] \in MrEntries
    BY <1>3 DEF t
  <2>3. v \in {"ha1", "ha2", "mn"}
    BY <2>1, <2>2, MrRows
  <2> QED BY <2>1, <2>3 DEF Has
<1>5. Has(t, "addr", "mn") => get_entry(t, "addr", "mn") # 0
  BY <1>3, GetEntry DEF Has, t
<1> QED BY <1>1, <1>2, <1>3, <1>4, <1>5 DEF t, Known

\* A BU from inside leaves through uplink 1, for its home agent.
LEMMA MrForwardsBU ==
    ASSUME NemoInv, NEW p \in net, mr_recv_bu(p), NEW st \in Stacks, NEW g \in {"mnha", "cn"},
           p = Pkt("BU", "nemo", "mn", "nemo1", Push(st, g, "mn"), "mnhoa", "mn", Zero),
           InFlight(Pkt("BU", "net", "mn", "ha1", Push(st, g, "mn"), "mnhoa", "mn", Zero),
                    TRUE, Called)
    PROVE  NemoInv'
<1> DEFINE q == delete_tunnel(p)
           t0 == tbl.mr
           t == IF get_entry(t0, "haddr", "mnhoa") = 0 THEN registration(t0, q, "MN") ELSE t0
           m == get_entry(t, "haddr", "mnhoa")
           h == get_mr_ha_entry(t, "prefix", "nemo1")
           r == [t EXCEPT ![m].caddr = t[h].caddr, ![m].eface = t[h].eface]
<1>1. q = Pkt("BU", "nemo", "mn", g, st, "mnhoa", "mn", Zero)
  <2>1. g \in Addresses /\ "mn" \in Addresses
    BY DEF Addresses
  <2> QED BY <2>1, DelTun
<1>2. q.haddr = "mnhoa" /\ q.src = "mn" /\ q.dst = g /\ q.coa = "mn"
  BY <1>1, Fields
<1> HIDE DEF q
<1>3. NewEntry("MN", q) = Fresh
  BY <1>2 DEF NewEntry, Fresh
<1>4. PrefixOf(q.src) = "nemo1"
  BY <1>2 DEF PrefixOf
<1>5. get_entry(t0, "addr", q.dst) = 0
  BY <1>2, MrTable
<1>6. /\ h # 0 /\ t[h].eface = 1 /\ t[h].addr = "ha1"
      /\ TableOK("mr", r) /\ Has(r, "addr", "mn")
  <2>1. TableOK("mr", t0)
    BY MrTable
  <2> HIDE DEF t0
  <2> QED BY <1>2, <1>3, <2>1, MrBinds
<1>7. /\ Handled(p, "mr", r, Via(t[h].eface, To(add_tunnel(q), t[h].addr)))
      /\ UNCHANGED <<got, abort>>
  <2> HIDE DEF r
  <2> QED BY <1>2, <1>4, <1>5, <1>6 DEF mr_recv_bu, q, r
<1> HIDE DEF t, h, r
<1>8. Handled(p, "mr", r, Via(1, To(add_tunnel(q), "ha1")))
  BY <1>6, <1>7
<1>9. \A x \in Via(1, To(add_tunnel(q), "ha1")) : InFlight(x, TRUE, Called)
  <2>1. Outside(To(add_tunnel(q), "ha1"))
          = Pkt("BU", "net", "mn", "ha1", Push(st, g, "mn"), "mnhoa", "mn", Zero)
    BY <1>1, AddTun, Redirect, Rezone
  <2> QED BY <2>1 DEF Via
<1>10. \A x \in Via(1, To(add_tunnel(q), "ha1")) : InFlight(x, KnownAfter("mr", r), Called)
  BY <1>6, <1>9, InFlightMono DEF KnownAfter
<1>11. DeliveredClean' /\ EntriesFound'
  BY <1>7 DEF NemoInv, DeliveredClean, EntriesFound
<1> QED BY <1>6, <1>8, <1>10, <1>11, MrTable, HandledKeeps

LEMMA MrRecvBU ==
    ASSUME NemoInv, NEW p \in net, mr_recv_bu(p)
    PROVE  NemoInv'
<1>1. \/ p = MNHomeBU("nemo", "nemo1")
      \/ Called /\ p = MNPeerBU("nemo", "nemo1")
      \/ Called /\ Known /\ p = CNPeerBU("c1")
  BY MrTable, BUArrives DEF mr_recv_bu
<1>2. CASE p = MNHomeBU("nemo", "nemo1")
  <2>1. InFlight(MNHomeBU("net", "ha1"), TRUE, Called)
    BY DEF InFlight, BUs
  <2> QED BY <1>2, <2>1, StackZero, MrForwardsBU DEF MNHomeBU, One
<1>3. CASE Called /\ p = MNPeerBU("nemo", "nemo1")
  <2>1. InFlight(MNPeerBU("net", "ha1"), TRUE, Called)
    BY <1>3 DEF InFlight, BUs
  <2>2. One("cn", "mn") \in Stacks
    BY StackOne DEF Addresses
  <2> QED BY <1>3, <2>1, <2>2, MrForwardsBU DEF MNPeerBU, Two
<1>4. CASE Called /\ Known /\ p = CNPeerBU("c1")
  <2>1. delete_tunnel(p) = Pkt("BU", "net", "cn", "mn", <<>>, "cnhoa", "cn", Zero)
    BY <1>4, PopOne DEF CNPeerBU, Addresses
  <2>2. delete_tunnel(p).dst = "mn" /\ Inside(delete_tunnel(p)) = CNPeerBU2
    BY <2>1, Fields, Rezone DEF CNPeerBU2
  <2>3. get_entry(tbl.mr, "addr", delete_tunnel(p).dst) # 0
    BY <1>4, <2>2, MrTable
  <2>4. Quietly(p, "mr", {CNPeerBU2})
    BY <2>2, <2>3 DEF mr_recv_bu
  <2>5. InFlight(CNPeerBU2, Known, Called)
    BY <1>4 DEF InFlight, BUs
  <2> QED BY <2>4, <2>5, MrTable, QuietKeeps
<1> QED BY <1>1, <1>2, <1>3, <1>4

LEMMA MrRecvBack ==
    ASSUME NemoInv, NEW p \in net, mr_recv_back(p)
    PROVE  NemoInv'
<1>1. "mr" \in Nodes /\ Arrives(p, "BACK", "mr")
  BY MrTable DEF mr_recv_back
<1>2. \/ p = HomeBack("c1")
      \/ Called /\ p = PeerBack("c1")
      \/ p = RouterBack("ha1", "h1", "c1", "nemo1")
      \/ p = RouterBack("ha2", "h2", "c2", "nemo2")
  BY <1>1, BACKArrives
<1>3. CASE p.tun = <<>>
  <2>1. Quietly(p, "mr", {})
    BY <1>3 DEF mr_recv_back
  <2> QED BY <1>1, <2>1, LostKeeps
<1>4. CASE p.tun # <<>>
  <2>1. Quietly(p, "mr", {Inside(delete_tunnel(p))})
    BY <1>4 DEF mr_recv_back
  <2>2. CASE p = HomeBack("c1")
    <3>1. Inside(delete_tunnel(p)) = HomeBack2
      BY <2>2, PopOne, Rezone DEF HomeBack, HomeBack2, Addresses
    <3>2. InFlight(HomeBack2, Known, Called)
      BY DEF InFlight, BACKs
    <3> QED BY <1>1, <2>1, <3>1, <3>2, QuietKeeps
  <2>3. CASE Called /\ p = PeerBack("c1")
    <3>1. Inside(delete_tunnel(p)) = PeerBack2
      BY <2>3, AddressIn, PopTwo, Rezone DEF PeerBack, PeerBack2
    <3>2. InFlight(PeerBack2, Known, Called)
      BY <2>3 DEF InFlight, BACKs
    <3> QED BY <1>1, <2>1, <3>1, <3>2, QuietKeeps
  <2>4. p.tun = <<>> \/ p = HomeBack("c1") \/ (Called /\ p = PeerBack("c1"))
    BY <1>2, Fields DEF RouterBack
  <2> QED BY <1>4, <2>2, <2>3, <2>4
<1> QED BY <1>3, <1>4

\* Each uplink is found by its care-of address and by its interface.
LEMMA UplinkRows ==
    ASSUME NEW t, TableOK("mr", t)
    PROVE  /\ get_mr_ha_entry(t, "caddr", "c1") # 0
           /\ t[get_mr_ha_entry(t, "caddr", "c1")] = UplinkEntry(1)
           /\ get_mr_ha_entry(t, "caddr", "c2") # 0
           /\ t[get_mr_ha_entry(t, "caddr", "c2")] = UplinkEntry(2)
           /\ get_mr_ha_entry(t, "eface", 1) # 0
           /\ t[get_mr_ha_entry(t, "eface", 1)] = UplinkEntry(1)
           /\ get_mr_ha_entry(t, "eface", 2) # 0
           /\ t[get_mr_ha_entry(t, "eface", 2)] = UplinkEntry(2)
<1>1. t \in Seq(MrEntries) /\ Has(t, "eface", 2) /\ Has(t, "prefix", "nemo1")
  BY DEF TableOK
<1>2. \A j \in DOMAIN t : t[j] \in MrEntries
  BY <1>1
<1>3. UplinkEntry(1) \in MrEntries /\ UplinkEntry(2) \in MrEntries
  BY DEF MrEntries
<1>4. PICK j1 \in DOMAIN t : t[j1] = UplinkEntry(1)
  <2>1. PICK j \in DOMAIN t : t[j]["prefix"] = "nemo1"
    BY <1>1 DEF Has
  <2> QED BY <1>2, <2>1, MrRows DEF Unset
<1>5. PICK j2 \in DOMAIN t : t[j2] = UplinkEntry(2)
  <2>1. PICK j \in DOMAIN t : t[j]["eface"] = 2
    BY <1>1 DEF Has
  <2> QED BY <1>2, <2>1, MrRows
<1>6. \A e \in MrEntries : e.type = "MR_HA" =>
          /\ e.caddr = "c1" \/ e.eface = 1 => e = UplinkEntry(1)
          /\ e.caddr = "c2" \/ e.eface = 2 => e = UplinkEntry(2)
  BY <1>3, MrRows
<1>7. /\ UplinkEntry(1).type = "MR_HA" /\ UplinkEntry(1)["caddr"] = "c1"
      /\ UplinkEntry(1)["eface"] = 1
      /\ UplinkEntry(2).type = "MR_HA" /\ UplinkEntry(2)["caddr"] = "c2"
      /\ UplinkEntry(2)["eface"] = 2
  BY <1>3, MrRows
<1>8. \A f, v : LET i == get_mr_ha_entry(t, f, v)
                IN  \/ i = 0 /\ \A j \in DOMAIN t : ~(t[j].type = "MR_HA" /\ t[j][f] = v)
                    \/ i # 0 /\ i \in DOMAIN t /\ t[i].type = "MR_HA" /\ t[i][f] = v
  BY <1>1, GetUplink
<1>9. LET i == get_mr_ha_entry(t, "caddr", "c1") IN i # 0 /\ t[i] = UplinkEntry(1)
  BY <1>2, <1>4, <1>6, <1>7, <1>8
<1>10. LET i == get_mr_ha_entry(t, "caddr", "c2") IN i # 0 /\ t[i] = UplinkEntry(2)
  BY <1>2, <1>5, <1>6, <1>7, <1>8
<1>11. LET i == get_mr_ha_entry(t, "eface", 1) IN i # 0 /\ t[i] = UplinkEntry(1)
  BY <1>2, <1>4, <1>6, <1>7, <1>8
<1>12. LET i == get_mr_ha_entry(t, "eface", 2) IN i # 0 /\ t[i] = UplinkEntry(2)
  BY <1>2, <1>5, <1>6, <1>7, <1>8
<1> QED BY <1>9, <1>10, <1>11, <1>12

\* The two ways out: directly, or tunnelled to HA1 through uplink 2.
LEMMA MrOut ==
    ASSUME NemoInv, NEW e \in MrEntries, e.addr = "mn",
           NEW f \in {"cnhoa", "cn"}, NEW g \in {"mnha", "cn"}, NEW h \in MnHomes, NEW c \in MnCares
    PROVE  /\ get_mr_ha_entry(tbl.mr, "caddr", e.caddr) # 0
           /\ MROut(MNData("nemo", "mn", g, One(f, "mn"), h, c), e) \subseteq
                {MNData("net", "h1", "ha1", Two(f, "mn", g, "h1"), h, c),
                 MNData("net", "h2", "ha2", Three(f, "mn", g, "mn", "ha1", "h2"), h, c)}
<1> DEFINE q == MNData("nemo", "mn", g, One(f, "mn"), h, c)
           t == tbl.mr
<1>1. e.eface = 1 /\ e.caddr \in {"c1", "c2"}
  BY MrRows
<1>2. CoA[e.eface] = "c1"
  BY <1>1 DEF CoA
<1>3. TableOK("mr", t)
  BY MrTable
<1> HIDE DEF t
<1>4. /\ UplinkEntry(1).addr = "ha1" /\ UplinkEntry(1).haddr = "h1" /\ UplinkEntry(1).eface = 1
      /\ UplinkEntry(2).addr = "ha2" /\ UplinkEntry(2).haddr = "h2" /\ UplinkEntry(2).eface = 2
  BY MrRows
<1>5. MROut(q, e) = LET k == get_mr_ha_entry(t, "caddr", "c1")
                        o == get_mr_ha_entry(t, "caddr", e.caddr)
                        r == IF e.caddr # "c1" THEN To(add_tunnel(q), t[k].addr) ELSE q
                    IN  Via(t[o].eface, To(add_tunnel(From(r, t[o].haddr)), t[o].addr))
  BY <1>2 DEF MROut, t
<1>6. CASE e.caddr = "c1"
  <2>1. MROut(q, e) = Via(1, To(add_tunnel(From(q, "h1")), "ha1"))
    BY <1>3, <1>4, <1>5, <1>6, UplinkRows
  <2>2. Outside(To(add_tunnel(From(q, "h1")), "ha1"))
          = MNData("net", "h1", "ha1", Two(f, "mn", g, "h1"), h, c)
    BY PushOne, Redirect, Rezone DEF MNData
  <2>3. get_mr_ha_entry(t, "caddr", e.caddr) # 0
    BY <1>3, <1>6, UplinkRows
  <2> QED BY <2>1, <2>2, <2>3 DEF Via, t
<1>7. CASE e.caddr = "c2"
  <2>1. MROut(q, e) = Via(2, To(add_tunnel(From(To(add_tunnel(q), "ha1"), "h2")), "ha2"))
    BY <1>3, <1>4, <1>5, <1>7, UplinkRows
  <2>2. From(To(add_tunnel(q), "ha1"), "h2") = MNData("nemo", "h2", "ha1", Two(f, "mn", g, "mn"), h, c)
    BY PushOne, Redirect DEF MNData
  <2>3. Outside(To(add_tunnel(From(To(add_tunnel(q), "ha1"), "h2")), "ha2"))
          = MNData("net", "h2", "ha2", Three(f, "mn", g, "mn", "ha1", "h2"), h, c)
    BY <2>2, PushTwo, Redirect, Rezone DEF MNData
  <2>4. get_mr_ha_entry(t, "caddr", e.caddr) # 0
    BY <1>3, <1>7, UplinkRows
  <2> QED BY <2>1, <2>3, <2>4 DEF Via, t
<1> QED BY <1>1, <1>6, <1>7

LEMMA MrTunneling ==
    ASSUME NemoInv, NEW p \in net, mr_tunneling(p)
    PROVE  NemoInv'
<1> DEFINE q == delete_tunnel(p)
           j == get_entry(tbl.mr, "addr", q.src)
<1>1. "mr" \in Nodes /\ Called /\ (MNArrives(p, "mr") \/ CNArrives(p, "mr"))
  BY MrTable, DATAArrives DEF mr_tunneling
<1>2. CASE MNArrives(p, "mr")
  <2>1. PICK f \in {"cnhoa", "cn"}, g \in {"mnha", "cn"}, h \in MnHomes, c \in MnCares :
            p = MNData("nemo", "mn", "nemo1", Two(f, "mn", g, "mn"), h, c)
    BY <1>2 DEF MNArrives
  <2>2. f \in Addresses /\ g \in Addresses
    BY DEF Addresses
  <2>3. q = MNData("nemo", "mn", g, One(f, "mn"), h, c)
    BY <2>1, <2>2, AddressIn, PopTwo DEF MNData
  <2>4. q.src = "mn" /\ q.dst = g
    BY <2>3, Fields DEF MNData
  <2>5. get_entry(tbl.mr, "addr", q.dst) = 0
    BY <2>4, MrTable
  <2>6. CASE j = 0
    <3>1. Quietly(p, "mr", {})
      BY <2>5, <2>6 DEF mr_tunneling
    <3> QED BY <1>1, <3>1, LostKeeps
  <2>7. CASE j # 0
    <3> DEFINE e == tbl.mr[j]
    <3>1. e \in MrEntries /\ e.addr = "mn" /\ Known
      <4>1. j \in DOMAIN tbl["mr"] /\ tbl["mr"][j]["addr"] = "mn"
        BY <2>4, <2>7, MrTable, GetEntry
      <4>2. tbl["mr"][j] \in MrEntries
        BY <4>1, MrTable
      <4>3. Known
        BY <2>4, <2>7, MrTable
      <4> QED BY <4>1, <4>2, <4>3
    <3> HIDE DEF e
    <3>2. get_mr_ha_entry(tbl.mr, "caddr", e.caddr) # 0
      BY <3>1, MrOut
    <3>3. Quietly(p, "mr", MROut(q, e))
      BY <2>5, <2>7, <3>2 DEF mr_tunneling, e
    <3>4. \A x \in MROut(q, e) : InFlight(x, Known, Called)
      <4>1. \A x \in MROut(q, e) :
                x \in {MNData("net", "h1", "ha1", Two(f, "mn", g, "h1"), h, c),
                       MNData("net", "h2", "ha2", Three(f, "mn", g, "mn", "ha1", "h2"), h, c)}
        BY <2>3, <3>1, MrOut
      <4>2. \A x \in MROut(q, e) : MNDATAs(x, Known)
        BY <3>1, <4>1 DEF MNDATAs
      <4> QED BY <1>1, <4>2 DEF InFlight
    <3> QED BY <1>1, <3>3, <3>4, QuietKeeps
  <2> QED BY <2>6, <2>7
<1>3. CASE CNArrives(p, "mr")
  <2>1. PICK s \in {"cn", "ha2"}, d \in {"c1", "c2"}, h \in CnHomes :
            p = CNData("net", s, d, "mn", h)
    BY <1>3 DEF CNArrives
  <2>2. q = Pkt("DATA", "net", "cn", "mn", <<>>, h, "cn", Zero)
    BY <2>1, AddressIn, PopOne DEF CNData
  <2>3. q.src = "cn" /\ q.dst = "mn"
    BY <2>2, Fields
  <2>4. j = 0
    BY <2>3, MrTable
  <2>5. CASE get_entry(tbl.mr, "addr", q.dst) # 0
    <3>1. Quietly(p, "mr", {MRInside(q)})
      BY <2>5 DEF mr_tunneling
    <3>2. MRInside(q) = CNData("nemo", "cn", "mn", "mn", h)
      BY <2>2, PushZero, Rezone DEF MRInside, CNData
    <3>3. InFlight(MRInside(q), Known, Called)
      BY <1>1, <3>2 DEF InFlight, CNDATAs
    <3> QED BY <1>1, <3>1, <3>3, QuietKeeps
  <2>6. CASE get_entry(tbl.mr, "addr", q.dst) = 0
    <3>1. Quietly(p, "mr", {})
      BY <2>4, <2>6 DEF mr_tunneling
    <3> QED BY <1>1, <3>1, LostKeeps
  <2> QED BY <2>5, <2>6
<1> QED BY <1>1, <1>2, <1>3

-----------------------------------------------------------------------------
(* The home agents of the uplinks.                                         *)

\* The two rows of a home agent's list.
LEMMA HaRows ==
    ASSUME NEW nemo, NEW h, NEW c, NEW otherH, NEW otherHA,
           NEW e \in HaEntries(nemo, h, c, otherH, otherHA)
    PROVE  \/ e.haddr = h /\ e.prefix = nemo /\ e.caddr \in {c, otherH}
           \/ e.haddr = otherH /\ e.prefix = Zero /\ e.caddr = otherHA
BY DEF HaEntries

\* What HA1 finds by prefix and by home address.
LEMMA Ha1Table ==
    ASSUME NemoInv
    PROVE  LET t == tbl["ha1"]
           IN  /\ "ha1" \in Nodes /\ TableOK("ha1", t) /\ t \in Seq(Ha1Entries)
               /\ get_entry(t, "prefix", "nemo1") # 0
               /\ t[get_entry(t, "prefix", "nemo1")].caddr \in {"c1", "h2"}
               /\ \A v : get_entry(t, "prefix", v) # 0 => v \in {"nemo1", Zero}
               /\ \A v : get_entry(t, "haddr", v) # 0 => v \in {"h1", "h2"}
               /\ get_entry(t, "haddr", "h1") # 0
               /\ get_entry(t, "haddr", "h2") # 0 =>
                    /\ t[get_entry(t, "haddr", "h2")].haddr = "h2"
                    /\ t[get_entry(t, "haddr", "h2")].caddr = "ha2"
<1> DEFINE t == tbl["ha1"]
<1>1. "ha1" \in Nodes
  BY DEF Nodes
<1>2. TableOK("ha1", t)
  BY <1>1 DEF NemoInv, TablesOK
<1> HIDE DEF t
<1>3. t \in Seq(Ha1Entries) /\ Has(t, "haddr", "h1")
  BY <1>2 DEF TableOK
<1>4. \A j \in DOMAIN t :
          \/ t[j].haddr = "h1" /\ t[j].prefix = "nemo1" /\ t[j].caddr \in {"c1", "h2"}
          \/ t[j].haddr = "h2" /\ t[j].prefix = Zero /\ t[j].caddr = "ha2"
  <2>1. \A j \in DOMAIN t : t[j] \in HaEntries("nemo1", "h1", "c1", "h2", "ha2")
    BY <1>3 DEF Ha1Entries
  <2> QED BY <2>1, HaRows
<1>5. \A f, v : LET i == get_entry(t, f, v)
                IN  \/ i = 0 /\ \A j \in DOMAIN t : t[j][f] # v
                    \/ i # 0 /\ i \in DOMAIN t /\ t[i][f] = v
  BY <1>3, GetEntry
<1>6. PICK k \in DOMAIN t : t[k]["haddr"] = "h1"
  BY <1>3 DEF Has
<1>7. t[k]["prefix"] = "nemo1"
  BY <1>4, <1>6
<1>8. LET i == get_entry(t, "prefix", "nemo1") IN i # 0 /\ t[i].caddr \in {"c1", "h2"}
  BY <1>4, <1>5, <1>7 DEF Zero
<1>9. \A v : get_entry(t, "prefix", v) # 0 => v \in {"nemo1", Zero}
  BY <1>4, <1>5
<1>10. \A v : get_entry(t, "haddr", v) # 0 => v \in {"h1", "h2"}
  BY <1>4, <1>5
<1>11. get_entry(t, "haddr", "h1") # 0
  BY <1>5, <1>6
<1>12. LET i == get_entry(t, "haddr", "h2")
       IN  i # 0 => t[i].haddr = "h2" /\ t[i].caddr = "ha2"
  BY <1>4, <1>5
<1> QED BY <1>1, <1>2, <1>3, <1>8, <1>9, <1>10, <1>11, <1>12 DEF t

\* What HA2 finds.
LEMMA Ha2Table ==
    ASSUME NemoInv
    PROVE  LET t == tbl["ha2"]
           IN  /\ "ha2" \in Nodes /\ TableOK("ha2", t) /\ t \in Seq(Ha2Entries)
               /\ \A v : get_entry(t, "prefix", v) # 0 => v \in {"nemo2", Zero}
               /\ \A v : get_entry(t, "haddr", v) # 0 => v \in {"h1", "h2"}
               /\ get_entry(t, "haddr", "h2") # 0
               /\ t[get_entry(t, "haddr", "h2")].caddr \in {"c2", "h1"}
<1> DEFINE t == tbl["ha2"]
<1>1. "ha2" \in Nodes
  BY DEF Nodes
<1>2. TableOK("ha2", t)
  BY <1>1 DEF NemoInv, TablesOK
<1> HIDE DEF t
<1>3. t \in Seq(Ha2Entries) /\ Has(t, "haddr", "h2")
  BY <1>2 DEF TableOK
<1>4. \A j \in DOMAIN t :
          \/ t[j].haddr = "h2" /\ t[j].prefix = "nemo2" /\ t[j].caddr \in {"c2", "h1"}
          \/ t[j].haddr = "h1" /\ t[j].prefix = Zero /\ t[j].caddr = "ha1"
  <2>1. \A j \in DOMAIN t : t[j] \in HaEntries("nemo2", "h2", "c2", "h1", "ha1")
    BY <1>3 DEF Ha2Entries
  <2> QED BY <2>1, HaRows
<1>5. \A f, v : LET i == get_entry(t, f, v)
                IN  \/ i = 0 /\ \A j \in DOMAIN t : t[j][f] # v
                    \/ i # 0 /\ i \in DOMAIN t /\ t[i][f] = v
  BY <1>3, GetEntry
<1>6. PICK k \in DOMAIN t : t[k]["haddr"] = "h2"
  BY <1>3 DEF Has
<1>9. \A v : get_entry(t, "prefix", v) # 0 => v \in {"nemo2", Zero}
  BY <1>4, <1>5
<1>10. \A v : get_entry(t, "haddr", v) # 0 => v \in {"h1", "h2"}
  BY <1>4, <1>5
<1>11. LET i == get_entry(t, "haddr", "h2") IN i # 0 /\ t[i].caddr \in {"c2", "h1"}
  BY <1>4, <1>5, <1>6
<1> QED BY <1>1, <1>2, <1>3, <1>9, <1>10, <1>11 DEF t

\* The binding of an uplink's home address, renewed or moved.
LEMMA HaRegisters ==
    ASSUME NEW nemo, NEW h, NEW c, NEW otherH, NEW otherHA, h # otherH,
           HaEntries(nemo, h, c, otherH, otherHA) \subseteq Entries,
           NEW t \in Seq(HaEntries(nemo, h, c, otherH, otherHA)), Has(t, "haddr", h),
           NEW p,
           \/ p.haddr = h /\ p.coa = c /\ p.pfx = nemo
           \/ p.haddr = otherH /\ p.coa = otherHA /\ p.pfx = Zero
    PROVE  LET r == registration(t, p, "MR")
           IN  /\ r \in Seq(HaEntries(nemo, h, c, otherH, otherHA)) /\ Has(r, "haddr", h)
               /\ Has(r, "haddr", p.haddr) /\ Keeps(t, r)
               /\ \A v : Has(r, "caddr", v) => Has(t, "caddr", v) \/ v = p.coa
<1> DEFINE E == HaEntries(nemo, h, c, otherH, otherHA)
<1>1. NewEntry("MR", p) \in E
  BY DEF HaEntries, NewEntry
<1>2. \A e \in E : e.haddr = p.haddr => [e EXCEPT !.caddr = p.coa] \in E
  <2> SUFFICES ASSUME NEW e \in E, e.haddr = p.haddr
               PROVE  [e EXCEPT !.caddr = p.coa] \in E
    OBVIOUS
  <2>1. CASE p.haddr = h
    BY <2>1 DEF HaEntries
  <2>2. CASE p.haddr = otherH
    BY <2>2 DEF HaEntries
  <2> QED BY <2>1, <2>2
<1> HIDE DEF E
<1>3. LET r == registration(t, p, "MR")
      IN  /\ r \in Seq(E) /\ Keeps(t, r) /\ Has(r, "haddr", p.haddr)
          /\ \A v : Has(r, "caddr", v) => Has(t, "caddr", v) \/ v = p.coa
  <2>1. t \in Seq(E) /\ E \subseteq Entries
    BY DEF E
  <2> QED BY <1>1, <1>2, <2>1, Registers
<1> QED BY <1>3 DEF Keeps, E

\* send_bu_ack answers to the care-of address, or tunnels there.
LEMMA Ack ==
    ASSUME NEW ty, NEW z, NEW s, NEW d, NEW st, NEW h, NEW c, NEW x, NEW me
    PROVE  send_bu_ack(Pkt(ty, z, s, d, st, h, c, x), me) =
             IF s # c THEN Pkt("BACK", z, me, s, Push(st, c, me), h, c, x)
             ELSE Pkt("BACK", z, me, c, st, h, c, x)
<1> DEFINE p == Pkt(ty, z, s, d, st, h, c, x)
           a == [p EXCEPT !.type = "BACK", !.src = me, !.dst = p.coa]
<1>1. p.src = s /\ p.coa = c
  BY Fields
<1>2. a = Pkt("BACK", z, me, c, st, h, c, x)
  <2>1. a = [p EXCEPT !.type = "BACK", !.src = me, !.dst = c]
    <3> HIDE DEF p
    <3> QED BY <1>1
  <2> HIDE DEF a
  <2> QED BY <2>1 DEF Pkt
<1> HIDE DEF a
<1>3. To(add_tunnel(a), s) = Pkt("BACK", z, me, s, Push(st, c, me), h, c, x)
  BY <1>2, AddTun, Redirect
<1> HIDE DEF p
<1>4. send_bu_ack(p, me) = IF s # c THEN To(add_tunnel(a), s) ELSE a
  BY <1>1 DEF send_bu_ack, a
<1> QED BY <1>2, <1>3, <1>4 DEF p

LEMMA HaRegistersUplink ==
    ASSUME NemoInv, NEW p, NEW n, NEW h, NEW c, NEW nemo,
           \/ n = "ha1" /\ h = "h1" /\ c = "c1" /\ nemo = "nemo1"
           \/ n = "ha2" /\ h = "h2" /\ c = "c2" /\ nemo = "nemo2",
           p = RouterBU(n, h, c, nemo), ha_recv_bu(p, n)
    PROVE  NemoInv'
<1> DEFINE q == delete_tunnel(p)
           r == registration(tbl[n], q, "MR")
<1>1. n \in Addresses /\ c \in Addresses
  BY DEF Addresses
<1>2. q = Pkt("BU", "net", c, n, <<>>, h, c, nemo)
  BY <1>1, PopOne DEF RouterBU
<1>3. q.dst = n /\ q.haddr = h /\ q.coa = c /\ q.pfx = nemo /\ q.src = c
  BY <1>2, Fields
<1>4. send_bu_ack(q, n) = RouterBack(n, h, c, nemo)
  BY <1>2, Ack DEF RouterBack
<1> HIDE DEF q
<1>5. Handled(p, n, r, {RouterBack(n, h, c, nemo)}) /\ UNCHANGED <<got, abort>>
  BY <1>3, <1>4 DEF ha_recv_bu, q
<1>6. n \in Nodes /\ TableOK(n, r)
  <2>1. CASE n = "ha1"
    <3>1. tbl["ha1"] \in Seq(Ha1Entries) /\ Has(tbl["ha1"], "haddr", "h1")
      BY Ha1Table DEF TableOK
    <3>2. r \in Seq(Ha1Entries) /\ Has(r, "haddr", "h1")
      BY <1>3, <2>1, <3>1, NodeEntries, HaRegisters DEF Ha1Entries
    <3>3. r \in Seq(Entries)
      BY <3>2, NodeEntries, SeqIn
    <3> QED BY <2>1, <3>2, <3>3, Ha1Table DEF TableOK
  <2>2. CASE n = "ha2"
    <3>1. tbl["ha2"] \in Seq(Ha2Entries) /\ Has(tbl["ha2"], "haddr", "h2")
      BY Ha2Table DEF TableOK
    <3>2. r \in Seq(Ha2Entries) /\ Has(r, "haddr", "h2")
      BY <1>3, <2>2, <3>1, NodeEntries, HaRegisters DEF Ha2Entries
    <3>3. r \in Seq(Entries)
      BY <3>2, NodeEntries, SeqIn
    <3> QED BY <2>2, <3>2, <3>3, Ha2Table DEF TableOK
  <2> QED BY <2>1, <2>2
<1>7. InFlight(RouterBack(n, h, c, nemo), KnownAfter(n, r), Called)
  BY DEF InFlight, BACKs
<1>8. DeliveredClean' /\ EntriesFound'
  BY <1>5 DEF NemoInv, DeliveredClean, EntriesFound
<1> HIDE DEF r
<1>9. n \notin {"mr", "cn", "mnha"}
  OBVIOUS
<1> QED BY <1>5, <1>6, <1>7, <1>8, <1>9, HandledKeeps

LEMMA HaForwardsBU ==
    ASSUME NemoInv, NEW p \in net, ha_recv_bu(p, "ha1"),
           \/ p = MNHomeBU("net", "ha1")
           \/ Called /\ p = MNPeerBU("net", "ha1")
           \/ Called /\ Known /\ p = CNPeerBU("ha1")
    PROVE  NemoInv'
<1> DEFINE q == delete_tunnel(p)
           t == tbl["ha1"]
           i == get_entry(t, "prefix", PrefixOf(q.dst))
           on == IF i # 0 THEN To(add_tunnel(q), t[i].caddr)
                 ELSE IF q.tun = <<>> THEN From(q, "ha1")
                 ELSE To(add_tunnel(From(delete_tunnel(q), "ha1")), q.dst)
<1> SUFFICES q.dst # "ha1" /\ InFlight(on, Known, Called)
  <2>1. Quietly(p, "ha1", {on})
    BY DEF ha_recv_bu
  <2> HIDE DEF on
  <2> QED BY <2>1, Ha1Table, QuietKeeps
<1>1. CASE p = MNHomeBU("net", "ha1")
  <2>1. q = Pkt("BU", "net", "mn", "mnha", <<>>, "mnhoa", "mn", Zero)
    BY <1>1, AddressIn, PopOne DEF MNHomeBU
  <2>2. q.dst = "mnha" /\ q.tun = <<>> /\ From(q, "ha1") = MNHomeBU2
    BY <2>1, Fields, Redirect DEF MNHomeBU2
  <2>3. i = 0
    BY <2>2, Ha1Table DEF PrefixOf, Zero
  <2>4. InFlight(MNHomeBU2, Known, Called)
    BY DEF InFlight, BUs
  <2> HIDE DEF q, i
  <2> QED BY <2>2, <2>3, <2>4
<1>2. CASE Called /\ p = MNPeerBU("net", "ha1")
  <2>1. q = Pkt("BU", "net", "mn", "cn", One("cn", "mn"), "mnhoa", "mn", Zero)
    BY <1>2, AddressIn, PopTwo DEF MNPeerBU
  <2>2. q.dst = "cn" /\ q.tun # <<>>
    BY <2>1, Fields, StackOne, AddressIn
  <2>3. delete_tunnel(q) = Pkt("BU", "net", "mn", "cn", <<>>, "mnhoa", "mn", Zero)
    BY <2>1, AddressIn, PopOne
  <2>4. To(add_tunnel(From(delete_tunnel(q), "ha1")), "cn") = MNPeerBU2
    BY <2>3, PushZero, Redirect DEF MNPeerBU2
  <2>5. i = 0
    BY <2>2, Ha1Table DEF PrefixOf, Zero
  <2>6. InFlight(MNPeerBU2, Known, Called)
    BY <1>2 DEF InFlight, BUs
  <2> HIDE DEF q, i
  <2> QED BY <2>2, <2>4, <2>5, <2>6
<1>3. CASE Called /\ Known /\ p = CNPeerBU("ha1")
  <2>1. q = Pkt("BU", "net", "cn", "mn", <<>>, "cnhoa", "cn", Zero)
    BY <1>3, AddressIn, PopOne DEF CNPeerBU
  <2>2. q.dst = "mn" /\ \A a : To(add_tunnel(q), a) = CNPeerBU(a)
    BY <2>1, Fields, PushZero, Redirect DEF CNPeerBU
  <2>3. i # 0 /\ t[i].caddr \in {"c1", "h2"}
    BY <2>2, Ha1Table DEF PrefixOf
  <2>4. \A a \in {"c1", "h2"} : InFlight(CNPeerBU(a), Known, Called)
    BY <1>3 DEF InFlight, BUs
  <2> HIDE DEF q, i
  <2> QED BY <2>2, <2>3, <2>4
<1> QED BY <1>1, <1>2, <1>3

LEMMA HaRecvBU ==
    ASSUME NemoInv, NEW p \in net, NEW n \in {"ha1", "ha2"}, ha_recv_bu(p, n)
    PROVE  NemoInv'
<1>1. n \in Nodes /\ Arrives(p, "BU", n)
  BY DEF Nodes, ha_recv_bu
<1>2. CASE n = "ha1"
  <2>1. \/ p = MNHomeBU("net", "ha1")
        \/ Called /\ p = MNPeerBU("net", "ha1")
        \/ Called /\ Known /\ p = CNPeerBU("ha1")
        \/ p = RouterBU("ha1", "h1", "c1", "nemo1")
    BY <1>1, <1>2, BUArrives
  <2>2. CASE p = RouterBU("ha1", "h1", "c1", "nemo1")
    BY <1>2, <2>2, HaRegistersUplink
  <2> QED BY <1>2, <2>1, <2>2, HaForwardsBU
<1>3. CASE n = "ha2"
  <2>1. p = RouterBU("ha2", "h2", "c2", "nemo2")
    BY <1>1, <1>3, BUArrives
  <2> QED BY <1>3, <2>1, HaRegistersUplink
<1> QED BY <1>2, <1>3

LEMMA HaRecvBack ==
    ASSUME NemoInv, NEW p \in net, NEW n \in {"ha1", "ha2"}, ha_recv_back(p, n)
    PROVE  NemoInv'
<1> DEFINE q == delete_tunnel(p)
           t == tbl["ha1"]
           i == get_entry(t, "prefix", PrefixOf(q.dst))
<1>1. n \in Nodes /\ Arrives(p, "BACK", n)
  BY DEF Nodes, ha_recv_back
<1>2. n = "ha1" /\ (p = HomeBack("ha1") \/ (Called /\ p = PeerBack("ha1")))
  BY <1>1, BACKArrives
<1>3. /\ p.tun # <<>> /\ q.dst = "mn"
      /\ \A a \in {"c1", "h2"} : InFlight(To(add_tunnel(q), a), Known, Called)
  <2>1. CASE p = HomeBack("ha1")
    <3>1. q = Pkt("BACK", "net", "mnha", "mn", <<>>, "mnhoa", "mn", Zero)
      BY <2>1, AddressIn, PopOne DEF HomeBack
    <3>2. q.dst = "mn" /\ \A a : To(add_tunnel(q), a) = HomeBack(a)
      BY <3>1, Fields, PushZero, Redirect DEF HomeBack
    <3>3. p.tun # <<>>
      BY <2>1, AddressIn, Fields, StackOne DEF HomeBack
    <3>4. \A a \in {"c1", "h2"} : InFlight(HomeBack(a), Known, Called)
      BY DEF InFlight, BACKs
    <3> QED BY <3>2, <3>3, <3>4
  <2>2. CASE Called /\ p = PeerBack("ha1")
    <3>1. q = Pkt("BACK", "net", "cn", "mn", One("cn", "ha1"), "mnhoa", "mn", Zero)
      BY <2>2, AddressIn, PopTwo DEF PeerBack
    <3>2. q.dst = "mn" /\ \A a : To(add_tunnel(q), a) = PeerBack(a)
      BY <3>1, Fields, PushOne, Redirect DEF PeerBack
    <3>3. p.tun # <<>>
      <4>1. Two("cn", "ha1", "mn", "cn") # <<>>
        BY AddressIn, StackTwo
      <4> QED BY <2>2, <4>1, Fields DEF PeerBack
    <3>4. \A a \in {"c1", "h2"} : InFlight(PeerBack(a), Known, Called)
      BY <2>2 DEF InFlight, BACKs
    <3> QED BY <3>2, <3>3, <3>4
  <2> QED BY <1>2, <2>1, <2>2
<1>4. i # 0 /\ t[i].caddr \in {"c1", "h2"}
  BY <1>3, Ha1Table DEF PrefixOf
<1>5. Quietly(p, "ha1", {To(add_tunnel(q), t[i].caddr)})
  BY <1>2, <1>3, <1>4 DEF ha_recv_back
<1> HIDE DEF q, t, i
<1> QED BY <1>3, <1>4, <1>5, Ha1Table, QuietKeeps

\* A REHOME finds the lost home address and leaves both bindings.
LEMMA HaRehomes ==
    ASSUME NEW nemo, NEW h, NEW c, NEW otherH, NEW otherHA, h # otherH,
           HaEntries(nemo, h, c, otherH, otherHA) \subseteq Entries,
           NEW t \in Seq(HaEntries(nemo, h, c, otherH, otherHA)), Has(t, "haddr", h),
           NEW r, r.haddr = otherH, r.coa = otherHA, r.pfx = Zero
    PROVE  LET i == get_entry(t, "haddr", h)
               t2 == registration([t EXCEPT ![i].caddr = otherH], r, "MR")
           IN  /\ i # 0
               /\ t2 \in Seq(HaEntries(nemo, h, c, otherH, otherHA)) /\ Has(t2, "haddr", h)
               /\ Has(t2, "haddr", otherH)
<1> DEFINE E == HaEntries(nemo, h, c, otherH, otherHA)
           i == get_entry(t, "haddr", h)
           t1 == [t EXCEPT ![i].caddr = otherH]
<1>1. i # 0 /\ i \in DOMAIN t /\ t[i]["haddr"] = h
  BY GetEntry DEF Has
<1> HIDE DEF i
<1>2. [t[i] EXCEPT !.caddr = otherH] \in E
  <2>1. t[i] \in E /\ t[i].haddr = h
    BY <1>1
  <2> QED BY <2>1 DEF HaEntries
<1>3. t1 \in Seq(E) /\ Has(t1, "haddr", h)
  <2> HIDE DEF E
  <2>1. t \in Seq(E) /\ E \subseteq Entries
    BY DEF E
  <2>2. t1 \in Seq(E) /\ Keeps(t, t1)
    BY <1>1, <1>2, <2>1, CareKeeps
  <2> QED BY <2>2 DEF Keeps
<1> HIDE DEF t1
<1>4. LET t2 == registration(t1, r, "MR")
      IN  t2 \in Seq(E) /\ Has(t2, "haddr", h) /\ Has(t2, "haddr", otherH)
  BY <1>3, HaRegisters
<1> QED BY <1>1, <1>4 DEF i, t1

LEMMA HaRecvRehome ==
    ASSUME NemoInv, NEW p \in net, NEW n \in {"ha1", "ha2"}, ha_recv_rehome(p, n)
    PROVE  NemoInv'
<1> DEFINE q == delete_tunnel(p)
           i == get_entry(tbl[n], "haddr", q.haddr)
           r == [q EXCEPT !.haddr = q.coa, !.coa = q.src]
           t == registration([tbl[n] EXCEPT ![i].caddr = q.coa], r, "MR")
<1>1. n \in Nodes /\ Arrives(p, "REHOME", n)
  BY DEF Nodes, ha_recv_rehome
<1>2. ASSUME NEW h, NEW otherHA \in Addresses, NEW otherH, NEW otherC,
             p = Rehome(n, h, otherHA, otherH, otherC)
      PROVE  /\ q.haddr = h /\ q.coa = otherH
             /\ r.haddr = otherH /\ r.coa = otherHA /\ r.pfx = Zero
  <2>1. n \in Addresses
    BY DEF Addresses
  <2>2. q = Pkt("REHOME", "net", otherHA, n, <<>>, h, otherH, Zero)
    BY <1>2, <2>1, PopOne DEF Rehome
  <2>3. q.haddr = h /\ q.coa = otherH /\ q.src = otherHA /\ q.pfx = Zero
    BY <2>2, Fields
  <2>4. r = [q EXCEPT !.haddr = otherH, !.coa = otherHA]
    <3> HIDE DEF q
    <3> QED BY <2>3
  <2> HIDE DEF q, r
  <2>5. r = Pkt("REHOME", "net", otherHA, n, <<>>, otherH, otherHA, Zero)
    BY <2>2, <2>4 DEF Pkt
  <2> QED BY <2>3, <2>5, Fields
<1> HIDE DEF q, r
<1>3. i # 0 /\ TableOK(n, t)
  <2>1. CASE n = "ha1"
    <3>1. p = Rehome("ha1", "h1", "ha2", "h2", "c2")
      BY <1>1, <2>1, REHOMEArrives
    <3>2. q.haddr = "h1" /\ q.coa = "h2" /\ r.haddr = "h2" /\ r.coa = "ha2" /\ r.pfx = Zero
      BY <1>2, <2>1, <3>1, AddressIn
    <3>3. tbl["ha1"] \in Seq(Ha1Entries) /\ Has(tbl["ha1"], "haddr", "h1")
      BY Ha1Table DEF TableOK
    <3>4. i # 0 /\ t \in Seq(Ha1Entries) /\ Has(t, "haddr", "h1")
      BY <2>1, <3>2, <3>3, NodeEntries, HaRehomes DEF Ha1Entries
    <3> HIDE DEF t
    <3>5. t \in Seq(Entries)
      BY <3>4, NodeEntries, SeqIn
    <3> QED BY <2>1, <3>4, <3>5 DEF TableOK
  <2>2. CASE n = "ha2"
    <3>1. p = Rehome("ha2", "h2", "ha1", "h1", "c1")
      BY <1>1, <2>2, REHOMEArrives
    <3>2. q.haddr = "h2" /\ q.coa = "h1" /\ r.haddr = "h1" /\ r.coa = "ha1" /\ r.pfx = Zero
      BY <1>2, <2>2, <3>1, AddressIn
    <3>3. tbl["ha2"] \in Seq(Ha2Entries) /\ Has(tbl["ha2"], "haddr", "h2")
      BY Ha2Table DEF TableOK
    <3>4. i # 0 /\ t \in Seq(Ha2Entries) /\ Has(t, "haddr", "h2")
      BY <2>2, <3>2, <3>3, NodeEntries, HaRehomes DEF Ha2Entries
    <3> HIDE DEF t
    <3>5. t \in Seq(Entries)
      BY <3>4, NodeEntries, SeqIn
    <3> QED BY <2>2, <3>4, <3>5 DEF TableOK
  <2> QED BY <2>1, <2>2
<1>4. Handled(p, n, t, {}) /\ UNCHANGED <<got, abort>>
  BY <1>3 DEF ha_recv_rehome, q, r
<1> HIDE DEF t
<1>5. DeliveredClean' /\ EntriesFound'
  BY <1>4 DEF NemoInv, DeliveredClean, EntriesFound
<1>6. \A x \in {} : InFlight(x, KnownAfter(n, t), Called)
  OBVIOUS
<1>7. n \notin {"mr", "cn", "mnha"}
  OBVIOUS
<1> QED BY <1>1, <1>3, <1>4, <1>5, <1>6, <1>7, HandledKeeps

\* Without a binding the packet is sent on.
LEMMA HaPassesOn ==
    ASSUME NEW p, NEW n, get_entry(tbl[n], "prefix", PrefixOf(delete_tunnel(p).dst)) = 0,
           get_entry(tbl[n], "haddr", p.haddr) = 0
    PROVE  HAOut(p, n) = IF delete_tunnel(p).dst # n THEN From(add_tunnel(delete_tunnel(p)), n)
                         ELSE From(delete_tunnel(p), n)
<1> DEFINE q == delete_tunnel(p)
<1>1. HAOut(p, n) = HAForward(q, n)
  <2> HIDE DEF q
  <2> QED BY DEF HAOut, q
<1> HIDE DEF q
<1>2. HAForward(q, n) = IF q.dst # n THEN From(add_tunnel(q), n) ELSE From(q, n)
  BY DEF HAForward
<1> QED BY <1>1, <1>2 DEF q

LEMMA HaOutMN ==
    ASSUME NemoInv, NEW p, NEW n \in {"ha1", "ha2"}, MNArrives(p, n), Called
    PROVE  InFlight(HAOut(p, n), Known, Called)
<1>1. PICK f \in {"cnhoa", "cn"}, g \in {"mnha", "cn"}, h \in MnHomes, c \in MnCares :
        /\ Known
        /\ \/ n = "ha1" /\ p = MNData("net", "h1", "ha1", Two(f, "mn", g, "h1"), h, c)
           \/ n = "ha2" /\ p = MNData("net", "h2", "ha2", Three(f, "mn", g, "mn", "ha1", "h2"), h, c)
           \/ n = "ha1" /\ p = MNData("net", "ha2", "ha1", Three(f, "mn", g, "mn", "ha1", "h2"), h, c)
           \/ n = "ha1" /\ p = MNData("net", "ha1", "ha1", Two(f, "mn", g, "mn"), h, c)
  BY DEF MNArrives
<1> DEFINE q == delete_tunnel(p)
<1>2. f \in Addresses /\ g \in Addresses
  BY DEF Addresses
<1>3. p.haddr = h
  BY <1>1, Fields DEF MNData
<1>4. ASSUME q.dst \in {"mnha", "cn", "ha1"}
      PROVE  HAOut(p, n) = IF q.dst # n THEN From(add_tunnel(q), n) ELSE From(q, n)
  <2>1. get_entry(tbl[n], "haddr", p.haddr) = 0
    BY <1>3, Ha1Table, Ha2Table DEF MnHomes, Zero
  <2>2. PrefixOf(q.dst) = q.dst
    BY <1>4 DEF PrefixOf
  <2>3. get_entry(tbl[n], "prefix", q.dst) = 0
    BY <1>4, Ha1Table, Ha2Table DEF Zero
  <2> QED BY <2>1, <2>2, <2>3, HaPassesOn
<1>5. ASSUME n = "ha1", NEW s \in {"mn", "h1"}, NEW src,
             p = MNData("net", src, "ha1", Two(f, "mn", g, s), h, c)
      PROVE  InFlight(HAOut(p, n), Known, Called)
  <2>1. q = MNData("net", s, g, One(f, "mn"), h, c)
    <3>1. s \in Addresses
      BY AddressIn
    <3> QED BY <1>2, <1>5, <3>1, AddressIn, PopTwo DEF MNData
  <2>2. q.dst = g
    BY <2>1, Fields DEF MNData
  <2>3. From(add_tunnel(q), "ha1") = MNData("net", "ha1", g, Two(f, "mn", g, s), h, c)
    BY <2>1, PushOne, Redirect DEF MNData
  <2>4. HAOut(p, n) = MNData("net", "ha1", g, Two(f, "mn", g, s), h, c)
    BY <1>4, <1>5, <2>2, <2>3
  <2>5. MNDATAs(HAOut(p, n), Known)
    BY <1>1, <1>5, <2>4 DEF MNDATAs
  <2> QED BY <2>5 DEF InFlight
<1>6. ASSUME NEW src, NEW dst, p = MNData("net", src, dst, Three(f, "mn", g, "mn", "ha1", "h2"), h, c)
      PROVE  InFlight(HAOut(p, n), Known, Called)
  <2>1. q = MNData("net", "h2", "ha1", Two(f, "mn", g, "mn"), h, c)
    <3>1. delete_tunnel(Pkt("DATA", "net", src, dst, Three(f, "mn", g, "mn", "ha1", "h2"), h, c, Zero))
            = Pkt("DATA", "net", "h2", "ha1", Two(f, "mn", g, "mn"), h, c, Zero)
      <4>1. Two(f, "mn", g, "mn") \in Stacks
        BY <1>2, AddressIn, StackTwo
      <4> QED BY <4>1, AddressIn, DelTun DEF Three
    <3> QED BY <1>6, <3>1 DEF MNData
  <2>2. q.dst = "ha1"
    BY <2>1, Fields DEF MNData
  <2>3. From(add_tunnel(q), "ha2") = MNData("net", "ha2", "ha1", Three(f, "mn", g, "mn", "ha1", "h2"), h, c)
    BY <2>1, PushTwo, Redirect DEF MNData
  <2>4. From(q, "ha1") = MNData("net", "ha1", "ha1", Two(f, "mn", g, "mn"), h, c)
    BY <2>1, Redirect DEF MNData
  <2>5. \/ HAOut(p, n) = MNData("net", "ha2", "ha1", Three(f, "mn", g, "mn", "ha1", "h2"), h, c)
        \/ HAOut(p, n) = MNData("net", "ha1", "ha1", Two(f, "mn", g, "mn"), h, c)
    BY <1>4, <2>2, <2>3, <2>4
  <2>6. MNDATAs(HAOut(p, n), Known)
    BY <1>1, <2>5 DEF MNDATAs
  <2> QED BY <2>6 DEF InFlight
<1>7. CASE n = "ha1" /\ p = MNData("net", "h1", "ha1", Two(f, "mn", g, "h1"), h, c)
  BY <1>5, <1>7
<1>8. CASE n = "ha1" /\ p = MNData("net", "ha1", "ha1", Two(f, "mn", g, "mn"), h, c)
  BY <1>5, <1>8
<1>9. CASE \E src, dst : p = MNData("net", src, dst, Three(f, "mn", g, "mn", "ha1", "h2"), h, c)
  BY <1>6, <1>9
<1> QED BY <1>1, <1>7, <1>8, <1>9

\* A packet for the MN at the home agent of its prefix: to the care-of address
\* of the prefix, or to the home agent that the other home address is bound to.
LEMMA HaOutPrefix ==
    ASSUME NemoInv, NEW h
    PROVE  LET t == tbl["ha1"]
               i == get_entry(t, "prefix", "nemo1")
               k == get_entry(t, "haddr", t[i].caddr)
           IN  HAOut(CNData("net", "cn", "ha1", "mn", h), "ha1") =
                 IF k = 0 THEN CNData("net", "cn", t[i].caddr, "mn", h)
                 ELSE CNData("net", "cn", "ha2", "mn", "h2")
<1> DEFINE p == CNData("net", "cn", "ha1", "mn", h)
           q == delete_tunnel(p)
           q0(a) == Pkt("DATA", "net", "cn", "mn", <<>>, a, "cn", Zero)
           t == tbl["ha1"]
           i == get_entry(t, "prefix", "nemo1")
           k == get_entry(t, "haddr", t[i].caddr)
<1>1. q = q0(h) /\ p.src = "cn"
  BY AddressIn, PopOne, Fields DEF CNData
<1>2. q.dst = "mn" /\ q.src = "cn"
  BY <1>1, Fields
<1>3. \A a : To(add_tunnel(q), a) = CNData("net", "cn", a, "mn", h)
  BY <1>1, PushZero, Redirect DEF CNData
<1>4. To(add_tunnel([q EXCEPT !.haddr = "h2"]), "ha2") = CNData("net", "cn", "ha2", "mn", "h2")
  <2>1. [q EXCEPT !.haddr = "h2"] = q0("h2")
    BY <1>1 DEF Pkt
  <2> QED BY <2>1, PushZero, Redirect DEF CNData
<1>5. i # 0 /\ (k # 0 => t[k].haddr = "h2" /\ t[k].caddr = "ha2")
  BY Ha1Table
<1>6. PrefixOf(q.dst) = "nemo1"
  BY <1>2 DEF PrefixOf
<1> HIDE DEF p, q, q0, t, i, k
<1>7. HAOut(p, "ha1") = IF k = 0 THEN To(add_tunnel(q), t[i].caddr)
                        ELSE To(add_tunnel([q EXCEPT !.haddr = t[k].haddr]), t[k].caddr)
  BY <1>1, <1>2, <1>5, <1>6 DEF HAOut, q, t, i, k
<1> QED BY <1>3, <1>4, <1>5, <1>7 DEF p, t, i, k

\* ... and at the home agent of the other uplink.
LEMMA HaOutOther ==
    ASSUME NemoInv
    PROVE  LET t == tbl["ha2"]
               j == get_entry(t, "haddr", "h2")
           IN  HAOut(CNData("net", "cn", "ha2", "mn", "h2"), "ha2")
                 = CNData("net", "ha2", t[j].caddr, "mn", "h2")
<1> DEFINE p == CNData("net", "cn", "ha2", "mn", "h2")
           q == delete_tunnel(p)
           t == tbl["ha2"]
           j == get_entry(t, "haddr", "h2")
<1>1. q = Pkt("DATA", "net", "cn", "mn", <<>>, "h2", "cn", Zero) /\ p.haddr = "h2"
  BY AddressIn, PopOne, Fields DEF CNData
<1>2. PrefixOf(q.dst) = "nemo1"
  BY <1>1, Fields DEF PrefixOf
<1>3. \A a : From(To(add_tunnel(q), a), "ha2") = CNData("net", "ha2", a, "mn", "h2")
  BY <1>1, PushZero, Redirect DEF CNData
<1>4. get_entry(t, "prefix", "nemo1") = 0 /\ j # 0
  BY Ha2Table DEF Zero
<1> HIDE DEF p, q, t, j
<1>5. HAOut(p, "ha2") = From(To(add_tunnel(q), t[j].caddr), "ha2")
  BY <1>1, <1>2, <1>4 DEF HAOut, q, t, j
<1> QED BY <1>3, <1>5 DEF p, t, j

LEMMA HaOutCN ==
    ASSUME NemoInv, NEW p, NEW n \in {"ha1", "ha2"}, CNArrives(p, n), Called
    PROVE  InFlight(HAOut(p, n), Known, Called)
<1>1. CASE n = "ha1"
  <2>1. PICK h \in CnHomes : p = CNData("net", "cn", "ha1", "mn", h)
    BY <1>1 DEF CNArrives
  <2>2. \E d \in {"c1", "h2"} : \/ HAOut(p, n) = CNData("net", "cn", d, "mn", h)
                                \/ HAOut(p, n) = CNData("net", "cn", "ha2", "mn", "h2")
    BY <1>1, <2>1, HaOutPrefix, Ha1Table
  <2>3. CNDATAs(HAOut(p, n))
    BY <2>2 DEF CNDATAs
  <2> QED BY <2>3 DEF InFlight
<1>2. CASE n = "ha2"
  <2>1. p = CNData("net", "cn", "ha2", "mn", "h2")
    BY <1>2 DEF CNArrives
  <2>2. \E d \in {"c2", "h1"} : HAOut(p, n) = CNData("net", "ha2", d, "mn", "h2")
    BY <1>2, <2>1, HaOutOther, Ha2Table
  <2>3. CNDATAs(HAOut(p, n))
    BY <2>2 DEF CNDATAs
  <2> QED BY <2>3 DEF InFlight
<1> QED BY <1>1, <1>2

LEMMA HaTunneling ==
    ASSUME NemoInv, NEW p \in net, NEW n \in {"ha1", "ha2"}, ha_tunneling(p, n)
    PROVE  NemoInv'
<1>1. n \in Nodes /\ Arrives(p, "DATA", n) /\ Quietly(p, n, {HAOut(p, n)})
  BY DEF Nodes, ha_tunneling
<1>2. InFlight(HAOut(p, n), Known, Called)
  BY <1>1, DATAArrives, HaOutMN, HaOutCN
<1> QED BY <1>1, <1>2, QuietKeeps

-----------------------------------------------------------------------------
(* The hosts.                                                              *)

LEMMA HostTables ==
    ASSUME NemoInv
    PROVE  /\ "mnha" \in Nodes /\ TableOK("mnha", tbl["mnha"]) /\ tbl["mnha"] \in Seq(MnhaEntries)
           /\ "mn" \in Nodes /\ TableOK("mn", tbl["mn"]) /\ tbl["mn"] \in Seq(MnEntries)
           /\ "cn" \in Nodes /\ TableOK("cn", tbl["cn"]) /\ tbl["cn"] \in Seq(CnEntries)
<1>1. "mnha" \in Nodes /\ "mn" \in Nodes /\ "cn" \in Nodes
  BY DEF Nodes, Hosts
<1> QED BY <1>1 DEF NemoInv, TablesOK, TableOK

LEMMA MnhaRegisters ==
    ASSUME NEW t, TableOK("mnha", t), NEW p,
           \/ p.src = "ha1" /\ p.haddr = "mnhoa" /\ p.coa = "mn"
           \/ p.src = "cn" /\ p.haddr = "cnhoa" /\ p.coa = "cn"
    PROVE  LET r == registration(t, p, "MN")
           IN  /\ TableOK("mnha", r)
               /\ Has(r, "haddr", "cnhoa") => Has(t, "haddr", "cnhoa") \/ p.haddr = "cnhoa"
<1> DEFINE r == registration(t, p, "MN")
<1>1. NewEntry("MN", p) \in MnhaEntries
  BY DEF NewEntry, MnhaEntries
<1>2. \A e \in MnhaEntries : e.haddr = p.haddr => [e EXCEPT !.caddr = p.coa] \in MnhaEntries
  BY DEF MnhaEntries
<1>3. t \in Seq(MnhaEntries)
  BY DEF TableOK
<1>4. /\ r \in Seq(MnhaEntries)
      /\ \A v : Has(r, "haddr", v) => Has(t, "haddr", v) \/ v = p.haddr
  BY <1>1, <1>2, <1>3, NodeEntries, Registers
<1> HIDE DEF r
<1>5. r \in Seq(Entries)
  BY <1>4, NodeEntries, SeqIn
<1> QED BY <1>4, <1>5 DEF TableOK, r

LEMMA MnRegisters ==
    ASSUME NEW t, TableOK("mn", t), NEW p, p.src = "cn", p.haddr \in CnHomes, p.coa = "cn"
    PROVE  TableOK("mn", registration(t, p, "MN"))
<1> DEFINE r == registration(t, p, "MN")
<1>1. NewEntry("MN", p) \in MnEntries
  BY DEF NewEntry, MnEntries
<1>2. \A e \in MnEntries : e.haddr = p.haddr => [e EXCEPT !.caddr = p.coa] \in MnEntries
  BY DEF MnEntries
<1>3. t \in Seq(MnEntries) /\ Has(t, "type", "MN_HA")
  BY DEF TableOK
<1>4. r \in Seq(MnEntries) /\ Keeps(t, r)
  BY <1>1, <1>2, <1>3, NodeEntries, Registers
<1> HIDE DEF r
<1>5. r \in Seq(Entries)
  BY <1>4, NodeEntries, SeqIn
<1>6. Has(r, "type", "MN_HA")
  BY <1>3, <1>4 DEF Keeps
<1> QED BY <1>4, <1>5, <1>6 DEF TableOK, r

LEMMA CnRegisters ==
    ASSUME NEW t, TableOK("cn", t), NEW p, p.src = "ha1", p.haddr \in MnHomes, p.coa \in MnCares
    PROVE  TableOK("cn", registration(t, p, "MN"))
<1> DEFINE r == registration(t, p, "MN")
<1>1. NewEntry("MN", p) \in CnEntries
  BY DEF NewEntry, CnEntries
<1>2. \A e \in CnEntries : e.haddr = p.haddr => [e EXCEPT !.caddr = p.coa] \in CnEntries
  BY DEF CnEntries, HomeEntry, MnHomes, Zero
<1>3. t \in Seq(CnEntries) /\ Has(t, "type", "MN_HA")
  BY DEF TableOK
<1>4. r \in Seq(CnEntries) /\ Keeps(t, r)
  BY <1>1, <1>2, <1>3, NodeEntries, Registers
<1> HIDE DEF r
<1>5. r \in Seq(Entries)
  BY <1>4, NodeEntries, SeqIn
<1>6. Has(r, "type", "MN_HA")
  BY <1>3, <1>4 DEF Keeps
<1> QED BY <1>4, <1>5, <1>6 DEF TableOK, r

LEMMA HostRecvBU ==
    ASSUME NemoInv, NEW p \in net, NEW n \in Hosts, host_recv_bu(p, n)
    PROVE  NemoInv'
<1> DEFINE r == registration(tbl[n], p, "MN")
           out == IF n = "mn" THEN {} ELSE {send_bu_ack(p, n)}
<1>1. n \in Nodes /\ Arrives(p, "BU", n) /\ Handled(p, n, r, out) /\ UNCHANGED <<got, abort>>
  BY DEF Nodes, host_recv_bu
<1> SUFFICES /\ TableOK(n, r)
             /\ Called \/ (n = "mnha" /\ ~Has(r, "haddr", "cnhoa"))
             /\ \A x \in out : InFlight(x, Known, Called)
  <2>1. DeliveredClean' /\ EntriesFound'
    BY <1>1 DEF NemoInv, DeliveredClean, EntriesFound
  <2>2. n # "mr"
    BY DEF Hosts
  <2> HIDE DEF r, out
  <2>3. \A x \in out : InFlight(x, KnownAfter(n, r), Called)
    BY <2>2 DEF KnownAfter
  <2> QED BY <1>1, <2>1, <2>2, <2>3, HandledKeeps
<1>2. CASE n = "mnha" /\ p = MNHomeBU2
  <2>1. p.src = "ha1" /\ p.haddr = "mnhoa" /\ p.coa = "mn"
    BY <1>2, Fields DEF MNHomeBU2
  <2>2. TableOK("mnha", r) /\ (Has(r, "haddr", "cnhoa") => Has(tbl["mnha"], "haddr", "cnhoa"))
    BY <1>2, <2>1, HostTables, MnhaRegisters
  <2>3. send_bu_ack(p, n) = HomeBack("ha1")
    BY <1>2, Ack DEF MNHomeBU2, HomeBack, One
  <2>4. InFlight(HomeBack("ha1"), Known, Called)
    BY DEF InFlight, BACKs
  <2> HIDE DEF r
  <2>5. Called \/ ~Has(r, "haddr", "cnhoa")
    BY <2>2 DEF NemoInv, NotCalled
  <2> QED BY <1>2, <2>2, <2>3, <2>4, <2>5
<1>3. CASE n = "mnha" /\ Called /\ p = CNHomeBU
  <2>1. p.src = "cn" /\ p.haddr = "cnhoa" /\ p.coa = "cn"
    BY <1>3, Fields DEF CNHomeBU
  <2>2. TableOK("mnha", r)
    BY <1>3, <2>1, HostTables, MnhaRegisters
  <2>3. send_bu_ack(p, n) = CNBack
    BY <1>3, Ack DEF CNHomeBU, CNBack
  <2>4. InFlight(CNBack, Known, Called)
    BY <1>3 DEF InFlight, BACKs
  <2> HIDE DEF r
  <2> QED BY <1>3, <2>2, <2>3, <2>4
<1>4. CASE n = "mn" /\ Called /\ p = CNPeerBU2
  <2>1. p.src = "cn" /\ p.haddr = "cnhoa" /\ p.coa = "cn"
    BY <1>4, Fields DEF CNPeerBU2
  <2>2. TableOK("mn", r)
    BY <1>4, <2>1, HostTables, MnRegisters DEF CnHomes
  <2> HIDE DEF r
  <2> QED BY <1>4, <2>2
<1>5. CASE n = "cn" /\ Called /\ p = MNPeerBU2
  <2>1. p.src = "ha1" /\ p.haddr = "mnhoa" /\ p.coa = "mn"
    BY <1>5, Fields DEF MNPeerBU2
  <2>2. TableOK("cn", r)
    BY <1>5, <2>1, HostTables, CnRegisters DEF MnHomes, MnCares
  <2>3. send_bu_ack(p, n) = PeerBack("ha1")
    BY <1>5, Ack DEF MNPeerBU2, PeerBack, Two
  <2>4. InFlight(PeerBack("ha1"), Known, Called)
    BY <1>5 DEF InFlight, BACKs
  <2> HIDE DEF r
  <2> QED BY <1>5, <2>2, <2>3, <2>4
<1> QED BY <1>1, <1>2, <1>3, <1>4, <1>5, BUArrives DEF Hosts

LEMMA HostRecvBack ==
    ASSUME NemoInv, NEW p \in net, NEW n \in Hosts, host_recv_back(p, n)
    PROVE  NemoInv'
<1>1. n \in Nodes /\ Quietly(p, n, {})
  BY DEF Nodes, host_recv_back
<1> QED BY <1>1, LostKeeps

\* delete_tunnels takes off one tunnel,
LEMMA PopsOne ==
    ASSUME NEW a, NEW b, NEW ty, NEW z, NEW src, NEW dst, NEW h, NEW coa, NEW x,
           a \in Addresses, b \in Addresses
    PROVE  delete_tunnels(Pkt(ty, z, src, dst, One(a, b), h, coa, x))
             = Pkt(ty, z, b, a, <<>>, h, coa, x)
<1> DEFINE p == Pkt(ty, z, src, dst, One(a, b), h, coa, x)
           q == delete_tunnel(p)
<1>1. q = Pkt(ty, z, b, a, <<>>, h, coa, x)
  BY PopOne
<1>2. q.tun = <<>>
  BY <1>1, Fields
<1> HIDE DEF p, q
<1> QED BY <1>1, <1>2 DEF delete_tunnels, p, q

\* or two.
LEMMA PopsTwo ==
    ASSUME NEW a, NEW b, NEW c, NEW d, NEW ty, NEW z, NEW src, NEW dst, NEW h, NEW coa, NEW x,
           a \in Addresses, b \in Addresses, c \in Addresses, d \in Addresses
    PROVE  delete_tunnels(Pkt(ty, z, src, dst, Two(a, b, c, d), h, coa, x))
             = Pkt(ty, z, b, a, <<>>, h, coa, x)
<1> DEFINE p == Pkt(ty, z, src, dst, Two(a, b, c, d), h, coa, x)
           q == delete_tunnel(p)
<1>1. q = Pkt(ty, z, d, c, One(a, b), h, coa, x)
  BY PopTwo
<1>2. q.tun # <<>>
  BY <1>1, Fields, StackOne
<1>3. delete_tunnel(q) = Pkt(ty, z, b, a, <<>>, h, coa, x)
  BY <1>1, PopOne
<1>4. delete_tunnels(p) = IF q.tun = <<>> THEN q ELSE delete_tunnel(q)
  BY DEF delete_tunnels
<1> HIDE DEF p, q
<1> QED BY <1>2, <1>3, <1>4 DEF p

\* What MN_HA finds by home address.
LEMMA MnhaRow ==
    ASSUME NemoInv, NEW v
    PROVE  LET i == get_entry(tbl["mnha"], "haddr", v)
               e == tbl["mnha"][i]
           IN  i # 0 => \/ v = "cnhoa" /\ e.addr = "cn" /\ e.caddr = "cn"
                        \/ v = "mnhoa" /\ e.addr = "ha1" /\ e.caddr = "mn"
<1> DEFINE t == tbl["mnha"]
           i == get_entry(t, "haddr", v)
<1>1. t \in Seq(MnhaEntries)
  BY HostTables
<1> HIDE DEF t
<1>2. i # 0 => i \in DOMAIN t /\ t[i]["haddr"] = v
  BY <1>1, GetEntry
<1> HIDE DEF i
<1>3. i # 0 => t[i] \in MnhaEntries /\ t[i].haddr = v
  BY <1>1, <1>2
<1>4. i # 0 => \/ v = "cnhoa" /\ t[i].addr = "cn" /\ t[i].caddr = "cn"
               \/ v = "mnhoa" /\ t[i].addr = "ha1" /\ t[i].caddr = "mn"
  BY <1>3 DEF MnhaEntries
<1> QED BY <1>4 DEF t, i

LEMMA MnhaTunneling ==
    ASSUME NemoInv, NEW p \in net, mnha_tunneling(p)
    PROVE  NemoInv'
<1> DEFINE q == delete_tunnels(p)
           i == get_entry(tbl.mnha, "haddr", q.dst)
           e == tbl.mnha[i]
           r == To(add_tunnel(To(q, e.caddr)), e.addr)
           out == IF Len(p.tun) > 1 THEN From(r, p.src) ELSE r
<1>1. "mnha" \in Nodes /\ Arrives(p, "DATA", "mnha")
  BY HostTables DEF mnha_tunneling
<1>2. Called /\ (MNArrives(p, "mnha") \/ CNArrives(p, "mnha"))
  BY <1>1, DATAArrives
<1> SUFFICES ASSUME i # 0
             PROVE  InFlight(out, Known, Called)
  <2>1. \/ i = 0 /\ Aborted(p, "home")
        \/ i # 0 /\ Quietly(p, "mnha", {out})
    BY DEF mnha_tunneling
  <2> HIDE DEF out, i
  <2> QED BY <1>1, <2>1, AbortKeeps, QuietKeeps
<1>3. \/ q.dst = "cnhoa" /\ e.addr = "cn" /\ e.caddr = "cn"
      \/ q.dst = "mnhoa" /\ e.addr = "ha1" /\ e.caddr = "mn"
  BY MnhaRow
<1>4. CASE MNArrives(p, "mnha")
  <2>1. PICK f \in {"cnhoa", "cn"}, h \in MnHomes, c \in MnCares, s \in {"mn", "h1"} :
            p = MNData("net", "ha1", "mnha", Two(f, "mn", "mnha", s), h, c) /\ Known
    BY <1>4 DEF MNArrives
  <2>2. f \in Addresses /\ s \in Addresses
    BY DEF Addresses
  <2>3. q = Pkt("DATA", "net", "mn", f, <<>>, h, c, Zero)
    BY <2>1, <2>2, AddressIn, PopsTwo DEF MNData
  <2>4. q.dst = f
    BY <2>3, Fields
  <2>5. e.addr = "cn" /\ e.caddr = "cn"
    BY <1>3, <2>4
  <2>6. p.src = "ha1" /\ Len(p.tun) = 2
    <3>1. Len(Two(f, "mn", "mnha", s)) = 2
      BY <2>2, AddressIn, StackTwo
    <3> QED BY <2>1, <3>1, Fields DEF MNData
  <2>7. From(To(add_tunnel(To(q, "cn")), "cn"), "ha1")
          = MNData("net", "ha1", "cn", One("cn", "mn"), h, c)
    BY <2>3, PushZero, Redirect DEF MNData
  <2> HIDE DEF q, e
  <2>8. out = MNData("net", "ha1", "cn", One("cn", "mn"), h, c)
    BY <2>5, <2>6, <2>7
  <2>9. MNDATAs(out, Known)
    BY <2>1, <2>8 DEF MNDATAs
  <2> QED BY <1>2, <2>9 DEF InFlight
<1>5. CASE CNArrives(p, "mnha")
  <2>1. PICK a \in {"mnhoa", "mn"} : p = CNData("net", "cn", "mnha", a, "cnhoa")
    BY <1>5 DEF CNArrives
  <2>2. a \in Addresses
    BY DEF Addresses
  <2>3. q = Pkt("DATA", "net", "cn", a, <<>>, "cnhoa", "cn", Zero)
    BY <2>1, <2>2, AddressIn, PopsOne DEF CNData
  <2>4. q.dst = a
    BY <2>3, Fields
  <2>5. e.addr = "ha1" /\ e.caddr = "mn"
    BY <1>3, <2>4
  <2>6. Len(p.tun) = 1
    <3>1. Len(One(a, "cn")) = 1
      BY <2>2, AddressIn, StackOne
    <3> QED BY <2>1, <3>1, Fields DEF CNData
  <2>7. To(add_tunnel(To(q, "mn")), "ha1") = CNData("net", "cn", "ha1", "mn", "cnhoa")
    BY <2>3, PushZero, Redirect DEF CNData
  <2> HIDE DEF q, e
  <2>8. out = CNData("net", "cn", "ha1", "mn", "cnhoa")
    BY <2>5, <2>6, <2>7
  <2>9. CNDATAs(out)
    BY <2>8 DEF CNDATAs, CnHomes
  <2> QED BY <1>2, <2>9 DEF InFlight
<1> QED BY <1>2, <1>4, <1>5

\* MN and CN find their own home entry.
LEMMA HomeRows ==
    ASSUME NemoInv
    PROVE  /\ LET i == get_entry(tbl["mn"], "type", "MN_HA")
                  e == tbl["mn"][i]
              IN  /\ i \in DOMAIN tbl["mn"] /\ e \in MnEntries /\ e.type = "MN_HA"
                  /\ e.addr = "mnha" /\ e.haddr = "mnhoa" /\ e.caddr \in {Unset, "mn", "cn"}
           /\ tbl["cn"][get_entry(tbl["cn"], "type", "MN_HA")] = HomeEntry("cnhoa", 0)
<1> DEFINE s == tbl["mn"]
           t == tbl["cn"]
           i == get_entry(s, "type", "MN_HA")
           j == get_entry(t, "type", "MN_HA")
<1>1. /\ s \in Seq(MnEntries) /\ Has(s, "type", "MN_HA")
      /\ t \in Seq(CnEntries) /\ Has(t, "type", "MN_HA")
  BY HostTables DEF TableOK
<1> HIDE DEF s, t
<1>2. i \in DOMAIN s /\ s[i]["type"] = "MN_HA"
  BY <1>1, GetEntry DEF Has
<1>3. j \in DOMAIN t /\ t[j]["type"] = "MN_HA"
  BY <1>1, GetEntry DEF Has
<1> HIDE DEF i, j
<1>4. s[i] \in MnEntries /\ t[j] \in CnEntries /\ s[i].type = "MN_HA" /\ t[j].type = "MN_HA"
  BY <1>1, <1>2, <1>3
<1>5. s[i].addr = "mnha" /\ s[i].haddr = "mnhoa" /\ s[i].caddr \in {Unset, "mn", "cn"}
  BY <1>4 DEF MnEntries
<1>6. t[j] = HomeEntry("cnhoa", 0)
  BY <1>4 DEF CnEntries
<1> QED BY <1>2, <1>4, <1>5, <1>6 DEF s, t, i, j

\* A new packet has an empty stack.
LEMMA FreshPacket ==
    ASSUME NEW ty, NEW s, NEW d, NEW h, NEW c
    PROVE  NewPacket(ty, s, d, h, c) = Pkt(ty, "net", s, d, <<>>, h, c, Zero)
BY DEF NewPacket, Pkt

\* A delivery with no tunnel left.
LEMMA DeliveredKeeps ==
    ASSUME NemoInv, NEW q, Len(q.tun) = 0,
           NEW n, NEW peer, peer = (IF n = "mn" THEN "cn" ELSE "mn"),
           Deliver(n, q, peer)
    PROVE  DeliveredClean' /\ EntriesFound'
<1> DEFINE d == [at |-> n, peer |-> peer, left |-> Len(q.tun)]
<1>1. d.left = 0 /\ d.at = n /\ d.peer = peer
  OBVIOUS
<1>2. got' = got \cup {d} /\ abort' = abort
  BY DEF Deliver
<1> HIDE DEF d
<1> QED BY <1>1, <1>2 DEF NemoInv, DeliveredClean, EntriesFound

\* A delivery that changes no list.
LEMMA SameKeeps ==
    ASSUME NemoInv, NEW p, NEW n \in Nodes, Handled(p, n, tbl[n], {}),
           DeliveredClean', EntriesFound'
    PROVE  NemoInv'
<1>1. tbl' = tbl
  <2>1. tbl \in [Nodes -> Seq(Entries)]
    BY DEF NemoInv, TablesOK
  <2> QED BY <2>1 DEF Handled
<1>2. TablesOK' /\ LinksOK' /\ NotCalled' /\ Called' = Called /\ Known' = Known
  BY <1>1 DEF Handled, NemoInv, TablesOK, LinksOK, NotCalled, Called, Known
<1>3. \A q \in net' : InFlight(q, Known', Called')
  BY <1>2 DEF Handled, NemoInv
<1> QED BY <1>2, <1>3 DEF NemoInv

LEMMA MnTunneling ==
    ASSUME NemoInv, NEW p \in net, mn_tunneling(p)
    PROVE  NemoInv'
<1> DEFINE q == delete_tunnels(p)
           bu == NewPacket("BU", "mn", q.src, Home("mn").haddr, "mn")
           r == registration(tbl["mn"], From(q, p.src), "MN")
           b == Inside(To(add_tunnel(To(add_tunnel(bu), p.src)), "nemo1"))
<1>1. "mn" \in Nodes /\ Arrives(p, "DATA", "mn")
  BY HostTables DEF mn_tunneling
<1>2. Called /\ (MNArrives(p, "mn") \/ CNArrives(p, "mn"))
  BY <1>1, DATAArrives
<1>3. PICK h \in CnHomes : p = CNData("nemo", "cn", "mn", "mn", h)
  BY <1>2 DEF MNArrives, CNArrives
<1>4. q = Pkt("DATA", "nemo", "cn", "mn", <<>>, h, "cn", Zero) /\ p.src = "cn"
  BY <1>3, AddressIn, PopsOne, Fields DEF CNData
<1>5. q.src = "cn" /\ q.tun = <<>>
  BY <1>4, Fields
<1>6. TableOK("mn", r)
  <2>1. From(q, p.src) = Pkt("DATA", "nemo", "cn", "mn", <<>>, h, "cn", Zero)
    BY <1>4, Redirect
  <2>2. From(q, p.src).src = "cn" /\ From(q, p.src).haddr = h /\ From(q, p.src).coa = "cn"
    BY <2>1, Fields
  <2> HIDE DEF q
  <2> QED BY <2>2, HostTables, MnRegisters
<1>7. b = MNPeerBU("nemo", "nemo1")
  <2>1. Home("mn").haddr = "mnhoa"
    BY HomeRows DEF Home
  <2>2. bu = Pkt("BU", "net", "mn", "cn", <<>>, "mnhoa", "mn", Zero)
    BY <1>5, <2>1, FreshPacket
  <2> HIDE DEF bu
  <2>3. b = Inside(To(add_tunnel(To(add_tunnel(bu), "cn")), "nemo1"))
    BY <1>4
  <2>4. To(add_tunnel(bu), "cn") = Pkt("BU", "net", "mn", "cn", One("cn", "mn"), "mnhoa", "mn", Zero)
    BY <2>2, PushZero, Redirect
  <2> QED BY <2>3, <2>4, PushOne, Redirect, Rezone DEF MNPeerBU
<1>8. InFlight(b, Known, Called)
  BY <1>2, <1>7 DEF InFlight, BUs
<1>9. DeliveredClean' /\ EntriesFound'
  <2>1. Deliver("mn", q, "cn")
    BY <1>5 DEF mn_tunneling
  <2>2. Len(q.tun) = 0
    BY <1>5
  <2> HIDE DEF q
  <2> QED BY <2>1, <2>2, DeliveredKeeps
<1>10. Handled(p, "mn", tbl["mn"], {}) \/ Handled(p, "mn", r, {b})
  BY DEF mn_tunneling
<1> HIDE DEF r, b
<1>11. KnownAfter("mn", r) = Known
  BY DEF KnownAfter
<1>12. CASE Handled(p, "mn", tbl["mn"], {})
  BY <1>1, <1>9, <1>12, SameKeeps
<1>13. CASE Handled(p, "mn", r, {b})
  BY <1>1, <1>6, <1>8, <1>9, <1>11, <1>13, HandledKeeps
<1> QED BY <1>10, <1>12, <1>13

LEMMA CnTunneling ==
    ASSUME NemoInv, NEW p \in net, cn_tunneling(p)
    PROVE  NemoInv'
<1> DEFINE q == delete_tunnels(p)
           bu == NewPacket("BU", "cn", q.src, Home("cn").haddr, "cn")
           r == registration(tbl["cn"], From(q, p.src), "MN")
           b == To(add_tunnel(bu), p.src)
<1>1. "cn" \in Nodes /\ Arrives(p, "DATA", "cn")
  BY HostTables DEF cn_tunneling
<1>2. Called /\ (MNArrives(p, "cn") \/ CNArrives(p, "cn"))
  BY <1>1, DATAArrives
<1>3. PICK f \in {"cnhoa", "cn"}, h \in MnHomes, c \in MnCares, s \in {"mn", "h1"} :
          /\ Known
          /\ \/ p = MNData("net", "ha1", "cn", Two(f, "mn", "cn", s), h, c)
             \/ p = MNData("net", "ha1", "cn", One("cn", "mn"), h, c)
  BY <1>2 DEF MNArrives, CNArrives
<1>4. PICK d : q = Pkt("DATA", "net", "mn", d, <<>>, h, c, Zero)
  <2>1. f \in Addresses /\ s \in Addresses
    BY DEF Addresses
  <2>2. CASE p = MNData("net", "ha1", "cn", Two(f, "mn", "cn", s), h, c)
    <3>1. q = Pkt("DATA", "net", "mn", f, <<>>, h, c, Zero)
      BY <2>1, <2>2, AddressIn, PopsTwo DEF MNData
    <3> QED BY <3>1
  <2>3. CASE p = MNData("net", "ha1", "cn", One("cn", "mn"), h, c)
    <3>1. q = Pkt("DATA", "net", "mn", "cn", <<>>, h, c, Zero)
      BY <2>3, AddressIn, PopsOne DEF MNData
    <3> QED BY <3>1
  <2> QED BY <1>3, <2>2, <2>3
<1>5. q.src = "mn" /\ q.tun = <<>> /\ p.src = "ha1"
  BY <1>3, <1>4, Fields DEF MNData
<1>6. TableOK("cn", r)
  <2>1. From(q, p.src) = Pkt("DATA", "net", "ha1", d, <<>>, h, c, Zero)
    BY <1>4, <1>5, Redirect
  <2>2. From(q, p.src).src = "ha1" /\ From(q, p.src).haddr = h /\ From(q, p.src).coa = c
    BY <2>1, Fields
  <2> HIDE DEF q
  <2> QED BY <2>2, HostTables, CnRegisters
<1>7. b = CNPeerBU("ha1")
  <2>1. Home("cn").haddr = "cnhoa"
    BY HomeRows DEF Home, HomeEntry
  <2>2. bu = Pkt("BU", "net", "cn", "mn", <<>>, "cnhoa", "cn", Zero)
    BY <1>5, <2>1, FreshPacket
  <2> HIDE DEF bu
  <2> QED BY <1>5, <2>2, PushZero, Redirect DEF CNPeerBU
<1>8. InFlight(b, Known, Called)
  BY <1>2, <1>3, <1>7 DEF InFlight, BUs
<1>9. DeliveredClean' /\ EntriesFound'
  <2>1. Deliver("cn", q, "mn")
    BY <1>5 DEF cn_tunneling
  <2>2. Len(q.tun) = 0
    BY <1>5
  <2> HIDE DEF q
  <2> QED BY <2>1, <2>2, DeliveredKeeps
<1>10. Handled(p, "cn", tbl["cn"], {}) \/ Handled(p, "cn", r, {b})
  BY DEF cn_tunneling
<1> HIDE DEF r, b
<1>11. KnownAfter("cn", r) = Known
  BY DEF KnownAfter
<1>12. CASE Handled(p, "cn", tbl["cn"], {})
  BY <1>1, <1>9, <1>12, SameKeeps
<1>13. CASE Handled(p, "cn", r, {b})
  BY <1>1, <1>2, <1>6, <1>8, <1>9, <1>11, <1>13, HandledKeeps
<1> QED BY <1>10, <1>12, <1>13

LEMMA Lost ==
    ASSUME NemoInv, NEW p \in net, Drop(p) \/ Lose(p)
    PROVE  NemoInv'
<1>1. Quietly(p, "mr", {}) /\ "mr" \in Nodes
  BY DEF Drop, Lose, Nodes
<1> QED BY <1>1, LostKeeps

-----------------------------------------------------------------------------
(* Link events and applications.                                           *)

\* A step that sends packets and takes none.
LEMMA SentKeeps ==
    ASSUME NemoInv, NEW out, net' = net \cup out,
           TablesOK', LinksOK', NotCalled', Known => Known', Called => Called',
           \A x \in out : InFlight(x, Known', Called'),
           UNCHANGED <<got, abort>>
    PROVE  NemoInv'
<1>1. DeliveredClean' /\ EntriesFound'
  BY DEF NemoInv, DeliveredClean, EntriesFound
<1>2. \A x \in net : InFlight(x, Known', Called')
  BY InFlightMono DEF NemoInv
<1> QED BY <1>1, <1>2 DEF NemoInv

\* One list changes and keeps its keys.
LEMMA NewList ==
    ASSUME NemoInv, NEW n \in Nodes, n \notin {"cn", "mnha"}, NEW t, tbl' = [tbl EXCEPT ![n] = t],
           TableOK(n, t), Keeps(tbl[n], t), Called => Called'
    PROVE  TablesOK' /\ NotCalled' /\ (Known => Known')
<1>1. tbl \in [Nodes -> Seq(Entries)] /\ t \in Seq(Entries)
  BY DEF NemoInv, TablesOK, TableOK
<1>2. tbl' \in [Nodes -> Seq(Entries)] /\ tbl'[n] = t /\ \A m \in Nodes \ {n} : tbl'[m] = tbl[m]
  BY <1>1
<1>3. \A m \in Nodes : TableOK(m, tbl'[m])
  BY <1>2 DEF NemoInv, TablesOK
<1>4. "cn" \in Nodes /\ "mnha" \in Nodes /\ "mr" \in Nodes
  BY DEF Nodes, Hosts
<1>5. NotCalled'
  BY <1>2, <1>4 DEF NemoInv, NotCalled
<1>6. Known => Known'
  BY <1>2, <1>4 DEF Known, Keeps
<1> QED BY <1>2, <1>3, <1>5, <1>6 DEF TablesOK

\* A new care-of address for the MN, or the same one for an uplink.
LEMMA MrCare ==
    ASSUME NEW t, TableOK("mr", t), NEW i, NEW a \in {"c1", "c2"},
           i \notin DOMAIN t \/ t[i].type = "MN" \/ t[i].caddr = a
    PROVE  LET r == [t EXCEPT ![i].caddr = a] IN TableOK("mr", r) /\ Keeps(t, r)
<1> DEFINE r == [t EXCEPT ![i].caddr = a]
<1>1. /\ t \in Seq(MrEntries) /\ t \in Seq(Entries)
      /\ Has(t, "eface", 2) /\ Has(t, "prefix", "nemo1")
  BY DEF TableOK
<1>2. CASE i \notin DOMAIN t
  <2>1. t = [j \in DOMAIN t |-> t[j]]
    BY <1>1
  <2>2. r = t
    BY <1>2, <2>1
  <2> QED BY <2>2 DEF Keeps
<1>3. CASE i \in DOMAIN t
  <2>1. t[i] \in MrEntries
    BY <1>1, <1>3
  <2>2. [t[i] EXCEPT !.caddr = a] \in MrEntries
    <3>1. CASE t[i].caddr = a
      <4>1. [t[i] EXCEPT !.caddr = a] = t[i]
        BY <2>1, <3>1, NodeEntries DEF Entries
      <4> QED BY <2>1, <4>1
    <3>2. CASE t[i].type = "MN"
      BY <2>1, <3>2 DEF MrEntries, UplinkEntry
    <3> QED BY <1>3, <3>1, <3>2
  <2>3. r \in Seq(MrEntries) /\ Keeps(t, r)
    BY <1>1, <1>3, <2>2, NodeEntries, CareKeeps
  <2> HIDE DEF r
  <2>4. r \in Seq(Entries)
    BY <2>3, NodeEntries, SeqIn
  <2>5. Has(r, "eface", 2) /\ Has(r, "prefix", "nemo1")
    BY <1>1, <2>3 DEF Keeps
  <2> QED BY <2>3, <2>4, <2>5 DEF TableOK, r
<1> QED BY <1>2, <1>3

\* re_homing sends the REHOME of one of the two uplinks.
LEMMA ReHoming ==
    ASSUME NemoInv, NEW u \in Uplinks, re_homing(u), LinksOK', UNCHANGED <<got, abort, bound>>
    PROVE  NemoInv'
<1> DEFINE t == tbl["mr"]
           b == t[get_mr_ha_entry(t, "eface", u)]
           o == t[get_mr_ha_entry(t, "eface", 3 - u)]
           p == NewPacket("REHOME", o.addr, b.addr, b.haddr, o.haddr)
           m == get_entry(t, "type", "MN")
           r == [t EXCEPT ![m].caddr = o.caddr]
           out == Via(o.eface, From(add_tunnel(p), o.caddr))
<1>1. TableOK("mr", t) /\ "mr" \in Nodes /\ t \in Seq(MrEntries)
  BY MrTable
<1>2. tbl' = [tbl EXCEPT !["mr"] = r] /\ net' = net \cup out
  BY DEF re_homing
<1> HIDE DEF t
<1>3. UplinkEntry(1) \in MrEntries
  BY DEF MrEntries
<1>4. \/ u = 1 /\ b = UplinkEntry(1) /\ o = UplinkEntry(2)
      \/ u = 2 /\ b = UplinkEntry(2) /\ o = UplinkEntry(1)
  BY <1>1, UplinkRows DEF Uplinks
<1> HIDE DEF b, o
<1>5. \A x \in out : REHOMEs(x)
  <2>1. p = Pkt("REHOME", "net", o.addr, b.addr, <<>>, b.haddr, o.haddr, Zero)
    BY FreshPacket
  <2> HIDE DEF p
  <2>2. From(add_tunnel(p), o.caddr)
          = Pkt("REHOME", "net", o.caddr, b.addr, One(b.addr, o.addr), b.haddr, o.haddr, Zero)
    BY <2>1, PushZero, Redirect
  <2>3. \A x \in out : x = Rehome(b.addr, b.haddr, o.addr, o.haddr, o.caddr)
    BY <2>2, Rezone DEF Via, Rehome
  <2> HIDE DEF out
  <2> QED BY <1>3, <1>4, <2>3, MrRows DEF REHOMEs
<1>6. TableOK("mr", r) /\ Keeps(t, r)
  <2>1. m \notin DOMAIN t \/ t[m].type = "MN"
    BY <1>1, GetEntry
  <2>2. o.caddr \in {"c1", "c2"}
    BY <1>3, <1>4, MrRows
  <2> HIDE DEF m
  <2> QED BY <1>1, <2>1, <2>2, MrCare
<1> HIDE DEF r, out
<1>7. (Called => Called') /\ (Called' => Called)
  BY DEF Called
<1>8. TablesOK' /\ NotCalled' /\ (Known => Known')
  BY <1>1, <1>2, <1>6, <1>7, NewList DEF t
<1>9. \A x \in out : InFlight(x, Known', Called')
  BY <1>5 DEF InFlight
<1> QED BY <1>2, <1>7, <1>8, <1>9, SentKeeps

LEMMA LinkLost ==
    ASSUME NemoInv, NEW u \in Uplinks, LinkDown(u) \/ PrefixExpired(u)
    PROVE  NemoInv'
<1>1. re_homing(u) /\ UNCHANGED <<got, abort, bound>>
  BY DEF LinkDown, PrefixExpired
<1>2. \E a \in {"down", "expired"} : link' = [link EXCEPT ![u] = a]
  BY DEF LinkDown, PrefixExpired
<1>3. LinksOK'
  <2> DEFINE o == tbl.mr[get_mr_ha_entry(tbl.mr, "eface", 3 - u)]
  <2>1. o = UplinkEntry(1) \/ o = UplinkEntry(2)
    BY MrTable, UplinkRows DEF Uplinks
  <2>2. o.haddr \in Addresses
    <3>1. UplinkEntry(1) \in MrEntries
      BY DEF MrEntries
    <3> QED BY <2>1, <3>1, MrRows, AddressIn
  <2>3. told' = [told EXCEPT ![u] = o.haddr]
    BY <1>1 DEF re_homing
  <2> HIDE DEF o
  <2> QED BY <1>1, <1>2, <2>2, <2>3 DEF NemoInv, LinksOK
<1> QED BY <1>1, <1>3, ReHoming

\* send_bu_msg sends the BU of an uplink, or the stray one of the MN.
LEMMA SendBUMsg ==
    ASSUME NemoInv, NEW u \in Uplinks, send_bu_msg(u), LinksOK', UNCHANGED <<got, abort, bound>>
    PROVE  NemoInv'
<1> DEFINE t == tbl["mr"]
           i == get_entry(t, "eface", u)
           e == t[i]
           p == [NewPacket("BU", CoA[u], e.addr, e.haddr, CoA[u]) EXCEPT !.pfx = e.prefix]
           r == [t EXCEPT ![i].caddr = CoA[u]]
<1>1. TableOK("mr", t) /\ "mr" \in Nodes /\ t \in Seq(MrEntries)
  BY MrTable
<1>2. tbl' = [tbl EXCEPT !["mr"] = r] /\ net' = net \cup {add_tunnel(p)}
  BY DEF send_bu_msg
<1> HIDE DEF t
<1>3. UplinkEntry(1) \in MrEntries /\ CoA[1] = "c1" /\ CoA[2] = "c2"
  BY DEF MrEntries, CoA
<1>4. i \in DOMAIN t /\ t[i]["eface"] = u
  <2>1. get_mr_ha_entry(t, "eface", u) \in DOMAIN t /\ t[get_mr_ha_entry(t, "eface", u)]["eface"] = u
    <3>1. get_mr_ha_entry(t, "eface", u) # 0
      BY <1>1, UplinkRows DEF Uplinks
    <3> QED BY <1>1, <3>1, GetUplink
  <2> QED BY <1>1, <2>1, GetEntry
<1> HIDE DEF i
<1>5. e \in MrEntries /\ e.eface = u
  BY <1>1, <1>4
<1> HIDE DEF e
<1>6. add_tunnel(p) = Pkt("BU", "net", CoA[u], e.addr, One(e.addr, CoA[u]), e.haddr, CoA[u], e.prefix)
  <2>1. p = Pkt("BU", "net", CoA[u], e.addr, <<>>, e.haddr, CoA[u], e.prefix)
    BY DEF NewPacket, Pkt
  <2> QED BY <2>1, PushZero
<1> HIDE DEF p
<1>7. /\ BUs(add_tunnel(p), Known', Called')
      /\ e.type = "MN" \/ e.caddr = CoA[u]
      /\ CoA[u] \in {"c1", "c2"}
  <2>1. CASE e = UplinkEntry(1)
    <3>1. e.type = "MR_HA" /\ e.addr = "ha1" /\ e.haddr = "h1" /\ e.caddr = "c1" /\ e.prefix = "nemo1"
          /\ u = 1
      BY <1>3, <1>5, <2>1, MrRows
    <3>2. add_tunnel(p) = RouterBU("ha1", "h1", "c1", "nemo1")
      BY <1>3, <1>6, <3>1 DEF RouterBU
    <3> QED BY <1>3, <3>1, <3>2 DEF BUs
  <2>2. CASE e = UplinkEntry(2)
    <3>1. e.type = "MR_HA" /\ e.addr = "ha2" /\ e.haddr = "h2" /\ e.caddr = "c2" /\ e.prefix = "nemo2"
          /\ u = 2
      BY <1>3, <1>5, <2>2, MrRows
    <3>2. add_tunnel(p) = RouterBU("ha2", "h2", "c2", "nemo2")
      BY <1>3, <1>6, <3>1 DEF RouterBU
    <3> QED BY <1>3, <3>1, <3>2 DEF BUs
  <2>3. CASE e.type = "MN" /\ e.addr = "mn" /\ e.haddr = "mnhoa" /\ e.prefix = Unset /\ u = 1
    <3>1. add_tunnel(p) = StrayBU
      BY <1>3, <1>6, <2>3 DEF StrayBU
    <3> QED BY <1>3, <2>3, <3>1 DEF BUs
  <2> QED BY <1>5, <2>1, <2>2, <2>3, MrRows
<1>8. TableOK("mr", r) /\ Keeps(t, r)
  BY <1>1, <1>7, MrCare DEF e
<1> HIDE DEF r
<1>9. (Called => Called') /\ (Called' => Called)
  BY DEF Called
<1>10. TablesOK' /\ NotCalled' /\ (Known => Known')
  BY <1>1, <1>2, <1>8, <1>9, NewList DEF t
<1> DEFINE out == {add_tunnel(p)}
<1>11. net' = net \cup out /\ \A x \in out : InFlight(x, Known', Called')
  BY <1>2, <1>7 DEF InFlight
<1> HIDE DEF out
<1> QED BY <1>9, <1>10, <1>11, SentKeeps

LEMMA LinkBack ==
    ASSUME NemoInv, NEW u \in Uplinks, LinkUp(u)
    PROVE  NemoInv'
<1>1. link' = [link EXCEPT ![u] = "up"] /\ UNCHANGED <<got, abort, bound>>
  BY DEF LinkUp
<1>2. CASE UNCHANGED <<tbl, net, told>>
  <2>1. LinksOK'
    BY <1>1, <1>2 DEF NemoInv, LinksOK
  <2>2. TablesOK' /\ NotCalled' /\ DeliveredClean' /\ EntriesFound' /\ Known' = Known
        /\ Called' = Called
    BY <1>1, <1>2 DEF NemoInv, TablesOK, NotCalled, DeliveredClean, EntriesFound, Known, Called
  <2>3. \A x \in net' : InFlight(x, Known', Called')
    BY <1>2, <2>2 DEF NemoInv
  <2> QED BY <2>1, <2>2, <2>3 DEF NemoInv
<1>3. CASE send_bu_msg(u)
  <2>1. LinksOK'
    <3>1. CoA[u] \in Addresses
      BY DEF CoA, Uplinks, Addresses
    <3>2. told' = [told EXCEPT ![u] = CoA[u]] \/ told' = told
      BY <1>3 DEF send_bu_msg
    <3> QED BY <1>1, <3>1, <3>2 DEF NemoInv, LinksOK
  <2> QED BY <1>1, <1>3, <2>1, SendBUMsg
<1> QED BY <1>2, <1>3 DEF LinkUp

LEMMA MnAttaches ==
    ASSUME NemoInv, MNAttach
    PROVE  NemoInv'
<1> DEFINE t == tbl["mn"]
           i == get_entry(t, "type", "MN_HA")
           e == t[i]
           r == [t EXCEPT ![i].caddr = "mn"]
           out == {HostBU(e)}
<1>1. tbl' = [tbl EXCEPT !["mn"] = r] /\ net' = net \cup out /\ bound' = bound \cup {"mn"}
      /\ UNCHANGED <<link, told, got, abort>>
  BY DEF MNAttach
<1>2. i \in DOMAIN t /\ e \in MnEntries /\ e.type = "MN_HA" /\ e.addr = "mnha" /\ e.haddr = "mnhoa"
  BY HomeRows
<1>3. TableOK("mn", t) /\ t \in Seq(MnEntries) /\ "mn" \in Nodes
  BY HostTables
<1> HIDE DEF t, i
<1>4. HostBU(e) = MNHomeBU("nemo", "nemo1")
  <2> HIDE DEF e
  <2>1. NewPacket("BU", "mn", e.addr, e.haddr, "mn")
          = Pkt("BU", "net", "mn", "mnha", <<>>, "mnhoa", "mn", Zero)
    BY <1>2, FreshPacket
  <2> QED BY <2>1, PushZero, Redirect, Rezone DEF HostBU, MNHomeBU
<1>5. TableOK("mn", r) /\ Keeps(t, r)
  <2>1. [e EXCEPT !.caddr = "mn"] \in MnEntries
    <3> HIDE DEF e
    <3> QED BY <1>2 DEF MnEntries
  <2>2. r \in Seq(MnEntries) /\ Keeps(t, r)
    BY <1>2, <1>3, <2>1, NodeEntries, CareKeeps
  <2> HIDE DEF r
  <2>3. r \in Seq(Entries)
    BY <2>2, NodeEntries, SeqIn
  <2>4. Has(r, "type", "MN_HA")
    BY <1>3, <2>2 DEF Keeps, TableOK
  <2> QED BY <2>2, <2>3, <2>4 DEF TableOK
<1> HIDE DEF e, r, out
<1>6. LinksOK' /\ (Called => Called')
  BY <1>1 DEF NemoInv, LinksOK, Called
<1>7. TablesOK' /\ NotCalled' /\ (Known => Known')
  BY <1>1, <1>3, <1>5, <1>6, NewList DEF t
<1>8. \A x \in out : InFlight(x, Known', Called')
  BY <1>4 DEF out, InFlight, BUs
<1> QED BY <1>1, <1>6, <1>7, <1>8, SentKeeps

LEMMA CnBinds ==
    ASSUME NemoInv, CNBinding
    PROVE  NemoInv'
<1> DEFINE e == tbl["cn"][1]
           out == {add_tunnel(NewPacket("BU", "cn", e.addr, e.haddr, "cn"))}
<1>1. net' = net \cup out /\ bound' = bound \cup {"cn"} /\ UNCHANGED <<tbl, link, told, got, abort>>
  BY DEF CNBinding
<1>2. e = HomeEntry("cnhoa", 0)
  BY DEF CNBinding, NemoInv, NotCalled, Called
<1>3. e.addr = "mnha" /\ e.haddr = "cnhoa"
  BY <1>2 DEF HomeEntry
<1> HIDE DEF e
<1>4. add_tunnel(NewPacket("BU", "cn", e.addr, e.haddr, "cn")) = CNHomeBU
  BY <1>3, FreshPacket, PushZero DEF CNHomeBU
<1> HIDE DEF out
<1>5. LinksOK' /\ Called' /\ TablesOK' /\ NotCalled' /\ (Known => Known')
  BY <1>1 DEF NemoInv, LinksOK, Called, TablesOK, NotCalled, Known
<1>6. \A x \in out : InFlight(x, Known', Called')
  BY <1>4, <1>5 DEF out, InFlight, BUs
<1> QED BY <1>1, <1>5, <1>6, SentKeeps

\* The applications send only when MN_HA knows the CN.
LEMMA SendsKeeps ==
    ASSUME NemoInv, NEW out, Sends(out), Called => \A x \in out : InFlight(x, Known, Called)
    PROVE  NemoInv'
<1>1. net' = net \cup out /\ UNCHANGED <<tbl, link, told, got, abort, bound>>
  BY DEF Sends
<1>2. Called
  <2>1. get_entry(tbl["mnha"], "haddr", "cnhoa") # 0
    BY DEF Sends
  <2>2. Has(tbl["mnha"], "haddr", "cnhoa")
    BY <2>1, HostTables, GetEntry DEF Has
  <2> QED BY <2>2 DEF NemoInv, NotCalled
<1>3. LinksOK' /\ TablesOK' /\ NotCalled' /\ Known' = Known /\ Called' = Called
  BY <1>1 DEF NemoInv, LinksOK, Called, TablesOK, NotCalled, Known
<1>4. \A x \in out : InFlight(x, Known', Called')
  BY <1>2, <1>3
<1> QED BY <1>1, <1>3, <1>4, SentKeeps

LEMMA MnSends ==
    ASSUME NemoInv, NEW d \in {"cnhoa", "cn"}, MNSend(d)
    PROVE  NemoInv'
<1> DEFINE t == tbl["mn"]
           p == add_tunnel(NewPacket("DATA", "mn", d, Zero, Zero))
           i == get_entry(t, "caddr", d)
           h == Home("mn")
           q == IF i = 0 THEN To([p EXCEPT !.haddr = h.haddr, !.coa = h.caddr], h.addr)
                ELSE To(p, t[i].addr)
           x == Inside(To(add_tunnel(q), "nemo1"))
           out == {x}
<1>1. Sends(out)
  BY DEF MNSend
<1>2. p = Pkt("DATA", "net", "mn", d, One(d, "mn"), Zero, Zero, Zero)
  BY FreshPacket, PushZero
<1>3. h.haddr = "mnhoa" /\ h.addr = "mnha" /\ h.caddr \in {Unset, "mn", "cn"}
  BY HomeRows DEF Home
<1>4. i # 0 => t[i].addr \in {"mnha", "cn"}
  <2>1. t \in Seq(MnEntries)
    BY HostTables
  <2> HIDE DEF t
  <2>2. i # 0 => i \in DOMAIN t
    BY <2>1, GetEntry
  <2> HIDE DEF i
  <2>3. i # 0 => t[i] \in MnEntries
    BY <2>1, <2>2
  <2> QED BY <2>3 DEF MnEntries
<1>5. \E g \in {"mnha", "cn"}, a \in MnHomes, c \in MnCares :
          q = Pkt("DATA", "net", "mn", g, One(d, "mn"), a, c, Zero)
  <2>1. CASE i = 0
    <3> DEFINE y == [p EXCEPT !.haddr = h.haddr, !.coa = h.caddr]
    <3> HIDE DEF h, p
    <3>1. y = [p EXCEPT !.haddr = "mnhoa", !.coa = h.caddr]
      BY <1>3
    <3> HIDE DEF y
    <3>2. y = Pkt("DATA", "net", "mn", d, One(d, "mn"), "mnhoa", h.caddr, Zero)
      BY <1>2, <3>1 DEF Pkt
    <3>3. To(y, "mnha") = Pkt("DATA", "net", "mn", "mnha", One(d, "mn"), "mnhoa", h.caddr, Zero)
      BY <3>2, Redirect
    <3> HIDE DEF i
    <3>4. q = To(y, "mnha")
      BY <1>3, <2>1 DEF y
    <3>5. h.caddr \in MnCares /\ "mnhoa" \in MnHomes
      BY <1>3 DEF MnCares, MnHomes
    <3> HIDE DEF q
    <3> QED BY <3>3, <3>4, <3>5
  <2>2. CASE i # 0
    <3> HIDE DEF i, p
    <3>1. q = To(p, t[i].addr)
      BY <2>2
    <3>2. q = Pkt("DATA", "net", "mn", t[i].addr, One(d, "mn"), Zero, Zero, Zero)
      BY <1>2, <3>1, Redirect
    <3> HIDE DEF q
    <3> QED BY <1>4, <2>2, <3>2 DEF MnHomes, MnCares
  <2> QED BY <2>1, <2>2
<1> HIDE DEF q
<1>6. PICK g \in {"mnha", "cn"}, a \in MnHomes, c \in MnCares :
          q = Pkt("DATA", "net", "mn", g, One(d, "mn"), a, c, Zero)
  BY <1>5
<1>7. x = MNData("nemo", "mn", "nemo1", Two(d, "mn", g, "mn"), a, c)
  BY <1>6, PushOne, Redirect, Rezone DEF MNData
<1> HIDE DEF x
<1>8. MNDATAs(x, Known)
  BY <1>7 DEF MNDATAs
<1>9. Called => \A y \in out : InFlight(y, Known, Called)
  BY <1>8 DEF InFlight
<1> HIDE DEF out
<1> QED BY <1>1, <1>9, SendsKeeps

LEMMA CnSends ==
    ASSUME NemoInv, NEW d \in {"mnhoa", "mn"}, CNSend(d)
    PROVE  NemoInv'
<1> DEFINE t == tbl["cn"]
           p == add_tunnel(NewPacket("DATA", "cn", d, Zero, Zero))
           i == get_entry(t, "caddr", d)
           e == IF i = 0 THEN Home("cn") ELSE t[i]
           y == [p EXCEPT !.haddr = e.haddr, !.coa = "cn"]
           x == To(y, e.addr)
           out == {x}
<1>1. Sends(out)
  BY DEF CNSend
<1>2. p = Pkt("DATA", "net", "cn", d, One(d, "cn"), Zero, Zero, Zero)
  BY FreshPacket, PushZero
<1>3. \/ e.addr = "mnha" /\ e.haddr = "cnhoa"
      \/ e.addr = "ha1" /\ e.haddr \in MnHomes /\ d = "mn"
  <2>1. t \in Seq(CnEntries)
    BY HostTables
  <2>2. Home("cn") = HomeEntry("cnhoa", 0)
    BY HomeRows DEF Home
  <2> HIDE DEF t
  <2>3. i # 0 => i \in DOMAIN t /\ t[i]["caddr"] = d
    BY <2>1, GetEntry
  <2> HIDE DEF i
  <2>4. i # 0 => t[i] \in CnEntries /\ t[i].caddr = d
    BY <2>1, <2>3
  <2>5. e = HomeEntry("cnhoa", 0) \/ (e \in CnEntries /\ e.caddr = d)
    BY <2>2, <2>4
  <2> HIDE DEF e
  <2> QED BY <2>5 DEF CnEntries, HomeEntry, MnCares, Unset, Zero
<1> HIDE DEF e, p
<1>4. x = CNData("net", "cn", e.addr, d, e.haddr)
  <2>1. y = [p EXCEPT !.haddr = e.haddr, !.coa = "cn"]
    OBVIOUS
  <2> HIDE DEF y
  <2>2. y = Pkt("DATA", "net", "cn", d, One(d, "cn"), e.haddr, "cn", Zero)
    BY <1>2, <2>1 DEF Pkt
  <2> QED BY <2>2, Redirect DEF CNData
<1> HIDE DEF x
<1>5. CNDATAs(x)
  BY <1>3, <1>4 DEF CNDATAs, MnHomes, CnHomes
<1>6. Called => \A z \in out : InFlight(z, Known, Called)
  BY <1>5 DEF InFlight
<1> HIDE DEF out
<1> QED BY <1>1, <1>6, SendsKeeps

-----------------------------------------------------------------------------
(* The invariant of the specification.                                     *)

\* Initially.
LEMMA NemoInit == Init => NemoInv
<1> SUFFICES ASSUME Init PROVE NemoInv
  OBVIOUS
<1>1. /\ UplinkEntry(1) \in MrEntries /\ UplinkEntry(2) \in MrEntries
      /\ Registered(1) \in Ha1Entries /\ Registered(2) \in Ha2Entries
      /\ HomeEntry("mnhoa", 1) \in MnEntries /\ HomeEntry("cnhoa", 0) \in CnEntries
  <2>1. UplinkEntry(1) \in MrEntries /\ UplinkEntry(2) \in MrEntries
    BY DEF MrEntries
  <2>2. Registered(1) \in Ha1Entries /\ Registered(2) \in Ha2Entries
    BY DEF Registered, Ha1Entries, Ha2Entries, HaEntries, HoA, CoA, Nemo
  <2>3. HomeEntry("mnhoa", 1) \in MnEntries /\ HomeEntry("cnhoa", 0) \in CnEntries
    BY DEF HomeEntry, MnEntries, CnEntries
  <2> QED BY <2>1, <2>2, <2>3
<1>2. /\ tbl["mr"] = <<UplinkEntry(2), UplinkEntry(1)>> /\ tbl["ha1"] = <<Registered(1)>>
      /\ tbl["ha2"] = <<Registered(2)>> /\ tbl["mnha"] = <<>>
      /\ tbl["mn"] = <<HomeEntry("mnhoa", 1)>> /\ tbl["cn"] = <<HomeEntry("cnhoa", 0)>>
      /\ DOMAIN tbl = Nodes /\ tbl = [n \in Nodes |-> tbl[n]]
  <2>1. "mr" \in Nodes /\ "ha1" \in Nodes /\ "ha2" \in Nodes
    BY DEF Nodes
  <2>2. "mnha" \in Nodes /\ "mn" \in Nodes /\ "cn" \in Nodes
    BY DEF Nodes, Hosts
  <2>3. tbl["mr"] = <<UplinkEntry(2), UplinkEntry(1)>>
    BY <2>1 DEF Init
  <2>4. tbl["ha1"] = <<Registered(1)>> /\ tbl["ha2"] = <<Registered(2)>>
    BY <2>1 DEF Init
  <2>5. tbl["mnha"] = <<>> /\ tbl["mn"] = <<HomeEntry("mnhoa", 1)>>
    BY <2>2 DEF Init
  <2>6. tbl["cn"] = <<HomeEntry("cnhoa", 0)>>
    BY <2>2 DEF Init
  <2>7. DOMAIN tbl = Nodes /\ tbl = [n \in Nodes |-> tbl[n]]
    <3> DEFINE F(n) == CASE n = "mr" -> <<UplinkEntry(2), UplinkEntry(1)>>
                         [] n = "ha1" -> <<Registered(1)>>
                         [] n = "ha2" -> <<Registered(2)>>
                         [] n = "mnha" -> <<>>
                         [] n = "mn" -> <<HomeEntry("mnhoa", 1)>>
                         [] n = "cn" -> <<HomeEntry("cnhoa", 0)>>
    <3>1. tbl = [n \in Nodes |-> F(n)]
      BY DEF Init
    <3> HIDE DEF F
    <3> QED BY <3>1
  <2> QED BY <2>3, <2>4, <2>5, <2>6, <2>7
<1>3. TableOK("mr", tbl["mr"])
  <2> DEFINE t == tbl["mr"]
  <2>1. t \in Seq(MrEntries)
    BY <1>1, <1>2
  <2>2. 1 \in DOMAIN t /\ 2 \in DOMAIN t /\ t[1] = UplinkEntry(2) /\ t[2] = UplinkEntry(1)
    BY <1>2
  <2> HIDE DEF t
  <2>3. Has(t, "eface", 2) /\ Has(t, "prefix", "nemo1")
    <3>1. t[1]["eface"] = 2 /\ t[2]["prefix"] = "nemo1"
      BY <1>1, <2>2, MrRows
    <3> QED BY <2>2, <3>1 DEF Has
  <2>4. t \in Seq(Entries)
    BY <2>1, NodeEntries, SeqIn
  <2> QED BY <2>1, <2>3, <2>4 DEF TableOK, t
<1>4. TableOK("ha1", tbl["ha1"])
  <2> DEFINE t == tbl["ha1"]
  <2>1. t \in Seq(Ha1Entries) /\ 1 \in DOMAIN t /\ t[1] = Registered(1)
    BY <1>1, <1>2
  <2> HIDE DEF t
  <2>2. Has(t, "haddr", "h1")
    BY <2>1 DEF Has, Registered, HoA
  <2>3. t \in Seq(Entries)
    BY <2>1, NodeEntries, SeqIn
  <2> QED BY <2>1, <2>2, <2>3 DEF TableOK, t
<1>5. TableOK("ha2", tbl["ha2"])
  <2> DEFINE t == tbl["ha2"]
  <2>1. t \in Seq(Ha2Entries) /\ 1 \in DOMAIN t /\ t[1] = Registered(2)
    BY <1>1, <1>2
  <2> HIDE DEF t
  <2>2. Has(t, "haddr", "h2")
    BY <2>1 DEF Has, Registered, HoA
  <2>3. t \in Seq(Entries)
    BY <2>1, NodeEntries, SeqIn
  <2> QED BY <2>1, <2>2, <2>3 DEF TableOK, t
<1>6. TableOK("mnha", tbl["mnha"]) /\ ~Has(tbl["mnha"], "haddr", "cnhoa")
  BY <1>2 DEF TableOK, Has
<1>7. TableOK("mn", tbl["mn"])
  <2> DEFINE t == tbl["mn"]
  <2>1. t \in Seq(MnEntries) /\ 1 \in DOMAIN t /\ t[1] = HomeEntry("mnhoa", 1)
    BY <1>1, <1>2
  <2> HIDE DEF t
  <2>2. Has(t, "type", "MN_HA")
    BY <2>1 DEF Has, HomeEntry
  <2>3. t \in Seq(Entries)
    BY <2>1, NodeEntries, SeqIn
  <2> QED BY <2>1, <2>2, <2>3 DEF TableOK, t
<1>8. TableOK("cn", tbl["cn"])
  <2> DEFINE t == tbl["cn"]
  <2>1. t \in Seq(CnEntries) /\ 1 \in DOMAIN t /\ t[1] = HomeEntry("cnhoa", 0)
    BY <1>1, <1>2
  <2> HIDE DEF t
  <2>2. Has(t, "type", "MN_HA")
    BY <2>1 DEF Has, HomeEntry
  <2>3. t \in Seq(Entries)
    BY <2>1, NodeEntries, SeqIn
  <2> QED BY <2>1, <2>2, <2>3 DEF TableOK, t
<1>9. TablesOK
  <2>1. \A n \in Nodes : TableOK(n, tbl[n])
    BY <1>3, <1>4, <1>5, <1>6, <1>7, <1>8 DEF Nodes, Hosts
  <2>2. tbl \in [Nodes -> Seq(Entries)]
    BY <1>2, <2>1 DEF TableOK
  <2> QED BY <2>1, <2>2 DEF TablesOK
<1>10. LinksOK
  <2>1. link = [u \in Uplinks |-> "up"] /\ told = CoA /\ bound = {}
    BY DEF Init
  <2>2. told \in [Uplinks -> Addresses]
    BY <2>1 DEF CoA, Uplinks, Addresses
  <2> QED BY <2>1, <2>2 DEF LinksOK
<1>11. NotCalled
  BY <1>2, <1>6 DEF NotCalled
<1>12. net = {} /\ DeliveredClean /\ EntriesFound
  BY DEF Init, DeliveredClean, EntriesFound
<1> QED BY <1>9, <1>10, <1>11, <1>12 DEF NemoInv

\* Every step of every agent.
LEMMA NemoStep == NemoInv /\ [Next]_vars => NemoInv'
<1> SUFFICES ASSUME NemoInv, [Next]_vars
             PROVE  NemoInv'
  OBVIOUS
<1>1. CASE Transport
  <2>1. ASSUME NEW p \in net, mr_recv_bu(p) \/ mr_recv_back(p) \/ mr_tunneling(p)
        PROVE  NemoInv'
    BY <2>1, MrRecvBU, MrRecvBack, MrTunneling
  <2>2. ASSUME NEW p \in net, NEW n \in {"ha1", "ha2"},
               ha_recv_bu(p, n) \/ ha_recv_back(p, n) \/ ha_recv_rehome(p, n) \/ ha_tunneling(p, n)
        PROVE  NemoInv'
    BY <2>2, HaRecvBU, HaRecvBack, HaRecvRehome, HaTunneling
  <2>3. ASSUME NEW p \in net, NEW n \in Hosts, host_recv_bu(p, n) \/ host_recv_back(p, n)
        PROVE  NemoInv'
    BY <2>3, HostRecvBU, HostRecvBack
  <2>4. ASSUME NEW p \in net, mnha_tunneling(p) \/ mn_tunneling(p) \/ cn_tunneling(p) \/ Drop(p)
        PROVE  NemoInv'
    BY <2>4, MnhaTunneling, MnTunneling, CnTunneling, Lost
  <2> QED BY <1>1, <2>1, <2>2, <2>3, <2>4 DEF Transport
<1>2. CASE \E p \in net : Lose(p)
  BY <1>2, Lost
<1>3. CASE \E u \in Uplinks : LinkDown(u) \/ PrefixExpired(u)
  BY <1>3, LinkLost
<1>4. CASE \E u \in Uplinks : LinkUp(u)
  BY <1>4, LinkBack
<1>5. CASE MNAttach
  BY <1>5, MnAttaches
<1>6. CASE CNBinding
  BY <1>6, CnBinds
<1>7. CASE \E d \in {"cnhoa", "cn"} : MNSend(d)
  BY <1>7, MnSends
<1>8. CASE \E d \in {"mnhoa", "mn"} : CNSend(d)
  BY <1>8, CnSends
<1>9. CASE UNCHANGED vars
  <2>1. UNCHANGED <<tbl, net, link, told, got, abort, bound>>
    BY <1>9 DEF vars
  <2> QED BY <2>1 DEF NemoInv, TablesOK, LinksOK, NotCalled, DeliveredClean, EntriesFound, Known,
          Called
<1> QED BY <1>1, <1>2, <1>3, <1>4, <1>5, <1>6, <1>7, <1>8, <1>9 DEF Next

\* The invariant holds in every reachable state: tunneling, recv_nemo,
\* registration and the link events lead from one known leg to the next.
THEOREM NemoHolds == Spec => []NemoInv
BY NemoInit, NemoStep, PTL DEF Spec

-----------------------------------------------------------------------------
(* What follows from it.                                                   *)

\* A packet of addresses and a stack.
LEMMA PktType ==
    ASSUME NEW ty, NEW z, NEW s, NEW d, NEW st, NEW h, NEW c, NEW x,
           ty \in {"BU", "BACK", "REHOME", "DATA"}, z \in {"net", "nemo"}, s \in Addresses,
           d \in Addresses, st \in Stacks, h \in Addresses, c \in Addresses, x \in Addresses
    PROVE  Pkt(ty, z, s, d, st, h, c, x) \in Packets
BY DEF Pkt, Packets, Stacks, Pairs

\* A packet that may be without a tunnel when it is handled.
Bare(p) == p.type = "BACK" \/ (p.type = "BU" /\ Receiver(p) \in Hosts)

LEMMA BUShape ==
    ASSUME NEW p, NEW known, NEW called, BUs(p, known, called)
    PROVE  p \in Packets /\ (p.tun # <<>> \/ Bare(p))
<1> USE AddressIn
<1>1. ASSUME NEW a \in Addresses, NEW b \in Addresses, NEW z \in {"net", "nemo"},
             NEW s \in Addresses, NEW d \in Addresses, NEW h \in Addresses, NEW c \in Addresses,
             NEW x \in Addresses, p = Pkt("BU", z, s, d, One(a, b), h, c, x)
      PROVE  p \in Packets /\ p.tun # <<>>
  BY <1>1, PktType, StackOne, Fields
<1>2. ASSUME NEW z \in {"net", "nemo"}, NEW d \in Addresses, p = MNPeerBU(z, d)
      PROVE  p \in Packets /\ p.tun # <<>>
  <2>1. Two("cn", "mn", "cn", "mn") \in Stacks /\ Two("cn", "mn", "cn", "mn") # <<>>
    BY StackTwo
  <2> QED BY <1>2, <2>1, PktType, Fields DEF MNPeerBU
<1>3. CASE p = MNHomeBU2
  <2>1. p.type = "BU" /\ Receiver(p) = "mnha"
    BY <1>3, Fields, Route DEF MNHomeBU2
  <2>2. p \in Packets
    BY <1>3, PktType, StackZero DEF MNHomeBU2
  <2> QED BY <2>1, <2>2 DEF Bare, Hosts
<1>4. CASE p = CNPeerBU2
  <2>1. p.type = "BU" /\ Receiver(p) = "mn"
    BY <1>4, Fields, Route DEF CNPeerBU2
  <2>2. p \in Packets
    BY <1>4, PktType, StackZero DEF CNPeerBU2
  <2> QED BY <2>1, <2>2 DEF Bare, Hosts
<1>5. CASE p = MNHomeBU("nemo", "nemo1") \/ p = MNHomeBU("net", "ha1")
  BY <1>1, <1>5 DEF MNHomeBU
<1>6. CASE p = MNPeerBU2
  BY <1>1, <1>6 DEF MNPeerBU2
<1>7. CASE p = CNHomeBU
  BY <1>1, <1>7 DEF CNHomeBU
<1>8. CASE \E d \in {"ha1", "c1", "h2"} : p = CNPeerBU(d)
  BY <1>1, <1>8 DEF CNPeerBU
<1>9. CASE p = RouterBU("ha1", "h1", "c1", "nemo1") \/ p = RouterBU("ha2", "h2", "c2", "nemo2")
  BY <1>1, <1>9 DEF RouterBU
<1>10. CASE p = StrayBU
  BY <1>1, <1>10 DEF StrayBU
<1> QED BY <1>2, <1>3, <1>4, <1>5, <1>6, <1>7, <1>8, <1>9, <1>10 DEF BUs

LEMMA BACKShape ==
    ASSUME NEW p, NEW called, BACKs(p, called)
    PROVE  p \in Packets
<1> USE AddressIn
<1>2. CASE \E d \in {"ha1", "c1", "h2"} : p = HomeBack(d)
  BY <1>2, StackOne, PktType DEF HomeBack
<1>3. CASE p = HomeBack2
  BY <1>3, StackZero, PktType DEF HomeBack2
<1>4. CASE \E d \in {"ha1", "c1", "h2"} : p = PeerBack(d)
  <2>1. Two("cn", "ha1", "mn", "cn") \in Stacks
    BY StackTwo
  <2> QED BY <1>4, <2>1, PktType DEF PeerBack
<1>5. CASE p = PeerBack2
  BY <1>5, StackOne, PktType DEF PeerBack2
<1>6. CASE p = CNBack
  BY <1>6, StackOne, PktType DEF CNBack
<1>7. CASE p = RouterBack("ha1", "h1", "c1", "nemo1") \/ p = RouterBack("ha2", "h2", "c2", "nemo2")
  BY <1>7, StackZero, PktType DEF RouterBack
<1> QED BY <1>2, <1>3, <1>4, <1>5, <1>6, <1>7 DEF BACKs

LEMMA REHOMEShape ==
    ASSUME NEW p, REHOMEs(p)
    PROVE  p \in Packets /\ p.tun # <<>>
<1> USE AddressIn
<1>1. ASSUME NEW a \in Addresses, NEW b \in Addresses, NEW h \in Addresses, NEW c \in Addresses,
             NEW d \in Addresses, p = Rehome(a, h, b, c, d)
      PROVE  p \in Packets /\ p.tun # <<>>
  <2>1. One(a, b) \in Stacks /\ One(a, b) # <<>>
    BY StackOne
  <2> QED BY <1>1, <2>1, PktType, Fields DEF Rehome
<1>2. CASE p = Rehome("ha1", "h1", "ha2", "h2", "c2")
  BY <1>1, <1>2
<1>3. CASE p = Rehome("ha2", "h2", "ha1", "h1", "c1")
  BY <1>1, <1>3
<1> QED BY <1>2, <1>3 DEF REHOMEs

LEMMA DATAShape ==
    ASSUME NEW p, NEW known, MNDATAs(p, known) \/ CNDATAs(p)
    PROVE  p \in Packets /\ p.tun # <<>>
<1> USE AddressIn
<1>1. CnHomes \subseteq Addresses /\ MnHomes \subseteq Addresses /\ MnCares \subseteq Addresses
  BY DEF CnHomes, MnHomes, MnCares
<1>2. ASSUME NEW st \in Stacks, st # <<>>, NEW z \in {"net", "nemo"}, NEW s \in Addresses,
             NEW d \in Addresses, NEW h \in Addresses, NEW c \in Addresses,
             p = Pkt("DATA", z, s, d, st, h, c, Zero)
      PROVE  p \in Packets /\ p.tun # <<>>
  BY <1>2, PktType, Fields
<1>3. CASE MNDATAs(p, known)
  <2>1. PICK f \in {"cnhoa", "cn"}, g \in {"mnha", "cn"}, h \in MnHomes, c \in MnCares :
          \/ p = MNData("nemo", "mn", "nemo1", Two(f, "mn", g, "mn"), h, c)
          \/ p = MNData("net", "h1", "ha1", Two(f, "mn", g, "h1"), h, c)
          \/ p = MNData("net", "h2", "ha2", Three(f, "mn", g, "mn", "ha1", "h2"), h, c)
          \/ p = MNData("net", "ha2", "ha1", Three(f, "mn", g, "mn", "ha1", "h2"), h, c)
          \/ p = MNData("net", "ha1", "ha1", Two(f, "mn", g, "mn"), h, c)
          \/ p = MNData("net", "ha1", g, Two(f, "mn", g, "mn"), h, c)
          \/ p = MNData("net", "ha1", g, Two(f, "mn", g, "h1"), h, c)
          \/ p = MNData("net", "ha1", "cn", One("cn", "mn"), h, c)
    BY <1>3 DEF MNDATAs
  <2>2. f \in Addresses /\ g \in Addresses /\ h \in Addresses /\ c \in Addresses
    BY <1>1
  <2>3. PICK z \in {"net", "nemo"}, s \in Addresses, d \in Addresses,
             st \in {Two(f, "mn", g, "mn"), Two(f, "mn", g, "h1"),
                    Three(f, "mn", g, "mn", "ha1", "h2"), One("cn", "mn")} :
            p = Pkt("DATA", z, s, d, st, h, c, Zero)
    BY <2>1, <2>2 DEF MNData
  <2>4. st \in Stacks /\ st # <<>>
    <3>1. Two(f, "mn", g, "mn") \in Stacks /\ Two(f, "mn", g, "mn") # <<>>
      BY <2>2, StackTwo
    <3>2. Two(f, "mn", g, "h1") \in Stacks /\ Two(f, "mn", g, "h1") # <<>>
      BY <2>2, StackTwo
    <3>3. /\ Three(f, "mn", g, "mn", "ha1", "h2") \in Stacks
          /\ Three(f, "mn", g, "mn", "ha1", "h2") # <<>>
      BY <3>1, PushPop DEF Three
    <3>4. One("cn", "mn") \in Stacks /\ One("cn", "mn") # <<>>
      BY StackOne
    <3> QED BY <2>3, <3>1, <3>2, <3>3, <3>4
  <2> QED BY <1>2, <2>2, <2>3, <2>4
<1>4. CASE CNDATAs(p)
  <2>1. PICK z \in {"net", "nemo"}, s \in Addresses, d \in Addresses, a \in Addresses,
             h \in Addresses : p = Pkt("DATA", z, s, d, One(a, "cn"), h, "cn", Zero)
    BY <1>1, <1>4 DEF CNDATAs, CNData
  <2>2. One(a, "cn") \in Stacks /\ One(a, "cn") # <<>>
    BY StackOne
  <2> QED BY <1>2, <2>1, <2>2
<1> QED BY <1>3, <1>4

LEMMA Shapes ==
    ASSUME NEW p, NEW known, NEW called, InFlight(p, known, called)
    PROVE  p \in Packets /\ (p.tun # <<>> \/ Bare(p))
<1>1. CASE BUs(p, known, called)
  BY <1>1, BUShape
<1>2. CASE BACKs(p, called)
  BY <1>2, BACKShape, Kinds DEF Bare
<1>3. CASE REHOMEs(p)
  BY <1>3, REHOMEShape
<1>4. CASE MNDATAs(p, known) \/ CNDATAs(p)
  BY <1>4, DATAShape
<1> QED BY <1>1, <1>2, <1>3, <1>4 DEF InFlight

\* Every list holds BUEntries, every packet in flight has the fields of
\* hdr_nemo and hdr_tunnel, and abort is one of the asserts.
THEOREM NemoTypes == Spec => []TypeOK
<1>1. NemoInv => TypeOK
  <2> SUFFICES ASSUME NemoInv PROVE TypeOK
    OBVIOUS
  <2>1. \A n \in Nodes : \A i \in DOMAIN tbl[n] : tbl[n][i] \in Entries
    <3>1. \A n \in Nodes : tbl[n] \in Seq(Entries)
      BY DEF NemoInv, TablesOK
    <3> QED BY <3>1
  <2>2. net \subseteq Packets
    BY Shapes DEF NemoInv
  <2> QED BY <2>1, <2>2 DEF NemoInv, LinksOK, EntriesFound, TypeOK
<1> QED BY <1>1, NemoHolds, PTL

\* assert(th->tunnels().size()) of delete_tunnel never fails, whichever way
\* a packet went and whenever links were lost, with any number of packets.
THEOREM TunnelsAlwaysMatch == Spec => []TunnelsMatch
<1>1. NemoInv => TunnelsMatch
  <2> SUFFICES ASSUME NemoInv, NEW p \in net, NeedsTunnel(p)
               PROVE  p.tun # <<>>
    BY DEF TunnelsMatch
  <2>1. p.tun # <<>> \/ Bare(p)
    BY Shapes DEF NemoInv
  <2>2. ~Bare(p)
    BY DEF NeedsTunnel, Bare, Hosts
  <2> QED BY <2>1, <2>2
<1> QED BY <1>1, NemoHolds, PTL

\* tunneling hands a packet to the application of MN or CN with every tunnel
\* taken off and the address of the correspondent under them.
THEOREM AlwaysDeliveredClean == Spec => []DeliveredClean
<1>1. NemoInv => DeliveredClean
  BY DEF NemoInv
<1> QED BY <1>1, NemoHolds, PTL

\* The lookups that recv_nemo and tunneling do not test, or assert, never
\* return NULL; only the assert of MN_HA may end the simulation.
THEOREM EntriesAlwaysFound == Spec => []EntriesFound
<1>1. NemoInv => EntriesFound
  BY DEF NemoInv
<1> QED BY <1>1, NemoHolds, PTL

-----------------------------------------------------------------------------
(* Inbound packets.                                                        *)

\* An announcement of the own care-of address stands for a working link, and
\* the home agent of the MN's prefix has both entries of a re-homing.
LiveInv ==
    /\ \A u \in Uplinks : ~Up(u) => u \in Flaky
    /\ \A u \in Uplinks : told[u] \in {CoA[u], HoA[3 - u]}
    /\ \A u \in Uplinks : told[u] = CoA[u] => Up(u)
    /\ \A u \in Uplinks : told[u] # CoA[u] => u \in Flaky
    /\ Has(tbl["ha1"], "caddr", "h2") => Has(tbl["ha1"], "haddr", "h2")

LEMMA LiveInit == Init => LiveInv
<1> SUFFICES ASSUME Init PROVE LiveInv
  OBVIOUS
<1>1. /\ \A u \in Uplinks : Up(u) /\ told[u] = CoA[u]
  BY DEF Init, Up
<1>2. "ha1" \in Nodes
  BY DEF Nodes
<1>3. tbl["ha1"] = <<Registered(1)>>
  BY <1>2 DEF Init
<1>4. Registered(1)["caddr"] = "c1"
  BY DEF Registered, CoA
<1>5. ~Has(tbl["ha1"], "caddr", "h2")
  BY <1>3, <1>4 DEF Has
<1> QED BY <1>1, <1>5 DEF LiveInv

LEMMA LiveSame ==
    ASSUME LiveInv, UNCHANGED <<link, told>>,
           \/ tbl'["ha1"] = tbl["ha1"]
           \/ Has(tbl'["ha1"], "haddr", "h2")
           \/ ~Has(tbl'["ha1"], "caddr", "h2")
    PROVE  LiveInv'
<1>1. \A u \in Uplinks : Up(u)' <=> Up(u)
  BY DEF Up
<1> QED BY <1>1 DEF LiveInv

\* Only the handlers of a home agent change its list.
LEMMA OnlyHaWrites ==
    ASSUME NemoInv, NEW p, NEW n \in Nodes, NEW t, NEW out, Handled(p, n, t, out)
    PROVE  /\ UNCHANGED <<link, told>>
           /\ n # "ha1" => tbl'["ha1"] = tbl["ha1"]
           /\ n = "ha1" => tbl'["ha1"] = t
<1>1. tbl \in [Nodes -> Seq(Entries)] /\ "ha1" \in Nodes
  BY DEF NemoInv, TablesOK, Nodes
<1> QED BY <1>1 DEF Handled

LEMMA LiveHandled ==
    ASSUME NemoInv, LiveInv, NEW p, NEW n \in Nodes, NEW t, NEW out, Handled(p, n, t, out),
           n = "ha1" => \/ t = tbl["ha1"]
                        \/ Has(t, "haddr", "h2")
                        \/ ~Has(t, "caddr", "h2")
    PROVE  LiveInv'
BY OnlyHaWrites, LiveSame

LEMMA LiveQuiet ==
    ASSUME NemoInv, LiveInv, NEW p, NEW n \in Nodes, NEW out, Quietly(p, n, out)
    PROVE  LiveInv'
<1>1. Handled(p, n, tbl[n], out)
  BY DEF Quietly
<1> QED BY <1>1, LiveHandled

LEMMA LiveAborted ==
    ASSUME LiveInv, NEW p, NEW why, Aborted(p, why)
    PROVE  LiveInv'
BY LiveSame DEF Aborted

LEMMA LiveMr ==
    ASSUME NemoInv, LiveInv, NEW p, mr_recv_bu(p) \/ mr_recv_back(p) \/ mr_tunneling(p)
    PROVE  LiveInv'
<1>1. "mr" \in Nodes
  BY DEF Nodes
<1>2. \/ \E why \in {"mr_prefix", "mr_out"} : Aborted(p, why)
      \/ \E t, out : Handled(p, "mr", t, out)
  BY DEF mr_recv_bu, mr_recv_back, mr_tunneling, Quietly
<1>3. ASSUME NEW t, NEW out, Handled(p, "mr", t, out)
      PROVE  LiveInv'
  BY <1>1, <1>3, LiveHandled
<1> QED BY <1>2, <1>3, LiveAborted

LEMMA LiveHa ==
    ASSUME NemoInv, LiveInv, NEW p \in net, NEW n \in {"ha1", "ha2"},
           ha_recv_back(p, n) \/ ha_tunneling(p, n)
    PROVE  LiveInv'
<1>1. n \in Nodes
  BY DEF Nodes
<1>2. Aborted(p, "ha_prefix") \/ \E out : Quietly(p, n, out)
  BY DEF ha_recv_back, ha_tunneling
<1> QED BY <1>1, <1>2, LiveQuiet, LiveAborted

LEMMA LiveHaBU ==
    ASSUME NemoInv, LiveInv, NEW p \in net, NEW n \in {"ha1", "ha2"}, ha_recv_bu(p, n)
    PROVE  LiveInv'
<1> DEFINE q == delete_tunnel(p)
           r == registration(tbl[n], q, "MR")
<1>1. n \in Nodes /\ Arrives(p, "BU", n)
  BY DEF Nodes, ha_recv_bu
<1>2. \/ q.dst = n /\ \E out : Handled(p, n, r, out)
      \/ \E out : Quietly(p, n, out)
  <2> HIDE DEF r
  <2> QED BY DEF ha_recv_bu, r
<1>3. ASSUME n = "ha1", q.dst = n
      PROVE  Has(r, "haddr", "h2") \/ ~Has(r, "caddr", "h2")
  <2>1. p = RouterBU("ha1", "h1", "c1", "nemo1")
    <3>1. \/ p = MNHomeBU("net", "ha1")
          \/ p = MNPeerBU("net", "ha1")
          \/ p = CNPeerBU("ha1")
          \/ p = RouterBU("ha1", "h1", "c1", "nemo1")
      BY <1>1, <1>3, BUArrives
    <3>2. p = MNHomeBU("net", "ha1") => q.dst = "mnha"
      BY AddressIn, PopOne, Fields DEF MNHomeBU
    <3>3. p = MNPeerBU("net", "ha1") => q.dst = "cn"
      BY AddressIn, PopTwo, Fields DEF MNPeerBU
    <3>4. p = CNPeerBU("ha1") => q.dst = "mn"
      BY AddressIn, PopOne, Fields DEF CNPeerBU
    <3> HIDE DEF q
    <3> QED BY <1>3, <3>1, <3>2, <3>3, <3>4
  <2>2. q = Pkt("BU", "net", "c1", "ha1", <<>>, "h1", "c1", "nemo1")
    BY <2>1, AddressIn, PopOne DEF RouterBU
  <2>3. q.haddr = "h1" /\ q.coa = "c1" /\ q.pfx = "nemo1"
    BY <2>2, Fields
  <2> HIDE DEF q
  <2>4. tbl["ha1"] \in Seq(Ha1Entries) /\ Has(tbl["ha1"], "haddr", "h1")
    BY Ha1Table DEF TableOK
  <2>5. /\ Keeps(tbl["ha1"], r)
        /\ \A v : Has(r, "caddr", v) => Has(tbl["ha1"], "caddr", v) \/ v = q.coa
    BY <1>3, <2>3, <2>4, NodeEntries, HaRegisters DEF Ha1Entries
  <2> HIDE DEF r
  <2> QED BY <2>3, <2>5 DEF LiveInv, Keeps
<1> HIDE DEF q, r
<1> QED BY <1>1, <1>2, <1>3, LiveHandled, LiveQuiet

LEMMA LiveHaRehome ==
    ASSUME NemoInv, LiveInv, NEW p \in net, NEW n \in {"ha1", "ha2"}, ha_recv_rehome(p, n)
    PROVE  LiveInv'
<1> DEFINE q == delete_tunnel(p)
           i == get_entry(tbl[n], "haddr", q.haddr)
           r == [q EXCEPT !.haddr = q.coa, !.coa = q.src]
           t == registration([tbl[n] EXCEPT ![i].caddr = q.coa], r, "MR")
<1>1. n \in Nodes /\ Arrives(p, "REHOME", n)
  BY DEF Nodes, ha_recv_rehome
<1>2. Aborted(p, "ha_rehome") \/ Handled(p, n, t, {})
  <2> HIDE DEF t
  <2> QED BY DEF ha_recv_rehome, t
<1>3. ASSUME n = "ha1"
      PROVE  Has(t, "haddr", "h2")
  <2>1. p = Rehome("ha1", "h1", "ha2", "h2", "c2")
    BY <1>1, <1>3, REHOMEArrives
  <2>2. q = Pkt("REHOME", "net", "ha2", "ha1", <<>>, "h1", "h2", Zero)
    BY <2>1, AddressIn, PopOne DEF Rehome
  <2>3. q.haddr = "h1" /\ q.coa = "h2" /\ q.src = "ha2"
    BY <2>2, Fields
  <2>4. r.haddr = "h2" /\ r.coa = "ha2" /\ r.pfx = Zero
    <3>1. r = [q EXCEPT !.haddr = "h2", !.coa = "ha2"]
      <4> HIDE DEF q
      <4> QED BY <2>3
    <3> HIDE DEF q, r
    <3>2. r = Pkt("REHOME", "net", "ha2", "ha1", <<>>, "h2", "ha2", Zero)
      BY <2>2, <3>1 DEF Pkt
    <3> QED BY <3>2, Fields
  <2> HIDE DEF q, r
  <2>5. tbl["ha1"] \in Seq(Ha1Entries) /\ Has(tbl["ha1"], "haddr", "h1")
    BY Ha1Table DEF TableOK
  <2> QED BY <1>3, <2>3, <2>4, <2>5, NodeEntries, HaRehomes DEF Ha1Entries
<1> HIDE DEF t
<1> QED BY <1>1, <1>2, <1>3, LiveHandled, LiveAborted

LEMMA LiveHost ==
    ASSUME NemoInv, LiveInv, NEW p, NEW n \in Hosts,
           \/ host_recv_bu(p, n) \/ host_recv_back(p, n)
           \/ mnha_tunneling(p) \/ mn_tunneling(p) \/ cn_tunneling(p)
    PROVE  LiveInv'
<1>1. "mnha" \in Nodes /\ "mn" \in Nodes /\ "cn" \in Nodes /\ n \in Nodes /\ n # "ha1"
  BY DEF Nodes, Hosts
<1>2. \/ \E t, out : Handled(p, n, t, out)
      \/ Aborted(p, "home")
      \/ \E t, out : Handled(p, "mnha", t, out)
      \/ \E t, out : Handled(p, "mn", t, out)
      \/ \E t, out : Handled(p, "cn", t, out)
  BY DEF host_recv_bu, host_recv_back, mnha_tunneling, mn_tunneling, cn_tunneling, Quietly
<1>3. ASSUME NEW m \in Nodes, m # "ha1", NEW t, NEW out, Handled(p, m, t, out)
      PROVE  LiveInv'
  BY <1>3, LiveHandled
<1> QED BY <1>1, <1>2, <1>3, LiveAborted

\* Only Flaky uplinks are lost, and both calls of re_homing announce the other
\* uplink's home address.
LEMMA LiveLost ==
    ASSUME NemoInv, LiveInv, NEW u \in Uplinks, LinkDown(u) \/ PrefixExpired(u)
    PROVE  LiveInv'
<1> DEFINE o == tbl.mr[get_mr_ha_entry(tbl.mr, "eface", 3 - u)]
<1>1. o.haddr = HoA[3 - u]
  <2>1. o = UplinkEntry(3 - u)
    BY MrTable, UplinkRows DEF Uplinks
  <2> QED BY <2>1 DEF UplinkEntry
<1>2. re_homing(u)
  BY DEF LinkDown, PrefixExpired
<1>3. told' = [told EXCEPT ![u] = HoA[3 - u]]
  BY <1>1, <1>2 DEF re_homing
<1>4. \E a \in {"down", "expired"} : link' = [link EXCEPT ![u] = a]
  BY DEF LinkDown, PrefixExpired
<1>5. u \in Flaky
  BY DEF LinkDown, PrefixExpired, LiveInv, Up
<1>6. tbl'["ha1"] = tbl["ha1"]
  <2>1. tbl \in [Nodes -> Seq(Entries)] /\ "ha1" \in Nodes
    BY DEF NemoInv, TablesOK, Nodes
  <2> QED BY <1>2, <2>1 DEF re_homing
<1>7. link \in [Uplinks -> {"up", "down", "expired"}] /\ told \in [Uplinks -> Addresses]
  BY DEF NemoInv, LinksOK
<1>8. HoA[3 - u] # CoA[u]
  BY DEF HoA, CoA, Uplinks
<1>9. \A v \in Uplinks \ {u} : (Up(v)' <=> Up(v)) /\ told'[v] = told[v]
  BY <1>3, <1>4, <1>7 DEF Up
<1>10. ~Up(u)' /\ told'[u] = HoA[3 - u]
  BY <1>3, <1>4, <1>7 DEF Up
<1> QED BY <1>5, <1>6, <1>8, <1>9, <1>10 DEF LiveInv

LEMMA LiveBack ==
    ASSUME NemoInv, LiveInv, NEW u \in Uplinks, LinkUp(u)
    PROVE  LiveInv'
<1>1. link' = [link EXCEPT ![u] = "up"]
  BY DEF LinkUp
<1>2. told' = told \/ told' = [told EXCEPT ![u] = CoA[u]]
  BY DEF LinkUp, send_bu_msg
<1>3. tbl'["ha1"] = tbl["ha1"]
  <2>1. tbl \in [Nodes -> Seq(Entries)] /\ "ha1" \in Nodes
    BY DEF NemoInv, TablesOK, Nodes
  <2> QED BY <2>1 DEF LinkUp, send_bu_msg
<1>4. link \in [Uplinks -> {"up", "down", "expired"}] /\ told \in [Uplinks -> Addresses]
  BY DEF NemoInv, LinksOK
<1>5. \A v \in Uplinks \ {u} : (Up(v)' <=> Up(v)) /\ told'[v] = told[v]
  BY <1>1, <1>2, <1>4 DEF Up
<1>6. Up(u)' /\ (told'[u] = told[u] \/ told'[u] = CoA[u])
  BY <1>1, <1>2, <1>4 DEF Up
<1> QED BY <1>3, <1>5, <1>6 DEF LiveInv

LEMMA LiveStep == NemoInv /\ LiveInv /\ [Next]_vars => LiveInv'
<1> SUFFICES ASSUME NemoInv, LiveInv, [Next]_vars
             PROVE  LiveInv'
  OBVIOUS
<1>1. CASE Transport
  <2>1. ASSUME NEW p \in net, mr_recv_bu(p) \/ mr_recv_back(p) \/ mr_tunneling(p)
        PROVE  LiveInv'
    BY <2>1, LiveMr
  <2>2. ASSUME NEW p \in net, NEW n \in {"ha1", "ha2"},
               ha_recv_bu(p, n) \/ ha_recv_back(p, n) \/ ha_recv_rehome(p, n) \/ ha_tunneling(p, n)
        PROVE  LiveInv'
    BY <2>2, LiveHa, LiveHaBU, LiveHaRehome
  <2>3. ASSUME NEW p \in net, NEW n \in Hosts, host_recv_bu(p, n) \/ host_recv_back(p, n)
        PROVE  LiveInv'
    BY <2>3, LiveHost
  <2>4. ASSUME NEW p \in net, mnha_tunneling(p) \/ mn_tunneling(p) \/ cn_tunneling(p)
        PROVE  LiveInv'
    <3>1. "mn" \in Hosts
      BY DEF Hosts
    <3> QED BY <2>4, <3>1, LiveHost
  <2>5. ASSUME NEW p \in net, Drop(p)
        PROVE  LiveInv'
    BY <2>5, MrTable, LiveQuiet DEF Drop
  <2> QED BY <1>1, <2>1, <2>2, <2>3, <2>4, <2>5 DEF Transport
<1>2. CASE \E p \in net : Lose(p)
  BY <1>2, MrTable, LiveQuiet DEF Lose
<1>3. CASE \E u \in Uplinks : LinkDown(u) \/ PrefixExpired(u)
  BY <1>3, LiveLost
<1>4. CASE \E u \in Uplinks : LinkUp(u)
  BY <1>4, LiveBack
<1>5. CASE MNAttach
  <2>1. tbl \in [Nodes -> Seq(Entries)] /\ "ha1" \in Nodes
    BY DEF NemoInv, TablesOK, Nodes
  <2>2. tbl'["ha1"] = tbl["ha1"] /\ UNCHANGED <<link, told>>
    BY <1>5, <2>1 DEF MNAttach
  <2> QED BY <2>2, LiveSame
<1>6. CASE CNBinding \/ \E out : Sends(out)
  BY <1>6, LiveSame DEF CNBinding, Sends
<1>7. CASE \E d \in {"cnhoa", "cn"} : MNSend(d)
  <2>1. \E out : Sends(out)
    BY <1>7 DEF MNSend
  <2> QED BY <1>6, <2>1
<1>8. CASE \E d \in {"mnhoa", "mn"} : CNSend(d)
  <2>1. \E out : Sends(out)
    BY <1>8 DEF CNSend
  <2> QED BY <1>6, <2>1
<1>9. CASE UNCHANGED vars
  BY <1>9, LiveSame DEF vars
<1> QED BY <1>1, <1>2, <1>3, <1>4, <1>5, <1>6, <1>7, <1>8, <1>9 DEF Next

\* One uplink that is never lost is enough.
LEMMA LiveImplies ==
    ASSUME NemoInv, LiveInv, Flaky # Uplinks
    PROVE  InboundLive
<1> SUFFICES ASSUME Settled
             PROVE  \E u \in Uplinks : Inbound.dst = CoA[u] /\ Up(u)
  BY DEF InboundLive
<1> DEFINE s == tbl["ha1"]
           t == tbl["ha2"]
           i == get_entry(s, "prefix", "nemo1")
           k == get_entry(s, "haddr", s[i].caddr)
           p == CNData("net", "cn", "ha1", "mn", "mnhoa")
           q == HAOut(p, "ha1")
<1>1. 1 \in Uplinks /\ 2 \in Uplinks /\ CoA[1] = "c1" /\ CoA[2] = "c2" /\ HoA[1] = "h1"
      /\ HoA[2] = "h2" /\ HA[1] = "ha1" /\ HA[2] = "ha2"
  BY DEF Uplinks, CoA, HoA, HA
<1>2. s[i].caddr = told[1] /\ t[get_entry(t, "haddr", "h2")].caddr = told[2]
  <2>1. i = get_entry(s, "haddr", "h1")
    <3>1. \A j \in DOMAIN s : s[j]["prefix"] = "nemo1" <=> s[j]["haddr"] = "h1"
      <4>1. \A j \in DOMAIN s : s[j] \in HaEntries("nemo1", "h1", "c1", "h2", "ha2")
        BY Ha1Table DEF Ha1Entries
      <4> QED BY <4>1, HaRows DEF Zero
    <3> HIDE DEF s
    <3> DEFINE I == {j \in DOMAIN s : s[j]["prefix"] = "nemo1"}
               J == {j \in DOMAIN s : s[j]["haddr"] = "h1"}
               Least(S) == IF S = {} THEN 0 ELSE CHOOSE m \in S : \A n \in S : m <= n
    <3>2. I = J
      BY <3>1
    <3>3. i = Least(I) /\ get_entry(s, "haddr", "h1") = Least(J)
      BY DEF get_entry
    <3> HIDE DEF I, J, i, Least
    <3> QED BY <3>2, <3>3
  <2>2. \A u \in Uplinks : tbl[HA[u]][get_entry(tbl[HA[u]], "haddr", HoA[u])].caddr = told[u]
    BY DEF Settled
  <2> HIDE DEF i
  <2> QED BY <1>1, <2>1, <2>2
<1>3. Inbound = IF q.dst = "ha2" THEN HAOut(q, "ha2") ELSE q
  <2>1. p = To(add_tunnel(NewPacket("DATA", "cn", "mn", "mnhoa", "cn")), "ha1")
    BY FreshPacket, PushZero, Redirect DEF CNData
  <2> HIDE DEF p
  <2> QED BY <1>1, <2>1 DEF Inbound
<1>4. told[1] \in {"c1", "h2"} /\ told[2] \in {"c2", "h1"}
  <2>1. 3 - 1 = 2 /\ 3 - 2 = 1
    OBVIOUS
  <2> QED BY <1>1, <2>1 DEF LiveInv
<1>5. CASE told[1] = "c1"
  <2>1. k = 0
    BY <1>2, <1>5, Ha1Table
  <2>2. q = CNData("net", "cn", "c1", "mn", "mnhoa")
    BY <1>2, <1>5, <2>1, HaOutPrefix
  <2>3. q.dst = "c1"
    BY <2>2, Fields DEF CNData
  <2>4. Up(1)
    BY <1>1, <1>5 DEF LiveInv
  <2> HIDE DEF q
  <2> QED BY <1>1, <1>3, <2>3, <2>4
<1>6. CASE told[1] = "h2"
  <2>1. 1 \in Flaky /\ 2 \notin Flaky
    <3>1. 1 \in Flaky
      BY <1>1, <1>6 DEF LiveInv
    <3> QED BY <3>1, NemoAssumption DEF Uplinks
  <2>2. Up(2) /\ told[2] = "c2"
    BY <1>1, <2>1 DEF LiveInv
  <2>3. k # 0
    <3>1. i \in DOMAIN s /\ s[i]["caddr"] = "h2"
      BY <1>2, <1>6, Ha1Table, GetEntry
    <3>2. Has(s, "haddr", "h2")
      BY <3>1 DEF LiveInv, Has
    <3>3. s \in Seq(Ha1Entries)
      BY Ha1Table
    <3> HIDE DEF s, i
    <3> QED BY <3>1, <3>2, <3>3, GetEntry DEF Has
  <2>4. q = CNData("net", "cn", "ha2", "mn", "h2")
    BY <2>3, HaOutPrefix
  <2>5. q.dst = "ha2"
    BY <2>4, Fields DEF CNData
  <2>6. HAOut(q, "ha2") = CNData("net", "ha2", "c2", "mn", "h2")
    BY <1>2, <2>2, <2>4, HaOutOther
  <2>7. HAOut(q, "ha2").dst = "c2"
    BY <2>6, Fields DEF CNData
  <2> HIDE DEF q
  <2> QED BY <1>1, <1>3, <2>2, <2>5, <2>7
<1> QED BY <1>4, <1>5, <1>6

\* If one uplink is never lost, then whenever the home agents know what the
\* router announced last they forward a packet for the MN to an uplink that
\* works.  With two uplinks that can be lost re_homing may bind each home
\* address to the other one, and the theorem is false.
THEOREM InboundAlwaysLive ==
    ASSUME Flaky # Uplinks
    PROVE  Spec => []InboundLive
<1>1. NemoInv /\ LiveInv => InboundLive
  BY LiveImplies
<1>2. Spec => []LiveInv
  BY LiveInit, LiveStep, NemoHolds, PTL DEF Spec
<1> QED BY <1>1, <1>2, NemoHolds, PTL
=============================================================================
