----------------------------- MODULE SipBinding -----------------------------
(***************************************************************************)
(* The binding list of UdpmysipAgent on a mobile router (SIP_MR).          *)
(*                                                                         *)
(* The router has external interfaces ("uplinks"), each with one SIP_MR_HA *)
(* entry in siplist_head_ whose contact is the care-of address registered  *)
(* through it, or -1.  Every mobile node (MN) behind the router has a      *)
(* SIP_MN entry whose contact is the care-of address its packets use.  A   *)
(* packet of an MN leaves through the uplink that owns the MN's contact,   *)
(* so the two kinds of entries must agree after every handler: REGISTER of *)
(* an MN, a new address of an uplink (send_reg_msg), the loss of an uplink *)
(* (re_homing).  select_ chooses how MNs are spread over the uplinks.      *)
(*                                                                         *)
(* siplist_head_ is one list with head insertion; all lookups filter on    *)
(* the entry type, so it is kept here as its MR_HA part (fixed by the      *)
(* set-sip-mr commands, numbered from the head), its MN part (mnlist,      *)
(* newest first) and the set of known CNs.  exp_mr_ is 0 in this module.   *)
(***************************************************************************)
EXTENDS Integers, Sequences, FiniteSets

CONSTANTS
    NumUplinks,   \* number of SIP_MR_HA entries, in list order from the head
    MNs,          \* mobile nodes that may register through this router
    CNs,          \* correspondent nodes
    Prefixes,     \* subnet prefixes an uplink can get its address from
    None,         \* the contact -1
    Select,       \* select_: 0 by prefix, 1 random, 2 round robin, 3 weight, 4 weight_2
    HomeUplink,   \* the entry whose NEMO prefix is the MN's subnet
    Readdress,    \* may an uplink get a new address while it has one?
    MaxLate,      \* bound: REGISTERs of the router scheduled at one time
    RoundMod      \* modulus of round_count: a multiple of every live-list size

Uplinks == 1..NumUplinks

\* compute_new_address keeps the host part of the interface and takes the
\* prefix, so an address is determined by the uplink and the prefix.
Addrs == Uplinks \X Prefixes
Contacts == Addrs \cup {None}

ASSUME UplinkAssumption == NumUplinks \in Nat \ {0}
ASSUME NoneAssumption == None \notin Addrs \cup Uplinks \cup MNs
ASSUME SelectAssumption == Select \in 0..4
ASSUME HomeAssumption == HomeUplink \in [MNs -> Uplinks]
ASSUME ReaddressAssumption == Readdress \in BOOLEAN
ASSUME LateAssumption == MaxLate \in Nat \ {0}
ASSUME RoundAssumption ==
    RoundMod \in Nat \ {0} /\ \A n \in Uplinks : RoundMod % n = 0

VARIABLES
    con,            \* con[u]: contact of the MR_HA entry of uplink u
    mnlist,         \* the MN entries, newest first
    mncon,          \* contact of each MN entry (None when there is no entry)
    cns,            \* the CNs that have an entry
    round_count,    \* modulo RoundMod
    weight_count,   \* has get_mr_ha_entry_weight_2 used its first turn?
    weight_count2,  \* has rehome_mn_coa_entry_weight_2 used its first turn?
    status,         \* "run", or why the process stopped
    late,           \* addresses of the REGISTERs scheduled 0.1 s ahead, oldest first
    sent            \* packets the last handler put on the uplinks

vars == <<con, mnlist, mncon, cns, round_count, weight_count, weight_count2,
          status, late, sent>>

counters == <<round_count, weight_count, weight_count2>>

Statuses == {"run", "no_uplink", "no_binding", "no_peer", "bad_index"}

\* The URL of the MR_HA entry of uplink u, which it keeps whatever its contact.
Url(u) == <<u>>
Urls == {Url(u) : u \in Uplinks}

\* Mutation: the entries are counted from 0, as mr_ha is.
PacketFromZero(method, m, u, c) ==
    [method |-> method, mn |-> m, via |-> u - 1, contact |-> c]

\* A packet on the uplink via, for MN m or, with None, for the router itself.
\* Method 7 stands for methods 0, 7 and 1 of an MN, 6 for the INVITE that answers
\* a 302.
Packet(method, m, u, c) == [method |-> method, mn |-> m, via |-> u, contact |-> c]

Packets ==
    [method : {5, 6, 7, 9, 12}, mn : MNs \cup {None}, via : Uplinks,
     contact : Contacts \cup Urls]

-----------------------------------------------------------------------------
(* Lookups in the list.                                                    *)

Registered == {mnlist[k] : k \in DOMAIN mnlist}

\* The entries the get_mr_ha / rehome functions collect in mr_ha.
Live(c) == {u \in Uplinks : c[u] # None}

\* mr_ha[k]: the collected entries in list order, counted from 0.
Nth(S, k) == CHOOSE u \in S : Cardinality({v \in S : v < u}) = k

\* Mutation: the lookup skips the entries of dead uplinks.
OwnersLive(c) == {u \in Uplinks : con[u] # None /\ con[u] = c}

\* get_mr_ha_entry_by_caddr: the first MR_HA entry with that contact.  A
\* contact of None finds the first dead uplink.
Owners(c) == {u \in Uplinks : con[u] = c}
First(S) == CHOOSE u \in S : \A v \in S : u <= v

\* get_entry_without_iface: the first entry with another interface, live or not.
Other(u) == IF u = 1 THEN 2 ELSE 1

Pos(m) == CHOOSE k \in DOMAIN mnlist : mnlist[k] = m

\* How many MN entries of D the list scan meets before m.
Rank(m, D) == Cardinality({d \in D : Pos(d) < Pos(m)})

\* Mutation: registration without the lookup of an entry.
WithEntryAlways(m) == <<m>> \o mnlist

\* Mutation: the REGISTER is forwarded and no entry kept.
WithEntryForgotten(m) == mnlist

\* registration(p, SIP_MN): a new entry goes to the head of the list.
WithEntry(m) == IF m \in Registered THEN mnlist ELSE <<m>> \o mnlist

-----------------------------------------------------------------------------
(* Selection policies.                                                     *)

\* get_mr_ha_entry_{by_prefix, random, round_robin, weight, weight_2}: the
\* uplinks the policy may return for MN m.  Empty where it takes a remainder by
\* zero or reads an empty vector, which kills the process.
Pick(m) ==
    LET L == Live(con)
        n == Cardinality(L)
    IN  CASE Select = 0 -> {HomeUplink[m]}
          [] Select = 1 -> L
          [] Select \in 2..4 /\ n = 0 -> {}
          [] Select = 2 /\ n > 0 -> {Nth(L, round_count % n)}
          [] Select = 3 /\ n > 0 -> {Nth(L, IF n = 1 THEN 0 ELSE 1)}
          [] Select = 4 /\ n > 0 ->
                {Nth(L, IF n = 1 \/ weight_count = 0 THEN 0 ELSE 1)}

\* The counters after that choice.
PickCounters ==
    /\ round_count' = IF Select = 2 THEN (round_count + 1) % RoundMod
                                    ELSE round_count
    /\ weight_count' = IF Select = 4 /\ Cardinality(Live(con)) # 1
                       THEN 1 ELSE weight_count
    /\ UNCHANGED weight_count2

\* Mutation: the MNs are rehomed only when two uplinks are left.
RehomeContactsSizeOne(c, D) ==
    IF Cardinality(Live(c)) <= 1
    THEN {[m \in D |-> None]}
    ELSE {[m \in D |-> c[Nth(Live(c), 0)]]}

\* Mutation: round_count is not advanced for each MN of the loop.
RehomeContactsOneTurn(c, D) ==
    LET n == Cardinality(Live(c))
    IN  IF n = 0 THEN {[m \in D |-> None]}
                 ELSE {[m \in D |-> c[Nth(Live(c), round_count % n)]]}

\* rehome_mn_coa_entry_*: the contacts the MNs of D may get when c are the
\* contacts of the uplinks that are left.  weight_2 reads mr_ha[1] on its first
\* turn whatever the size of mr_ha: with a single live uplink that is a read
\* past the end of the vector, and the MN gets whatever is found there.
RehomeContacts(c, D) ==
    LET L == Live(c)
        n == Cardinality(L)
        turn2(m) == Select = 4 /\ weight_count2 = 0 /\ Rank(m, D) = 0
    IN  CASE n = 0 -> {[m \in D |-> None]}
          [] n > 0 /\ Select = 1 -> [D -> {c[u] : u \in L}]
          [] n > 0 /\ Select = 2 ->
                {[m \in D |-> c[Nth(L, (round_count + Rank(m, D)) % n)]]}
          [] n > 0 /\ Select = 3 -> {[m \in D |-> c[Nth(L, 0)]]}
          [] n > 1 /\ Select = 4 ->
                {[m \in D |-> c[Nth(L, IF turn2(m) THEN 1 ELSE 0)]]}
          [] n = 1 /\ Select = 4 ->
                {[m \in D |-> IF turn2(m) THEN g ELSE c[Nth(L, 0)]] : g \in Contacts}

RehomeCounters(c, D) ==
    /\ round_count' = IF Select = 2 /\ Live(c) # {}
                      THEN (round_count + Cardinality(D)) % RoundMod
                      ELSE round_count
    /\ weight_count2' = IF Select = 4 /\ D # {} THEN 1 ELSE weight_count2
    /\ UNCHANGED weight_count

\* Mutation: an MN that had the first MN's contact is never counted or moved.
RenewStepFirstOnly(s, m) ==
    LET take == [s EXCEPT !.nw = @ + 1]
    IN  CASE s.c1 = 0 -> [take EXCEPT !.old1 = mncon[m], !.c1 = 1]
          [] s.c1 > 0 /\ mncon[m] # s.old1 /\ s.c2 = 0 -> [take EXCEPT !.c2 = 1]
          [] OTHER -> s

\* One iteration of the loop of renew_mn_coa_entry_round_robin.  c1 = 0 is the
\* iteration i == 0, c2 = 0 is old2_addr == 0; nw counts the MNs moved so far.
RenewStep(s, m) ==
    LET take == [s EXCEPT !.nw = @ + 1]
    IN  CASE s.c1 = 0 -> [take EXCEPT !.old1 = mncon[m], !.c1 = 1]
          [] s.c1 > 0 /\ mncon[m] # s.old1 /\ s.c2 = 0 -> [take EXCEPT !.c2 = 1]
          [] s.c1 > 0 /\ mncon[m] # s.old1 /\ s.c2 > 0 ->
                IF s.c2 <= s.nw THEN [s EXCEPT !.c2 = @ + 1] ELSE take
          [] s.c1 > 0 /\ mncon[m] = s.old1 ->
                IF s.c1 <= s.nw THEN [s EXCEPT !.c1 = @ + 1] ELSE take

\* The MNs the loop moves: those at which its count goes up.
RenewMoved ==
    LET scan[k \in 0..Len(mnlist)] ==
            IF k = 0
            THEN [old1 |-> None, c1 |-> 0, c2 |-> 0, nw |-> 0]
            ELSE RenewStep(scan[k - 1], mnlist[k])
    IN  {mnlist[k] : k \in {j \in DOMAIN mnlist : scan[j].nw # scan[j - 1].nw}}

\* Mutation: only MNs without a contact are moved to the new address.
RenewedUnbound == {{m \in Registered : mncon[m] = None}}

\* renew_mn_coa_entry_*: the sets of MNs that may be moved to the new address.
\* random draws j < n times among the n MNs; weight_2 skips the third entry.
Renewed ==
    CASE Select = 0 -> {{}}
      [] Select = 1 -> {S \in SUBSET Registered : S = {} \/ S # Registered}
      [] Select = 2 -> {RenewMoved}
      [] Select = 3 -> {Registered}
      [] Select = 4 -> {{m \in Registered : Pos(m) # 3}}

-----------------------------------------------------------------------------
(* Handlers.                                                               *)

\* A failed assert, a null dereference or a division by zero.
Stop(why) ==
    /\ status' = why
    /\ UNCHANGED <<con, mnlist, mncon, cns, counters, sent, late>>

\* recv, method 5: REGISTER of an MN.  Its contact is set to the URL of the entry
\* of the uplink, the care-of address goes into the MN's entry.
recv_register(m) ==
    /\ status = "run"
    /\ \/ /\ Pick(m) = {}
          /\ Stop("no_uplink")
       \/ \E u \in Pick(m) :
            /\ mnlist' = WithEntry(m)
            /\ mncon' = [mncon EXCEPT ![m] = con[u]]
            /\ PickCounters
            /\ sent' = {Packet(5, m, u, Url(u))}
            /\ UNCHANGED <<con, cns, status, late>>

\* Mutation: the first live uplink instead of the owner of the contact.
ForwardFirstLive(m) ==
    LET S == IF Live(con) = {} THEN Uplinks ELSE Live(con)
    IN  /\ sent' = {Packet(7, m, First(S), mncon[m])}
        /\ UNCHANGED <<con, mnlist, mncon, cns, counters, status, late>>

\* The common tail of methods 0, 7 and 1 for a packet of MN m to the outside:
\* the contact is the MN's, the interface is the one that owns it.
Forward(m) ==
    LET S == Owners(mncon[m])
    IN  \/ /\ S = {}
           /\ Stop("no_binding")
        \/ /\ S # {}
           /\ sent' = {Packet(7, m, First(S), mncon[m])}
           /\ UNCHANGED <<con, mnlist, mncon, cns, counters, status, late>>

\* recv, method 0 or 7 from an MN.  One without an entry is taken for a CN: its
\* peer, unknown or without an interface inside, is then dereferenced.
recv_from_mn(m) ==
    /\ status = "run"
    /\ \/ /\ m \notin Registered
          /\ Stop("no_peer")
       \/ /\ m \in Registered
          /\ Forward(m)

\* recv, method 0 or 7 from a CN to MN m: the CN gets an entry, the packet is
\* sent inside.
recv_from_cn(c, m) ==
    /\ status = "run"
    /\ \/ /\ m \notin Registered
          /\ Stop("no_peer")
       \/ /\ m \in Registered
          /\ cns' = cns \cup {c}
          /\ sent' = {}
          /\ UNCHANGED <<con, mnlist, mncon, counters, status, late>>

\* recv, method 1, when the call was made by MN m: the 200 OK goes inside.
recv_200ok_from_cn(c, m) ==
    /\ status = "run"
    /\ m \in Registered
    /\ cns' = cns \cup {c}
    /\ sent' = {}
    /\ UNCHANGED <<con, mnlist, mncon, counters, status, late>>

\* recv, method 1, when the call was made by CN c: the MN's 200 OK goes out.
recv_200ok_from_mn(c, m) ==
    /\ status = "run"
    /\ \/ /\ m \notin Registered \/ c \notin cns
          /\ Stop("no_peer")
       \/ /\ m \in Registered /\ c \in cns
          /\ Forward(m)

\* recv, method 6: the INVITE of MN m was redirected.  The router INVITEs the
\* contact of the 302 in the name of the MN: the contact is the MN's, but the
\* interface is that of the entry for the MN's subnet, under every policy.
recv_temp_move(m) ==
    /\ status = "run"
    /\ \/ /\ m \notin Registered
          /\ Stop("no_peer")
       \/ /\ m \in Registered
          /\ sent' = {Packet(6, m, HomeUplink[m], mncon[m])}
          /\ UNCHANGED <<con, mnlist, mncon, cns, counters, status, late>>

\* recv, method 9: a CN announces its new contact to MN m.
recv_rehoming(c, m) == recv_from_cn(c, m)

\* recv, method 11: another router refers CN c to this one.
recv_refer(c) ==
    /\ status = "run"
    /\ LET L == Live(con)
       IN  \/ /\ L = {}
              /\ Stop("no_uplink")
           \/ /\ L # {}
              /\ cns' = cns \cup {c}
              /\ sent' = {Packet(12, None, First(L), con[First(L)])}
              /\ UNCHANGED <<con, mnlist, mncon, counters, status, late>>

\* recv, method 12: CN c answers with a re-INVITE, which goes inside.
recv_reinvite(c, m) ==
    /\ status = "run"
    /\ \/ /\ m \notin Registered \/ c \notin cns
          /\ Stop("no_peer")
       \/ /\ m \in Registered /\ c \in cns
          /\ sent' = {}
          /\ UNCHANGED <<con, mnlist, mncon, cns, counters, status, late>>

\* recv, method 13: an MN that was referred to this router binds here.
recv_mn_bu(m) ==
    /\ status = "run"
    /\ LET L == Live(con)
       IN  \/ /\ L = {}
              /\ Stop("no_uplink")
           \/ /\ L # {}
              /\ mnlist' = WithEntry(m)
              /\ mncon' = [mncon EXCEPT ![m] = con[First(L)]]
              /\ sent' = {Packet(12, m, First(L), con[First(L)])}
              /\ UNCHANGED <<con, cns, counters, status, late>>

\* send_reg_msg(prefix, iface) after compute_new_address: uplink u has address a.
\* The router's REGISTER is scheduled at the interface, 0.1 s ahead.
send_reg_msg(u, a) ==
    /\ status = "run"
    /\ con' = [con EXCEPT ![u] = a]
    /\ \E S \in Renewed :
          mncon' = [m \in MNs |-> IF m \in S THEN a ELSE mncon[m]]
    /\ late' = Append(late, a)
    /\ sent' = {}
    /\ UNCHANGED <<mnlist, cns, counters, status>>

\* The scheduler hands the oldest of these REGISTERs, all 0.1 s late, to its
\* interface.  Nothing takes it back when the uplink is lost meanwhile.
late_register ==
    /\ status = "run"
    /\ late # <<>>
    /\ sent' = {Packet(5, None, Head(late)[1], Head(late))}
    /\ late' = Tail(late)
    /\ UNCHANGED <<con, mnlist, mncon, cns, counters, status>>

\* Mutation: every MN is moved, also those of other uplinks.
rehome_all_of_everyone(u) ==
    LET c == [con EXCEPT ![u] = None]
    IN  /\ con' = c
        /\ \E f \in RehomeContacts(c, Registered) :
              mncon' = [m \in MNs |-> IF m \in Registered THEN f[m] ELSE mncon[m]]
        /\ RehomeCounters(c, Registered)
        /\ sent' = {}
        /\ UNCHANGED <<mnlist, cns, status, late>>

\* re_homing(iface), select_ 1 to 4.
rehome_all(u) ==
    LET D == {m \in Registered : mncon[m] = con[u]}
        c == [con EXCEPT ![u] = None]
    IN  /\ con' = c
        /\ \E f \in RehomeContacts(c, D) :
              mncon' = [m \in MNs |-> IF m \in D THEN f[m] ELSE mncon[m]]
        /\ RehomeCounters(c, D)
        /\ sent' = {}
        /\ UNCHANGED <<mnlist, cns, status, late>>

\* Mutation: the MN gets the contact of the uplink that broke.
rehome_first_broken(u) ==
    /\ con' = [con EXCEPT ![u] = None]
    /\ mncon' = [mncon EXCEPT ![mnlist[1]] = con[u]]
    /\ sent' = {Packet(9, None, Other(u), con[u])}
    /\ UNCHANGED <<mnlist, cns, counters, status, late>>

\* re_homing(iface), select_ 0: the newest MN entry gets the contact of the
\* first other uplink; method 9 goes to the home agent of the broken uplink and
\* to the CN, if one is known.
rehome_first(u) ==
    LET m == mnlist[1]
        c == con[Other(u)]
    IN  /\ con' = [con EXCEPT ![u] = None]
        /\ mncon' = [mncon EXCEPT ![m] = c]
        /\ sent' = {Packet(9, None, Other(u), c)}
                     \cup {Packet(9, m, Other(u), c) : x \in cns}
        /\ UNCHANGED <<mnlist, cns, counters, status, late>>

re_homing(u) ==
    /\ status = "run"
    /\ \/ /\ NumUplinks = 1 \/ (Select = 0 /\ mnlist = <<>>)
          /\ Stop("no_peer")
       \/ /\ NumUplinks > 1 /\ Select # 0
          /\ rehome_all(u)
       \/ /\ Select = 4 /\ weight_count2 = 0
          /\ Cardinality(Live([con EXCEPT ![u] = None])) = 1
          /\ \E m \in Registered : mncon[m] = con[u]
          /\ Stop("bad_index")
       \/ /\ NumUplinks > 1 /\ Select = 0 /\ mnlist # <<>>
          /\ rehome_first(u)

-----------------------------------------------------------------------------

Init ==
    /\ con = [u \in Uplinks |-> None]
    /\ mnlist = <<>>
    /\ mncon = [m \in MNs |-> None]
    /\ cns = {}
    /\ round_count = 0
    /\ weight_count = 0
    /\ weight_count2 = 0
    /\ status = "run"
    /\ late = <<>>
    /\ sent = {}

NewAddress(u) ==
    \E p \in Prefixes :
        /\ Readdress \/ con[u] = None
        /\ Len(late) < MaxLate
        /\ send_reg_msg(u, <<u, p>>)

\* recv on a SIP_MR, by method of the packet.
RecvPacket ==
    \/ \E m \in MNs : recv_register(m)
    \/ \E m \in MNs : recv_from_mn(m)
    \/ \E c \in CNs, m \in MNs : recv_from_cn(c, m)
    \/ \E c \in CNs, m \in MNs : recv_200ok_from_cn(c, m)
    \/ \E c \in CNs, m \in MNs : recv_200ok_from_mn(c, m)
    \/ \E m \in MNs : recv_temp_move(m)
    \/ \E c \in CNs, m \in MNs : recv_rehoming(c, m)
    \/ \E c \in CNs : recv_refer(c)
    \/ \E c \in CNs, m \in MNs : recv_reinvite(c, m)
    \/ \E m \in MNs : recv_mn_bu(m)

Next ==
    \/ RecvPacket
    \/ \E u \in Uplinks : NewAddress(u)
    \/ late_register
    \/ \E u \in Uplinks : re_homing(u)

Spec == Init /\ [][Next]_vars

-----------------------------------------------------------------------------
(* Properties.                                                             *)

TypeOK ==
    /\ con \in [Uplinks -> Contacts]
    /\ mnlist \in Seq(MNs)
    /\ mncon \in [MNs -> Contacts]
    /\ cns \subseteq CNs
    /\ round_count \in 0..(RoundMod - 1)
    /\ weight_count \in {0, 1}
    /\ weight_count2 \in {0, 1}
    /\ status \in Statuses
    /\ late \in Seq(Addrs)
    /\ sent \subseteq Packets

\* Only an MN with an entry has a contact, and some uplink owns that contact at
\* this moment: re_homing and send_reg_msg never leave an MN with the address of
\* an uplink that was lost or readdressed.
BoundToLive ==
    \A m \in MNs : mncon[m] # None => m \in Registered /\ Owners(mncon[m]) # {}

\* assert(bu != NULL) in recv, methods 0, 7 and 1: the interface for a packet of
\* an MN is always found.
ForwardAssert == status # "no_binding"

\* No MN is left without a contact while some uplink is live.
NoOrphan ==
    Live(con) # {} => \A m \in Registered : mncon[m] # None

\* A REGISTER of the router, for address a: a is the address of its uplink, or the
\* uplink is lost, or the REGISTER of its present address is still to come.
StillCurrent(a) ==
    con[a[1]] \in {None, a} \/ \E k \in DOMAIN late : late[k] = con[a[1]]

\* While an uplink is live, what the router sends leaves through a live uplink with
\* the contact of that uplink (an MN's REGISTER: with the URL of its entry), so
\* get_mr_ha_entry_by_caddr never finds the entry of a dead uplink by the contact
\* -1.  The INVITE that answers a 302 has a live uplink's contact, but its interface
\* is that of the MN's subnet, and a REGISTER of the router that a loss or another
\* address made stale in its 0.1 s is never the last one.
OutThroughLive ==
    Live(con) # {} =>
        \A p \in sent :
            /\ p.method \in {7, 9, 12} => p.contact # None /\ con[p.via] = p.contact
            /\ p.method = 6 => \E u \in Live(con) : con[u] = p.contact
            /\ p.method = 5 /\ p.mn # None => p.via \in Live(con) /\ p.contact = Url(p.via)
            /\ p.method = 5 /\ p.mn = None => StillCurrent(p.contact)

\* A step in which a bound MN loses its contact only with the last uplink.
LosesOnlyLast ==
    \A m \in Registered :
        mncon[m] # None /\ mncon'[m] = None => Live(con') = {}

\* A step in which re_homing spreads the MNs of the lost uplink evenly.
EvenSpread ==
    \A u \in Uplinks :
        con[u] # None /\ con'[u] = None =>
            LET D == {m \in Registered : mncon[m] = con[u]}
                share(v) == Cardinality({m \in D : mncon'[m] = con[v]})
            IN  \A v, w \in Live(con') : share(v) <= share(w) + 1

\* A step in which an uplink that gets an address takes over so many MNs that no
\* other contact has more MNs than the new one.
RenewShare ==
    \A u \in Uplinks :
        con'[u] # None /\ con'[u] # con[u] =>
            LET bound(c) == Cardinality({m \in Registered : mncon'[m] = c})
            IN  \A c \in Contacts : bound(c) <= bound(con'[u])

\* Every MN has at most one entry, although REGISTER and method 13 both insert:
\* the loops over the list meet each MN once.
OneEntry == \A j, k \in DOMAIN mnlist : mnlist[j] = mnlist[k] => j = k

\* The uplink that serves an MN: the owner of its contact.
ServedBy(m) ==
    IF mncon[m] # None /\ Owners(mncon[m]) # {} THEN First(Owners(mncon[m])) ELSE None

Service == INSTANCE BindingService WITH
               live <- Live(con), members <- Registered, via <- [m \in MNs |-> ServedBy(m)]

\* The binding list implements the abstract service: a member is served by a live
\* uplink while there is one, re_homing moves exactly the MNs of the lost uplink,
\* and no other packet or address change moves an MN away from its uplink.
ImplementsService == Service!Spec
=============================================================================
