----------------------------- MODULE NemoTunnel -----------------------------
(***************************************************************************)
(* MIPv6/NEMO mode of a multihomed mobile router: MIPV6Agent on every node *)
(* of the scenario mipv6-v-to-i.tcl (exp_ 4, exp_mr_ 0, no MR_BS).         *)
(*                                                                         *)
(*   MN --(nemo1)-- MR ==uplink 1== HA1 --+-- MN_HA                        *)
(*                     ==uplink 2== HA2 --+-- CN                           *)
(*                                                                         *)
(* Every agent keeps a list of binding entries (BUEntry) that it searches  *)
(* from the head, and every packet carries a stack of saved addresses      *)
(* (hdr_tunnel).  One step is one call of recv, one application send, or   *)
(* one link event at the router.  The network between the agents loses and *)
(* reorders packets; identical packets in flight are kept once.            *)
(*                                                                         *)
(* Both uplinks are registered in Init, with the one address each has in   *)
(* that scenario; MN and CN still have to register.                        *)
(***************************************************************************)
EXTENDS Integers, Sequences

CONSTANTS
    Flaky,           \* uplinks whose link may be lost
    Lossy,           \* whether the network loses packets that have a route
    MaxLinkEvents,   \* bound on links lost
    MaxData          \* bound on packets sent by the applications

Uplinks == {1, 2}

ASSUME NemoAssumption ==
    /\ Flaky \subseteq Uplinks
    /\ Lossy \in BOOLEAN
    /\ {MaxLinkEvents, MaxData} \subseteq Nat

\* Addresses.  "-1" is an unset field of a BUEntry, "0" one of a header.
Unset == "-1"
Zero == "0"
HA == <<"ha1", "ha2">>
HoA == <<"h1", "h2">>
CoA == <<"c1", "c2">>
Nemo == <<"nemo1", "nemo2">>
Hosts == {"mnha", "mn", "cn"}
Addresses == {"ha1", "ha2", "h1", "h2", "c1", "c2", "nemo1", "nemo2", "mnha",
              "mn", "cn", "mnhoa", "cnhoa", Unset, Zero}
Nodes == {"mr", "ha1", "ha2"} \cup Hosts

\* addr & 0xFFFFF800: only the MN lives in a NEMO prefix.
PrefixOf(a) == IF a \in {"mn", "nemo1"} THEN "nemo1" ELSE a

VARIABLES
    tbl,      \* bulist_head_ of each node, head first
    net,      \* packets in flight
    link,     \* of each uplink: up, down, or down with its prefix expired
    told,     \* care-of address the router last announced for each home address
    got,      \* what the two applications received
    abort,    \* the assert or null pointer that ended the simulation
    bound,    \* hosts that have sent their first BU
    events, data

vars == <<tbl, net, link, told, got, abort, bound, events, data>>

Up(u) == link[u] = "up"

Entries == [type : {"MN", "MN_HA", "MR", "MR_HA"}, addr : Addresses, haddr : Addresses,
            caddr : Addresses, prefix : Addresses, eface : {0} \cup Uplinks]

-----------------------------------------------------------------------------
(* The binding list.                                                       *)

\* get_entry_by_addr/haddr/caddr/prefix/type/iface: the first match, 0 for NULL.
get_entry(t, field, v) ==
    LET I == {i \in DOMAIN t : t[i][field] = v}
    IN  IF I = {} THEN 0 ELSE CHOOSE i \in I : \A j \in I : i <= j

\* get_mr_ha_entry_by_caddr/prefix/iface.
get_mr_ha_entry(t, field, v) ==
    LET I == {i \in DOMAIN t : t[i].type = "MR_HA" /\ t[i][field] = v}
    IN  IF I = {} THEN 0 ELSE CHOOSE i \in I : \A j \in I : i <= j

NewEntry(type, p) ==
    [type |-> type, addr |-> IF type = "MN" THEN p.src ELSE Unset, haddr |-> p.haddr,
     caddr |-> p.coa, prefix |-> IF type = "MR" THEN p.pfx ELSE Unset, eface |-> 0]

\* An existing binding of the home address only gets a new care-of address.
registration(t, p, type) ==
    LET i == get_entry(t, "haddr", p.haddr)
    IN  IF i = 0 THEN <<NewEntry(type, p)>> \o t ELSE [t EXCEPT ![i].caddr = p.coa]

-----------------------------------------------------------------------------
(* Packets.                                                                *)

add_tunnel(p) == [p EXCEPT !.tun = Append(@, <<p.dst, p.src>>)]

\* The assert that the stack is not empty is the invariant TunnelsMatch.
delete_tunnel(p) ==
    IF p.tun = <<>> THEN p
    ELSE [p EXCEPT !.tun = SubSeq(@, 1, Len(@) - 1),
                   !.dst = p.tun[Len(p.tun)][1], !.src = p.tun[Len(p.tun)][2]]

\* delete_tunnel followed by a second one if a tunnel is left.
delete_tunnels(p) ==
    LET q == delete_tunnel(p) IN IF q.tun = <<>> THEN q ELSE delete_tunnel(q)

To(p, d) == [p EXCEPT !.dst = d]
From(p, s) == [p EXCEPT !.src = s]
Inside(p) == [p EXCEPT !.zone = "nemo"]
Outside(p) == [p EXCEPT !.zone = "net"]

NewPacket(type, src, dst, haddr, coa) ==
    [type |-> type, src |-> src, dst |-> dst, haddr |-> haddr, coa |-> coa,
     pfx |-> Zero, tun |-> <<>>, zone |-> "net"]

\* The node a packet is routed to; none for a home address or a stale one.
Receiver(p) ==
    CASE p.zone = "nemo" -> IF p.dst = "nemo1" THEN "mr" ELSE p.dst
      [] p.zone = "net" /\ p.dst \in {"ha1", "ha2", "mnha", "cn"} -> p.dst
      [] p.zone = "net" /\ \E u \in Uplinks : p.dst = CoA[u] /\ Up(u) -> "mr"
      [] OTHER -> "none"

\* eface()->send: what an uplink without a link is given is lost.
Via(u, p) == IF Up(u) THEN {Outside(p)} ELSE {}

\* send_bu_ack copies the update with whatever is left of its stack.
send_bu_ack(p, me) ==
    LET ack == [p EXCEPT !.type = "BACK", !.src = me, !.dst = p.coa]
    IN  IF p.src # p.coa THEN To(add_tunnel(ack), p.src) ELSE ack

-----------------------------------------------------------------------------
(* One call of recv: the packet p leaves the network, out enters it.       *)

\* The packet p of that type is delivered to node n.
Arrives(p, type, n) == abort = "none" /\ p.type = type /\ Receiver(p) = n

Handled(p, n, t, out) ==
    /\ tbl' = [tbl EXCEPT ![n] = t]
    /\ net' = (net \ {p}) \cup out
    /\ UNCHANGED <<link, told, bound, events, data>>

Quietly(p, n, out) == Handled(p, n, tbl[n], out) /\ UNCHANGED <<got, abort>>

Aborted(p, why) ==
    /\ abort' = why
    /\ net' = net \ {p}
    /\ UNCHANGED <<tbl, link, told, got, bound, events, data>>

(* Mobile router.                                                          *)

\* A BU for a node outside: bind its MN to the uplink of its NEMO prefix and
\* tunnel the BU to that uplink's home agent.  A BU for the MN goes inside.
mr_recv_bu(p) ==
    LET q == delete_tunnel(p)
        t == IF get_entry(tbl.mr, "haddr", q.haddr) = 0
             THEN registration(tbl.mr, q, "MN") ELSE tbl.mr
        m == get_entry(t, "haddr", q.haddr)
        h == get_mr_ha_entry(t, "prefix", PrefixOf(q.src))
        inside == get_entry(tbl.mr, "addr", q.dst) # 0
    IN  /\ Arrives(p, "BU", "mr")
        /\ \/ inside /\ Quietly(p, "mr", {Inside(q)})
           \/ ~inside /\ h = 0 /\ Aborted(p, "mr_prefix")
           \/ /\ ~inside /\ h # 0
              /\ Handled(p, "mr",
                         [t EXCEPT ![m].caddr = t[h].caddr, ![m].eface = t[h].eface],
                         Via(t[h].eface, To(add_tunnel(q), t[h].addr)))
              /\ UNCHANGED <<got, abort>>

\* An acknowledgement with a tunnel left is for the MN.
mr_recv_back(p) ==
    /\ Arrives(p, "BACK", "mr")
    /\ Quietly(p, "mr", IF p.tun = <<>> THEN {} ELSE {Inside(delete_tunnel(p))})

\* Where a packet from inside leaves: through the uplink of the MN's care-of
\* address, with one more tunnel if that is not the uplink of its prefix.
MROut(q, e) ==
    LET t == tbl.mr
        own == CoA[e.eface]
        k == get_mr_ha_entry(t, "caddr", own)
        o == get_mr_ha_entry(t, "caddr", e.caddr)
        r == IF e.caddr # own THEN To(add_tunnel(q), t[k].addr) ELSE q
    IN  Via(t[o].eface, To(add_tunnel(From(r, t[o].haddr)), t[o].addr))

\* To a node of the router's own network.
MRInside(q) == Inside(add_tunnel(q))

mr_tunneling(p) ==
    LET t == tbl.mr
        q == delete_tunnel(p)
        j == get_entry(t, "addr", q.src)
        inside == get_entry(t, "addr", q.dst) # 0
    IN  /\ Arrives(p, "DATA", "mr")
        /\ \/ inside /\ Quietly(p, "mr", {MRInside(q)})
           \/ ~inside /\ j = 0 /\ Quietly(p, "mr", {})
           \/ /\ ~inside /\ j # 0
              /\ IF get_mr_ha_entry(t, "caddr", t[j].caddr) = 0
                 THEN Aborted(p, "mr_out")
                 ELSE Quietly(p, "mr", MROut(q, t[j]))

(* Home agent of an uplink.                                                *)

ha_recv_bu(p, n) ==
    LET q == delete_tunnel(p)
        i == get_entry(tbl[n], "prefix", PrefixOf(q.dst))
        on == IF i # 0 THEN To(add_tunnel(q), tbl[n][i].caddr)
              ELSE IF q.tun = <<>> THEN From(q, n)
              ELSE To(add_tunnel(From(delete_tunnel(q), n)), q.dst)
    IN  /\ Arrives(p, "BU", n)
        /\ \/ /\ q.dst = n
              /\ Handled(p, n, registration(tbl[n], q, "MR"), {send_bu_ack(q, n)})
              /\ UNCHANGED <<got, abort>>
           \/ q.dst # n /\ Quietly(p, n, {on})

ha_recv_back(p, n) ==
    LET q == delete_tunnel(p)
        i == get_entry(tbl[n], "prefix", PrefixOf(q.dst))
    IN  /\ Arrives(p, "BACK", n)
        /\ \/ p.tun = <<>> /\ Quietly(p, n, {})
           \/ p.tun # <<>> /\ i = 0 /\ Aborted(p, "ha_prefix")
           \/ p.tun # <<>> /\ i # 0 /\ Quietly(p, n, {To(add_tunnel(q), tbl[n][i].caddr)})

\* Mutation: the home agent of the new uplink is not remembered.
ha_recv_rehome_forget(p, n) ==
    LET q == delete_tunnel(p)
        i == get_entry(tbl[n], "haddr", q.haddr)
    IN  /\ Arrives(p, "REHOME", n)
        /\ i # 0
        /\ Handled(p, n, [tbl[n] EXCEPT ![i].caddr = q.coa], {})
        /\ UNCHANGED <<got, abort>>

\* The broken uplink's home address is bound to the home address of the new
\* uplink, and that one to its home agent.
ha_recv_rehome(p, n) ==
    LET q == delete_tunnel(p)
        i == get_entry(tbl[n], "haddr", q.haddr)
        r == [q EXCEPT !.haddr = q.coa, !.coa = q.src]
    IN  /\ Arrives(p, "REHOME", n)
        /\ \/ i = 0 /\ Aborted(p, "ha_rehome")
           \/ /\ i # 0
              /\ Handled(p, n, registration([tbl[n] EXCEPT ![i].caddr = q.coa], r, "MR"), {})
              /\ UNCHANGED <<got, abort>>

\* Mutation: a packet for the agent itself is wrapped again.
HAForward_always_wrapped(q, n) == From(add_tunnel(q), n)

\* Neither prefix nor home address is known: on to the destination, or once more
\* to the agent itself, which then finds the next tunnel.
HAForward(q, n) == From(IF q.dst # n THEN add_tunnel(q) ELSE q, n)

\* The packet a home agent sends on for a packet of an application.
HAOut(p, n) ==
    LET t == tbl[n]
        q == delete_tunnel(p)
        i == get_entry(t, "prefix", PrefixOf(q.dst))
        j == get_entry(t, "haddr", p.haddr)
        kept == IF q.src # p.src THEN From(add_tunnel(q), p.src) ELSE q
        k == get_entry(t, "haddr", t[i].caddr)
    IN  IF i # 0
        THEN IF k = 0 THEN To(add_tunnel(kept), t[i].caddr)
             ELSE To(add_tunnel([kept EXCEPT !.haddr = t[k].haddr]), t[k].caddr)
        ELSE IF j # 0 THEN From(To(add_tunnel(q), t[j].caddr), n)
        ELSE HAForward(q, n)

ha_tunneling(p, n) == Arrives(p, "DATA", n) /\ Quietly(p, n, {HAOut(p, n)})

-----------------------------------------------------------------------------
(* Home agent of MN and CN.                                                *)

\* A BU at MN_HA, MN or CN; only the MN does not acknowledge it.
host_recv_bu(p, n) ==
    /\ Arrives(p, "BU", n)
    /\ Handled(p, n, registration(tbl[n], p, "MN"),
               IF n = "mn" THEN {} ELSE {send_bu_ack(p, n)})
    /\ UNCHANGED <<got, abort>>

\* recv_bu_ack changes nothing.
host_recv_back(p, n) == Arrives(p, "BACK", n) /\ Quietly(p, n, {})

\* Mutation: the packet is sent on without a tunnel.
mnha_tunneling_bare(p) ==
    LET q == delete_tunnels(p)
        e == tbl.mnha[get_entry(tbl.mnha, "haddr", q.dst)]
    IN  /\ Arrives(p, "DATA", "mnha")
        /\ Quietly(p, "mnha", {From(To(q, e.addr), p.src)})

mnha_tunneling(p) ==
    LET q == delete_tunnels(p)
        i == get_entry(tbl.mnha, "haddr", q.dst)
        e == tbl.mnha[i]
        r == To(add_tunnel(To(q, e.caddr)), e.addr)
    IN  /\ Arrives(p, "DATA", "mnha")
        /\ \/ i = 0 /\ Aborted(p, "home")
           \/ i # 0 /\ Quietly(p, "mnha", {IF Len(p.tun) > 1 THEN From(r, p.src) ELSE r})

(* MN and CN.                                                              *)

Home(n) == tbl[n][get_entry(tbl[n], "type", "MN_HA")]

Deliver(n, q, peer) ==
    /\ got' = got \cup {[at |-> n, peer |-> peer, left |-> Len(q.tun)]}
    /\ UNCHANGED abort

\* A packet from an unknown correspondent registers it and sends it a BU.
mn_tunneling(p) ==
    LET q == delete_tunnels(p)
        bu == NewPacket("BU", "mn", q.src, Home("mn").haddr, "mn")
    IN  /\ Arrives(p, "DATA", "mn")
        /\ IF get_entry(tbl.mn, "caddr", q.src) # 0
           THEN Handled(p, "mn", tbl.mn, {})
           ELSE Handled(p, "mn", registration(tbl.mn, From(q, p.src), "MN"),
                        {Inside(To(add_tunnel(To(add_tunnel(bu), p.src)), "nemo1"))})
        /\ Deliver("mn", q, q.src)

\* Mutation: a single tunnel is taken off.
cn_tunneling_one(p) ==
    LET q == delete_tunnel(p)
    IN  /\ Arrives(p, "DATA", "cn")
        /\ Handled(p, "cn", tbl.cn, {})
        /\ Deliver("cn", q, q.src)

cn_tunneling(p) ==
    LET q == delete_tunnels(p)
        bu == NewPacket("BU", "cn", q.src, Home("cn").haddr, "cn")
        known == get_entry(tbl.cn, "addr", p.src) # 0 \/ get_entry(tbl.cn, "caddr", q.src) # 0
    IN  /\ Arrives(p, "DATA", "cn")
        /\ IF known
           THEN Handled(p, "cn", tbl.cn, {})
           ELSE Handled(p, "cn", registration(tbl.cn, From(q, p.src), "MN"),
                        {To(add_tunnel(bu), p.src)})
        /\ Deliver("cn", q, q.src)

\* A packet without a route is dropped; any other may be lost.
Drop(p) ==
    /\ abort = "none"
    /\ Receiver(p) = "none"
    /\ Quietly(p, "mr", {})

Lose(p) ==
    /\ Lossy
    /\ abort = "none"
    /\ Quietly(p, "mr", {})

-----------------------------------------------------------------------------
(* Link events at the router.                                              *)

\* Mutation: the two home addresses are swapped.
re_homing_swapped(u) ==
    LET t == tbl.mr
        b == t[get_mr_ha_entry(t, "eface", u)]
        o == t[get_mr_ha_entry(t, "eface", 3 - u)]
        p == NewPacket("REHOME", o.addr, b.addr, o.haddr, b.haddr)
        m == get_entry(t, "type", "MN")
    IN  /\ tbl' = [tbl EXCEPT !.mr = [t EXCEPT ![m].caddr = o.caddr]]
        /\ net' = net \cup Via(o.eface, From(add_tunnel(p), o.caddr))
        /\ told' = [told EXCEPT ![u] = o.haddr]

\* re_homing: the home agent of the lost uplink learns the home address of the
\* other one; the MN's care-of address moves there.  Called for a link down and
\* again when the prefix of the dead link expires.
re_homing(u) ==
    LET t == tbl.mr
        b == t[get_mr_ha_entry(t, "eface", u)]
        o == t[get_mr_ha_entry(t, "eface", 3 - u)]
        p == NewPacket("REHOME", o.addr, b.addr, b.haddr, o.haddr)
        m == get_entry(t, "type", "MN")
    IN  /\ tbl' = [tbl EXCEPT !.mr = [t EXCEPT ![m].caddr = o.caddr]]
        /\ net' = net \cup Via(o.eface, From(add_tunnel(p), o.caddr))
        /\ told' = [told EXCEPT ![u] = o.haddr]

\* send_bu_msg(prefix, iface) at the router: get_entry_by_iface takes the first
\* entry with that uplink, which is the MN's once there is one.
send_bu_msg(u) ==
    LET t == tbl.mr
        i == get_entry(t, "eface", u)
        e == t[i]
        p == [NewPacket("BU", CoA[u], e.addr, e.haddr, CoA[u]) EXCEPT !.pfx = e.prefix]
    IN  /\ tbl' = [tbl EXCEPT !.mr = [t EXCEPT ![i].caddr = CoA[u]]]
        /\ net' = net \cup {add_tunnel(p)}
        /\ told' = IF e.type = "MR_HA" THEN [told EXCEPT ![u] = CoA[u]] ELSE told

\* The scenario loses no link before the MN has registered at the router.
LinkDown(u) ==
    /\ abort = "none"
    /\ u \in Flaky
    /\ link[u] = "up"
    /\ events < MaxLinkEvents
    /\ get_entry(tbl.mr, "type", "MN") # 0
    /\ link' = [link EXCEPT ![u] = "down"]
    /\ re_homing(u)
    /\ events' = events + 1
    /\ UNCHANGED <<got, abort, bound, data>>

\* Handover1 treats the expiry of the prefix as another link down.
PrefixExpired(u) ==
    /\ abort = "none"
    /\ link[u] = "down"
    /\ link' = [link EXCEPT ![u] = "expired"]
    /\ re_homing(u)
    /\ UNCHANGED <<got, abort, bound, events, data>>

\* The prefix is new, and announced, only if it had expired.
LinkUp(u) ==
    /\ abort = "none"
    /\ link' = [link EXCEPT ![u] = "up"]
    /\ \/ link[u] = "down" /\ UNCHANGED <<tbl, net, told>>
       \/ link[u] = "expired" /\ send_bu_msg(u)
    /\ UNCHANGED <<got, abort, bound, events, data>>

-----------------------------------------------------------------------------
(* Hosts.                                                                  *)

\* send_bu_msg(prefix, iface) at a node inside: the BU is tunnelled to the router.
HostBU(e) == Inside(To(add_tunnel(NewPacket("BU", "mn", e.addr, e.haddr, "mn")), "nemo1"))

\* The MN attaches once (ms_bs_enable).  It knows no CN yet: mn_send_bu_cn returns.
MNAttach ==
    /\ abort = "none"
    /\ bound' = bound \cup {"mn"}
    /\ "mn" \notin bound
    /\ LET i == get_entry(tbl.mn, "type", "MN_HA")
       IN  /\ tbl' = [tbl EXCEPT !.mn[i].caddr = "mn"]
           /\ net' = net \cup {HostBU(tbl.mn[i])}
    /\ UNCHANGED <<link, told, got, abort, events, data>>

\* The command binding: send_bu_msg() at the CN.
CNBinding ==
    /\ abort = "none"
    /\ "cn" \notin bound
    /\ bound' = bound \cup {"cn"}
    /\ LET e == tbl.cn[1]
       IN  net' = net \cup {add_tunnel(NewPacket("BU", "cn", e.addr, e.haddr, "cn"))}
    /\ UNCHANGED <<tbl, link, told, got, abort, events, data>>

\* The applications start seconds after both hosts have registered at home.
Sends(out) ==
    /\ abort = "none"
    /\ data < MaxData
    /\ \A h \in {"mnhoa", "cnhoa"} : get_entry(tbl.mnha, "haddr", h) # 0
    /\ data = 0 => \A p \in net : p.type \notin {"BU", "BACK"}
    /\ data' = data + 1
    /\ net' = net \cup out
    /\ UNCHANGED <<tbl, link, told, got, abort, bound, events>>

Heard(n) == \E d \in got : d.at = n

\* Either application may call the other at its home address; it answers, and
\* goes on, with the address it was called or answered from.
MNSend(d) ==
    LET p == add_tunnel(NewPacket("DATA", "mn", d, Zero, Zero))
        i == get_entry(tbl.mn, "caddr", d)
        h == Home("mn")
        q == IF i = 0 THEN To([p EXCEPT !.haddr = h.haddr, !.coa = h.caddr], h.addr)
             ELSE To(p, tbl.mn[i].addr)
    IN  /\ d \in {"cnhoa"} \cup {a \in {"cn"} : Heard("mn")}
        /\ Sends({Inside(To(add_tunnel(q), "nemo1"))})

CNSend(d) ==
    LET p == add_tunnel(NewPacket("DATA", "cn", d, Zero, Zero))
        i == get_entry(tbl.cn, "caddr", d)
        e == IF i = 0 THEN Home("cn") ELSE tbl.cn[i]
    IN  /\ d \in {"mnhoa"} \cup {a \in {"mn"} : Heard("cn")}
        /\ Sends({To([p EXCEPT !.haddr = e.haddr, !.coa = "cn"], e.addr)})

-----------------------------------------------------------------------------

\* Mutation: interfaces counted from the inner one.
UplinkEntry_shifted(u) ==
    [type |-> "MR_HA", addr |-> HA[u], haddr |-> HoA[u], caddr |-> CoA[u],
     prefix |-> Nemo[u], eface |-> u + 1]

\* set-mr, after the uplink's first send_bu_msg.
UplinkEntry(u) ==
    [type |-> "MR_HA", addr |-> HA[u], haddr |-> HoA[u], caddr |-> CoA[u],
     prefix |-> Nemo[u], eface |-> u]

\* set-mn and set-cn.
HomeEntry(hoa, eface) ==
    [type |-> "MN_HA", addr |-> "mnha", haddr |-> hoa, caddr |-> Unset,
     prefix |-> Unset, eface |-> eface]

Registered(u) ==
    [type |-> "MR", addr |-> Unset, haddr |-> HoA[u], caddr |-> CoA[u],
     prefix |-> Nemo[u], eface |-> 0]

Init ==
    /\ tbl = [n \in Nodes |->
                CASE n = "mr" -> <<UplinkEntry(2), UplinkEntry(1)>>
                  [] n = "ha1" -> <<Registered(1)>>
                  [] n = "ha2" -> <<Registered(2)>>
                  [] n = "mnha" -> <<>>
                  [] n = "mn" -> <<HomeEntry("mnhoa", 1)>>
                  [] n = "cn" -> <<HomeEntry("cnhoa", 0)>>]
    /\ net = {}
    /\ link = [u \in Uplinks |-> "up"]
    /\ told = CoA
    /\ got = {}
    /\ abort = "none"
    /\ bound = {}
    /\ events = 0
    /\ data = 0

\* The network and the agents.
Transport ==
    \/ \E p \in net : mr_recv_bu(p)
    \/ \E p \in net : mr_recv_back(p)
    \/ \E p \in net : mr_tunneling(p)
    \/ \E p \in net, n \in {"ha1", "ha2"} : ha_recv_bu(p, n)
    \/ \E p \in net, n \in {"ha1", "ha2"} : ha_recv_back(p, n)
    \/ \E p \in net, n \in {"ha1", "ha2"} : ha_recv_rehome(p, n)
    \/ \E p \in net, n \in {"ha1", "ha2"} : ha_tunneling(p, n)
    \/ \E p \in net, n \in Hosts : host_recv_bu(p, n)
    \/ \E p \in net, n \in Hosts : host_recv_back(p, n)
    \/ \E p \in net : mnha_tunneling(p)
    \/ \E p \in net : mn_tunneling(p)
    \/ \E p \in net : cn_tunneling(p)
    \/ \E p \in net : Drop(p)

Next ==
    \/ Transport
    \/ \E p \in net : Lose(p)
    \/ \E u \in Uplinks : LinkDown(u)
    \/ \E u \in Uplinks : PrefixExpired(u)
    \/ \E u \in Uplinks : LinkUp(u)
    \/ MNAttach
    \/ CNBinding
    \/ \E d \in {"cnhoa", "cn"} : MNSend(d)
    \/ \E d \in {"mnhoa", "mn"} : CNSend(d)

Spec == Init /\ [][Next]_vars

\* The scheduler runs every event: a packet that is not lost is handled.
FairSpec == Spec /\ WF_vars(Transport)

-----------------------------------------------------------------------------
(* Properties.                                                             *)

Packets == [type : {"BU", "BACK", "REHOME", "DATA"}, src : Addresses, dst : Addresses,
            haddr : Addresses, coa : Addresses, pfx : Addresses,
            tun : Seq(Addresses \X Addresses), zone : {"net", "nemo"}]

TypeOK ==
    /\ \A n \in Nodes : \A i \in DOMAIN tbl[n] : tbl[n][i] \in Entries
    /\ net \subseteq Packets
    /\ link \in [Uplinks -> {"up", "down", "expired"}]
    /\ told \in [Uplinks -> Addresses]
    /\ abort \in {"none", "mr_prefix", "mr_out", "ha_prefix", "ha_rehome", "home"}
    /\ bound \subseteq {"mn", "cn"}

\* Whether the handler of p starts with delete_tunnel.
NeedsTunnel(p) ==
    \/ Receiver(p) \in {"mr", "ha1", "ha2"} /\ p.type # "BACK"
    \/ Receiver(p) \in Hosts /\ p.type = "DATA"

\* assert(th->tunnels().size()) of delete_tunnel never fails: on every path,
\* over either uplink, before, during and after re-homing, each agent gets a
\* packet with a tunnel left to take off.
TunnelsMatch == \A p \in net : NeedsTunnel(p) => p.tun # <<>>

\* Whatever path a packet took, the agent of the receiver has taken off the
\* last tunnel and sees the address of its correspondent under it.
DeliveredClean ==
    \A d \in got : d.left = 0 /\ d.peer = (IF d.at = "mn" THEN "cn" ELSE "mn")

\* The entries that recv_nemo and tunneling use without a test, or assert, are
\* there: the uplink of a prefix, the uplink of the MN's care-of address, the
\* prefix an acknowledgement returns to, the home address in a REHOME.
EntriesFound == abort \in {"none", "home"}

\* Each home agent has the binding the router announced last.
Settled ==
    \A u \in Uplinks :
        LET t == tbl[HA[u]] IN t[get_entry(t, "haddr", HoA[u])].caddr = told[u]

\* Where the home agents would send a packet of the CN for the MN.
Inbound ==
    LET p == To(add_tunnel(NewPacket("DATA", "cn", "mn", "mnhoa", "cn")), HA[1])
        q == HAOut(p, HA[1])
    IN  IF q.dst = HA[2] THEN HAOut(q, HA[2]) ELSE q

\* Whenever the home agents know what the router announced last and an uplink
\* works, a packet for the MN is forwarded to the care-of address of a working
\* uplink, directly or through the other home agent.
InboundLive ==
    (Settled /\ \E u \in Uplinks : Up(u)) =>
        \E u \in Uplinks : Inbound.dst = CoA[u] /\ Up(u)

\* assert(bu!=NULL) of MN_HA's tunneling: an application packet that arrives
\* at the home agent is for a home address it serves.
HomeAssert == abort # "home"

\* No packet is forwarded for ever: tunnels between home agents do not loop.
Drains == <>[](net = {} \/ abort # "none")
=============================================================================
