----------------------------- MODULE SipSession -----------------------------
(***************************************************************************)
(* A SIP call from a correspondent node (CN) to a mobile node (MN) behind  *)
(* the mobile router, with every message in flight.                        *)
(*                                                                         *)
(* The router is SipBinding with select_ 0, two uplinks and one MN.  Around*)
(* it are the home agent of the MN (MN_HA), the home agent of the router   *)
(* (MR_HA), and mysipApp over UdpmysipAgent at both ends.  An INVITE goes  *)
(* to MN_HA, is redirected to MR_HA, redirected again to a care-of address *)
(* and forwarded inside; the 200 OK carries the MN's contact, to which the *)
(* CN then sends its data.  When an uplink is lost the router tells MR_HA  *)
(* and the CN its new contact (method 9).                                  *)
(*                                                                         *)
(* Each destination has a queue in the order of sending.  Packets on one   *)
(* path stay in order; what left through one uplink may overtake what left *)
(* through the other or came over the wire.  A packet that leaves through  *)
(* a dead uplink, or arrives for an address no uplink has, is lost.        *)
(***************************************************************************)
EXTENDS Integers, Sequences, FiniteSets

CONSTANTS
    MN, CN, MN_HA, MR_HA,
    MR_IN,        \* the ingress interface of the router
    Prefixes,     \* prefixes the uplinks get their addresses from
    None,         \* the contact -1
    Frags,        \* packets per data message: pktsize_ / size_
    MaxChanges,   \* bound: link changes
    MaxRegs,      \* bound: registrations of the MN
    MaxData,      \* bound: data messages
    MaxLoss       \* bound: data packets lost on the last hop

Uplinks == 1..2

VARIABLES
    con, mnlist, mncon, cns, round_count, weight_count, weight_count2,
    status, late, sent, \* the router, see SipBinding
    net,               \* net[d]: the packets on their way to d
    mnha,              \* has MN_HA an entry for the MN?
    halist, hacon,     \* the SIP_MR entries of MR_HA, newest first, and contacts
    cn,                \* mysipApp of the CN
    asm,               \* asm_info of the MN
    got, app,          \* history: packets that reached the MN, messages its app got
    calm,              \* history: the call began with all at rest and no change since
    outage,            \* history: were all uplinks lost at some time?
    crossed,           \* history: nodes where a contact overtook an older one
    fault,             \* a home agent read through a null entry
    changes, regs, lost \* how much of the bounds is used

router == <<con, mnlist, mncon, cns, round_count, weight_count, weight_count2,
            status, late, sent>>
agents == <<mnha, halist, hacon, fault>>
ends == <<cn, asm, got, app>>
vars == <<router, net, agents, ends, calm, outage, crossed, changes, regs, lost>>

MR == INSTANCE SipBinding WITH
          NumUplinks <- 2, MNs <- {MN}, CNs <- {CN}, Select <- 0,
          HomeUplink <- [m \in {MN} |-> 1], Readdress <- FALSE, RoundMod <- 2,
          MaxLate <- MaxChanges + 1

Addrs == Uplinks \X Prefixes
Dests == {MN, CN, MN_HA, MR_HA, MR_IN} \cup Addrs

\* The nodes have different addresses, none of them a care-of address.
ASSUME NodesAssumption ==
    /\ None \notin Dests \cup Uplinks
    /\ {MN, CN, MN_HA, MR_HA, MR_IN} \cap Addrs = {}
    /\ MN \notin {CN, MN_HA, MR_HA, MR_IN}
    /\ CN \notin {MN_HA, MR_HA, MR_IN}
    /\ MN_HA \notin {MR_HA, MR_IN} /\ MR_HA # MR_IN
ASSUME BoundsAssumption ==
    /\ Frags \in Nat \ {0}
    /\ MaxChanges \in Nat /\ MaxRegs \in Nat /\ MaxData \in Nat /\ MaxLoss \in Nat

\* Bytes: a data packet, and a signalling message, which fits in one packet.
Size == 10
SigBytes == 1

\* A signalling packet (ack = 1, seq = -2) on path 0, the wire, or an uplink; id
\* tells MR_HA the uplink.
Sig(path, method, contact, id) ==
    [path |-> path, method |-> method, contact |-> contact, id |-> id, seq |-> -2,
     frag |-> 0]

\* sendmsg: data message s, one packet per Size bytes.
Data(s) ==
    [f \in 1..Frags |->
        [path |-> 0, method |-> 7, contact |-> CN, id |-> 0, seq |-> s, frag |-> f]]

Msgs ==
    [path : 0..2, method : {0, 1, 5, 6, 7, 9}, contact : Dests \cup {None}, id : 0..2,
     seq : {-2} \cup 0..MaxData, frag : 0..Frags]

Live == MR!Live(con)
LiveAddrs == {con[u] : u \in Live}

Put(n, d, ms) == [n EXCEPT ![d] = @ \o ms]

\* The packets for d that may arrive next: the oldest of each path.
Arrivals(d) ==
    {k \in DOMAIN net[d] : \A j \in 1..(k - 1) : net[d][j].path # net[d][k].path}

Without(s, k) == [i \in 1..(Len(s) - 1) |-> IF i < k THEN s[i] ELSE s[i + 1]]
Take(d, k) == [net EXCEPT ![d] = Without(@, k)]

\* Does packet k for d overtake one with another contact for the same entry?
Overtakes(d, k) ==
    \E j \in 1..(k - 1) :
        /\ {net[d][j].method, net[d][k].method} \subseteq {1, 5, 9}
        /\ net[d][j].id = net[d][k].id /\ net[d][j].contact # net[d][k].contact
NoteCrossing(d, k) == crossed' = IF Overtakes(d, k) THEN crossed \cup {d} ELSE crossed

\* What the router sends through uplink u gets out while u is up.
Via(u, method, contact, id) ==
    IF con[u] # None THEN <<Sig(u, method, contact, id)>> ELSE <<>>

Running == status = "run" /\ ~fault

-----------------------------------------------------------------------------
(* The router and its links.                                               *)

Change ==
    /\ changes < MaxChanges
    /\ changes' = changes + 1
    /\ calm' = FALSE

\* send_reg_msg: the uplink has a new address; its REGISTER is sent 0.1 s later.
new_address(u) ==
    /\ Running
    /\ Change
    /\ MR!NewAddress(u)
    /\ UNCHANGED <<net, agents, ends, outage, crossed, regs, lost>>

\* The scheduler hands the REGISTER to the entry of the interface.
late_register ==
    /\ Running
    /\ MR!late_register
    /\ LET a == Head(late)
       IN  net' = Put(net, MR_HA, Via(a[1], 5, a, a[1]))
    /\ UNCHANGED <<agents, ends, calm, outage, crossed, changes, regs, lost>>

\* Mutation: only MR_HA is told.
link_down_cn_not_told(u) ==
    /\ Running
    /\ Change
    /\ con[u] # None /\ mnlist # <<>>
    /\ MR!re_homing(u)
    /\ net' = Put(net, MR_HA, Via(MR!Other(u), 9, con[MR!Other(u)], u))
    /\ outage' = (outage \/ MR!Live(con') = {})
    /\ UNCHANGED <<agents, ends, crossed, regs, lost>>

\* Mutation: only the CN is told.
link_down_ha_not_told(u) ==
    /\ Running
    /\ Change
    /\ con[u] # None /\ mnlist # <<>>
    /\ MR!re_homing(u)
    /\ net' = IF cns = {} THEN net
              ELSE Put(net, CN, Via(MR!Other(u), 9, mncon'[MN], 0))
    /\ outage' = (outage \/ MR!Live(con') = {})
    /\ UNCHANGED <<agents, ends, crossed, regs, lost>>

\* re_homing: MR_HA gets the contact of the other uplink for the broken one, and
\* the CN, if it has an entry, the new contact of the MN.
link_down(u) ==
    /\ Running
    /\ Change
    /\ con[u] # None /\ mnlist # <<>>
    /\ MR!re_homing(u)
    /\ LET o == MR!Other(u)
           n == Put(net, MR_HA, Via(o, 9, con[o], u))
       IN  net' = IF cns = {} THEN n ELSE Put(n, CN, Via(o, 9, mncon'[MN], 0))
    /\ outage' = (outage \/ MR!Live(con') = {})
    /\ UNCHANGED <<agents, ends, crossed, regs, lost>>

\* recv on a SIP_MR of a packet from the inside.  A REGISTER leaves through the
\* uplink of the MN's prefix with the router's URL as contact, a 200 OK through
\* the owner of the MN's contact.
mr_recv_inside ==
    /\ Running
    /\ \E k \in Arrivals(MR_IN) :
          LET m == net[MR_IN][k]
          IN  \/ /\ m.method = 5
                 /\ MR!recv_register(MN)
                 /\ \E p \in sent' :
                       net' = Put(Take(MR_IN, k), MN_HA, Via(p.via, 5, MR_HA, 0))
              \/ /\ m.method = 1
                 /\ MR!recv_200ok_from_mn(CN, MN)
                 /\ IF status' # "run" THEN net' = net
                    ELSE \E p \in sent' :
                            net' = Put(Take(MR_IN, k), CN, Via(p.via, 1, mncon[MN], 0))
    /\ UNCHANGED <<agents, ends, calm, outage, crossed, changes, regs, lost>>

\* A packet for a care-of address: INVITE and data go inside, and what comes for
\* an old address is not received.
mr_recv_outside(a) ==
    /\ Running
    /\ \E k \in Arrivals(a) :
          \/ /\ con[a[1]] = a
             /\ MR!recv_from_cn(CN, MN)
             /\ net' = Put(Take(a, k), MN, <<net[a][k]>>)
          \/ /\ con[a[1]] # a
             /\ net' = Take(a, k)
             /\ UNCHANGED router
    /\ UNCHANGED <<agents, ends, calm, outage, crossed, changes, regs, lost>>

-----------------------------------------------------------------------------
(* The home agents.                                                        *)

\* recv on a SIP_MN_HA: REGISTER, and INVITE, which is redirected to the contact
\* of the MN's entry: the home URL of the router.  Without an entry the lookup of
\* a SIP_MR entry finds none either and is not checked.
mn_ha_recv ==
    /\ Running
    /\ \E k \in Arrivals(MN_HA) :
          LET m == net[MN_HA][k]
          IN  \/ /\ m.method = 5
                 /\ mnha' = TRUE
                 /\ net' = Take(MN_HA, k)
                 /\ UNCHANGED fault
              \/ /\ m.method = 0 /\ mnha
                 /\ net' = Put(Take(MN_HA, k), CN, <<Sig(0, 6, MR_HA, 0)>>)
                 /\ UNCHANGED <<mnha, fault>>
              \/ /\ m.method = 0 /\ ~mnha
                 /\ fault' = TRUE
                 /\ UNCHANGED <<mnha, net>>
    /\ UNCHANGED <<router, halist, hacon, ends, calm, outage, crossed, changes, regs, lost>>

\* recv on a SIP_MR_HA: REGISTER and method 9 set the contact of the uplink's
\* entry (a new one goes to the head); an INVITE names the MN, for which there is
\* no entry, and is redirected to the contact of the first SIP_MR entry.
mr_ha_recv ==
    /\ Running
    /\ \E k \in Arrivals(MR_HA) :
          LET m == net[MR_HA][k]
              known == \E i \in DOMAIN halist : halist[i] = m.id
          IN  /\ NoteCrossing(MR_HA, k)
              /\ \/ /\ m.method \in {5, 9}
                    /\ halist' = IF known THEN halist ELSE <<m.id>> \o halist
                    /\ hacon' = [hacon EXCEPT ![m.id] = m.contact]
                    /\ net' = Take(MR_HA, k)
                    /\ UNCHANGED fault
                 \/ /\ m.method = 0 /\ halist # <<>>
                    /\ net' = Put(Take(MR_HA, k), CN, <<Sig(0, 6, hacon[Head(halist)], 0)>>)
                    /\ UNCHANGED <<halist, hacon, fault>>
                 \/ /\ m.method = 0 /\ halist = <<>>
                    /\ fault' = TRUE
                    /\ UNCHANGED <<halist, hacon, net>>
    /\ UNCHANGED <<router, mnha, ends, calm, outage, changes, regs, lost>>

-----------------------------------------------------------------------------
(* The correspondent node.                                                 *)

AtRest ==
    /\ \A d \in Dests : net[d] = <<>>
    /\ late = <<>>

\* send_invite: start() aims the application at the URL of the MN.  The scenarios
\* give the command once.
cn_invite ==
    /\ Running
    /\ ~cn.started
    /\ cn' = [cn EXCEPT !.started = TRUE]
    /\ net' = Put(net, MN_HA, <<Sig(0, 0, CN, 0)>>)
    /\ calm' = (AtRest /\ mnha /\ ~outage /\ crossed = {} /\ Live # {} /\ mncon[MN] # None)
    /\ UNCHANGED <<router, agents, asm, got, app, outage, crossed, changes, regs, lost>>

\* send_mysip_data: the next data message, to the contact of the peer.
Talk(n, c) ==
    /\ net' = IF c.seq < MaxData THEN Put(n, c.dst, Data(c.seq)) ELSE n
    /\ cn' = [c EXCEPT !.seq = IF c.seq < MaxData THEN @ + 1 ELSE @]

\* snd_timer_ expires.
cn_send_data ==
    /\ Running
    /\ cn.talking /\ cn.seq < MaxData
    /\ Talk(net, cn)
    /\ UNCHANGED <<router, agents, asm, got, app, calm, outage, crossed, changes, regs,
                   lost>>

\* Mutation: the INVITE is sent again to the URL it was sent to.
invite_to_temp_move_same(n, m) == Put(n, cn.dst, <<Sig(0, 0, CN, 0)>>)

\* send_invite_to_temp_move_pkt on a SIP_CN: INVITE the contact of the 302.
invite_to_temp_move(n, m) == Put(n, m.contact, <<Sig(0, 0, CN, 0)>>)

\* recv on a SIP_CN and recv_msg of its application.  The 200 OK starts the data.
\* (The ACK that follows has no branch in recv of the router and is left out.)
cn_recv ==
    /\ Running
    /\ \E k \in Arrivals(CN) :
          LET m == net[CN][k]
          IN  /\ NoteCrossing(CN, k)
              /\ \/ /\ m.method = 6
                    /\ net' = invite_to_temp_move(Take(CN, k), m)
                    /\ UNCHANGED cn
                 \/ /\ m.method = 1
                    /\ Talk(Take(CN, k), [cn EXCEPT !.talking = TRUE, !.dst = m.contact])
                 \/ /\ m.method = 9
                    /\ net' = Take(CN, k)
                    /\ cn' = [cn EXCEPT !.dst = m.contact]
    /\ UNCHANGED <<router, agents, asm, got, app, calm, outage, changes, regs, lost>>

-----------------------------------------------------------------------------
(* The mobile node.                                                        *)

\* send_reg_msg after a new prefix.
mn_register ==
    /\ Running
    /\ regs < MaxRegs
    /\ regs' = regs + 1
    /\ calm' = FALSE
    /\ net' = Put(net, MR_IN, <<Sig(0, 5, MN, 0)>>)
    /\ UNCHANGED <<router, agents, ends, outage, crossed, changes, lost>>

\* Mutation: a packet of another message does not start the count anew.
Reassemble_no_reset(m, bytes, nbytes) ==
    [seq |-> IF m.seq = -2 THEN asm.seq ELSE m.seq, t |-> nbytes,
     r |-> IF asm.r = asm.t THEN bytes ELSE asm.r + bytes]

\* Mutation: a signalling packet starts a message like any other.
Reassemble_signalling(m, bytes, nbytes) ==
    IF m.seq = asm.seq THEN [asm EXCEPT !.r = @ + bytes]
                       ELSE [seq |-> m.seq, t |-> nbytes, r |-> bytes]

\* asm_info after packet m of a message of nbytes: packets with the sequence number
\* of the buffer add up, a signalling packet (ack) overwrites the byte counts and
\* leaves the sequence number, any other packet starts a message.
Reassemble(m, bytes, nbytes) ==
    CASE m.seq = asm.seq -> [asm EXCEPT !.r = @ + bytes]
      [] m.seq # asm.seq /\ m.seq = -2 -> [asm EXCEPT !.t = nbytes, !.r = bytes]
      [] m.seq # asm.seq /\ m.seq # -2 -> [seq |-> m.seq, t |-> nbytes, r |-> bytes]

\* recv on a SIP_MN, and recv_msg once the message is complete: an INVITE is
\* answered by a 200 OK, data is counted.
mn_recv ==
    /\ Running
    /\ \E k \in Arrivals(MN) :
          LET m == net[MN][k]
              n == Take(MN, k)
          IN  \/ /\ m.method = 0
                 /\ asm' = Reassemble(m, SigBytes, SigBytes)
                 /\ net' = IF asm'.t = asm'.r THEN Put(n, MR_IN, <<Sig(0, 1, MN, 0)>>) ELSE n
                 /\ UNCHANGED <<got, app>>
              \/ /\ m.method = 7
                 /\ asm' = Reassemble(m, Size, Frags * Size)
                 /\ net' = n
                 /\ got' = got \cup {<<m.seq, m.frag>>}
                 /\ app' = IF asm'.t = asm'.r THEN app \cup {m.seq} ELSE app
    /\ UNCHANGED <<router, agents, cn, calm, outage, crossed, changes, regs, lost>>

\* A data packet is lost on the last hop.
lose_data ==
    /\ Running
    /\ lost < MaxLoss
    /\ \E k \in Arrivals(MN) : net[MN][k].method = 7 /\ net' = Take(MN, k)
    /\ lost' = lost + 1
    /\ UNCHANGED <<router, agents, ends, calm, outage, crossed, changes, regs>>

-----------------------------------------------------------------------------

Init ==
    /\ MR!Init
    /\ net = [d \in Dests |-> <<>>]
    /\ mnha = FALSE
    /\ halist = <<>>
    /\ hacon = [u \in Uplinks |-> None]
    /\ cn = [started |-> FALSE, dst |-> MN_HA, seq |-> 0, talking |-> FALSE]
    /\ asm = [seq |-> -1, t |-> 0, r |-> 0]
    /\ got = {} /\ app = {}
    /\ calm = FALSE /\ outage = FALSE /\ crossed = {} /\ fault = FALSE
    /\ changes = 0 /\ regs = 0 /\ lost = 0

\* Steps the simulator's scheduler takes by itself.
Deliver ==
    \/ mr_recv_inside
    \/ \E a \in Addrs : mr_recv_outside(a)
    \/ mn_ha_recv
    \/ mr_ha_recv
    \/ cn_recv
    \/ mn_recv

Next ==
    \/ Deliver
    \/ \E u \in Uplinks : new_address(u) \/ link_down(u)
    \/ late_register
    \/ cn_invite
    \/ cn_send_data
    \/ mn_register
    \/ lose_data

\* The scheduler goes on while packets are on their way or scheduled; links, commands
\* and timers of the application are free.
Fairness == WF_vars(Deliver \/ late_register)

Spec == Init /\ [][Next]_vars /\ Fairness

-----------------------------------------------------------------------------
(* Properties.                                                             *)

\* The methods a node has a branch for.
Handled(d) ==
    CASE d = MR_IN -> {1, 5}
      [] d = MN_HA -> {0, 5}
      [] d = MR_HA -> {0, 5, 9}
      [] d = CN -> {1, 6, 9}
      [] d \in Addrs \cup {MN} -> {0, 7}

\* Every packet is of a kind the node it is on its way to handles.
TypeOK ==
    /\ net \in [Dests -> Seq(Msgs)]
    /\ \A d \in Dests : \A k \in DOMAIN net[d] : net[d][k].method \in Handled(d)
    /\ late \in Seq(Addrs)
    /\ crossed \subseteq {CN, MR_HA}
    /\ halist \in Seq(Uplinks) /\ Len(halist) <= 2
    /\ hacon \in [Uplinks -> Addrs \cup {None}]
    /\ cn \in [started : BOOLEAN, dst : Dests, seq : 0..MaxData, talking : BOOLEAN]
    /\ asm \in [seq : -1..MaxData, t : {0, SigBytes, Frags * Size},
                r : 0..(SigBytes + Frags * Size)]

\* The asserts on the MN's and the CN's entries in recv of the router never fail
\* in a call, however links and messages interleave: a CN learns a care-of address
\* only after the MN's REGISTER passed the router, and the 200 OK follows an
\* INVITE that passed it.
PeersKnown == status # "no_peer"

\* The application of the MN gets a data message only when all its packets came,
\* whatever was lost, overtaken on another uplink or mixed with signalling.
DeliveredWhole ==
    \A s \in app : \A f \in 1..Frags : <<s, f>> \in got

\* The contact a CN sends its data to ends up being the address of a live uplink: no
\* re_homing, and no 200 OK sent at the same time, leaves the CN with an old address,
\* unless all uplinks were lost together or one of the two overtook the other (the
\* messages have no order of their own).
ReachesRouter ==
    <>[](Running /\ ~outage /\ CN \notin crossed /\ cn.dst \in Addrs
            => cn.dst \in LiveAddrs)

\* With the same two exceptions every entry of MR_HA ends up with the address of a
\* live uplink, although REGISTERs are sent 0.1 s late and method 9 at once.
HomeFollows ==
    <>[](Running /\ ~outage /\ MR_HA \notin crossed =>
            \A k \in DOMAIN halist : hacon[halist[k]] \in LiveAddrs)

\* A call that begins with all packets delivered, none overtaken, and a live contact
\* for the MN is answered, through both redirections, unless a link changes meanwhile.
CallConnects == calm ~> (~calm \/ cn.talking \/ ~Running)
=============================================================================
