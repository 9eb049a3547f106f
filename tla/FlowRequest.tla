---------------------------- MODULE FlowRequest ----------------------------
(***************************************************************************)
(* The flow request protocol of MIPV6Agent.  When InfocomHandover finds a  *)
(* better interface, the mobile node asks the base station there to accept *)
(* its flows; a timer resends the request until a response comes; a        *)
(* response with the current sequence number moves the accepted flows and  *)
(* tells each flow's remote agent the new address (redirect message).      *)
(* When a link is lost, its flows are moved without asking anyone.         *)
(*                                                                         *)
(* Packets carry pointers to the node's FlowEntry objects, not copies: the *)
(* fields tmp_iface and redirect_ have the value of the moment at which a  *)
(* packet is RECEIVED, and the base station writes redirect_ of the mobile *)
(* node.  Packets on the air (net) may be lost or overtake each other.     *)
(***************************************************************************)
EXTENDS Integers, FiniteSets, Bags

CONSTANTS
    Flows,        \* the flows of the mobile node
    Ifaces,       \* its interfaces
    Quality,      \* Quality[i], by link type: 0 UMTS, 1 802.11, 2 Ethernet
    MaxSeq,       \* bound on the sequence number: that many answered requests
    MaxNet,       \* bound on the packets on the air: a further one is dropped
    MaxListed,    \* list_nodes counts a flow on an interface up to this number
    MaxLinks      \* bound on the changes of the links

ASSUME FlowRequestAssumption ==
    /\ Quality \in [Ifaces -> 0..2]
    /\ MaxSeq \in Nat /\ MaxNet \in Nat \ {0} /\ MaxListed \in Nat \ {0}
    /\ MaxLinks \in Nat

VARIABLES
    iface,        \* iface[f]: FlowEntry.iface_
    tmp_iface,    \* tmp_iface[f]: the interface asked for last
    redirect,     \* redirect[f]: redirect_
    dst,          \* dst[f]: the interface the remote agent sends to (dst_addr_)
    seq,          \* seqNumberFlowRequest_
    timer,        \* flows and iface of flowRequestTimer_; no flows when it is idle
    net,          \* bag of packets on the air
    list_nodes,   \* list_nodes[f][i]: entries for f on i at the base stations
    status,       \* status[i]: link status of the MIH function
    connecting,   \* {connectingMac_}, or {} when it is NULL
    displaced,    \* history: flows moved by the loss of a link and not asked for since
    crashed,      \* the simulator stopped in process_link_down
    links         \* how much of MaxLinks is used

flow == <<iface, tmp_iface, redirect, dst>>
link == <<status, connecting, crashed, links>>
vars == <<flow, seq, timer, net, list_nodes, link, displaced>>

Freq(F, s, i) == [type |-> "freq", flows |-> F, seq |-> s, iface |-> i]
Fres(F, s, i) == [type |-> "fres", flows |-> F, seq |-> s, iface |-> i]
Rred(f, i) == [type |-> "rred", flow |-> f, dest |-> i]

Packets ==
    [type : {"freq", "fres"}, flows : (SUBSET Flows) \ {{}}, seq : 0..MaxSeq, iface : Ifaces]
        \cup [type : {"rred"}, flow : Flows, dest : Ifaces]

\* The packets of the set P that fit on the air are added to n.
Sent(n, P) ==
    IF BagCardinality(n) + Cardinality(P) <= MaxNet THEN n (+) SetToBag(P) ELSE n

Received(p) == net (-) SetToBag({p})

OnAir(type) == {p \in BagToSet(net) : p.type = type}

Linked(i) == status[i] # "down"

\* The set P of packets if they are sent through, or to, a link that is there.
Over(i, P) == IF Linked(i) THEN P ELSE {}

-----------------------------------------------------------------------------

\* send_flow_request through interface i: the sequence number is not advanced here;
\* the timer is restarted with these flows, whatever it was pending for.
send_flow_request(F, i) ==
    /\ timer' = [flows |-> F, iface |-> i]
    /\ net' = Sent(net, Over(i, {Freq(F, seq, i)}))

\* Mutation: every flow is to move, whatever the quality of its interface.
process_new_prefix_any(i) ==
    /\ seq < MaxSeq
    /\ Linked(i)
    /\ tmp_iface' = [f \in Flows |-> i]
    /\ displaced' = {}
    /\ send_flow_request(Flows, i)
    /\ UNCHANGED <<iface, redirect, dst, seq, list_nodes, link>>

\* InfocomHandover::process_new_prefix on interface i: the flows on interfaces
\* of lower quality are to move to i.
process_new_prefix(i) ==
    LET F == {f \in Flows : Quality[iface[f]] < Quality[i]}
    IN  /\ seq < MaxSeq
        /\ Linked(i)
        /\ F # {}
        /\ tmp_iface' = [f \in Flows |-> IF f \in F THEN i ELSE tmp_iface[f]]
        /\ displaced' = displaced \ F
        /\ send_flow_request(F, i)
        /\ UNCHANGED <<iface, redirect, dst, seq, list_nodes, link>>

\* FlowRequestTimer::expire.
expire ==
    /\ ~crashed
    /\ timer.flows # {}
    /\ send_flow_request(timer.flows, timer.iface)
    /\ UNCHANGED <<flow, seq, list_nodes, link, displaced>>

-----------------------------------------------------------------------------
(* The link events of InfocomHandover.  The MIH function has set the status *)
(* of the interface before it calls the handler.                            *)

LinkChange(i, s) ==
    /\ links < MaxLinks
    /\ links' = links + 1
    /\ status' = [status EXCEPT ![i] = s]

\* An interface that is up or connecting makes a connection through i needless.
Needless(i) ==
    \E j \in Ifaces :
        /\ status[j] = "up" \/ j \in connecting
        /\ Quality[j] = 2 \/ (Quality[j] = 1 /\ Quality[i] # 2)

\* process_link_detected: only an 802.11 interface connects.  Nothing but link up
\* of the same interface ends the attempt.
process_link_detected(i) ==
    /\ status[i] = "down" /\ Quality[i] = 1
    /\ ~Needless(i)
    /\ connecting' = {i}
    /\ UNCHANGED <<flow, seq, timer, net, list_nodes, status, crashed, links, displaced>>

process_link_up(i) ==
    /\ status[i] = "down"
    /\ LinkChange(i, "up")
    /\ connecting' = connecting \ {i}
    /\ UNCHANGED <<flow, seq, timer, net, list_nodes, crashed, displaced>>

\* The handler does nothing, but the interface does not count as up any more.
process_link_going_down(i) ==
    /\ status[i] = "up" /\ Quality[i] = 1
    /\ LinkChange(i, "going_down")
    /\ UNCHANGED <<flow, seq, timer, net, list_nodes, connecting, crashed, displaced>>

\* The interfaces that can take over from i: one of the best of those that are up.
Best(i) ==
    LET U == {j \in Ifaces \ {i} : status[j] = "up"}
    IN  {j \in U : \A k \in U : Quality[k] <= Quality[j]}

\* A response on its way to interface i is lost with the link.
Cut(i) == [p \in {q \in DOMAIN net : ~(q.type = "fres" /\ q.iface = i)} |-> net[p]]

\* process_link_down.  The first lines print through a pointer that is not set yet:
\* the program stops, or goes on.  While another interface is connecting nothing is
\* done; otherwise the flows of i are moved to one of the best interfaces and their
\* remote agents told.  Requests made for them before stay as they are.
process_link_down(i) ==
    /\ Linked(i)
    /\ LinkChange(i, "down")
    /\ \/ /\ crashed' = TRUE
          /\ UNCHANGED <<iface, net, displaced>>
       \/ /\ connecting # {} \/ Best(i) = {}
          /\ net' = Cut(i)
          /\ UNCHANGED <<iface, displaced, crashed>>
       \/ /\ connecting = {}
          /\ \E j \in Best(i) :
                LET F == {f \in Flows : iface[f] = i}
                IN  /\ iface' = [f \in Flows |-> IF f \in F THEN j ELSE iface[f]]
                    /\ net' = Sent(Cut(i), {Rred(f, j) : f \in F})
                    /\ displaced' = displaced \cup F
          /\ UNCHANGED crashed
    /\ UNCHANGED <<tmp_iface, redirect, dst, seq, timer, list_nodes, connecting>>

-----------------------------------------------------------------------------

Listed(n) == IF n < MaxListed THEN n + 1 ELSE n

\* Mutation: a refusal does not reset redirect_.
recv_flow_request_no_reset(p, ok) ==
    /\ redirect' = [f \in Flows |-> (ok /\ f \in p.flows) \/ redirect[f]]
    /\ list_nodes' =
          [f \in Flows |-> [i \in Ifaces |->
              IF ok /\ f \in p.flows /\ i = tmp_iface[f]
              THEN Listed(list_nodes[f][i]) ELSE list_nodes[f][i]]]
    /\ net' = Sent(Received(p), Over(p.iface, {Fres(p.flows, p.seq, p.iface)}))
    /\ UNCHANGED <<iface, tmp_iface, dst, seq, timer, link, displaced>>

\* recv_flow_request at a base station.  It refuses when the interface is
\* associated with BSS 8, which is an input here.
recv_flow_request(p, ok) ==
    /\ redirect' = [f \in Flows |-> IF f \in p.flows THEN ok ELSE redirect[f]]
    /\ list_nodes' =
          [f \in Flows |-> [i \in Ifaces |->
              IF ok /\ f \in p.flows /\ i = tmp_iface[f]
              THEN Listed(list_nodes[f][i]) ELSE list_nodes[f][i]]]
    /\ net' = Sent(Received(p), Over(p.iface, {Fres(p.flows, p.seq, p.iface)}))
    /\ UNCHANGED <<iface, tmp_iface, dst, seq, timer, link, displaced>>

\* The timer is cancelled.
Idle == [timer EXCEPT !.flows = {}]

\* Mutation: the sequence number advances on stale responses too.
recv_flow_response_any_seq(p) ==
    /\ timer' = Idle
    /\ seq' = seq + 1
    /\ net' = Received(p)
    /\ UNCHANGED <<flow, list_nodes, link, displaced>>

\* Mutation: a response that refuses every flow is not taken for an answer.
recv_flow_response_refusal_ignored(p) ==
    LET A == {f \in p.flows : redirect[f]}
        counts == p.seq = seq /\ A # {}
    IN  /\ timer' = IF counts THEN Idle ELSE timer
        /\ seq' = IF counts THEN seq + 1 ELSE seq
        /\ iface' = [f \in Flows |-> IF counts /\ f \in A THEN tmp_iface[f] ELSE iface[f]]
        /\ displaced' = IF counts THEN displaced \ A ELSE displaced
        /\ net' = Received(p)
        /\ UNCHANGED <<tmp_iface, redirect, dst, list_nodes, link>>

\* recv_flow_response: any response stops the timer; one with the current
\* sequence number moves the flows that are marked.
recv_flow_response(p) ==
    LET A == {f \in p.flows : redirect[f]}
    IN  /\ timer' = Idle
        /\ \/ /\ p.seq = seq
              /\ iface' = [f \in Flows |-> IF f \in A THEN tmp_iface[f] ELSE iface[f]]
              /\ net' = Sent(Received(p),
                             {Rred(f, tmp_iface[f]) : f \in {g \in A : Linked(tmp_iface[g])}})
              /\ displaced' = displaced \ A
              /\ seq' = seq + 1
           \/ /\ p.seq # seq
              /\ net' = Received(p)
              /\ UNCHANGED <<iface, displaced, seq>>
        /\ UNCHANGED <<tmp_iface, redirect, dst, list_nodes, link>>

\* recv_redirect at the remote node; the acknowledgement it sends is ignored by
\* recv_redirect_ack and left out.
recv_redirect(p) ==
    /\ dst' = [dst EXCEPT ![p.flow] = p.dest]
    /\ net' = Received(p)
    /\ UNCHANGED <<iface, tmp_iface, redirect, seq, timer, list_nodes, link, displaced>>

Lose(p) ==
    /\ net' = Received(p)
    /\ UNCHANGED <<flow, seq, timer, list_nodes, link, displaced>>

-----------------------------------------------------------------------------

\* Every flow starts on the one interface that is up, of the lowest quality.
Init ==
    /\ \E i \in Ifaces :
          /\ \A j \in Ifaces : Quality[i] <= Quality[j]
          /\ iface = [f \in Flows |-> i]
          /\ status = [j \in Ifaces |-> IF j = i THEN "up" ELSE "down"]
          /\ timer = [flows |-> {}, iface |-> i]
    /\ tmp_iface = iface
    /\ dst = iface
    /\ redirect = [f \in Flows |-> FALSE]
    /\ seq = 0
    /\ net = EmptyBag
    /\ list_nodes = [f \in Flows |-> [i \in Ifaces |-> 0]]
    /\ connecting = {} /\ displaced = {} /\ crashed = FALSE /\ links = 0

RecvRequest == ~crashed /\ \E p \in OnAir("freq"), ok \in BOOLEAN : recv_flow_request(p, ok)
RecvResponse == ~crashed /\ \E p \in OnAir("fres") : recv_flow_response(p)
RecvRedirect == ~crashed /\ \E p \in OnAir("rred") : recv_redirect(p)

Handover(i) ==
    /\ ~crashed
    /\ \/ process_new_prefix(i)
       \/ process_link_detected(i)
       \/ process_link_up(i)
       \/ process_link_going_down(i)
       \/ process_link_down(i)

Next ==
    \/ \E i \in Ifaces : Handover(i)
    \/ expire
    \/ RecvRequest
    \/ RecvResponse
    \/ RecvRedirect
    \/ ~crashed /\ \E p \in BagToSet(net) : Lose(p)

\* The scheduler fires a pending timer; a redirect arrives or is lost; and of packets
\* that are sent again and again some get through.
Fairness ==
    /\ WF_vars(expire) /\ WF_vars(RecvRedirect)
    /\ SF_vars(RecvRequest) /\ SF_vars(RecvResponse)

Spec == Init /\ [][Next]_vars /\ Fairness

-----------------------------------------------------------------------------
(* Properties.                                                             *)

TypeOK ==
    /\ iface \in [Flows -> Ifaces]
    /\ tmp_iface \in [Flows -> Ifaces]
    /\ redirect \in [Flows -> BOOLEAN]
    /\ dst \in [Flows -> Ifaces]
    /\ seq \in 0..MaxSeq
    /\ timer \in [flows : SUBSET Flows, iface : Ifaces]
    /\ BagToSet(net) \subseteq Packets
    /\ list_nodes \in [Flows -> [Ifaces -> 0..MaxListed]]
    /\ status \in [Ifaces -> {"down", "up", "going_down"}]
    /\ connecting \in SUBSET Ifaces
    /\ displaced \in SUBSET Flows
    /\ crashed \in BOOLEAN /\ links \in 0..MaxLinks

\* The retransmissions of FlowRequestTimer come to an end while the interface they
\* are sent through is there (its loss does not cancel the timer).
TimerStops ==
    timer.flows # {} ~> (timer.flows = {} \/ ~Linked(timer.iface) \/ crashed)

\* A flow gets a worse interface only in the step that loses its own, or by a response
\* to a request made before a lost link displaced it; no overlap of requests, and no
\* choice of the response that counts, does it.
NeverWorse ==
    [][\A f \in Flows :
          Quality[iface'[f]] < Quality[iface[f]] =>
              f \in displaced \/ (Linked(iface[f]) /\ status'[iface[f]] = "down")]_vars

\* mip6.cc, recv_flow_response: "we look at the answer and redirect for the
\* accepted flows".  A response moves a flow only to an interface for which a base
\* station has accepted it.
MovesWhereAccepted ==
    [][\A f \in Flows :
          iface'[f] # iface[f] /\ status' = status => list_nodes[f][iface'[f]] > 0]_vars
=============================================================================
