------------------------- MODULE FlowRequest_proofs -------------------------
(***************************************************************************)
(* Types, NeverWorse and MovesBacked for any flows, interfaces and numbers *)
(* of packets on the air.                                                  *)
(***************************************************************************)
EXTENDS MCFlowRequest, TLAPS

\* The interface a flow has been promised is never worse than the one it uses, unless
\* the loss of a link displaced it.  NeverWorse alone is not inductive: a response
\* moves a flow to whatever tmp_iface holds when it arrives.
PromiseInv ==
    /\ iface \in [Flows -> Ifaces]
    /\ tmp_iface \in [Flows -> Ifaces]
    /\ \A f \in Flows : f \in displaced \/ Quality[iface[f]] <= Quality[tmp_iface[f]]

LEMMA QualityNat == \A i \in Ifaces : Quality[i] \in Nat
  BY FlowRequestAssumption

LEMMA PromiseInit ==
    ASSUME Init
    PROVE  PromiseInv
  BY QualityNat DEF Init, PromiseInv

\* What NeverWorse says of one step.
Kept ==
    \A f \in Flows :
        Quality[iface'[f]] < Quality[iface[f]] =>
            f \in displaced \/ (Linked(iface[f]) /\ status'[iface[f]] = "down")

LEMMA LinkDownKeeps ==
    ASSUME PromiseInv, status \in [Ifaces -> {"down", "up", "going_down"}],
           NEW i \in Ifaces, process_link_down(i)
    PROVE  PromiseInv' /\ Kept
<1> USE QualityNat
<1>1. /\ tmp_iface' = tmp_iface /\ Linked(i) /\ status'[i] = "down"
  BY DEF process_link_down, LinkChange
<1>2. CASE UNCHANGED <<iface, displaced>>
  BY <1>1, <1>2 DEF PromiseInv, Kept
<1>3. ASSUME NEW j \in Best(i),
             iface' = [f \in Flows |-> IF f \in {g \in Flows : iface[g] = i}
                                       THEN j ELSE iface[f]],
             displaced' = displaced \cup {g \in Flows : iface[g] = i}
      PROVE  PromiseInv' /\ Kept
  <2>1. j \in Ifaces
    BY DEF Best
  <2> QED BY <1>1, <1>3, <2>1 DEF PromiseInv, Kept
<1> QED BY <1>2, <1>3 DEF process_link_down

LEMMA PromiseStep ==
    ASSUME PromiseInv, status \in [Ifaces -> {"down", "up", "going_down"}], [Next]_vars
    PROVE  PromiseInv' /\ Kept
<1> USE QualityNat
<1>1. ASSUME NEW i \in Ifaces, process_new_prefix(i)
      PROVE  PromiseInv' /\ Kept
  BY <1>1 DEF process_new_prefix, PromiseInv, Kept
<1>2. ASSUME NEW p, recv_flow_response(p)
      PROVE  PromiseInv' /\ Kept
  <2>1. tmp_iface' = tmp_iface
    BY <1>2 DEF recv_flow_response
  <2>2. CASE UNCHANGED <<iface, displaced>>
    BY <2>1, <2>2 DEF PromiseInv, Kept
  <2>3. CASE LET A == {g \in p.flows : redirect[g]}
             IN  /\ iface' = [f \in Flows |-> IF f \in A THEN tmp_iface[f] ELSE iface[f]]
                 /\ displaced' = displaced \ A
    BY <2>1, <2>3 DEF PromiseInv, Kept
  <2> QED BY <1>2, <2>2, <2>3 DEF recv_flow_response
<1>3. CASE UNCHANGED <<iface, tmp_iface, displaced>>
  BY <1>3 DEF PromiseInv, Kept
<1>4. ASSUME NEW p, NEW ok, recv_flow_request(p, ok)
      PROVE  UNCHANGED <<iface, tmp_iface, displaced>>
  BY <1>4 DEF recv_flow_request
<1>5. ASSUME NEW p, recv_redirect(p) \/ Lose(p)
      PROVE  UNCHANGED <<iface, tmp_iface, displaced>>
  BY <1>5 DEF recv_redirect, Lose, flow
<1>6. ASSUME NEW i, process_link_detected(i) \/ process_link_up(i) \/ process_link_going_down(i)
      PROVE  UNCHANGED <<iface, tmp_iface, displaced>>
  BY <1>6 DEF process_link_detected, process_link_up, process_link_going_down, flow
<1>7. CASE expire \/ UNCHANGED vars
  BY <1>3, <1>7 DEF expire, vars, flow
<1>8. CASE \E i \in Ifaces : Handover(i)
  BY <1>1, <1>3, <1>6, <1>8, LinkDownKeeps DEF Handover
<1> QED
  BY <1>2, <1>3, <1>4, <1>5, <1>7, <1>8
  DEF Next, RecvRequest, RecvResponse, RecvRedirect

-----------------------------------------------------------------------------
(* The packets on the air.                                                 *)

LEMMA OnAirAfter ==
    /\ \A p : BagToSet(Received(p)) \subseteq BagToSet(net)
    /\ \A n, P : BagToSet(Sent(n, P)) \subseteq BagToSet(n) \cup P
    /\ \A i, P : Over(i, P) \subseteq P
    /\ \A i : BagToSet(Cut(i)) \subseteq BagToSet(net)
    /\ BagToSet(EmptyBag) = {}
<1>1. \A p : BagToSet(Received(p)) \subseteq BagToSet(net)
  BY DEF Received, BagToSet, SetToBag, (-)
<1>2. \A n, P : BagToSet(n (+) SetToBag(P)) = BagToSet(n) \cup P
  BY DEF BagToSet, SetToBag, (+)
<1>3. BagToSet(EmptyBag) = {}
  BY DEF EmptyBag, BagToSet, SetToBag
<1>4. \A i : BagToSet(Cut(i)) \subseteq BagToSet(net)
  BY DEF Cut, BagToSet
<1>5. \A i, P : Over(i, P) \subseteq P
  BY DEF Over
<1> QED BY <1>1, <1>2, <1>3, <1>4, <1>5 DEF Sent

Signalling(p) == p.type \in {"freq", "fres"}

LEMMA PacketTypes ==
    /\ \A F \in (SUBSET Flows) \ {{}}, s \in 0..MaxSeq, i \in Ifaces :
          /\ Freq(F, s, i) \in Packets /\ Fres(F, s, i) \in Packets
          /\ Freq(F, s, i).seq = s /\ Fres(F, s, i).seq = s
    /\ \A f \in Flows, i \in Ifaces : Rred(f, i) \in Packets /\ Rred(f, i).type = "rred"
    /\ \A p \in Packets :
          Signalling(p) => /\ p.flows \in (SUBSET Flows) \ {{}} /\ p.seq \in 0..MaxSeq
                           /\ p.iface \in Ifaces
    /\ \A p \in Packets : p.type = "rred" => p.flow \in Flows /\ p.dest \in Ifaces
  BY DEF Packets, Freq, Fres, Rred, Signalling

\* The sequence number stays within its bound because only a pending request, or
\* its answer, can advance it; a request never carries a number that is still to
\* come.
FlowInv ==
    /\ TypeOK
    /\ timer.flows # {} => seq < MaxSeq
    /\ \A p \in BagToSet(net) : Signalling(p) => p.seq <= seq /\ p.seq < MaxSeq

LEMMA SendRequest ==
    ASSUME FlowInv, NEW F \in (SUBSET Flows) \ {{}}, NEW i \in Ifaces, seq < MaxSeq,
           send_flow_request(F, i)
    PROVE  /\ timer' \in [flows : SUBSET Flows, iface : Ifaces]
           /\ BagToSet(net') \subseteq Packets
           /\ \A p \in BagToSet(net') : Signalling(p) => p.seq <= seq /\ p.seq < MaxSeq
<1>1. /\ BagToSet(net') \subseteq BagToSet(net) \cup {Freq(F, seq, i)}
      /\ timer' = [flows |-> F, iface |-> i]
  BY OnAirAfter DEF send_flow_request
<1>2. seq \in 0..MaxSeq /\ MaxSeq \in Nat
  BY FlowRequestAssumption DEF FlowInv, TypeOK
<1>3. Freq(F, seq, i) \in Packets /\ Freq(F, seq, i).seq = seq
  BY <1>2, PacketTypes
<1> QED BY <1>1, <1>2, <1>3 DEF FlowInv, TypeOK

\* A step that adds only redirects to the air keeps what FlowInv says of packets.
LEMMA RedirectsOnly ==
    ASSUME FlowInv, NEW F \in SUBSET Flows, NEW to, \A f \in F : to[f] \in Ifaces,
           BagToSet(net') \subseteq BagToSet(net) \cup {Rred(f, to[f]) : f \in F}
    PROVE  /\ BagToSet(net') \subseteq Packets
           /\ \A q \in BagToSet(net') :
                 Signalling(q) => /\ q \in BagToSet(net) /\ q.seq \in Nat
                                  /\ q.seq <= seq /\ q.seq < MaxSeq
<1>1. \A f \in F : Rred(f, to[f]) \in Packets /\ ~Signalling(Rred(f, to[f]))
  BY PacketTypes DEF Signalling
<1>2. BagToSet(net') \subseteq Packets
  BY <1>1 DEF FlowInv, TypeOK
<1>3. ASSUME NEW q \in BagToSet(net'), Signalling(q)
      PROVE  q \in BagToSet(net) /\ q.seq \in Nat
  BY <1>1, <1>2, <1>3, PacketTypes
<1> QED BY <1>2, <1>3 DEF FlowInv

LEMMA LinkTypes ==
    ASSUME FlowInv, NEW i \in Ifaces,
           \/ process_link_detected(i) \/ process_link_up(i)
           \/ process_link_going_down(i) \/ process_link_down(i)
    PROVE  FlowInv'
<1>0. MaxLinks \in Nat /\ links \in 0..MaxLinks
  BY FlowRequestAssumption DEF FlowInv, TypeOK
<1>1. /\ UNCHANGED <<tmp_iface, redirect, dst, seq, timer, list_nodes>>
      /\ crashed' \in BOOLEAN /\ connecting' \in SUBSET Ifaces
      /\ status' \in [Ifaces -> {"down", "up", "going_down"}]
      /\ links' \in 0..MaxLinks
  <2>1. CASE process_link_detected(i)
    BY <2>1 DEF process_link_detected, flow, FlowInv, TypeOK
  <2>2. CASE process_link_up(i)
    BY <1>0, <2>2 DEF process_link_up, LinkChange, flow, FlowInv, TypeOK
  <2>3. CASE process_link_going_down(i)
    BY <1>0, <2>3 DEF process_link_going_down, LinkChange, flow, FlowInv, TypeOK
  <2>4. CASE process_link_down(i)
    <3>1. /\ UNCHANGED <<tmp_iface, redirect, dst, seq, timer, list_nodes, connecting>>
          /\ LinkChange(i, "down") /\ (crashed' = TRUE \/ crashed' = crashed)
      BY <2>4 DEF process_link_down
    <3>2. crashed' \in BOOLEAN
      BY <3>1, Zenon DEF FlowInv, TypeOK
    <3>3. links' \in 0..MaxLinks
      BY <1>0, <3>1 DEF LinkChange
    <3>4. /\ status' \in [Ifaces -> {"down", "up", "going_down"}]
          /\ connecting' \in SUBSET Ifaces
      BY <3>1 DEF LinkChange, FlowInv, TypeOK
    <3> QED BY <3>1, <3>2, <3>3, <3>4
  <2> QED BY <2>1, <2>2, <2>3, <2>4
<1>2. CASE UNCHANGED <<iface, displaced>> /\ BagToSet(net') \subseteq BagToSet(net)
  BY <1>1, <1>2 DEF FlowInv, TypeOK
<1>3. CASE process_link_down(i)
  <2>1. CASE UNCHANGED <<iface, displaced>> /\ (net' = net \/ net' = Cut(i))
    BY <1>2, <2>1, OnAirAfter
  <2>2. CASE \E j \in Best(i) :
               LET F == {f \in Flows : iface[f] = i}
               IN  /\ iface' = [f \in Flows |-> IF f \in F THEN j ELSE iface[f]]
                   /\ net' = Sent(Cut(i), {Rred(f, j) : f \in F})
                   /\ displaced' = displaced \cup F
    <3> DEFINE F == {f \in Flows : iface[f] = i}
    <3>1. PICK j \in Best(i) :
            /\ iface' = [f \in Flows |-> IF f \in F THEN j ELSE iface[f]]
            /\ net' = Sent(Cut(i), {Rred(f, j) : f \in F})
            /\ displaced' = displaced \cup F
      BY <2>2
    <3>2. j \in Ifaces
      BY DEF Best
    <3> DEFINE to == [f \in Flows |-> j]
    <3>3. {Rred(f, j) : f \in F} = {Rred(f, to[f]) : f \in F}
      OBVIOUS
    <3>4. /\ \A f \in F : to[f] \in Ifaces
          /\ BagToSet(net') \subseteq BagToSet(net) \cup {Rred(f, to[f]) : f \in F}
      BY <3>1, <3>2, <3>3, OnAirAfter
    <3>5. iface' \in [Flows -> Ifaces] /\ displaced' \in SUBSET Flows
      BY <3>1, <3>2 DEF FlowInv, TypeOK
    <3>6. F \in SUBSET Flows
      OBVIOUS
    <3> HIDE DEF F, to
    <3>7. /\ BagToSet(net') \subseteq Packets
          /\ \A q \in BagToSet(net') : Signalling(q) => q.seq <= seq /\ q.seq < MaxSeq
      BY <3>4, <3>6, RedirectsOnly
    <3> QED BY <1>1, <3>5, <3>7 DEF FlowInv, TypeOK
  <2> QED BY <1>3, <2>1, <2>2 DEF process_link_down
<1> QED
  BY <1>2, <1>3
  DEF process_link_detected, process_link_up, process_link_going_down, flow

LEMMA FlowStep ==
    ASSUME FlowInv, [Next]_vars
    PROVE  FlowInv'
<1> seq \in 0..MaxSeq /\ MaxSeq \in Nat /\ seq \in Nat
  BY FlowRequestAssumption DEF FlowInv, TypeOK
<1>1. ASSUME NEW i \in Ifaces, process_new_prefix(i)
      PROVE  FlowInv'
  <2> DEFINE F == {f \in Flows : Quality[iface[f]] < Quality[i]}
  <2>1. /\ F \in (SUBSET Flows) \ {{}} /\ seq < MaxSeq /\ send_flow_request(F, i)
        /\ tmp_iface' = [f \in Flows |-> IF f \in F THEN i ELSE tmp_iface[f]]
        /\ displaced' = displaced \ F
        /\ UNCHANGED <<iface, redirect, dst, seq, list_nodes>>
        /\ UNCHANGED <<status, connecting, crashed, links>>
    BY <1>1 DEF process_new_prefix, link
  <2>2. tmp_iface' \in [Flows -> Ifaces] /\ displaced' \in SUBSET Flows
    BY <2>1 DEF FlowInv, TypeOK
  <2> HIDE DEF F
  <2> QED BY <2>1, <2>2, SendRequest DEF FlowInv, TypeOK
<1>2. CASE expire
  <2>1. /\ timer.flows \in (SUBSET Flows) \ {{}} /\ timer.iface \in Ifaces /\ seq < MaxSeq
        /\ send_flow_request(timer.flows, timer.iface)
        /\ UNCHANGED <<iface, tmp_iface, redirect, dst, seq, list_nodes, displaced>>
        /\ UNCHANGED <<status, connecting, crashed, links>>
    BY <1>2 DEF expire, flow, link, FlowInv, TypeOK
  <2> QED BY <2>1, SendRequest DEF FlowInv, TypeOK
<1>3. ASSUME NEW p \in OnAir("freq"), NEW ok \in BOOLEAN, recv_flow_request(p, ok)
      PROVE  FlowInv'
  <2>1. p \in BagToSet(net) /\ p \in Packets /\ Signalling(p)
    BY DEF OnAir, FlowInv, TypeOK, Signalling
  <2>2. /\ p.flows \in (SUBSET Flows) \ {{}} /\ p.seq \in 0..MaxSeq /\ p.iface \in Ifaces
        /\ p.seq <= seq /\ p.seq < MaxSeq
    BY <2>1, PacketTypes DEF FlowInv
  <2>3. BagToSet(net') \subseteq BagToSet(net) \cup {Fres(p.flows, p.seq, p.iface)}
    BY <1>3, OnAirAfter DEF recv_flow_request
  <2>4. Fres(p.flows, p.seq, p.iface) \in Packets /\ Fres(p.flows, p.seq, p.iface).seq = p.seq
    BY <2>2, PacketTypes
  <2>5. redirect' \in [Flows -> BOOLEAN]
    BY <1>3 DEF recv_flow_request, FlowInv, TypeOK
  <2>6. list_nodes' \in [Flows -> [Ifaces -> 0..MaxListed]]
    BY <1>3, FlowRequestAssumption DEF recv_flow_request, Listed, FlowInv, TypeOK
  <2>7. UNCHANGED <<iface, tmp_iface, dst, seq, timer, displaced, status, connecting, crashed, links>>
    BY <1>3 DEF recv_flow_request, link
  <2> QED BY <2>2, <2>3, <2>4, <2>5, <2>6, <2>7 DEF FlowInv, TypeOK
<1>4. ASSUME NEW p \in OnAir("fres"), recv_flow_response(p)
      PROVE  FlowInv'
  <2> DEFINE A == {f \in p.flows : redirect[f]}
  <2>1. p \in BagToSet(net) /\ p \in Packets /\ Signalling(p)
    BY DEF OnAir, FlowInv, TypeOK, Signalling
  <2>2. p.flows \in SUBSET Flows /\ p.seq < MaxSeq
    BY <2>1, PacketTypes DEF FlowInv
  <2>3. /\ timer' = Idle
        /\ UNCHANGED <<tmp_iface, redirect, dst, list_nodes, status, connecting, crashed, links>>
    BY <1>4 DEF recv_flow_response, link
  <2>4. timer' \in [flows : SUBSET Flows, iface : Ifaces] /\ timer'.flows = {}
    BY <2>3 DEF Idle, FlowInv, TypeOK
  <2>5. CASE p.seq = seq
    <3> DEFINE B == {g \in A : Linked(tmp_iface[g])}
    <3>1. /\ iface' = [f \in Flows |-> IF f \in A THEN tmp_iface[f] ELSE iface[f]]
          /\ net' = Sent(Received(p), {Rred(f, tmp_iface[f]) : f \in B})
          /\ displaced' = displaced \ A
          /\ seq' = seq + 1
      BY <1>4, <2>5 DEF recv_flow_response
    <3>2. BagToSet(net') \subseteq BagToSet(net) \cup {Rred(f, tmp_iface[f]) : f \in B}
      BY <3>1, OnAirAfter
    <3>3. /\ B \in SUBSET Flows /\ \A f \in B : tmp_iface[f] \in Ifaces
      BY <2>2 DEF FlowInv, TypeOK
    <3>4. iface' \in [Flows -> Ifaces] /\ seq' \in 0..MaxSeq /\ displaced' \in SUBSET Flows
      BY <2>2, <2>5, <3>1 DEF FlowInv, TypeOK
    <3> HIDE DEF B
    <3>5. /\ BagToSet(net') \subseteq Packets
          /\ \A q \in BagToSet(net') :
                Signalling(q) => q.seq \in Nat /\ q.seq <= seq /\ q.seq < MaxSeq
      BY <3>2, <3>3, RedirectsOnly
    <3>6. \A q \in BagToSet(net') : Signalling(q) => q.seq <= seq' /\ q.seq < MaxSeq
      BY <3>1, <3>5
    <3> QED BY <2>3, <2>4, <3>4, <3>5, <3>6 DEF FlowInv, TypeOK
  <2>6. CASE p.seq # seq
    <3>1. BagToSet(net') \subseteq BagToSet(net) /\ UNCHANGED <<iface, seq, displaced>>
      BY <1>4, <2>6, OnAirAfter DEF recv_flow_response
    <3> QED BY <2>3, <2>4, <3>1 DEF FlowInv, TypeOK
  <2> QED BY <2>5, <2>6
<1>5. ASSUME NEW p \in OnAir("rred"), recv_redirect(p)
      PROVE  FlowInv'
  <2>1. p \in Packets /\ p.type = "rred"
    BY DEF OnAir, FlowInv, TypeOK
  <2>2. p.flow \in Flows /\ p.dest \in Ifaces
    BY <2>1, PacketTypes
  <2>3. BagToSet(net') \subseteq BagToSet(net)
    BY <1>5, OnAirAfter DEF recv_redirect
  <2>4. dst' \in [Flows -> Ifaces]
    BY <1>5, <2>2 DEF recv_redirect, FlowInv, TypeOK
  <2> QED BY <1>5, <2>3, <2>4 DEF recv_redirect, link, FlowInv, TypeOK
<1>6. ASSUME NEW p, Lose(p)
      PROVE  FlowInv'
  <2>1. BagToSet(net') \subseteq BagToSet(net)
    BY <1>6, OnAirAfter DEF Lose
  <2> QED BY <1>6, <2>1 DEF Lose, flow, link, FlowInv, TypeOK
<1>7. CASE UNCHANGED vars
  BY <1>7 DEF vars, flow, link, FlowInv, TypeOK
<1>8. CASE \E i \in Ifaces : Handover(i)
  BY <1>1, <1>8, LinkTypes DEF Handover
<1> QED
  BY <1>2, <1>3, <1>4, <1>5, <1>6, <1>7, <1>8 DEF Next, RecvRequest, RecvResponse, RecvRedirect

LEMMA FlowStart ==
    ASSUME Init
    PROVE  FlowInv
<1>1. BagToSet(net) = {}
  BY OnAirAfter DEF Init
<1>2. PICK i \in Ifaces :
        /\ iface = [f \in Flows |-> i]
        /\ status = [j \in Ifaces |-> IF j = i THEN "up" ELSE "down"]
        /\ timer = [flows |-> {}, iface |-> i]
  BY DEF Init
<1>3. /\ iface \in [Flows -> Ifaces] /\ tmp_iface = iface /\ dst = iface
      /\ status \in [Ifaces -> {"down", "up", "going_down"}]
  BY <1>2 DEF Init
<1>4. timer \in [flows : SUBSET Flows, iface : Ifaces] /\ timer.flows = {}
  BY <1>2
<1>5. /\ seq \in 0..MaxSeq /\ links \in 0..MaxLinks
      /\ connecting \in SUBSET Ifaces /\ displaced \in SUBSET Flows
  BY FlowRequestAssumption DEF Init
<1>6. redirect \in [Flows -> BOOLEAN] /\ crashed \in BOOLEAN
  BY DEF Init
<1>7. list_nodes \in [Flows -> [Ifaces -> 0..MaxListed]]
  BY FlowRequestAssumption DEF Init
<1> QED BY <1>1, <1>3, <1>4, <1>5, <1>6, <1>7 DEF FlowInv, TypeOK

\* The types of the flow table and of the packets, and with them the bound on
\* seqNumberFlowRequest_: it advances once for each answered request, never for a
\* stale response.
THEOREM FlowTypes == Spec => []TypeOK
<1>1. Init => FlowInv
  BY FlowStart
<1>2. FlowInv /\ [Next]_vars => FlowInv'
  BY FlowStep
<1>3. FlowInv => TypeOK
  BY DEF FlowInv
<1> QED BY <1>1, <1>2, <1>3, PTL DEF Spec

\* A flow gets a worse interface only in the step that loses its own, or by a response
\* to a request made before the loss of a link displaced it.
THEOREM FlowsNeverWorse == Spec => NeverWorse
<1>1. Init => FlowInv /\ PromiseInv
  BY FlowStart, PromiseInit
<1>2. FlowInv /\ PromiseInv /\ [Next]_vars => (FlowInv /\ PromiseInv)' /\ [Kept]_vars
  BY FlowStep, PromiseStep DEF FlowInv, TypeOK
<1>3. [Kept]_vars =>
        [\A f \in Flows :
            Quality[iface'[f]] < Quality[iface[f]] =>
                f \in displaced \/ (Linked(iface[f]) /\ status'[iface[f]] = "down")]_vars
  BY DEF Kept
<1> QED BY <1>1, <1>2, <1>3, PTL DEF Spec, NeverWorse

-----------------------------------------------------------------------------
(* Moves and acceptances.                                                  *)

\* A response on the air that would move f if it came now.
Granted(f) ==
    redirect[f] /\ \E p \in BagToSet(net) : p.type = "fres" /\ p.seq = seq /\ f \in p.flows

\* MovesBacked is not inductive: a response moves every flow whose redirect_ is
\* set when it arrives, so there has to be an acceptance in hand for each flow
\* that is Granted.  The other conjuncts make up for the bound on list_nodes.
MovesInv ==
    /\ FlowInv
    /\ moves \in [Flows -> Nat] /\ accepts \in [Flows -> Nat]
    /\ \A f \in Flows :
          /\ moves[f] <= seq
          /\ moves[f] <= accepts[f]
          /\ Granted(f) => moves[f] < accepts[f]
          /\ \A i \in Ifaces : list_nodes[f][i] <= accepts[f]

\* What the counters do in a step in which no response moves a flow and no base station
\* accepts one.
LEMMA NoMove ==
    ASSUME MovesInv, FlowInv', Count, iface' = iface \/ status' # status,
           UNCHANGED <<list_nodes, redirect, seq>>,
           \A q \in BagToSet(net') : q.type = "fres" => q \in BagToSet(net)
    PROVE  MovesInv'
<1>1. moves' = moves /\ accepts' = accepts
  BY DEF Count, MovesInv
<1>2. \A f \in Flows : Granted(f)' => Granted(f)
  BY DEF Granted
<1> QED BY <1>1, <1>2 DEF MovesInv

LEMMA RequestMoves ==
    ASSUME MovesInv, FlowInv', Count, NEW p \in OnAir("freq"), NEW ok \in BOOLEAN,
           recv_flow_request(p, ok)
    PROVE  MovesInv'
<1> seq \in Nat /\ MaxSeq \in Nat /\ MaxListed \in Nat /\ MaxListed >= MaxSeq
  BY FlowRequestAssumption, CountAssumption DEF MovesInv, FlowInv, TypeOK
<1>1. moves' = moves /\ seq' = seq
  BY DEF Count, MovesInv, recv_flow_request, link
<1>2. /\ p \in BagToSet(net) /\ p \in Packets /\ p.seq < MaxSeq
      /\ p.seq \in 0..MaxSeq /\ p.flows \in (SUBSET Flows) \ {{}}
  BY PacketTypes DEF OnAir, MovesInv, FlowInv, TypeOK, Signalling
<1>3. BagToSet(net') \subseteq BagToSet(net) \cup {Fres(p.flows, p.seq, p.iface)}
  BY OnAirAfter DEF recv_flow_request
<1>4. /\ Fres(p.flows, p.seq, p.iface).flows = p.flows
      /\ Fres(p.flows, p.seq, p.iface).seq = p.seq
  BY DEF Fres
<1> SUFFICES ASSUME NEW f \in Flows
             PROVE  /\ accepts'[f] \in Nat /\ moves[f] <= accepts'[f]
                    /\ Granted(f)' => moves[f] < accepts'[f]
                    /\ \A i \in Ifaces : list_nodes'[f][i] <= accepts'[f]
  <2>1. accepts' = [f \in Flows |-> accepts'[f]]
    BY DEF Count
  <2> QED BY <1>1, <2>1 DEF MovesInv
<1>5. /\ moves[f] \in Nat /\ accepts[f] \in Nat
      /\ moves[f] <= seq /\ moves[f] <= accepts[f]
      /\ Granted(f) => moves[f] < accepts[f]
      /\ \A i \in Ifaces : list_nodes[f][i] <= accepts[f] /\ list_nodes[f][i] \in 0..MaxListed
      /\ list_nodes[f] = [i \in Ifaces |-> list_nodes[f][i]]
      /\ tmp_iface[f] \in Ifaces
  BY DEF MovesInv, FlowInv, TypeOK
<1>6. accepts'[f] = IF list_nodes'[f] # list_nodes[f] THEN accepts[f] + 1 ELSE accepts[f]
  BY DEF Count
<1>7. CASE ~(ok /\ f \in p.flows)
  <2>1. list_nodes'[f] = [i \in Ifaces |-> list_nodes[f][i]]
    BY <1>7 DEF recv_flow_request
  <2>2. accepts'[f] = accepts[f] /\ list_nodes'[f] = list_nodes[f]
    BY <1>5, <1>6, <2>1
  <2>3. Granted(f)' => Granted(f)
    <3>1. CASE f \in p.flows
      <4>1. ~redirect'[f]
        BY <1>7, <3>1 DEF recv_flow_request
      <4> QED BY <4>1 DEF Granted
    <3>2. CASE f \notin p.flows
      <4>1. redirect'[f] = redirect[f]
        BY <3>2 DEF recv_flow_request
      <4> QED BY <1>1, <1>3, <1>4, <3>2, <4>1 DEF Granted
    <3> QED BY <3>1, <3>2
  <2> QED BY <1>5, <2>2, <2>3
<1>8. CASE ok /\ f \in p.flows
  <2> DEFINE n == list_nodes[f][tmp_iface[f]]
  <2>1. list_nodes'[f] = [i \in Ifaces |-> IF i = tmp_iface[f] THEN Listed(n)
                                                              ELSE list_nodes[f][i]]
    BY <1>8 DEF recv_flow_request
  <2>2. n \in 0..MaxListed /\ n <= accepts[f]
    BY <1>5
  <2>3. CASE n < MaxListed
    <3>1. list_nodes'[f][tmp_iface[f]] = n + 1 /\ n + 1 # n
      BY <1>5, <2>1, <2>3 DEF Listed
    <3>2. accepts'[f] = accepts[f] + 1
      BY <1>6, <3>1
    <3>3. \A i \in Ifaces : list_nodes'[f][i] <= accepts[f] + 1
      BY <1>5, <2>1, <2>2, <2>3 DEF Listed
    <3> QED BY <1>5, <3>2, <3>3
  <2>4. CASE ~(n < MaxListed)
    <3>1. \A i \in Ifaces : list_nodes'[f][i] = list_nodes[f][i]
      BY <2>1, <2>4 DEF Listed
    <3>2. list_nodes'[f] = list_nodes[f]
      BY <1>5, <2>1, <2>4 DEF Listed
    <3>3. accepts'[f] = accepts[f] /\ accepts[f] >= MaxSeq
      BY <1>5, <1>6, <2>2, <2>4, <3>2
    <3>4. Granted(f)' => seq < MaxSeq
      <4> SUFFICES ASSUME NEW q \in BagToSet(net'), q.type = "fres", q.seq = seq
                   PROVE  seq < MaxSeq
        BY <1>1 DEF Granted
      <4> QED BY <1>1, <1>2, <1>3, <1>4 DEF MovesInv, FlowInv, Signalling
    <3> QED BY <1>5, <3>1, <3>3, <3>4
  <2> QED BY <2>3, <2>4
<1> QED BY <1>7, <1>8

LEMMA ResponseMoves ==
    ASSUME MovesInv, FlowInv', Count, NEW p \in OnAir("fres"), recv_flow_response(p)
    PROVE  MovesInv'
<1> DEFINE A == {f \in p.flows : redirect[f]}
<1> seq \in Nat
  BY DEF MovesInv, FlowInv, TypeOK
<1>1. list_nodes' = list_nodes /\ accepts' = accepts
  BY DEF recv_flow_response, Count, MovesInv
<1>2. p \in BagToSet(net) /\ p.type = "fres"
  BY DEF OnAir
<1>3. CASE p.seq # seq
  <2>1. BagToSet(net') \subseteq BagToSet(net) /\ UNCHANGED <<iface, seq, redirect>>
    BY <1>3, OnAirAfter DEF recv_flow_response
  <2> QED BY <1>1, <2>1, NoMove
<1>4. CASE p.seq = seq
  <2>1. /\ iface' = [f \in Flows |-> IF f \in A THEN tmp_iface[f] ELSE iface[f]]
        /\ net' = Sent(Received(p),
                       {Rred(f, tmp_iface[f]) : f \in {g \in A : Linked(tmp_iface[g])}})
        /\ seq' = seq + 1
    BY <1>4 DEF recv_flow_response
  <2>2. BagToSet(net') \subseteq BagToSet(net) \cup {Rred(f, tmp_iface[f]) : f \in A}
    BY <2>1, OnAirAfter
  <2>3. \A f \in Flows : ~Granted(f)'
    <3> SUFFICES ASSUME NEW q \in BagToSet(net'), q.type = "fres", q.seq = seq + 1
                 PROVE  FALSE
      BY <2>1 DEF Granted
    <3>1. \A f : Rred(f, tmp_iface[f]).type = "rred"
      BY DEF Rred
    <3>2. q \in BagToSet(net)
      BY <2>2, <3>1
    <3>3. q.seq <= seq
      BY <3>2 DEF MovesInv, FlowInv, Signalling
    <3> QED BY <3>3
  <2>4. ASSUME NEW f \in Flows
        PROVE  /\ moves'[f] \in Nat /\ moves'[f] <= accepts[f] /\ moves'[f] <= seq + 1
    <3>1. moves[f] \in Nat /\ accepts[f] \in Nat /\ moves[f] <= seq /\ moves[f] <= accepts[f]
      BY DEF MovesInv
    <3>2. CASE iface'[f] = iface[f]
      BY <3>1, <3>2 DEF Count
    <3>3. CASE iface'[f] # iface[f]
      <4>1. f \in A
        BY <2>1, <3>3
      <4>2. Granted(f)
        BY <1>2, <1>4, <4>1 DEF Granted
      <4>3. moves[f] < accepts[f] /\ moves'[f] = moves[f] + 1
        <5>1. status' = status
          BY DEF recv_flow_response, link
        <5>2. moves'[f] = moves[f] + 1
          BY <3>3, <5>1 DEF Count
        <5> QED BY <4>2, <5>2 DEF MovesInv
      <4> QED BY <3>1, <4>3
    <3> QED BY <3>2, <3>3
  <2>5. moves' \in [Flows -> Nat]
    BY <2>4 DEF Count
  <2> QED BY <1>1, <2>1, <2>3, <2>4, <2>5 DEF MovesInv
<1> QED BY <1>3, <1>4

LEMMA MovesStep ==
    ASSUME MovesInv, [MCNext]_MCvars
    PROVE  MovesInv'
<1>1. FlowInv'
  <2>1. [Next]_vars
    BY DEF MCNext, MCvars
  <2> QED BY <2>1, FlowStep DEF MovesInv
<1>2. CASE UNCHANGED MCvars
  BY <1>1, <1>2 DEF MCvars, vars, flow, MovesInv, Granted
<1>3. ASSUME NEW i \in Ifaces, process_new_prefix(i), Count
      PROVE  MovesInv'
  <2>1. PICK F : send_flow_request(F, i)
    BY <1>3 DEF process_new_prefix
  <2>2. BagToSet(net') \subseteq BagToSet(net) \cup {Freq(F, seq, i)}
    BY <2>1, OnAirAfter DEF send_flow_request
  <2>3. \A q \in BagToSet(net') : q.type = "fres" => q \in BagToSet(net)
    BY <2>2 DEF Freq
  <2> QED BY <1>1, <1>3, <2>3, NoMove DEF process_new_prefix
<1>4. ASSUME NEW p, recv_redirect(p) \/ Lose(p), Count
      PROVE  MovesInv'
  <2>1. BagToSet(net') \subseteq BagToSet(net)
    BY <1>4, OnAirAfter DEF recv_redirect, Lose
  <2> QED BY <1>1, <1>4, <2>1, NoMove DEF recv_redirect, Lose, flow
<1>5. CASE expire /\ Count
  <2>1. BagToSet(net') \subseteq BagToSet(net) \cup {Freq(timer.flows, seq, timer.iface)}
    BY <1>5, OnAirAfter DEF expire, send_flow_request
  <2>2. \A q \in BagToSet(net') : q.type = "fres" => q \in BagToSet(net)
    BY <2>1 DEF Freq
  <2> QED BY <1>1, <1>5, <2>2, NoMove DEF expire, flow
<1>6. CASE RecvRequest /\ Count
  BY <1>1, <1>6, RequestMoves DEF RecvRequest
<1>7. CASE RecvResponse /\ Count
  BY <1>1, <1>7, ResponseMoves DEF RecvResponse
<1>8. ASSUME NEW i \in Ifaces, Count,
             process_link_detected(i) \/ process_link_up(i) \/ process_link_going_down(i)
      PROVE  MovesInv'
  <2>1. UNCHANGED <<iface, redirect, seq, list_nodes, net>>
    BY <1>8 DEF process_link_detected, process_link_up, process_link_going_down, flow
  <2> QED BY <1>1, <1>8, <2>1, NoMove
<1>9. ASSUME NEW i \in Ifaces, Count, process_link_down(i)
      PROVE  MovesInv'
  <2>1. UNCHANGED <<redirect, seq, list_nodes>>
    BY <1>9 DEF process_link_down
  <2>2. status' # status
    <3>1. status'[i] = "down" /\ status[i] # "down"
      BY <1>9 DEF process_link_down, LinkChange, Linked, MovesInv, FlowInv, TypeOK
    <3> QED BY <3>1
  <2>3. \A q \in BagToSet(net') : q.type = "fres" => q \in BagToSet(net)
    <3>1. CASE net' = net \/ net' = Cut(i)
      BY <3>1, OnAirAfter
    <3>2. ASSUME NEW j, net' = Sent(Cut(i), {Rred(f, j) : f \in {g \in Flows : iface[g] = i}})
          PROVE  \A q \in BagToSet(net') : q.type = "fres" => q \in BagToSet(net)
      <4>1. BagToSet(net') \subseteq
              BagToSet(net) \cup {Rred(f, j) : f \in {g \in Flows : iface[g] = i}}
        BY <3>2, OnAirAfter
      <4>2. \A f : Rred(f, j).type = "rred"
        BY DEF Rred
      <4> QED BY <4>1, <4>2
    <3> QED BY <1>9, <3>1, <3>2 DEF process_link_down
  <2> QED BY <1>1, <1>9, <2>1, <2>2, <2>3, NoMove
<1> QED
  BY <1>2, <1>3, <1>4, <1>5, <1>6, <1>7, <1>8, <1>9 DEF MCNext, Next, Handover, RecvRedirect

\* Responses move a flow at most as often as base stations have accepted it: neither a
\* refusal nor a duplicate nor a late response moves a flow, although packets
\* carry pointers and a response is read with the redirect_ of its arrival.
THEOREM MovesAreBacked == MCSpec => []MovesBacked
<1>1. MCInit => MovesInv
  <2> SUFFICES ASSUME MCInit
               PROVE  MovesInv
    OBVIOUS
  <2>1. FlowInv /\ seq = 0
    BY FlowStart DEF MCInit, Init
  <2>2. \A f \in Flows : moves[f] = 0 /\ accepts[f] = 0 /\ ~Granted(f)
                         /\ \A i \in Ifaces : list_nodes[f][i] = 0
    BY DEF MCInit, Init, Granted
  <2> QED BY <2>1, <2>2 DEF MCInit, MovesInv
<1>2. MovesInv /\ [MCNext]_MCvars => MovesInv'
  BY MovesStep
<1>3. MovesInv => MovesBacked
  BY DEF MovesInv, MovesBacked
<1> QED BY <1>1, <1>2, <1>3, PTL DEF MCSpec
=============================================================================
