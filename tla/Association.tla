----------------------------- MODULE Association -----------------------------
(***************************************************************************)
(* Association of a mobile station with access points in Mac802_11: the    *)
(* part of the 802.11 MAC that produces the link up and link down events   *)
(* the handover manager lives on.                                          *)
(*                                                                         *)
(* The station hears a beacon, sends an association request and retries it *)
(* up to the short retry limit; the access point (AP) keeps a list of      *)
(* clients and answers by a response that it retries in the same way.      *)
(* The two retries are not coupled: a response may come after the station  *)
(* gave up, or turned to another AP on the channel.                        *)
(*                                                                         *)
(* One transmission, with the ACK that follows it after a SIFS, is one     *)
(* step: it is acknowledged, or its ACK is lost, or it is lost itself.     *)
(***************************************************************************)
EXTENDS Integers

CONSTANTS
    APs,      \* access points on the channel of the station
    None,     \* IBSS_ID, and "no packet"
    Limit,    \* ShortRetryLimit_
    MaxResp   \* bound: responses of an AP waiting at the same time

ASSUME AssocAssumption ==
    /\ None \notin APs
    /\ Limit \in Nat \ {0}
    /\ MaxResp \in Nat \ {0}

VARIABLES
    bss,        \* bss_id_ of the station
    hdv,        \* hdv_state_
    bssTimer,   \* is bssTimer_ pending?
    req,        \* destination of the request in pktManagement_, or None
    ssrc,       \* short retry count of the station
    up,         \* the AP of the last link up, None after a link down
    client,     \* client[a]: status of the station's entry at a
    resp,       \* resp[a]: responses in pktManagement_ and managementQueue_ of a
    apSsrc,     \* short retry count of a, Limit standing for any larger value
    near,       \* APs in range
    calm,       \* nothing moves or is lost, no command is given any more
    aborted     \* an assert failed

station == <<bss, hdv, bssTimer, req, ssrc, up>>
accesspoints == <<client, resp, apSsrc>>
vars == <<station, accesspoints, near, calm, aborted>>

-----------------------------------------------------------------------------
(* The station.                                                            *)

\* link_disconnect, with clear_tx_rx: the request is dropped, and a link down is
\* sent whenever an AP had been chosen, associated or not.
link_disconnect ==
    /\ bss' = None
    /\ hdv' = "disconnected"
    /\ bssTimer' = FALSE
    /\ req' = None
    /\ ssrc' = 0
    /\ up' = IF bss # None THEN None ELSE up

\* sendAssocRequest: the request waits for the medium in pktManagement_, which
\* link_connect has cleared.
sendAssocRequest(b) ==
    /\ hdv' = "being_connected"
    /\ req' = b

\* link_connect.
link_connect(b) ==
    /\ bss' = b
    /\ sendAssocRequest(b)
    /\ ssrc' = 0
    /\ \/ bss \notin {None, b} /\ bssTimer' = FALSE /\ up' = None
       \/ bss \in {None, b} /\ UNCHANGED <<bssTimer, up>>

\* Mutation: the station keeps the AP it chose.
recvAssocResponse_chosen(a) ==
    IF a = bss /\ hdv = "connected" THEN UNCHANGED <<bss, hdv, up>>
    ELSE hdv' = "connected" /\ up' = a /\ UNCHANGED bss

\* Mutation: every response of the chosen AP counts as a duplicate.
recvAssocResponse_any_state(a) ==
    IF a = bss THEN UNCHANGED <<bss, hdv, up>>
    ELSE bss' = a /\ hdv' = "connected" /\ up' = a

\* recvAssocResponse: whoever sent it is the new base station.  (Responses always
\* accept, and the request under way stays in pktManagement_.)
recvAssocResponse(a) ==
    IF a = bss /\ hdv = "connected" THEN UNCHANGED <<bss, hdv, up>>
    ELSE bss' = a /\ hdv' = "connected" /\ up' = a

\* Mutation: the timer counts only for an association that is complete.
bss_expired_connected ==
    /\ bssTimer /\ hdv = "connected"
    /\ calm => bss \notin near
    /\ link_disconnect
    /\ UNCHANGED <<accesspoints, near, calm, aborted>>

\* BSSTimer: no beacon of the AP for some time (if calm, only when it is away).
bss_expired ==
    /\ bssTimer
    /\ calm => bss \notin near
    /\ link_disconnect
    /\ UNCHANGED <<accesspoints, near, calm, aborted>>

\* recvBeacon: the own AP restarts the timer; while disconnected any other is a
\* detected link, to which the handover manager connects.  (near stands for the
\* test of the received power against pr_limit_ * RXThreshold_ too.)
recvBeacon(a) ==
    /\ a \in near
    /\ \/ a = bss /\ bssTimer' = TRUE /\ UNCHANGED <<bss, hdv, req, ssrc, up>>
       \/ a # bss /\ hdv = "disconnected" /\ link_connect(a)
    /\ UNCHANGED <<accesspoints, near, calm, aborted>>

\* ms_rxp_handover: a frame of the AP brings the average power under RXThreshold_.
ms_rxp_handover ==
    /\ ~calm
    /\ bss \in near
    /\ link_disconnect
    /\ UNCHANGED <<accesspoints, near, calm, aborted>>

\* The configure-link command of a MIH user.
configure_link(b) ==
    /\ ~calm
    /\ link_connect(b)
    /\ UNCHANGED <<accesspoints, near, calm, aborted>>

-----------------------------------------------------------------------------
(* Access points.                                                          *)

\* recvAssocRequest and sendAssocResponse: a new or an associated client gets a
\* response, one whose response is pending gets no other.
recvAssocRequest(a) ==
    IF client[a] = "pending" THEN UNCHANGED <<client, resp>>
    ELSE /\ client' = [client EXCEPT ![a] = "pending"]
         /\ resp' = [resp EXCEPT ![a] = @ + 1]

\* The first response of a is the one its client entry points at.
HeadOwned(a) == client[a] = "pending" /\ resp[a] = 1

\* recvACK of the response: assert(found) looks for the client of the packet.
recvACK(a) ==
    \/ /\ HeadOwned(a)
       /\ client' = [client EXCEPT ![a] = "associated"]
       /\ resp' = [resp EXCEPT ![a] = @ - 1]
       /\ apSsrc' = [apSsrc EXCEPT ![a] = 0]
       /\ UNCHANGED aborted
    \/ /\ ~HeadOwned(a)
       /\ aborted' = TRUE
       /\ UNCHANGED accesspoints

\* Mutation: the client of a response that was given up stays in the list.
RetransmitManagement_kept(a) ==
    /\ apSsrc' = [apSsrc EXCEPT ![a] = IF @ < Limit THEN @ + 1 ELSE @]
    /\ resp' = [resp EXCEPT ![a] = IF apSsrc[a] + 1 >= Limit THEN @ - 1 ELSE @]
    /\ UNCHANGED <<client, aborted>>

\* RetransmitManagement of a response: at the limit the response is freed and its
\* client removed; the retry count is not reset.
RetransmitManagement(a) ==
    /\ apSsrc' = [apSsrc EXCEPT ![a] = IF @ < Limit THEN @ + 1 ELSE @]
    /\ \/ /\ apSsrc[a] + 1 >= Limit
          /\ resp' = [resp EXCEPT ![a] = @ - 1]
          /\ client' = IF HeadOwned(a) THEN [client EXCEPT ![a] = "none"] ELSE client
       \/ /\ apSsrc[a] + 1 < Limit
          /\ UNCHANGED <<client, resp>>
    /\ UNCHANGED aborted

\* ClientTimer: the client was not heard for client_lifetime_.
process_client_timeout(a) ==
    /\ ~calm
    /\ client[a] # "none" /\ resp[a] < MaxResp
    /\ client' = [client EXCEPT ![a] = "none"]
    /\ UNCHANGED <<station, resp, apSsrc, near, calm, aborted>>

\* Data frames share the retry count; they go out when no response waits.
RetransmitDATA(a) ==
    /\ ~calm
    /\ resp[a] = 0
    /\ \E n \in {0} \cup (IF apSsrc[a] + 1 < Limit THEN {apSsrc[a] + 1} ELSE {}) :
          apSsrc' = [apSsrc EXCEPT ![a] = n]
    /\ UNCHANGED <<station, client, resp, near, calm, aborted>>

-----------------------------------------------------------------------------
(* Transmissions.                                                          *)

\* Mutation: the station tries once more than the limit.
send_request_one_more ==
    /\ req # None
    /\ \/ /\ req \in near /\ recvAssocRequest(req)
          /\ req' = None /\ ssrc' = 0
          /\ UNCHANGED <<bss, hdv, bssTimer, up>>
       \/ /\ ~calm \/ req \notin near
          /\ \/ req \in near /\ recvAssocRequest(req)
             \/ UNCHANGED <<client, resp>>
          /\ \/ ssrc >= Limit /\ link_disconnect
             \/ /\ ssrc < Limit
                /\ ssrc' = ssrc + 1
                /\ UNCHANGED <<bss, hdv, bssTimer, req, up>>
    /\ UNCHANGED <<apSsrc, near, calm, aborted>>

\* check_pktManagement of the station sends the request; it is acknowledged, or
\* RetransmitManagement counts the failure and at the limit disconnects.
send_request ==
    /\ req # None
    /\ \/ /\ req \in near /\ recvAssocRequest(req)
          /\ req' = None /\ ssrc' = 0
          /\ UNCHANGED <<bss, hdv, bssTimer, up>>
       \/ /\ ~calm \/ req \notin near
          /\ \/ req \in near /\ recvAssocRequest(req)
             \/ UNCHANGED <<client, resp>>
          /\ \/ ssrc + 1 >= Limit /\ link_disconnect
             \/ /\ ssrc + 1 < Limit
                /\ ssrc' = ssrc + 1
                /\ UNCHANGED <<bss, hdv, bssTimer, req, up>>
    /\ UNCHANGED <<apSsrc, near, calm, aborted>>

\* check_pktManagement of an AP.
send_response(a) ==
    /\ resp[a] > 0
    /\ \/ a \in near /\ recvAssocResponse(a) /\ recvACK(a)
       \/ /\ ~calm \/ a \notin near
          /\ \/ a \in near /\ recvAssocResponse(a)
             \/ UNCHANGED <<bss, hdv, up>>
          /\ RetransmitManagement(a)
    /\ UNCHANGED <<bssTimer, req, ssrc, near, calm>>

\* The station moves.
Move ==
    /\ ~calm
    /\ near' \in SUBSET APs
    /\ UNCHANGED <<station, accesspoints, calm, aborted>>

Settle ==
    /\ ~calm
    /\ calm' = TRUE
    /\ UNCHANGED <<station, accesspoints, near, aborted>>

Init ==
    /\ bss = None /\ hdv = "disconnected" /\ bssTimer = FALSE
    /\ req = None /\ ssrc = 0 /\ up = None
    /\ client = [a \in APs |-> "none"]
    /\ resp = [a \in APs |-> 0]
    /\ apSsrc = [a \in APs |-> 0]
    /\ near = {}
    /\ calm = FALSE /\ aborted = FALSE

Step ==
    \/ bss_expired
    \/ ms_rxp_handover
    \/ send_request
    \/ Move
    \/ Settle
    \/ \E a \in APs :
         \/ recvBeacon(a)
         \/ configure_link(a)
         \/ process_client_timeout(a)
         \/ RetransmitDATA(a)
         \/ send_response(a)

Next == ~aborted /\ Step

\* Beacons are periodic, timers fire, and a MAC sends the frames it holds.
Fairness ==
    /\ WF_vars(~aborted /\ bss \notin near /\ bss_expired)
    /\ WF_vars(~aborted /\ send_request)
    /\ \A a \in APs :
         /\ WF_vars(~aborted /\ recvBeacon(a))
         /\ WF_vars(~aborted /\ send_response(a))

Spec == Init /\ [][Next]_vars /\ Fairness

-----------------------------------------------------------------------------
(* Properties.                                                             *)

TypeOK ==
    /\ bss \in APs \cup {None} /\ up \in APs \cup {None} /\ req \in APs \cup {None}
    /\ hdv \in {"disconnected", "being_connected", "connected"}
    /\ bssTimer \in BOOLEAN /\ calm \in BOOLEAN /\ aborted \in BOOLEAN
    /\ ssrc \in 0..(Limit - 1)
    /\ client \in [APs -> {"none", "pending", "associated"}]
    /\ resp \in [APs -> 0..MaxResp]
    /\ apSsrc \in [APs -> 0..Limit]
    /\ near \subseteq APs

\* The link up and link down events tell the handover manager the AP in use: data
\* is accepted only from bss_id_ in state MAC_CONNECTED, and then bss_id_ is the AP
\* of the last link up; a disconnected station has reported its link down.  Late
\* responses of an earlier AP and requests under way do not break it.
EventsMatch ==
    /\ hdv = "connected" => bss # None /\ up = bss
    /\ hdv = "being_connected" => bss # None /\ up \in {None, bss}
    /\ hdv = "disconnected" => bss = None /\ up = None /\ req = None /\ ~bssTimer

\* A client the AP holds as pending has a response on its way: otherwise every
\* further request would be ignored ("A response is already pending").
PendingIsServed == \A a \in APs : client[a] = "pending" => resp[a] > 0

\* A station that goes disconnected into a calm time with an AP in range ends up
\* connected for good, in spite of responses and retry counts left from before.
Associates ==
    (calm /\ near # {} /\ hdv = "disconnected") ~> (aborted \/ [](hdv = "connected"))

\* Once a beacon was heard, an AP that stays out of range is left, also when the
\* association never came about.
LeavesLostAP ==
    \A a \in APs :
        (calm /\ bss = a /\ bssTimer /\ a \notin near) ~> (aborted \/ bss # a)
===============================================================================
