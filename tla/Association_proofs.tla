-------------------------- MODULE Association_proofs --------------------------
(***************************************************************************)
(* For any number of access points, any retry limit and any movement: the  *)
(* link events tell the access point in use, and a pending client has a    *)
(* response waiting.                                                       *)
(***************************************************************************)
EXTENDS Association, TLAPS

\* How the number of waiting responses follows the client entry.
Ledger ==
    \A a \in APs :
        /\ client[a] = "none" => resp[a] < MaxResp
        /\ client[a] = "pending" => resp[a] > 0
        /\ client[a] = "associated" => resp[a] = 0

AssocInv == TypeOK /\ EventsMatch /\ Ledger

\* link_disconnect leaves a station in a state of its type, with its events told.
LEMMA Disconnected ==
    ASSUME TypeOK, EventsMatch, link_disconnect
    PROVE  /\ bss' = None /\ up' = None /\ req' = None /\ ssrc' \in 0..(Limit - 1)
           /\ hdv' = "disconnected" /\ bssTimer' = FALSE
           /\ EventsMatch'
  <1>1. up' = None
    BY DEF link_disconnect, EventsMatch, TypeOK
  <1>2. 0 \in 0..(Limit - 1)
    BY AssocAssumption
  <1> QED BY <1>1, <1>2 DEF link_disconnect, EventsMatch

\* link_connect makes the chosen AP the one of the next events.
LEMMA Connecting ==
    ASSUME TypeOK, EventsMatch, NEW b \in APs, link_connect(b)
    PROVE  /\ bss' \in APs /\ up' \in APs \cup {None} /\ req' \in APs
           /\ ssrc' \in 0..(Limit - 1)
           /\ hdv' = "being_connected" /\ bssTimer' \in BOOLEAN
           /\ EventsMatch'
  <1>1. b # None
    BY AssocAssumption
  <1>2. 0 \in 0..(Limit - 1)
    BY AssocAssumption
  <1>3. up' \in {None, b}
    BY <1>1 DEF link_connect, sendAssocRequest, EventsMatch, TypeOK
  <1> QED BY <1>1, <1>2, <1>3 DEF link_connect, sendAssocRequest, EventsMatch, TypeOK

\* An accepted response connects the station to its sender.
LEMMA Connected ==
    ASSUME TypeOK, EventsMatch, NEW a \in APs, recvAssocResponse(a),
           UNCHANGED <<bssTimer, req, ssrc>>
    PROVE  /\ bss' \in APs \cup {None} /\ up' \in APs \cup {None}
           /\ hdv' \in {"disconnected", "being_connected", "connected"}
           /\ EventsMatch'
  <1>1. a # None
    BY AssocAssumption
  <1>2. CASE UNCHANGED <<bss, hdv, up>>
    BY <1>2 DEF EventsMatch, TypeOK
  <1>3. CASE bss' = a /\ hdv' = "connected" /\ up' = a
    BY <1>1, <1>3 DEF EventsMatch
  <1> QED BY <1>2, <1>3 DEF recvAssocResponse

\* A request enters a client entry and its response together.
LEMMA Requested ==
    ASSUME TypeOK, Ledger, NEW a \in APs, recvAssocRequest(a)
    PROVE  /\ client' \in [APs -> {"none", "pending", "associated"}]
           /\ resp' \in [APs -> 0..MaxResp]
           /\ Ledger'
  <1>1. CASE UNCHANGED <<client, resp>>
    BY <1>1 DEF TypeOK, Ledger
  <1>2. CASE /\ client[a] # "pending"
             /\ client' = [client EXCEPT ![a] = "pending"]
             /\ resp' = [resp EXCEPT ![a] = @ + 1]
    <2>1. resp[a] \in Nat /\ resp[a] < MaxResp
      BY <1>2, AssocAssumption DEF TypeOK, Ledger
    <2>2. client'[a] = "pending" /\ resp'[a] = resp[a] + 1
      BY <1>2 DEF TypeOK
    <2>3. \A b \in APs \ {a} : client'[b] = client[b] /\ resp'[b] = resp[b]
      BY <1>2 DEF TypeOK
    <2>4. resp[a] + 1 \in 0..MaxResp
      BY <2>1, AssocAssumption
    <2>5. Ledger'
      BY <2>1, <2>2, <2>3 DEF Ledger
    <2> QED BY <1>2, <2>4, <2>5 DEF TypeOK
  <1> QED BY <1>1, <1>2 DEF recvAssocRequest

\* The end of a response, acknowledged or given up, settles its client entry.
LEMMA Answered ==
    ASSUME TypeOK, Ledger, NEW a \in APs, resp[a] > 0,
           recvACK(a) \/ RetransmitManagement(a)
    PROVE  /\ client' \in [APs -> {"none", "pending", "associated"}]
           /\ resp' \in [APs -> 0..MaxResp]
           /\ apSsrc' \in [APs -> 0..Limit]
           /\ aborted' \in BOOLEAN
           /\ Ledger'
  <1>1. /\ resp[a] \in 0..MaxResp /\ apSsrc[a] \in 0..Limit
        /\ resp[a] - 1 \in 0..MaxResp /\ 0 \in 0..Limit
    BY AssocAssumption DEF TypeOK
  <1>2. CASE UNCHANGED <<client, resp>> /\ apSsrc' = apSsrc /\ aborted' = TRUE
    BY <1>2 DEF TypeOK, Ledger
  <1>3. CASE /\ HeadOwned(a)
             /\ client' = [client EXCEPT ![a] = "associated"]
             /\ resp' = [resp EXCEPT ![a] = @ - 1]
             /\ apSsrc' = [apSsrc EXCEPT ![a] = 0]
             /\ UNCHANGED aborted
    <2>1. client'[a] = "associated" /\ resp'[a] = 0
      BY <1>3 DEF TypeOK, HeadOwned
    <2>2. \A b \in APs \ {a} : client'[b] = client[b] /\ resp'[b] = resp[b]
      BY <1>3 DEF TypeOK
    <2>3. Ledger'
      BY <2>1, <2>2 DEF Ledger
    <2> QED BY <1>1, <1>3, <2>3 DEF TypeOK
  <1>4. CASE RetransmitManagement(a)
    <2>1. apSsrc' \in [APs -> 0..Limit] /\ aborted' \in BOOLEAN
      BY <1>1, <1>4, AssocAssumption DEF RetransmitManagement, TypeOK
    <2>2. CASE UNCHANGED <<client, resp>>
      BY <2>1, <2>2 DEF TypeOK, Ledger
    <2>3. CASE /\ resp' = [resp EXCEPT ![a] = @ - 1]
               /\ client' = IF HeadOwned(a) THEN [client EXCEPT ![a] = "none"]
                                            ELSE client
      <3>1. resp'[a] = resp[a] - 1
            /\ \A b \in APs \ {a} : client'[b] = client[b] /\ resp'[b] = resp[b]
        BY <2>3 DEF TypeOK
      <3>2. CASE HeadOwned(a)
        <4>1. client'[a] = "none" /\ resp'[a] = 0 /\ 0 < MaxResp
          BY <2>3, <3>1, <3>2, AssocAssumption DEF TypeOK, HeadOwned
        <4>2. Ledger'
          BY <3>1, <4>1 DEF Ledger
        <4> QED BY <1>1, <2>1, <2>3, <3>2, <4>2 DEF TypeOK
      <3>3. CASE ~HeadOwned(a)
        <4>1. client' = client
          BY <2>3, <3>3
        <4>2. client[a] # "associated"
          BY DEF Ledger
        <4>3. client[a] = "pending" => resp[a] > 1
          BY <1>1, <3>3 DEF HeadOwned
        <4>4. client[a] = "none" => resp[a] - 1 < MaxResp
          BY <1>1, AssocAssumption
        <4>5. Ledger'
          BY <1>1, <3>1, <4>1, <4>2, <4>3, <4>4 DEF Ledger
        <4> QED BY <1>1, <2>1, <2>3, <4>1, <4>5 DEF TypeOK
      <3> QED BY <3>2, <3>3
    <2> QED BY <1>4, <2>2, <2>3 DEF RetransmitManagement
  <1> QED BY <1>2, <1>3, <1>4 DEF recvACK, accesspoints

\* Every step of station and access points keeps the invariant.
LEMMA AssocStep == AssocInv /\ [Next]_vars => AssocInv'
  <1> SUFFICES ASSUME AssocInv, [Next]_vars PROVE AssocInv'
    OBVIOUS
  <1> USE DEF AssocInv
  <1>1. CASE UNCHANGED vars
    BY <1>1 DEF vars, station, accesspoints, TypeOK, EventsMatch, Ledger
  <1>2. CASE link_disconnect /\ UNCHANGED <<accesspoints, near, calm, aborted>>
    BY <1>2, Disconnected DEF accesspoints, TypeOK, Ledger
  <1>3. ASSUME NEW b \in APs, link_connect(b), UNCHANGED <<accesspoints, near, calm, aborted>>
        PROVE  AssocInv'
    BY <1>3, Connecting DEF accesspoints, TypeOK, Ledger
  <1>4. CASE send_request
    <2>1. req \in APs
      BY <1>4 DEF send_request, TypeOK
    <2>2. /\ client' \in [APs -> {"none", "pending", "associated"}]
          /\ resp' \in [APs -> 0..MaxResp]
          /\ Ledger'
      <3>1. CASE recvAssocRequest(req)
        BY <2>1, <3>1, Requested
      <3>2. CASE UNCHANGED <<client, resp>>
        BY <3>2 DEF TypeOK, Ledger
      <3> QED BY <1>4, <3>1, <3>2 DEF send_request
    <2>3. CASE req' = None /\ ssrc' = 0 /\ UNCHANGED <<bss, hdv, bssTimer, up>>
      BY <1>4, <2>2, <2>3, AssocAssumption DEF send_request, TypeOK, EventsMatch
    <2>4. CASE link_disconnect
      BY <1>4, <2>2, <2>4, Disconnected DEF send_request, TypeOK
    <2>5. CASE ssrc + 1 < Limit /\ ssrc' = ssrc + 1 /\ UNCHANGED <<bss, hdv, bssTimer, req, up>>
      BY <1>4, <2>2, <2>5, AssocAssumption DEF send_request, TypeOK, EventsMatch
    <2> QED BY <1>4, <2>3, <2>4, <2>5 DEF send_request
  <1>5. ASSUME NEW a \in APs, send_response(a)
        PROVE  AssocInv'
    <2>1. /\ client' \in [APs -> {"none", "pending", "associated"}]
          /\ resp' \in [APs -> 0..MaxResp]
          /\ apSsrc' \in [APs -> 0..Limit]
          /\ aborted' \in BOOLEAN
          /\ Ledger'
      BY <1>5, Answered DEF send_response
    <2>2. UNCHANGED <<bssTimer, req, ssrc, near, calm>>
      BY <1>5 DEF send_response
    <2>3. CASE recvAssocResponse(a)
      BY <2>1, <2>2, <2>3, Connected DEF TypeOK
    <2>4. CASE UNCHANGED <<bss, hdv, up>>
      BY <2>1, <2>2, <2>4 DEF TypeOK, EventsMatch
    <2> QED BY <1>5, <2>3, <2>4 DEF send_response
  <1>6. ASSUME NEW a \in APs, recvBeacon(a)
        PROVE  AssocInv'
    <2>1. CASE a = bss /\ bssTimer' = TRUE /\ UNCHANGED <<bss, hdv, req, ssrc, up>>
      <3>1. hdv # "disconnected"
        BY <2>1, AssocAssumption DEF EventsMatch
      <3> QED BY <1>6, <2>1, <3>1 DEF recvBeacon, accesspoints, TypeOK, EventsMatch, Ledger
    <2>2. CASE link_connect(a)
      BY <1>3, <1>6, <2>2 DEF recvBeacon
    <2> QED BY <1>6, <2>1, <2>2 DEF recvBeacon
  <1>7. ASSUME NEW a \in APs, process_client_timeout(a)
        PROVE  AssocInv'
    <2>1. /\ client'[a] = "none" /\ resp' = resp /\ resp[a] < MaxResp
          /\ \A b \in APs \ {a} : client'[b] = client[b]
          /\ client' \in [APs -> {"none", "pending", "associated"}]
      BY <1>7 DEF process_client_timeout, TypeOK
    <2>2. Ledger'
      BY <2>1 DEF Ledger
    <2>3. /\ UNCHANGED <<bss, hdv, bssTimer, req, ssrc, up>>
          /\ UNCHANGED <<apSsrc, near, calm, aborted>>
      BY <1>7 DEF process_client_timeout, station
    <2>4. EventsMatch'
      BY <2>3 DEF EventsMatch
    <2>5. TypeOK'
      BY <2>1, <2>3 DEF TypeOK
    <2> QED BY <2>2, <2>4, <2>5
  <1>8. ASSUME NEW a \in APs, RetransmitDATA(a)
        PROVE  AssocInv'
    <2>1. PICK n \in {0} \cup (IF apSsrc[a] + 1 < Limit THEN {apSsrc[a] + 1} ELSE {}) :
             apSsrc' = [apSsrc EXCEPT ![a] = n]
      BY <1>8 DEF RetransmitDATA
    <2>2. n \in 0..Limit
      BY <2>1, AssocAssumption DEF TypeOK
    <2>3. apSsrc' \in [APs -> 0..Limit]
      BY <2>1, <2>2 DEF TypeOK
    <2>4. /\ UNCHANGED <<bss, hdv, bssTimer, req, ssrc, up>>
          /\ UNCHANGED <<client, resp, near, calm, aborted>>
      BY <1>8 DEF RetransmitDATA, station
    <2>5. EventsMatch' /\ Ledger'
      BY <2>4 DEF EventsMatch, Ledger
    <2>6. TypeOK'
      BY <2>3, <2>4 DEF TypeOK
    <2> QED BY <2>5, <2>6
  <1>9. CASE Move \/ Settle
    <2>1. UNCHANGED <<bss, hdv, bssTimer, req, ssrc, up>> /\ UNCHANGED <<client, resp, apSsrc>>
      BY <1>9 DEF Move, Settle, station, accesspoints
    <2>2. near' \subseteq APs /\ calm' \in BOOLEAN /\ aborted' = aborted
      BY <1>9 DEF Move, Settle, TypeOK
    <2>3. TypeOK'
      BY <2>1, <2>2 DEF TypeOK
    <2>4. EventsMatch' /\ Ledger'
      BY <2>1 DEF EventsMatch, Ledger
    <2> QED BY <2>3, <2>4
  <1>10. CASE bss_expired \/ ms_rxp_handover
    BY <1>2, <1>10 DEF bss_expired, ms_rxp_handover
  <1>11. ASSUME NEW a \in APs, configure_link(a)
         PROVE  AssocInv'
    BY <1>3, <1>11 DEF configure_link
  <1> QED BY <1>1, <1>4, <1>5, <1>6, <1>7, <1>8, <1>9, <1>10, <1>11 DEF Next, Step

LEMMA AssocHolds == Spec => []AssocInv
<1>1. Init => AssocInv
  <2> SUFFICES ASSUME Init PROVE AssocInv
    OBVIOUS
  <2>1. 0 \in 0..(Limit - 1) /\ 0 \in 0..Limit /\ 0 \in 0..MaxResp /\ 0 < MaxResp
    BY AssocAssumption
  <2>2. TypeOK
    BY <2>1 DEF Init, TypeOK
  <2>3. EventsMatch
    BY DEF Init, EventsMatch
  <2>4. Ledger
    BY <2>1 DEF Init, Ledger
  <2> QED BY <2>2, <2>3, <2>4 DEF AssocInv
<1>2. AssocInv /\ [Next]_vars => AssocInv'
  BY AssocStep
<1> QED BY <1>1, <1>2, PTL DEF Spec

\* The counters of the station and of the access points stay within the retry limit
\* and the number of responses that can wait.
THEOREM AssocTypes == Spec => []TypeOK
<1>1. AssocInv => TypeOK
  BY DEF AssocInv
<1> QED BY <1>1, AssocHolds, PTL

\* The 802.11 station reports to the handover manager the access point it uses,
\* whatever responses arrive late.
THEOREM LinkEvents == Spec => []EventsMatch
<1>1. AssocInv => EventsMatch
  BY DEF AssocInv
<1> QED BY <1>1, AssocHolds, PTL

\* An access point never holds a pending client without a response to send it.
THEOREM PendingServed == Spec => []PendingIsServed
<1>1. AssocInv => PendingIsServed
  BY DEF AssocInv, Ledger, PendingIsServed
<1> QED BY <1>1, AssocHolds, PTL
===============================================================================
