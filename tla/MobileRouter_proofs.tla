------------------------- MODULE MobileRouter_proofs -------------------------
(***************************************************************************)
(* ContactIsCurrent for every selection policy, every subscription of link *)
(* events and any number of uplinks, points of attachment and prefixes.    *)
(***************************************************************************)
EXTENDS MobileRouter, TLAPS

\* The types ContactIsCurrent speaks about.
Shape ==
    /\ con \in [Uplinks -> SIP!Contacts]
    /\ prefix \in [Uplinks -> Prefixes \cup {None}]
    /\ nlist \in [Uplinks -> SUBSET Prefixes]

CurrentInv == Shape /\ ContactIsCurrent

LEMMA SameUplinks == Uplinks = SIP!Uplinks
  BY DEF Uplinks, SIP!Uplinks

\* No packet handler touches the contact of an uplink.
LEMMA PacketKeepsCon ==
    ASSUME SIP!RecvPacket
    PROVE  con' = con /\ (status' = "run" => status = "run")
<1> USE DEF SIP!Stop, SIP!counters
<1>1. ASSUME NEW m \in MNs, SIP!Forward(m)
      PROVE  con' = con
  BY <1>1 DEF SIP!Forward
<1>2. ASSUME NEW m \in MNs, SIP!recv_register(m)
      PROVE  con' = con /\ status = "run"
  BY <1>2 DEF SIP!recv_register
<1>3. ASSUME NEW m \in MNs, SIP!recv_from_mn(m)
      PROVE  con' = con /\ status = "run"
  BY <1>1, <1>3 DEF SIP!recv_from_mn
<1>4. ASSUME NEW c \in CNs, NEW m \in MNs, SIP!recv_from_cn(c, m)
      PROVE  con' = con /\ status = "run"
  BY <1>4 DEF SIP!recv_from_cn
<1>5. ASSUME NEW c \in CNs, NEW m \in MNs, SIP!recv_200ok_from_cn(c, m)
      PROVE  con' = con /\ status = "run"
  BY <1>5 DEF SIP!recv_200ok_from_cn
<1>6. ASSUME NEW c \in CNs, NEW m \in MNs, SIP!recv_200ok_from_mn(c, m)
      PROVE  con' = con /\ status = "run"
  BY <1>1, <1>6 DEF SIP!recv_200ok_from_mn
<1>7. ASSUME NEW c \in CNs, NEW m \in MNs, SIP!recv_rehoming(c, m)
      PROVE  con' = con /\ status = "run"
  BY <1>4, <1>7 DEF SIP!recv_rehoming
<1>8. ASSUME NEW c \in CNs, SIP!recv_refer(c)
      PROVE  con' = con /\ status = "run"
  BY <1>8 DEF SIP!recv_refer
<1>9. ASSUME NEW c \in CNs, NEW m \in MNs, SIP!recv_reinvite(c, m)
      PROVE  con' = con /\ status = "run"
  BY <1>9 DEF SIP!recv_reinvite
<1>10. ASSUME NEW m \in MNs, SIP!recv_mn_bu(m)
       PROVE  con' = con /\ status = "run"
  BY <1>10 DEF SIP!recv_mn_bu
<1>11. ASSUME NEW m \in MNs, SIP!recv_temp_move(m)
       PROVE  con' = con /\ status = "run"
  BY <1>11 DEF SIP!recv_temp_move
<1> QED
  BY <1>2, <1>3, <1>4, <1>5, <1>6, <1>7, <1>8, <1>9, <1>10, <1>11
  DEF SIP!RecvPacket

\* re_homing clears the contact of its uplink, or stops the process.
LEMMA RehomingClears ==
    ASSUME NEW u \in Uplinks, SIP!re_homing(u)
    PROVE  /\ status = "run"
           /\ \/ con' = [con EXCEPT ![u] = None]
              \/ con' = con /\ status' # "run"
  BY DEF SIP!re_homing, SIP!Stop, SIP!rehome_all, SIP!rehome_first, SIP!counters

LEMMA RehomingCurrent ==
    ASSUME CurrentInv, NEW u \in Uplinks, SIP!re_homing(u), prefix' = prefix,
           nlist' \in [Uplinks -> SUBSET Prefixes],
           \A v \in Uplinks \ {u} : nlist'[v] = nlist[v]
    PROVE  CurrentInv'
<1>1. CASE con' = con /\ status' # "run"
  BY <1>1 DEF CurrentInv, Shape, ContactIsCurrent, SIP!Contacts, SIP!Addrs, SIP!Uplinks
<1>2. CASE status = "run" /\ con' = [con EXCEPT ![u] = None]
  <2>1. con' \in [Uplinks -> SIP!Contacts]
    BY <1>2 DEF CurrentInv, Shape, SIP!Contacts
  <2>2. con'[u] = None /\ \A v \in Uplinks \ {u} : con'[v] = con[v]
    BY <1>2 DEF CurrentInv, Shape
  <2>3. ContactIsCurrent'
    BY <1>2, <2>2 DEF CurrentInv, ContactIsCurrent
  <2> QED BY <2>1, <2>3 DEF CurrentInv, Shape
<1> QED BY <1>1, <1>2, RehomingClears

\* A contact the router has registered is the present address of its uplink, and
\* neighbour discovery still holds the prefix of that address.
THEOREM ContactsAreCurrent == Spec => []ContactIsCurrent
<1>1. Init => CurrentInv
  BY SameUplinks DEF Init, SIP!Init, ND!Init, CurrentInv, Shape, ContactIsCurrent, SIP!Contacts
<1>2. CurrentInv /\ [Next]_vars => CurrentInv'
  <2> SUFFICES ASSUME CurrentInv, [Next]_vars
               PROVE  CurrentInv'
    OBVIOUS
  <2> USE DEF sipvars, ndvars
  <2>1. ASSUME NEW u \in Uplinks, NEW b \in PoAs, Associate(u, b)
        PROVE  CurrentInv'
    <3>1. UNCHANGED <<con, prefix, nlist, status>>
      BY <2>1 DEF Associate, process_link_up, ND!send_rs
    <3> QED BY <3>1 DEF CurrentInv, Shape, ContactIsCurrent
  <2>2. ASSUME NEW u \in Uplinks, LoseLink(u)
        PROVE  CurrentInv'
    <3>1. CASE SIP!re_homing(u)
      BY <2>2, <3>1, RehomingCurrent DEF LoseLink, CurrentInv, Shape
    <3>2. CASE UNCHANGED sipvars
      BY <2>2, <3>2 DEF LoseLink, CurrentInv, Shape, ContactIsCurrent
    <3> QED BY <2>2, <3>1, <3>2 DEF LoseLink, process_link_down
  <2>3. ASSUME NEW u \in Uplinks, LinkGoingDown(u)
        PROVE  CurrentInv'
    BY <2>3, RehomingCurrent DEF LinkGoingDown, process_link_down, CurrentInv, Shape
  <2>4. ASSUME NEW u \in Uplinks, NEW p \in Prefixes, RecvRA(u, p)
        PROVE  CurrentInv'
    <3>1. /\ nlist' = [nlist EXCEPT ![u] = @ \cup {p}]
          /\ nlist' \in [Uplinks -> SUBSET Prefixes]
          /\ p \in nlist'[u]
          /\ \A v \in Uplinks : nlist[v] \subseteq nlist'[v]
      BY <2>4 DEF RecvRA, ND!recv_ads, CurrentInv, Shape
    <3>2. CASE process_new_prefix(u, p)
      <4>1. /\ prefix' = [prefix EXCEPT ![u] = p]
            /\ con' = [con EXCEPT ![u] = <<u, p>>]
            /\ status = "run"
        BY <3>2 DEF process_new_prefix, SIP!send_reg_msg
      <4>2. <<u, p>> \in SIP!Contacts
        BY SameUplinks DEF SIP!Contacts, SIP!Addrs
      <4>3. Shape'
        BY <3>1, <4>1, <4>2 DEF CurrentInv, Shape
      <4>4. /\ prefix'[u] = p /\ con'[u] = <<u, p>>
            /\ \A v \in Uplinks \ {u} : prefix'[v] = prefix[v] /\ con'[v] = con[v]
        BY <4>1 DEF CurrentInv, Shape
      <4>5. ContactIsCurrent'
        BY <3>1, <4>1, <4>4 DEF CurrentInv, ContactIsCurrent
      <4> QED BY <4>3, <4>5 DEF CurrentInv
    <3>3. CASE UNCHANGED <<sipvars, prefix>>
      BY <3>1, <3>3 DEF CurrentInv, Shape, ContactIsCurrent
    <3> QED BY <2>4, <3>2, <3>3 DEF RecvRA
  <2>5. ASSUME NEW u \in Uplinks, NEW p \in Prefixes, PrefixTimeout(u, p)
        PROVE  CurrentInv'
    <3>1. /\ nlist' = [nlist EXCEPT ![u] = @ \ {p}]
          /\ nlist' \in [Uplinks -> SUBSET Prefixes]
          /\ nlist'[u] = nlist[u] \ {p}
          /\ \A v \in Uplinks \ {u} : nlist'[v] = nlist[v]
          /\ prefix' = prefix
      BY <2>5 DEF PrefixTimeout, ND!timeout_prefix, CurrentInv, Shape
    <3>2. CASE prefix[u] = p
      <4>1. SIP!re_homing(u)
        BY <2>5, <3>2 DEF PrefixTimeout, process_exp_prefix, process_link_down
      <4> QED BY <3>1, <4>1, RehomingCurrent
    <3>3. CASE prefix[u] # p
      <4>1. UNCHANGED sipvars
        BY <2>5, <3>3 DEF PrefixTimeout, process_exp_prefix
      <4>2. ContactIsCurrent'
        BY <3>1, <3>3, <4>1 DEF CurrentInv, ContactIsCurrent
      <4> QED BY <3>1, <4>1, <4>2 DEF CurrentInv, Shape
    <3> QED BY <3>2, <3>3
  <2>6. ASSUME NEW u \in Uplinks, RSTimeout(u)
        PROVE  CurrentInv'
    <3>1. UNCHANGED <<con, prefix, nlist, status>>
      BY <2>6 DEF RSTimeout, ND!timeout_rs
    <3> QED BY <3>1 DEF CurrentInv, Shape, ContactIsCurrent
  <2>7. CASE RecvSip
    <3>1. /\ UNCHANGED <<con, prefix, nlist>>
          /\ status' = "run" => status = "run"
      BY <2>7, PacketKeepsCon DEF RecvSip
    <3> QED BY <3>1 DEF CurrentInv, Shape, ContactIsCurrent
  <2>8. CASE LateRegister
    <3>1. UNCHANGED <<con, prefix, nlist, status>>
      BY <2>8 DEF LateRegister, SIP!late_register
    <3> QED BY <3>1 DEF CurrentInv, Shape, ContactIsCurrent
  <2>9. CASE UNCHANGED vars
    BY <2>9 DEF vars, CurrentInv, Shape, ContactIsCurrent
  <2> QED BY <2>1, <2>2, <2>3, <2>4, <2>5, <2>6, <2>7, <2>8, <2>9 DEF Next
<1>3. CurrentInv => ContactIsCurrent
  BY DEF CurrentInv
<1> QED BY <1>1, <1>2, <1>3, PTL DEF Spec

-----------------------------------------------------------------------------
(* The router as a whole is a SIP agent: what is proved about SipBinding   *)
(* holds of the router.  SP is SipBinding with its theorems.               *)

SP == INSTANCE SipBinding_proofs WITH Readdress <- TRUE

LEMMA SameSip ==
    /\ (SIP!Spec <=> SP!Spec) /\ SIP!TypeOK = SP!TypeOK
    /\ SIP!NoOrphan = SP!NoOrphan /\ SIP!BoundToLive = SP!BoundToLive
  BY DEF SIP!Addrs, SP!Addrs, SIP!BoundToLive, SP!BoundToLive,
      SIP!Cardinality, SP!Cardinality, SIP!Contacts, SP!Contacts, SIP!First,
      SP!First, SIP!Forward, SP!Forward, SIP!Init, SP!Init, SIP!Live, SP!Live,
      SIP!NewAddress, SP!NewAddress, SIP!Next, SP!Next, SIP!NoOrphan,
      SP!NoOrphan, SIP!Nth, SP!Nth, SIP!Other, SP!Other, SIP!Owners,
      SP!Owners, SIP!Packet, SP!Packet, SIP!Packets, SP!Packets, SIP!Url, SP!Url,
      SIP!Urls, SP!Urls, SIP!late_register, SP!late_register,
      SIP!recv_temp_move, SP!recv_temp_move, SIP!Pick,
      SP!Pick, SIP!PickCounters, SP!PickCounters, SIP!Pos, SP!Pos, SIP!Rank,
      SP!Rank, SIP!RecvPacket, SP!RecvPacket, SIP!Registered, SP!Registered,
      SIP!RehomeContacts, SP!RehomeContacts, SIP!RehomeCounters,
      SP!RehomeCounters, SIP!RenewMoved, SP!RenewMoved, SIP!RenewStep,
      SP!RenewStep, SIP!Renewed, SP!Renewed, SIP!Spec, SP!Spec, SIP!Statuses,
      SP!Statuses, SIP!Stop, SP!Stop, SIP!TypeOK, SP!TypeOK, SIP!Uplinks,
      SP!Uplinks, SIP!WithEntry, SP!WithEntry, SIP!counters, SP!counters,
      SIP!re_homing, SP!re_homing, SIP!recv_200ok_from_cn,
      SP!recv_200ok_from_cn, SIP!recv_200ok_from_mn, SP!recv_200ok_from_mn,
      SIP!recv_from_cn, SP!recv_from_cn, SIP!recv_from_mn, SP!recv_from_mn,
      SIP!recv_mn_bu, SP!recv_mn_bu, SIP!recv_refer, SP!recv_refer,
      SIP!recv_register, SP!recv_register, SIP!recv_rehoming,
      SP!recv_rehoming, SIP!recv_reinvite, SP!recv_reinvite, SIP!rehome_all,
      SP!rehome_all, SIP!rehome_first, SP!rehome_first, SIP!send_reg_msg,
      SP!send_reg_msg, SIP!vars, SP!vars

LEMMA SameService == SIP!ImplementsService <=> SP!ImplementsService
  BY DEF SIP!First, SP!First, SIP!ImplementsService, SP!ImplementsService,
      SIP!Live, SP!Live, SIP!Owners, SP!Owners, SIP!Registered, SP!Registered,
      SIP!ServedBy, SP!ServedBy, SIP!Service!Gain, SP!Service!Gain,
      SIP!Service!Init, SP!Service!Init, SIP!Service!Join, SP!Service!Join,
      SIP!Service!Lose, SP!Service!Lose, SIP!Service!Next, SP!Service!Next,
      SIP!Service!Spec, SP!Service!Spec, SIP!Service!svars, SP!Service!svars,
      SIP!Uplinks, SP!Uplinks

\* The assumptions of SipBinding under the names of its instance.
LEMMA SipAssumed ==
    /\ NumUplinks \in Nat \ {0}
    /\ None \notin SP!Addrs \cup SP!Uplinks \cup MNs
    /\ Select \in 0..4
    /\ HomeUplink \in [MNs -> SP!Uplinks]
    /\ TRUE \in BOOLEAN
    /\ MaxLate \in Nat \ {0}
    /\ RoundMod \in Nat \ {0} /\ \A n \in SP!Uplinks : RoundMod % n = 0
  BY SipAssumption DEF Uplinks, SP!Uplinks, SP!Addrs

\* Every event of the scheduler is one handler of the SIP agent or none: what
\* Handover1 and NDAgent call between them never interleaves two handlers, and
\* the address they register is one that compute_new_address builds.
THEOREM RouterRunsSip == Spec => SIP!Spec
<1>1. Init => SIP!Init
  BY DEF Init
<1>2. [Next]_vars => [SIP!Next]_(SIP!vars)
  <2> SUFFICES ASSUME [Next]_vars
               PROVE  SIP!Next \/ UNCHANGED sipvars
    BY DEF sipvars, SIP!vars
  <2>1. ASSUME NEW u \in Uplinks, SIP!re_homing(u)
        PROVE  SIP!Next
    BY <2>1, SameUplinks DEF SIP!Next
  <2>2. ASSUME NEW u \in Uplinks, NEW b \in PoAs, Associate(u, b)
        PROVE  UNCHANGED sipvars
    BY <2>2 DEF Associate
  <2>3. ASSUME NEW u \in Uplinks, LoseLink(u)
        PROVE  SIP!Next \/ UNCHANGED sipvars
    BY <2>1, <2>3 DEF LoseLink, process_link_down
  <2>4. ASSUME NEW u \in Uplinks, LinkGoingDown(u)
        PROVE  SIP!Next
    BY <2>1, <2>4 DEF LinkGoingDown, process_link_down
  <2>5. ASSUME NEW u \in Uplinks, NEW p \in Prefixes, RecvRA(u, p)
        PROVE  SIP!Next \/ UNCHANGED sipvars
    <3>1. CASE Len(late) < MaxLate /\ process_new_prefix(u, p)
      BY <3>1, SameUplinks DEF process_new_prefix, SIP!NewAddress, SIP!Next
    <3>2. CASE UNCHANGED sipvars
      BY <3>2
    <3> QED BY <2>5, <3>1, <3>2 DEF RecvRA
  <2>6. ASSUME NEW u \in Uplinks, NEW p \in Prefixes, PrefixTimeout(u, p)
        PROVE  SIP!Next \/ UNCHANGED sipvars
    BY <2>1, <2>6 DEF PrefixTimeout, process_exp_prefix, process_link_down
  <2>7. ASSUME NEW u \in Uplinks, RSTimeout(u)
        PROVE  UNCHANGED sipvars
    BY <2>7 DEF RSTimeout
  <2>8. CASE RecvSip
    BY <2>8 DEF RecvSip, SIP!Next
  <2>9. CASE LateRegister
    BY <2>9 DEF LateRegister, SIP!Next
  <2>10. CASE UNCHANGED vars
    BY <2>10 DEF vars
  <2> QED BY <2>2, <2>3, <2>4, <2>5, <2>6, <2>7, <2>8, <2>9, <2>10 DEF Next
<1> QED BY <1>1, <1>2, PTL DEF Spec, SIP!Spec

\* The rest of the state: the ND agents, the associations and the prefixes.
LinkTypes ==
    /\ ND!TypeOK
    /\ attach \in [Uplinks -> PoAs \cup {None}]
    /\ prefix \in [Uplinks -> Prefixes \cup {None}]

LEMMA LinkTypesStep ==
    ASSUME LinkTypes, [Next]_vars
    PROVE  LinkTypes'
<1> USE DEF LinkTypes, ND!TypeOK, ndvars
<1>1. ASSUME NEW u \in Uplinks, NEW b \in PoAs, Associate(u, b)
      PROVE  LinkTypes'
  BY <1>1 DEF Associate, process_link_up, ND!send_rs
<1>2. ASSUME NEW u \in Uplinks, LoseLink(u)
      PROVE  LinkTypes'
  BY <1>2 DEF LoseLink
<1>3. ASSUME NEW u \in Uplinks, LinkGoingDown(u)
      PROVE  LinkTypes'
  BY <1>3 DEF LinkGoingDown
<1>4. ASSUME NEW u \in Uplinks, NEW p \in Prefixes, RecvRA(u, p)
      PROVE  LinkTypes'
  <2>1. prefix' = [prefix EXCEPT ![u] = p] \/ prefix' = prefix
    BY <1>4 DEF RecvRA, process_new_prefix
  <2>2. prefix' \in [Uplinks -> Prefixes \cup {None}]
    BY <2>1
  <2> QED BY <1>4, <2>2 DEF RecvRA, ND!recv_ads
<1>5. ASSUME NEW u \in Uplinks, NEW p \in Prefixes, PrefixTimeout(u, p)
      PROVE  LinkTypes'
  BY <1>5 DEF PrefixTimeout, ND!timeout_prefix
<1>6. ASSUME NEW u \in Uplinks, RSTimeout(u)
      PROVE  LinkTypes'
  <2>1. nb_rtr_sol[u] \in Nat /\ 0 \in 0..(MaxRtrSol - 1)
    BY SolAssumption
  <2>2. nb_rtr_sol' \in [Uplinks -> 0..(MaxRtrSol - 1)]
    BY <1>6, <2>1, SolAssumption DEF RSTimeout, ND!timeout_rs
  <2> QED BY <1>6, <2>2 DEF RSTimeout, ND!timeout_rs
<1>7. CASE RecvSip
  BY <1>7 DEF RecvSip
<1>8. CASE LateRegister
  BY <1>8 DEF LateRegister
<1>9. CASE UNCHANGED vars
  BY <1>9 DEF vars
<1> QED BY <1>1, <1>2, <1>3, <1>4, <1>5, <1>6, <1>7, <1>8, <1>9 DEF Next

\* The types of the SIP agent, the ND agents and the link state hold together
\* for every policy and subscription: an uplink has an address it can have, the
\* solicitation counter stays below max_rtr_solicitation_.
THEOREM RouterTypes == Spec => []TypeOK
<1>1. Init => LinkTypes
  BY SolAssumption DEF Init, ND!Init, LinkTypes, ND!TypeOK
<1>2. LinkTypes /\ [Next]_vars => LinkTypes'
  BY LinkTypesStep
<1>3. SP!Spec => []SP!TypeOK
  BY SP!TypeCorrect, SipAssumed
<1>4. SIP!Spec => SP!Spec
  BY SameSip
<1>5. LinkTypes /\ SP!TypeOK => TypeOK
  BY SameSip DEF LinkTypes, TypeOK
<1> QED BY <1>1, <1>2, <1>3, <1>4, <1>5, RouterRunsSip, PTL DEF Spec

\* With the weight policy no MN behind the router is without a contact while an
\* uplink is live, whatever the order of advertisements, expirations, link events
\* and packets.
THEOREM RouterNoOrphan ==
    ASSUME Select = 3
    PROVE  Spec => []NoOrphan
<1>1. SP!Spec => []SP!NoOrphan
  BY SP!WeightNoOrphan, SipAssumed
<1>2. SIP!Spec => SP!Spec
  BY SameSip
<1>3. SP!NoOrphan => NoOrphan
  BY SameSip DEF NoOrphan
<1> QED BY <1>1, <1>2, <1>3, RouterRunsSip, PTL

\* With the weight policy the router as a whole keeps the promise of
\* BindingService to its MNs.
THEOREM RouterImplementsService ==
    ASSUME Select = 3
    PROVE  Spec => SIP!ImplementsService
<1>1. SP!Spec => SP!ImplementsService
  BY SP!WeightImplementsService, SipAssumed
<1>2. SIP!Spec => SIP!ImplementsService
  BY <1>1, SameSip, SameService
<1> QED BY <1>2, RouterRunsSip, PTL
=============================================================================
