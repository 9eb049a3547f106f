---------------------------- MODULE MobileRouter ----------------------------
(***************************************************************************)
(* A mobile router: the neighbour discovery agents of its uplinks (NDHost),*)
(* the 802.21 handover manager Handover1 and the SIP binding list          *)
(* (SipBinding), wired as the simulator wires them.  Events of the MAC     *)
(* layer reach Handover1 by direct calls through the MIH function, and     *)
(* Handover1 and NDAgent call each other and UdpmysipAgent directly, so    *)
(* one event of the scheduler is one step of this module.                  *)
(*                                                                         *)
(* The MAC layer (association with points of attachment) is the            *)
(* environment.  A station may associate with a new point of attachment    *)
(* without a link down: process_link_detected connects to whatever it      *)
(* detects, and an association response just replaces the old one.         *)
(***************************************************************************)
EXTENDS Integers, Sequences, FiniteSets

CONSTANTS
    NumUplinks, MNs, CNs, Prefixes, None, Select, HomeUplink, MaxLate, RoundMod,
    MaxRtrSol,
    PoAs,         \* points of attachment (access points, base stations)
    Advertised,   \* Advertised[b]: prefixes the router of PoA b advertises
    Coverage,     \* Coverage[u]: PoAs uplink u can associate with
    Case          \* case_ of Handover1: which link events are subscribed

Uplinks == 1..NumUplinks

ASSUME PoAAssumption ==
    /\ Advertised \in [PoAs -> SUBSET Prefixes]
    /\ Coverage \in [Uplinks -> SUBSET PoAs]
    /\ None \notin PoAs
    /\ None \notin Prefixes
    /\ Case \in 1..3

\* The assumptions of SipBinding and NDHost.
ASSUME SipAssumption ==
    /\ NumUplinks \in Nat \ {0}
    /\ None \notin (Uplinks \X Prefixes) \cup Uplinks \cup MNs
    /\ Select \in 0..4
    /\ HomeUplink \in [MNs -> Uplinks]
    /\ MaxLate \in Nat \ {0}
    /\ RoundMod \in Nat \ {0} /\ \A n \in Uplinks : RoundMod % n = 0
ASSUME SolAssumption == MaxRtrSol \in Nat \ {0}

VARIABLES
    con, mnlist, mncon, cns, round_count, weight_count, weight_count2,
    status, late, sent,               \* UdpmysipAgent
    nlist, rs_pending, nb_rtr_sol,    \* NDAgent of each uplink
    attach,                           \* PoA each uplink is associated with, or None
    prefix                            \* prefix of the node address of each uplink

sipvars == <<con, mnlist, mncon, cns, round_count, weight_count, weight_count2,
             status, late, sent>>
ndvars == <<nlist, rs_pending, nb_rtr_sol>>
vars == <<sipvars, ndvars, attach, prefix>>

\* An uplink may get a new address while it has one: it hears another router.
SIP == INSTANCE SipBinding WITH Readdress <- TRUE
ND == INSTANCE NDHost WITH NDs <- Uplinks

\* register_mih: the events Handover1 subscribes to.
LinkDownSubscribed == Case \in {2, 3}
LinkGoingDownSubscribed == Case = 3

-----------------------------------------------------------------------------

\* process_link_down: re_homing of the SIP agent.
process_link_down(u) == SIP!re_homing(u)

\* process_link_up: solicit a router when the link events are in use.
process_link_up(u) ==
    IF Case \in {2, 3} THEN ND!send_rs(u) ELSE UNCHANGED ndvars

\* process_new_prefix: compute_new_address, then registration.
process_new_prefix(u, p) ==
    /\ prefix' = [prefix EXCEPT ![u] = p]
    /\ SIP!send_reg_msg(u, <<u, p>>)

\* Mutation: the expiry of a prefix is ignored while link events are in use.
process_exp_prefix_ignored(u, p) == UNCHANGED sipvars

\* process_exp_prefix: an expired prefix counts as a link down only if the
\* address of the interface is still built from it.
process_exp_prefix(u, p) ==
    IF prefix[u] = p THEN process_link_down(u) ELSE UNCHANGED sipvars

-----------------------------------------------------------------------------
(* Events of the scheduler.                                                *)

Associate(u, b) ==
    /\ status = "run"
    /\ attach[u] # b
    /\ b \in Coverage[u]
    /\ attach' = [attach EXCEPT ![u] = b]
    /\ process_link_up(u)
    /\ UNCHANGED <<sipvars, prefix>>

\* A link down.  The MAC sends one also when the association it tried failed, for
\* an uplink that was not up (Association, link_disconnect).
LoseLink(u) ==
    /\ status = "run"
    /\ attach' = [attach EXCEPT ![u] = None]
    /\ IF LinkDownSubscribed THEN process_link_down(u) ELSE UNCHANGED sipvars
    /\ UNCHANGED <<ndvars, prefix>>

\* process_link_going_down at the confidence threshold fakes a link down; the
\* link may yet survive.
LinkGoingDown(u) ==
    /\ LinkGoingDownSubscribed
    /\ attach[u] # None
    /\ process_link_down(u)
    /\ UNCHANGED <<ndvars, attach, prefix>>

\* A router advertisement reaches NDAgent::recv_ads.  (Bound: MaxLate.)
RecvRA(u, p) ==
    /\ status = "run"
    /\ attach[u] # None
    /\ p \in Advertised[attach[u]]
    /\ ND!recv_ads(u, p)
    /\ \/ /\ ND!NewPrefix(u, p)
          /\ Len(late) < MaxLate
          /\ process_new_prefix(u, p)
       \/ /\ ~ND!NewPrefix(u, p)
          /\ UNCHANGED <<sipvars, prefix>>
    /\ UNCHANGED attach

PrefixTimeout(u, p) ==
    /\ status = "run"
    /\ ND!timeout_prefix(u, p)
    /\ process_exp_prefix(u, p)
    /\ UNCHANGED <<attach, prefix>>

RSTimeout(u) ==
    /\ status = "run"
    /\ ND!timeout_rs(u)
    /\ UNCHANGED <<sipvars, attach, prefix>>

\* The REGISTER process_new_prefix scheduled is handed to its interface.
LateRegister ==
    /\ SIP!late_register
    /\ UNCHANGED <<ndvars, attach, prefix>>

RecvSip ==
    /\ SIP!RecvPacket
    /\ UNCHANGED <<ndvars, attach, prefix>>

Init ==
    /\ SIP!Init
    /\ ND!Init
    /\ attach = [u \in Uplinks |-> None]
    /\ prefix = [u \in Uplinks |-> None]

Next ==
    \/ \E u \in Uplinks, b \in PoAs : Associate(u, b)
    \/ \E u \in Uplinks : LoseLink(u)
    \/ \E u \in Uplinks : LinkGoingDown(u)
    \/ \E u \in Uplinks, p \in Prefixes : RecvRA(u, p)
    \/ \E u \in Uplinks, p \in Prefixes : PrefixTimeout(u, p)
    \/ \E u \in Uplinks : RSTimeout(u)
    \/ LateRegister
    \/ RecvSip

\* Routers advertise periodically (NDAgent::timeout reschedules its RA timer),
\* and the scheduler fires the timers of an uplink that hears no router and the
\* packets it was given.  The fairness of the advertisements is strong only because
\* the bound MaxLate holds them back now and then.
Fairness ==
    /\ WF_vars(LateRegister)
    /\ \A u \in Uplinks :
          /\ SF_vars(\E p \in Prefixes : RecvRA(u, p))
          /\ WF_vars(attach[u] = None /\ \E p \in Prefixes : PrefixTimeout(u, p))
          /\ WF_vars(RSTimeout(u))

Spec == Init /\ [][Next]_vars
FairSpec == Spec /\ Fairness

-----------------------------------------------------------------------------
(* Properties.                                                             *)

TypeOK ==
    /\ SIP!TypeOK
    /\ ND!TypeOK
    /\ attach \in [Uplinks -> PoAs \cup {None}]
    /\ prefix \in [Uplinks -> Prefixes \cup {None}]

\* A contact the router has registered for an uplink is that uplink's present
\* address, and neighbour discovery still holds the prefix it is built from:
\* no contact outlives its prefix, whatever the order of advertisements,
\* expirations, link events and fake link downs.
ContactIsCurrent ==
    status = "run" =>
        \A u \in Uplinks :
            con[u] # None => con[u] = <<u, prefix[u]>> /\ prefix[u] \in nlist[u]

\* SipBinding: an MN with a contact has one that an uplink owns.
BoundToLive == SIP!BoundToLive

\* SipBinding: no MN is without a contact while an uplink is live.
NoOrphan == SIP!NoOrphan

\* process_link_up: "We can use the interface, let's switch the flows to the new
\* interface".  An uplink that stays associated gets a registered contact.
AttachedRegisters ==
    \A u \in Uplinks :
        (status = "run" /\ attach[u] # None)
            ~> (con[u] # None \/ attach[u] = None \/ status # "run")
=============================================================================
