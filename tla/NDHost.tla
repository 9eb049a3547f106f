------------------------------- MODULE NDHost -------------------------------
(***************************************************************************)
(* NDAgent in host mode (router_ = 0), one agent per interface: the list   *)
(* of prefixes learned from router advertisements, each with a lifetime    *)
(* timer, and router solicitations with their retransmission timer.        *)
(*                                                                         *)
(* Time is abstracted: a pending timer may fire at any moment.  That a     *)
(* prefix timer fires although its router is still there stands for three  *)
(* lost advertisements (recv_ads: "we want to allow a maximum of 2 packets *)
(* lost").                                                                 *)
(***************************************************************************)
EXTENDS Integers

CONSTANTS
    NDs,         \* the agents, one per interface of the node
    Prefixes,    \* prefixes a router may advertise
    MaxRtrSol    \* max_rtr_solicitation_

ASSUME MaxRtrSolAssumption == MaxRtrSol \in Nat \ {0}

VARIABLES
    nlist,       \* nlist[n]: prefixes in nlist_head_, each with a pending timer
    rs_pending,  \* rs_pending[n]: rsTimer_ is pending
    nb_rtr_sol   \* nb_rtr_sol_

vars == <<nlist, rs_pending, nb_rtr_sol>>

\* send_rs: ignored while an answer is awaited, else RS and start of the timer.
send_rs(n) ==
    /\ rs_pending' = [rs_pending EXCEPT ![n] = TRUE]
    /\ UNCHANGED <<nlist, nb_rtr_sol>>

\* Mutation: one retransmission too many.
timeout_rs_one_more(n) ==
    /\ rs_pending[n]
    /\ LET nb == nb_rtr_sol[n] + 1
       IN  \/ /\ nb <= MaxRtrSol
              /\ nb_rtr_sol' = [nb_rtr_sol EXCEPT ![n] = nb]
              /\ UNCHANGED <<nlist, rs_pending>>
           \/ /\ nb > MaxRtrSol
              /\ nb_rtr_sol' = [nb_rtr_sol EXCEPT ![n] = 0]
              /\ rs_pending' = [rs_pending EXCEPT ![n] = FALSE]
              /\ UNCHANGED nlist

\* Mutation: the timer is restarted after the last try as well.
timeout_rs_forever(n) ==
    /\ rs_pending[n]
    /\ nb_rtr_sol' = [nb_rtr_sol EXCEPT ![n] = (@ + 1) % MaxRtrSol]
    /\ UNCHANGED <<nlist, rs_pending>>

\* timeout(IPv6_TIMER_RS): resend, or give up and start counting afresh.
timeout_rs(n) ==
    /\ rs_pending[n]
    /\ LET nb == nb_rtr_sol[n] + 1
       IN  \/ /\ nb < MaxRtrSol
              /\ nb_rtr_sol' = [nb_rtr_sol EXCEPT ![n] = nb]
              /\ UNCHANGED <<nlist, rs_pending>>
           \/ /\ nb >= MaxRtrSol
              /\ nb_rtr_sol' = [nb_rtr_sol EXCEPT ![n] = 0]
              /\ rs_pending' = [rs_pending EXCEPT ![n] = FALSE]
              /\ UNCHANGED nlist

\* Mutation: an advertisement counts only while an answer is awaited.
recv_ads_awaited(n, p) ==
    /\ rs_pending' = [rs_pending EXCEPT ![n] = FALSE]
    /\ nlist' = IF rs_pending[n] THEN [nlist EXCEPT ![n] = @ \cup {p}] ELSE nlist
    /\ UNCHANGED nb_rtr_sol

\* recv_ads: cancels the solicitation timer; a known prefix gets a new lifetime,
\* an unknown one an entry (and the interface manager is told: see NewPrefix).
recv_ads(n, p) ==
    /\ rs_pending' = [rs_pending EXCEPT ![n] = FALSE]
    /\ nlist' = [nlist EXCEPT ![n] = @ \cup {p}]
    /\ UNCHANGED nb_rtr_sol

\* Does recv_ads raise ND_NEW_PREFIX?
NewPrefix(n, p) == p \notin nlist[n]

\* timeout(prefix): the entry goes, ND_PREFIX_EXPIRED is raised.
timeout_prefix(n, p) ==
    /\ p \in nlist[n]
    /\ nlist' = [nlist EXCEPT ![n] = @ \ {p}]
    /\ UNCHANGED <<rs_pending, nb_rtr_sol>>

Init ==
    /\ nlist = [n \in NDs |-> {}]
    /\ rs_pending = [n \in NDs |-> FALSE]
    /\ nb_rtr_sol = [n \in NDs |-> 0]

Next ==
    \E n \in NDs :
        \/ send_rs(n)
        \/ timeout_rs(n)
        \/ \E p \in Prefixes : recv_ads(n, p)
        \/ \E p \in Prefixes : timeout_prefix(n, p)

\* The scheduler of the simulator fires every pending timer.
Fairness == \A n \in NDs : WF_vars(timeout_rs(n))

Spec == Init /\ [][Next]_vars /\ Fairness

-----------------------------------------------------------------------------

TypeOK ==
    /\ nlist \in [NDs -> SUBSET Prefixes]
    /\ rs_pending \in [NDs -> BOOLEAN]
    /\ nb_rtr_sol \in [NDs -> 0..(MaxRtrSol - 1)]

\* A solicitation ends, with or without an answer: the retransmissions of
\* timeout(IPv6_TIMER_RS) stop by themselves.
SolicitationEnds ==
    \A n \in NDs : rs_pending[n] ~> ~rs_pending[n]
=============================================================================
