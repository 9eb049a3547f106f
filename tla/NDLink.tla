-------------------------------- MODULE NDLink --------------------------------
(***************************************************************************)
(* NDAgent in router mode (router_ = 1) and the link to the hosts of       *)
(* NDHost: periodic router advertisements (RA), answers to router          *)
(* solicitations (RS) that are delayed, or left out when a periodic RA is  *)
(* near, and the commands that start and stop the advertisements.          *)
(*                                                                         *)
(* The router's decision compares times, so here time is discrete and the  *)
(* absolute times of the code are kept relative to NOW: since is           *)
(* NOW - lastRA_time_, nextRA is nextRA_time_ - NOW.  The unit is          *)
(* rs_timeout_ (1 s), so a host awaiting an answer sends one RS per unit.  *)
(* A packet crosses the link, or is lost, before the clock moves.          *)
(***************************************************************************)
EXTENDS MCNDHost

CONSTANTS
    Prefix,        \* the address of the router, advertised as prefix
    Broadcast,     \* broadcast_
    Targets,       \* ra_daddrs_: who gets periodic RAs when there is no broadcast
    MinInterval,   \* minRtrAdvInterval_
    MaxInterval,   \* maxRtrAdvInterval_
    MinDelay,      \* minDelayBetweenRA_
    MaxRADelay,    \* maxRADelay_
    MaxSwitches,   \* bound on start-ra and stop-ra commands
    MaxLoss        \* bound on lost packets

ASSUME LinkAssumption ==
    /\ Prefix \in Prefixes
    /\ Broadcast \in BOOLEAN
    /\ Targets \subseteq NDs
    /\ MinInterval \in Nat /\ MaxInterval \in Nat /\ MinInterval <= MaxInterval
    /\ MinDelay \in Nat /\ MaxRADelay \in Nat

VARIABLES
    since,      \* time since the last periodic RA, capped at MinDelay
    nextRA,     \* time to the next periodic RA, or Off
    replies,    \* rs_list_head_: number of timers by <<host, time to expiry>>
    sol,        \* hosts whose RS is on the link
    sent,       \* hosts that sent an RS in this unit of time
    air,        \* air[n]: number of RAs for n on the link
    due,        \* due[n]: time since the oldest unanswered RS of n, or Off
    switches, losses

router_vars == <<since, nextRA, replies, sol, sent, air, due, switches, losses>>
link_vars == <<MCvars, router_vars>>

Off == -1

\* The longest wait recv_rs can lead to.
Deadline == MaxRADelay + MinDelay

\* The receivers of a periodic RA, and of the answer to n.
Listeners == IF Broadcast THEN NDs ELSE Targets
AnswerTo(n) == IF Broadcast THEN NDs ELSE {n}

\* send_ads to each receiver.
send_ads(receivers) ==
    /\ air' = [n \in NDs |-> IF n \in receivers THEN air[n] + 1 ELSE air[n]]
    /\ due' = [n \in NDs |-> IF n \in receivers THEN Off ELSE due[n]]

-----------------------------------------------------------------------------
\* Router

\* start-ra and stop-ra move the periodic RA that recv_rs may have counted on.
Switch ==
    /\ switches < MaxSwitches
    /\ switches' = switches + 1
    /\ due' = [n \in NDs |-> Off]
    /\ UNCHANGED <<MCvars, since, replies, sol, sent, air, losses>>

start_ra == Switch /\ nextRA' \in MinInterval..MaxInterval

stop_ra == Switch /\ nextRA' = Off

\* timeout(IPv6_TIMER_RA)
timeout_ra ==
    /\ nextRA = 0
    /\ since' = 0
    /\ nextRA' \in MinInterval..MaxInterval
    /\ send_ads(Listeners)
    /\ UNCHANGED <<MCvars, replies, sol, sent, switches, losses>>

\* Is a periodic RA expected before the given time?
RABefore(t) == nextRA # Off /\ nextRA < t

\* Mutation: nextRA_time_ is compared without the test for -1.
Scheduled_no_test(d) ==
    IF nextRA < d \/ (d + since < MinDelay /\ nextRA < d + MinDelay) THEN {}
    ELSE {IF d + since < MinDelay THEN d + MinDelay - since ELSE d}

\* The times for which recv_rs may schedule its answer when it draws delay d: none
\* if a periodic RA comes first; after a recent RA the answer is put off.
Scheduled(d) ==
    IF RABefore(d) THEN {}
    ELSE IF d + since < MinDelay
         THEN IF nextRA > 0 /\ RABefore(d + MinDelay)
              THEN {}
              ELSE {d + MinDelay - since}
         ELSE {d}

recv_rs(n) ==
    /\ n \in sol
    /\ sol' = sol \ {n}
    /\ \E d \in 0..MaxRADelay :
         replies' = [r \in NDs \X (0..Deadline) |->
                       IF r[1] = n /\ r[2] \in Scheduled(d) THEN replies[r] + 1 ELSE replies[r]]
    /\ due' = IF n \in Listeners /\ due[n] = Off THEN [due EXCEPT ![n] = 0] ELSE due
    /\ UNCHANGED <<MCvars, since, nextRA, sent, air, switches, losses>>

\* The answer leaves lastRA_time_ as it is.
process_rsreply(n) ==
    /\ replies[<<n, 0>>] > 0
    /\ replies' = [replies EXCEPT ![<<n, 0>>] = @ - 1]
    /\ send_ads(AnswerTo(n))
    /\ UNCHANGED <<MCvars, since, nextRA, sol, sent, switches, losses>>

-----------------------------------------------------------------------------
\* Hosts, link and clock

\* A solicitation begins (link up, or the send-rs command).
host_send_rs(n) ==
    /\ ~rs_pending[n] /\ n \notin sent
    /\ send_rs(n) /\ Count
    /\ sol' = sol \cup {n} /\ sent' = sent \cup {n}
    /\ UNCHANGED <<since, nextRA, replies, air, due, switches, losses>>

\* Mutation: the timer is restarted before the tries are counted, so that it stays
\* pending after the last one.
host_timeout_rs_restarted(n) ==
    /\ n \notin sent /\ rs_pending[n]
    /\ \/ /\ nb_rtr_sol[n] + 1 < MaxRtrSol
          /\ nb_rtr_sol' = [nb_rtr_sol EXCEPT ![n] = @ + 1] /\ sol' = sol \cup {n}
       \/ nb_rtr_sol[n] + 1 >= MaxRtrSol /\ UNCHANGED <<nb_rtr_sol, sol>>
    /\ sent' = sent \cup {n}
    /\ UNCHANGED <<nlist, rs_pending, since, nextRA, replies, air, due, switches, losses>>
    /\ Count

\* The timer fires: another RS, or the end of the solicitation.
host_timeout_rs(n) ==
    /\ n \notin sent
    /\ timeout_rs(n) /\ Count
    /\ \/ rs_pending'[n] /\ sol' = sol \cup {n} /\ sent' = sent \cup {n}
       \/ ~rs_pending'[n] /\ UNCHANGED <<sol, sent>>
    /\ UNCHANGED <<since, nextRA, replies, air, due, switches, losses>>

host_recv_ads(n) ==
    /\ air[n] > 0
    /\ air' = [air EXCEPT ![n] = @ - 1]
    /\ recv_ads(n, Prefix) /\ Count
    /\ UNCHANGED <<since, nextRA, replies, sol, sent, due, switches, losses>>

host_timeout_prefix(n) ==
    /\ timeout_prefix(n, Prefix) /\ Count
    /\ UNCHANGED router_vars

\* A collision or a weak signal: the RS of n, or the RA for n, is lost.
lose(n) ==
    /\ losses < MaxLoss
    /\ losses' = losses + 1
    /\ \/ n \in sol /\ sol' = sol \ {n} /\ UNCHANGED air
       \/ air[n] > 0 /\ air' = [air EXCEPT ![n] = @ - 1] /\ UNCHANGED sol
    /\ UNCHANGED <<MCvars, since, nextRA, replies, sent, due, switches>>

\* The clock moves once everything due in this unit is done.
Tick ==
    /\ nextRA # 0 /\ sol = {}
    /\ \A n \in NDs :
         /\ air[n] = 0 /\ replies[<<n, 0>>] = 0
         /\ rs_pending[n] => n \in sent
    /\ since' = IF since < MinDelay THEN since + 1 ELSE since
    /\ nextRA' = IF nextRA = Off THEN Off ELSE nextRA - 1
    /\ replies' = [r \in NDs \X (0..Deadline) |->
                     IF r[2] < Deadline THEN replies[<<r[1], r[2] + 1>>] ELSE 0]
    /\ due' = [n \in NDs |-> IF due[n] = Off THEN Off ELSE due[n] + 1]
    /\ sent' = {}
    /\ UNCHANGED <<MCvars, sol, air, switches, losses>>

LinkInit ==
    /\ MCInit
    /\ since = 0 /\ nextRA = Off
    /\ replies = [r \in NDs \X (0..Deadline) |-> 0]
    /\ sol = {} /\ sent = {} /\ air = [n \in NDs |-> 0]
    /\ due = [n \in NDs |-> Off]
    /\ switches = 0 /\ losses = 0

LinkNext ==
    \/ start_ra \/ stop_ra \/ timeout_ra \/ Tick
    \/ \E n \in NDs :
         \/ recv_rs(n) \/ process_rsreply(n)
         \/ host_send_rs(n) \/ host_timeout_rs(n)
         \/ host_recv_ads(n) \/ host_timeout_prefix(n)
         \/ lose(n)

\* The simulator's scheduler runs every event that is due, then its clock advances.
LinkFairness ==
    /\ WF_link_vars(timeout_ra) /\ WF_link_vars(Tick)
    /\ \A n \in NDs :
         /\ WF_link_vars(recv_rs(n)) /\ WF_link_vars(process_rsreply(n))
         /\ WF_link_vars(host_recv_ads(n)) /\ WF_link_vars(host_timeout_rs(n))

LinkSpec == LinkInit /\ [][LinkNext]_link_vars /\ LinkFairness

-----------------------------------------------------------------------------

\* The type of the router's part of the state, proved with AnswerDeadline.
RouterTypeOK ==
    /\ since \in 0..MinDelay
    /\ nextRA \in Off..MaxInterval
    /\ replies \in [NDs \X (0..Deadline) -> Nat]
    /\ sol \subseteq NDs /\ sent \subseteq NDs /\ air \in [NDs -> Nat]
    /\ due \in [NDs -> Nat \cup {Off}]

\* recv_rs may leave the answer to the next periodic RA ("we will send a RA pretty
\* soon, so don't bother replying") or put it off after the last one, and each new
\* RS is judged afresh.  Still a host that hears the periodic RAs gets one at most
\* maxRADelay_ + minDelayBetweenRA_ after the first RS that reached the router,
\* unless start-ra or stop-ra moves the RA recv_rs counted on.
AnswerDeadline == \A n \in NDs : due[n] <= Deadline

\* A solicitation that begins with all its tries ends in a known prefix although
\* fewer packets are lost than it has tries, and although recv_rs may leave each RS
\* to a periodic RA, once the router is no longer started and stopped.
LearnsPrefix ==
    \A n \in NDs :
        (rs_pending[n] /\ n \in sol /\ nb_rtr_sol[n] = 0 /\ switches = MaxSwitches)
            ~> (Prefix \in nlist[n])
===============================================================================
