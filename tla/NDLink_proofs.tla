----------------------------- MODULE NDLink_proofs -----------------------------
(***************************************************************************)
(* The bound on router solicitations, for any hosts, prefixes and bound,   *)
(* and the router's answer in time, for any intervals and delays, with     *)
(* broadcast or unicast advertisements.                                    *)
(***************************************************************************)
EXTENDS NDLink, TLAPS

-----------------------------------------------------------------------------
(* Hosts: the bound on solicitations.                                      *)

\* nb_rtr_sol_ may start above 0, because an advertisement does not reset it, but
\* it is never behind the number of solicitations that were really sent.
CountInv ==
    /\ TypeOK
    /\ tries \in [NDs -> Nat]
    /\ \A n \in NDs : tries[n] <= nb_rtr_sol[n] + 1

LEMMA CountRange ==
    ASSUME CountInv
    PROVE  /\ nb_rtr_sol \in [NDs -> 0..(MaxRtrSol - 1)]
           /\ \A n \in NDs : /\ nb_rtr_sol[n] \in Nat /\ nb_rtr_sol[n] <= MaxRtrSol - 1
                             /\ tries[n] \in Nat /\ tries[n] <= nb_rtr_sol[n] + 1
<1>1. /\ nb_rtr_sol \in [NDs -> 0..(MaxRtrSol - 1)]
      /\ tries \in [NDs -> Nat]
      /\ \A n \in NDs : tries[n] <= nb_rtr_sol[n] + 1
  BY DEF CountInv, TypeOK
<1> QED BY <1>1, MaxRtrSolAssumption

LEMMA CountStep ==
    ASSUME CountInv, [MCNext]_MCvars
    PROVE  CountInv'
<1> USE MaxRtrSolAssumption
<1>1. CASE UNCHANGED MCvars
  BY <1>1 DEF MCvars, CountInv, TypeOK
<1>2. ASSUME NEW n \in NDs, send_rs(n), Count
      PROVE  CountInv'
  <2>1. TypeOK'
    BY <1>2 DEF CountInv, TypeOK, send_rs
  <2>2. nb_rtr_sol' = nb_rtr_sol
    BY <1>2 DEF send_rs
  <2>3. \A k \in NDs : rs_pending[k] \in BOOLEAN /\ rs_pending'[k] \in BOOLEAN
    BY <2>1 DEF CountInv, TypeOK
  <2>4. \A k \in NDs : tries'[k] = 0 \/ tries'[k] = 1 \/ tries'[k] = tries[k]
    BY <1>2, <2>2, <2>3 DEF Count
  <2>5. \A k \in NDs : tries'[k] \in Nat /\ tries'[k] <= nb_rtr_sol'[k] + 1
    BY <2>2, <2>4, CountRange
  <2> QED BY <1>2, <2>1, <2>5 DEF CountInv, Count
<1>3. ASSUME NEW n \in NDs, timeout_rs(n), Count
      PROVE  CountInv'
  <2>1. nb_rtr_sol' \in [NDs -> 0..(MaxRtrSol - 1)]
    BY <1>3, CountRange DEF timeout_rs
  <2>2. rs_pending' \in [NDs -> BOOLEAN] /\ nlist' = nlist
    BY <1>3 DEF CountInv, TypeOK, timeout_rs
  <2>3. TypeOK'
    BY <2>1, <2>2 DEF CountInv, TypeOK
  <2>4. \A k \in NDs \ {n} : nb_rtr_sol'[k] = nb_rtr_sol[k]
    BY <1>3, CountRange DEF timeout_rs
  <2>5. \A k \in NDs : rs_pending[k] \in BOOLEAN /\ rs_pending'[k] \in BOOLEAN
    BY <2>2 DEF CountInv, TypeOK
  <2>6. \A k \in NDs : rs_pending'[k] => rs_pending[k]
    BY <1>3, <2>5 DEF timeout_rs, CountInv, TypeOK
  <2>7. rs_pending'[n] => nb_rtr_sol'[n] = nb_rtr_sol[n] + 1
    <3>1. CASE rs_pending' = [rs_pending EXCEPT ![n] = FALSE]
      BY <3>1 DEF CountInv, TypeOK
    <3>2. CASE nb_rtr_sol' = [nb_rtr_sol EXCEPT ![n] = nb_rtr_sol[n] + 1]
      BY <3>2, CountRange
    <3> QED BY <1>3, <3>1, <3>2 DEF timeout_rs
  <2>8. \A k \in NDs : \/ tries'[k] = 0
                       \/ tries'[k] = tries[k] /\ rs_pending'[k]
                          /\ nb_rtr_sol'[k] = nb_rtr_sol[k]
                       \/ tries'[k] = tries[k] + 1 /\ rs_pending'[k]
                          /\ nb_rtr_sol'[k] # nb_rtr_sol[k]
    BY <1>3, <2>5, <2>6 DEF Count
  <2>9. \A k \in NDs : tries'[k] \in Nat /\ tries'[k] <= nb_rtr_sol'[k] + 1
    <3> TAKE k \in NDs
    <3>1. CASE k = n
      BY <2>7, <2>8, <3>1, <2>1, CountRange, MaxRtrSolAssumption
    <3>2. CASE k # n
      BY <2>4, <2>8, <3>2, CountRange
    <3> QED BY <3>1, <3>2
  <2> QED BY <1>3, <2>3, <2>9 DEF CountInv, Count
<1>4. ASSUME NEW n \in NDs, NEW p \in Prefixes,
             recv_ads(n, p) \/ timeout_prefix(n, p), Count
      PROVE  CountInv'
  <2>1. TypeOK'
    BY <1>4 DEF CountInv, TypeOK, recv_ads, timeout_prefix
  <2>2. nb_rtr_sol' = nb_rtr_sol
        /\ \A k \in NDs : rs_pending'[k] = rs_pending[k] \/ ~rs_pending'[k]
    BY <1>4 DEF CountInv, TypeOK, recv_ads, timeout_prefix
  <2>3. \A k \in NDs : rs_pending[k] \in BOOLEAN /\ rs_pending'[k] \in BOOLEAN
    BY <2>1 DEF CountInv, TypeOK
  <2>4. \A k \in NDs : tries'[k] \in {0, tries[k]}
    BY <1>4, <2>2, <2>3 DEF Count
  <2>5. \A k \in NDs : tries'[k] \in Nat /\ tries'[k] <= nb_rtr_sol'[k] + 1
    BY <2>2, <2>4, CountRange
  <2> QED BY <1>4, <2>1, <2>5 DEF CountInv, Count
<1>5. CASE MCNext
  <2>1. Next /\ Count
    BY <1>5 DEF MCNext
  <2> QED BY <1>2, <1>3, <1>4, <2>1 DEF Next
<1> QED BY <1>1, <1>5

LEMMA CountStart ==
    ASSUME MCInit
    PROVE  CountInv
<1>1. nb_rtr_sol \in [NDs -> 0..(MaxRtrSol - 1)] /\ tries \in [NDs -> Nat]
      /\ \A n \in NDs : tries[n] <= nb_rtr_sol[n] + 1
  BY MaxRtrSolAssumption DEF MCInit, Init
<1>2. nlist \in [NDs -> SUBSET Prefixes] /\ rs_pending \in [NDs -> BOOLEAN]
  BY DEF MCInit, Init
<1> QED BY <1>1, <1>2 DEF CountInv, TypeOK

LEMMA CountBound ==
    ASSUME CountInv
    PROVE  TypeOK /\ AtMostMaxRS
<1>1. ASSUME NEW n \in NDs
      PROVE  tries[n] <= MaxRtrSol
  <2>1. /\ nb_rtr_sol[n] \in Nat /\ nb_rtr_sol[n] <= MaxRtrSol - 1
        /\ tries[n] \in Nat /\ tries[n] <= nb_rtr_sol[n] + 1
    BY CountRange
  <2> QED BY <2>1, MaxRtrSolAssumption
<1> QED BY <1>1 DEF AtMostMaxRS, CountInv

\* One solicitation never sends more than max_rtr_solicitation_ packets, whatever
\* advertisements, link events and expirations come between its retransmissions.
THEOREM SolicitationBound == MCSpec => [](TypeOK /\ AtMostMaxRS)
<1>1. MCInit => CountInv
  BY CountStart
<1>2. CountInv /\ [MCNext]_MCvars => CountInv'
  BY CountStep
<1>3. CountInv => TypeOK /\ AtMostMaxRS
  BY CountBound
<1> QED BY <1>1, <1>2, <1>3, PTL DEF MCSpec

-----------------------------------------------------------------------------
(* Router: the deadline of an answer.                                      *)

\* An unanswered RS is backed by a periodic RA, or by an answer, that comes in time.
Backed(n) ==
    due[n] # Off =>
        \/ /\ nextRA # Off /\ n \in Listeners
           /\ due[n] + nextRA <= Deadline
        \/ \E k \in 0..Deadline : replies[<<n, k>>] > 0 /\ due[n] + k <= Deadline

DeadlineInv == RouterTypeOK /\ \A n \in NDs : Backed(n)

LEMMA DeadlineNat == Deadline \in Nat /\ Off = -1
BY LinkAssumption DEF Deadline, Off

LEMMA ListenersType == Listeners \subseteq NDs /\ \A n \in NDs : AnswerTo(n) \subseteq NDs
BY LinkAssumption DEF Listeners, AnswerTo

\* What send_ads does to the hosts it reaches and to the others.
LEMMA SendAds ==
    ASSUME RouterTypeOK, NEW R \in SUBSET NDs, send_ads(R)
    PROVE  /\ air' \in [NDs -> Nat] /\ due' \in [NDs -> Nat \cup {Off}]
           /\ \A n \in NDs : due'[n] = IF n \in R THEN Off ELSE due[n]
BY DEF RouterTypeOK, send_ads

\* The answer recv_rs schedules lies within the deadline, and so does the periodic
\* RA it relies on when it schedules none.
LEMMA ScheduledInTime ==
    ASSUME RouterTypeOK, NEW d \in 0..MaxRADelay
    PROVE  /\ Scheduled(d) \subseteq 0..Deadline
           /\ Scheduled(d) = {} => nextRA # Off /\ nextRA <= Deadline
<1>1. /\ MinDelay \in Nat /\ MaxRADelay \in Nat /\ d \in Nat /\ d <= MaxRADelay
      /\ since \in Nat /\ since <= MinDelay /\ nextRA \in Int
  BY LinkAssumption DEF RouterTypeOK, Off
<1>2. CASE RABefore(d)
  BY <1>1, <1>2 DEF RABefore, Scheduled, Deadline
<1>3. CASE ~RABefore(d) /\ d + since < MinDelay /\ nextRA > 0 /\ RABefore(d + MinDelay)
  BY <1>1, <1>3 DEF RABefore, Scheduled, Deadline
<1>4. CASE ~RABefore(d) /\ d + since < MinDelay /\ ~(nextRA > 0 /\ RABefore(d + MinDelay))
  <2>1. Scheduled(d) = {d + MinDelay - since}
    BY <1>4 DEF Scheduled
  <2>2. d + MinDelay - since \in 0..Deadline
    BY <1>1 DEF Deadline
  <2> QED BY <2>1, <2>2
<1>5. CASE ~RABefore(d) /\ ~(d + since < MinDelay)
  BY <1>1, <1>5 DEF Scheduled, Deadline
<1> QED BY <1>2, <1>3, <1>4, <1>5

LEMMA RecvRS ==
    ASSUME DeadlineInv, NEW n \in NDs, recv_rs(n)
    PROVE  DeadlineInv'
<1>1. PICK d \in 0..MaxRADelay :
        replies' = [r \in NDs \X (0..Deadline) |->
                      IF r[1] = n /\ r[2] \in Scheduled(d) THEN replies[r] + 1 ELSE replies[r]]
  BY DEF recv_rs
<1>2. /\ RouterTypeOK /\ \A m \in NDs : Backed(m)
      /\ replies \in [NDs \X (0..Deadline) -> Nat]
      /\ due \in [NDs -> Nat \cup {Off}]
  BY DEF DeadlineInv, RouterTypeOK
<1>3. /\ replies' \in [NDs \X (0..Deadline) -> Nat]
      /\ \A m \in NDs, k \in 0..Deadline :
           replies'[<<m, k>>] = IF m = n /\ k \in Scheduled(d)
                                THEN replies[<<m, k>>] + 1 ELSE replies[<<m, k>>]
  BY <1>1, <1>2
<1>4. /\ since' = since /\ nextRA' = nextRA /\ air' = air /\ sent' = sent /\ sol' = sol \ {n}
      /\ due' = IF n \in Listeners /\ due[n] = Off THEN [due EXCEPT ![n] = 0] ELSE due
  BY DEF recv_rs
<1>5. due' \in [NDs -> Nat \cup {Off}]
  BY <1>2, <1>4
<1>6. RouterTypeOK'
  BY <1>2, <1>3, <1>4, <1>5 DEF RouterTypeOK, Deadline, Off
<1>7. ASSUME NEW m \in NDs PROVE Backed(m)'
  <2>1. CASE due'[m] = due[m]
    <3>1. \A k \in 0..Deadline : replies[<<m, k>>] > 0 => replies'[<<m, k>>] > 0
      BY <1>2, <1>3, DeadlineNat
    <3> QED BY <2>1, <1>2, <1>4, <3>1 DEF Backed, Listeners, Deadline, Off
  <2>2. CASE due'[m] # due[m]
    <3>1. m = n /\ n \in Listeners /\ due'[m] = 0
      BY <2>2, <1>2, <1>4
    <3>2. CASE Scheduled(d) = {}
      <4>1. nextRA # Off /\ nextRA <= Deadline /\ nextRA \in Int
        BY <3>2, <1>2, ScheduledInTime DEF RouterTypeOK, Off
      <4> QED BY <4>1, <3>1, <1>4 DEF Backed, Listeners, Deadline, Off
    <3>3. CASE Scheduled(d) # {}
      <4>1. PICK k \in 0..Deadline : k \in Scheduled(d)
        BY <3>3, <1>2, ScheduledInTime
      <4>2. replies'[<<m, k>>] > 0
        BY <4>1, <3>1, <1>2, <1>3
      <4> QED BY <4>1, <4>2, <3>1, DeadlineNat DEF Backed, Deadline
    <3> QED BY <3>2, <3>3
  <2> QED BY <2>1, <2>2
<1> QED BY <1>6, <1>7 DEF DeadlineInv

LEMMA TickStep ==
    ASSUME DeadlineInv, Tick
    PROVE  DeadlineInv'
<1>1. /\ RouterTypeOK /\ \A m \in NDs : Backed(m)
      /\ replies \in [NDs \X (0..Deadline) -> Nat]
      /\ due \in [NDs -> Nat \cup {Off}]
      /\ since \in Nat /\ since <= MinDelay /\ MinDelay \in Nat /\ MaxInterval \in Nat
      /\ nextRA \in Int /\ nextRA >= -1 /\ nextRA <= MaxInterval
  BY LinkAssumption DEF DeadlineInv, RouterTypeOK, Off
<1>2. /\ nextRA # 0 /\ \A n \in NDs : replies[<<n, 0>>] = 0
      /\ since' = IF since < MinDelay THEN since + 1 ELSE since
      /\ nextRA' = IF nextRA = Off THEN Off ELSE nextRA - 1
      /\ due' = [n \in NDs |-> IF due[n] = Off THEN Off ELSE due[n] + 1]
      /\ sent' = {} /\ sol' = sol /\ air' = air
  BY DEF Tick
<1>3. /\ replies' \in [NDs \X (0..Deadline) -> Nat]
      /\ \A m \in NDs, k \in 0..Deadline :
           replies'[<<m, k>>] = IF k < Deadline THEN replies[<<m, k + 1>>] ELSE 0
  <2>1. replies' = [r \in NDs \X (0..Deadline) |->
                      IF r[2] < Deadline THEN replies[<<r[1], r[2] + 1>>] ELSE 0]
    BY DEF Tick
  <2>2. \A r \in NDs \X (0..Deadline) : r[2] < Deadline => <<r[1], r[2] + 1>> \in NDs \X (0..Deadline)
    BY DeadlineNat
  <2> QED BY <2>1, <2>2, <1>1
<1>4. RouterTypeOK'
  <2>1. since' \in 0..MinDelay
    BY <1>1, <1>2
  <2>2. nextRA' \in Off..MaxInterval
    BY <1>1, <1>2 DEF Off
  <2>3. due' \in [NDs -> Nat \cup {Off}]
    BY <1>1, <1>2 DEF Off
  <2> QED BY <2>1, <2>2, <2>3, <1>1, <1>2, <1>3 DEF RouterTypeOK, Deadline, Off
<1>5. ASSUME NEW m \in NDs PROVE Backed(m)'
  <2>1. SUFFICES ASSUME due'[m] # Off
                 PROVE  \/ nextRA' # Off /\ m \in Listeners /\ due'[m] + nextRA' <= Deadline
                        \/ \E k \in 0..Deadline : replies'[<<m, k>>] > 0 /\ due'[m] + k <= Deadline
    BY DEF Backed, Listeners, Deadline, Off
  <2>2. due[m] # Off /\ due[m] \in Nat /\ due'[m] = due[m] + 1
    BY <2>1, <1>1, <1>2
  <2>3. CASE nextRA # Off /\ m \in Listeners /\ due[m] + nextRA <= Deadline
    BY <2>2, <2>3, <1>1, <1>2, DeadlineNat
  <2>4. CASE \E k \in 0..Deadline : replies[<<m, k>>] > 0 /\ due[m] + k <= Deadline
    <3>1. PICK k \in 0..Deadline : replies[<<m, k>>] > 0 /\ due[m] + k <= Deadline
      BY <2>4
    <3>2. k # 0
      BY <3>1, <1>2
    <3>3. k - 1 \in 0..Deadline /\ k - 1 < Deadline /\ (k - 1) + 1 = k
      BY <3>2, DeadlineNat
    <3>4. replies'[<<m, k - 1>>] > 0
      BY <3>1, <3>3, <1>3
    <3>5. due'[m] + (k - 1) <= Deadline
      BY <3>1, <2>2, <3>3, DeadlineNat
    <3> QED BY <3>3, <3>4, <3>5
  <2> QED BY <2>2, <2>3, <2>4, <1>1 DEF Backed
<1> QED BY <1>4, <1>5 DEF DeadlineInv

LEMMA Advertise ==
    ASSUME DeadlineInv, timeout_ra
    PROVE  DeadlineInv'
<1>1. /\ send_ads(Listeners) /\ since' = 0 /\ nextRA' \in MinInterval..MaxInterval
      /\ replies' = replies /\ sol' = sol /\ sent' = sent
  BY DEF timeout_ra
<1>2. /\ due' \in [NDs -> Nat \cup {Off}] /\ air' \in [NDs -> Nat]
      /\ \A n \in NDs : due'[n] = IF n \in Listeners THEN Off ELSE due[n]
  BY <1>1, SendAds, ListenersType DEF DeadlineInv
<1>3. RouterTypeOK'
  BY <1>1, <1>2, LinkAssumption DEF DeadlineInv, RouterTypeOK, Deadline, Off
<1>4. \A n \in NDs : Backed(n)'
  BY <1>1, <1>2 DEF DeadlineInv, Backed, Listeners, Deadline, Off
<1> QED BY <1>3, <1>4 DEF DeadlineInv

LEMMA Answer ==
    ASSUME DeadlineInv, NEW n \in NDs, process_rsreply(n)
    PROVE  DeadlineInv'
<1>1. /\ send_ads(AnswerTo(n)) /\ since' = since /\ nextRA' = nextRA
      /\ replies[<<n, 0>>] > 0 /\ replies' = [replies EXCEPT ![<<n, 0>>] = @ - 1]
      /\ sol' = sol /\ sent' = sent
  BY DEF process_rsreply
<1>2. /\ due' \in [NDs -> Nat \cup {Off}] /\ air' \in [NDs -> Nat]
      /\ \A m \in NDs : due'[m] = IF m \in AnswerTo(n) THEN Off ELSE due[m]
  BY <1>1, SendAds, ListenersType DEF DeadlineInv
<1>3. /\ replies \in [NDs \X (0..Deadline) -> Nat]
      /\ <<n, 0>> \in NDs \X (0..Deadline)
  BY DeadlineNat DEF DeadlineInv, RouterTypeOK
<1>4. /\ replies' \in [NDs \X (0..Deadline) -> Nat]
      /\ \A m \in NDs, k \in 0..Deadline : m # n => replies'[<<m, k>>] = replies[<<m, k>>]
  BY <1>1, <1>3
<1>5. RouterTypeOK'
  BY <1>1, <1>2, <1>4 DEF DeadlineInv, RouterTypeOK, Deadline, Off
<1>6. ASSUME NEW m \in NDs PROVE Backed(m)'
  <2>1. CASE m \in AnswerTo(n)
    BY <2>1, <1>2 DEF Backed, Off
  <2>2. CASE m \notin AnswerTo(n)
    <3>1. m # n
      BY <2>2 DEF AnswerTo
    <3> QED BY <3>1, <2>2, <1>1, <1>2, <1>4 DEF DeadlineInv, Backed, Listeners, Deadline, Off
  <2> QED BY <2>1, <2>2
<1> QED BY <1>5, <1>6 DEF DeadlineInv

\* The steps that leave the router's times and promises alone.
LEMMA Others ==
    ASSUME DeadlineInv,
           UNCHANGED <<since, nextRA, replies, due>>,
           sol' \subseteq NDs, sent' \subseteq NDs, air' \in [NDs -> Nat]
    PROVE  DeadlineInv'
BY DEF DeadlineInv, RouterTypeOK, Backed, Listeners, Deadline, Off

LEMMA DeadlineStep ==
    ASSUME DeadlineInv, [LinkNext]_link_vars
    PROVE  DeadlineInv'
<1>1. /\ sol \subseteq NDs /\ sent \subseteq NDs /\ air \in [NDs -> Nat]
  BY DEF DeadlineInv, RouterTypeOK
<1>2. CASE UNCHANGED link_vars
  BY <1>1, <1>2, Others DEF link_vars, router_vars
<1>3. CASE start_ra \/ stop_ra
  <2>1. /\ nextRA' \in MinInterval..MaxInterval \/ nextRA' = Off
        /\ due' = [n \in NDs |-> Off]
        /\ UNCHANGED <<since, replies, sol, sent, air>>
    BY <1>3 DEF start_ra, stop_ra, Switch
  <2>2. RouterTypeOK'
    BY <2>1, LinkAssumption DEF DeadlineInv, RouterTypeOK, Deadline, Off
  <2> QED BY <2>1, <2>2 DEF DeadlineInv, Backed, Off
<1>4. CASE timeout_ra
  BY <1>4, Advertise
<1>5. CASE Tick
  BY <1>5, TickStep
<1>6. ASSUME NEW n \in NDs, recv_rs(n) PROVE DeadlineInv'
  BY <1>6, RecvRS
<1>7. ASSUME NEW n \in NDs, process_rsreply(n) PROVE DeadlineInv'
  BY <1>7, Answer
<1>8. ASSUME NEW n \in NDs, host_send_rs(n) PROVE DeadlineInv'
  BY <1>1, <1>8, Others DEF host_send_rs
<1>9. ASSUME NEW n \in NDs, host_timeout_rs(n) PROVE DeadlineInv'
  BY <1>1, <1>9, Others DEF host_timeout_rs
<1>10. ASSUME NEW n \in NDs, host_recv_ads(n) PROVE DeadlineInv'
  <2>1. air' \in [NDs -> Nat]
    BY <1>1, <1>10 DEF host_recv_ads
  <2> QED BY <1>1, <1>10, <2>1, Others DEF host_recv_ads
<1>11. ASSUME NEW n \in NDs, host_timeout_prefix(n) PROVE DeadlineInv'
  BY <1>1, <1>11, Others DEF host_timeout_prefix, router_vars
<1>12. ASSUME NEW n \in NDs, lose(n) PROVE DeadlineInv'
  <2>1. air' \in [NDs -> Nat] /\ sol' \subseteq NDs
    BY <1>1, <1>12 DEF lose
  <2> QED BY <1>1, <1>12, <2>1, Others DEF lose
<1> QED BY <1>2, <1>3, <1>4, <1>5, <1>6, <1>7, <1>8, <1>9, <1>10, <1>11, <1>12 DEF LinkNext

\* A host that hears the periodic advertisements is answered at most
\* maxRADelay_ + minDelayBetweenRA_ after the first RS that reaches recv_rs, for
\* every choice of the intervals and of the random delays.
THEOREM AnswersInTime == LinkSpec => [](RouterTypeOK /\ AnswerDeadline)
<1>1. LinkInit => DeadlineInv
  <2> SUFFICES ASSUME LinkInit
               PROVE  DeadlineInv
    OBVIOUS
  <2>1. RouterTypeOK
    BY LinkAssumption DEF LinkInit, RouterTypeOK, Off
  <2> QED BY <2>1 DEF LinkInit, DeadlineInv, Backed
<1>2. DeadlineInv /\ [LinkNext]_link_vars => DeadlineInv'
  BY DeadlineStep
<1>3. DeadlineInv => RouterTypeOK /\ AnswerDeadline
  <2> SUFFICES ASSUME DeadlineInv, NEW n \in NDs
               PROVE  due[n] <= Deadline
    BY DEF DeadlineInv, AnswerDeadline
  <2>1. due[n] \in Nat \cup {Off} /\ nextRA \in Int /\ nextRA >= -1 /\ Backed(n)
    BY LinkAssumption DEF DeadlineInv, RouterTypeOK, Off
  <2>2. CASE due[n] = Off
    BY <2>2, DeadlineNat
  <2>3. CASE due[n] # Off /\ nextRA # Off /\ due[n] + nextRA <= Deadline
    BY <2>1, <2>3, DeadlineNat
  <2>4. ASSUME due[n] # Off, NEW k \in 0..Deadline, due[n] + k <= Deadline
        PROVE  due[n] <= Deadline
    BY <2>1, <2>4, DeadlineNat
  <2> QED BY <2>1, <2>2, <2>3, <2>4 DEF Backed
<1> QED BY <1>1, <1>2, <1>3, PTL DEF LinkSpec

\* Every step of the link is a step of the hosts or leaves them alone.
LEMMA LinkCounts == LinkSpec => []CountInv
<1>1. LinkInit => CountInv
  BY CountStart DEF LinkInit
<1>2. [LinkNext]_link_vars => [MCNext]_MCvars
  <2> SUFFICES ASSUME [LinkNext]_link_vars
               PROVE  [MCNext]_MCvars
    OBVIOUS
  <2>1. CASE \E n \in NDs : \/ host_send_rs(n) \/ host_timeout_rs(n)
                            \/ host_recv_ads(n) \/ host_timeout_prefix(n)
    BY <2>1, LinkAssumption
       DEF host_send_rs, host_timeout_rs, host_recv_ads, host_timeout_prefix, MCNext, Next
  <2>2. CASE \/ start_ra \/ stop_ra \/ timeout_ra \/ Tick
             \/ \E n \in NDs : recv_rs(n) \/ process_rsreply(n) \/ lose(n)
    BY <2>2 DEF start_ra, stop_ra, Switch, timeout_ra, Tick, recv_rs, process_rsreply, lose
  <2>3. CASE UNCHANGED link_vars
    BY <2>3 DEF link_vars
  <2> QED BY <2>1, <2>2, <2>3 DEF LinkNext
<1>3. CountInv /\ [MCNext]_MCvars => CountInv'
  BY CountStep
<1> QED BY <1>1, <1>2, <1>3, PTL DEF LinkSpec

\* nb_rtr_sol_ of a host on the link stays below max_rtr_solicitation_, and its
\* timers and prefix keep their types.
THEOREM LinkTypes == LinkSpec => []TypeOK
<1>1. CountInv => TypeOK
  BY DEF CountInv
<1> QED BY <1>1, LinkCounts, PTL

\* The bound on solicitations holds on a lossy link as well.
THEOREM LinkSolicitationBound == LinkSpec => []AtMostMaxRS
<1>1. CountInv => AtMostMaxRS
  BY CountBound
<1> QED BY <1>1, LinkCounts, PTL
================================================================================
