------------------------------ MODULE MCNDHost ------------------------------
(* NDHost with a history variable that counts the router solicitations sent *)
(* since the current solicitation began.                                   *)
EXTENDS NDHost

VARIABLE tries

MCvars == <<nlist, rs_pending, nb_rtr_sol, tries>>

MCInit == Init /\ tries = [n \in NDs |-> 0]

\* An RS goes out when the timer is started and when it fires and stays armed.
Count ==
    tries' = [n \in NDs |->
                CASE ~rs_pending'[n] -> 0
                  [] rs_pending'[n] /\ ~rs_pending[n] -> 1
                  [] rs_pending'[n] /\ rs_pending[n] ->
                       IF nb_rtr_sol'[n] # nb_rtr_sol[n] THEN tries[n] + 1 ELSE tries[n]]

MCNext == Next /\ Count

MCSpec == MCInit /\ [][MCNext]_MCvars /\ Fairness

\* nd.h on max_rtr_solicitation_: "max number of RS transmissions".  One
\* solicitation never sends more, although RAs, new link-up events and prefix
\* timers come in any order between its retransmissions.
AtMostMaxRS == \A n \in NDs : tries[n] <= MaxRtrSol
=============================================================================
