--------------------------- MODULE MCFlowRequest ---------------------------
(* FlowRequest for a node with a UMTS, an 802.11 and an Ethernet interface, *)
(* with history variables that count, for each flow, the moves a response   *)
(* made and its acceptances: the entries the base stations have made for it.*)
EXTENDS FlowRequest

VARIABLES moves, accepts

MCIfaces == {"umts", "wlan", "eth"}
MCQuality ==
    [i \in MCIfaces |-> CASE i = "umts" -> 0 [] i = "eth" -> 2 [] OTHER -> 1]

MCvars == <<vars, moves, accepts>>

MCInit ==
    /\ Init
    /\ moves = [f \in Flows |-> 0]
    /\ accepts = [f \in Flows |-> 0]

Count ==
    /\ moves' = [f \in Flows |-> IF iface'[f] # iface[f] /\ status' = status
                                THEN moves[f] + 1 ELSE moves[f]]
    /\ accepts' = [f \in Flows |->
                     IF list_nodes'[f] # list_nodes[f] THEN accepts[f] + 1 ELSE accepts[f]]

MCNext == Next /\ Count

MCSpec == MCInit /\ [][MCNext]_MCvars /\ Fairness

\* The bound on list_nodes hides no acceptance that a move could need.
ASSUME CountAssumption == MaxListed >= MaxSeq

\* Responses move a flow at most as often as a base station has accepted it: a refusal,
\* a duplicate or a late response is never taken for an acceptance, and a flow that the
\* loss of its link moved in between uses none up.
MovesBacked == \A f \in Flows : moves[f] <= accepts[f]
=============================================================================
