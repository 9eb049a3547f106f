--------------------------- MODULE MCSipPolicies ---------------------------
(***************************************************************************)
(* SipBinding under the policies that have no run of their own: select_ 0  *)
(* (by prefix) with the single MN it can serve, select_ 1 (random),        *)
(* select_ 2 (round robin, with more MNs than uplinks) and select_ 4       *)
(* (weight_2).  A behaviour keeps its policy.                              *)
(***************************************************************************)
EXTENDS Integers, Sequences, FiniteSets, TLC

CONSTANTS
    OneMN,      \* the MN of select_ 0
    FewMNs,     \* the MNs of random and weight_2
    ManyMNs,    \* the MNs of round robin
    CNs, Prefixes, None

ASSUME PoliciesAssumption ==
    /\ Prefixes # {}
    /\ None \notin ((1..3) \X Prefixes) \cup (1..3)
    /\ None \notin {OneMN} \cup FewMNs \cup ManyMNs

VARIABLES
    con, mnlist, mncon, cns, round_count, weight_count, weight_count2,
    status, late, sent,
    select   \* select_ of this behaviour

allvars == <<con, mnlist, mncon, cns, round_count, weight_count, weight_count2,
             status, late, sent, select>>

Policies == {0, 1, 2, 4}

ServedMNs(p) == CASE p = 0 -> {OneMN} [] p \in {1, 4} -> FewMNs [] p = 2 -> ManyMNs

\* Round robin runs with one prefix: an address then is the uplink's.
UsedPrefixes(p) == IF p = 2 THEN {CHOOSE q \in Prefixes : TRUE} ELSE Prefixes

S(p) == INSTANCE SipBinding WITH
            Select <- p, MNs <- ServedMNs(p), NumUplinks <- IF p = 0 THEN 2 ELSE 3,
            Prefixes <- UsedPrefixes(p), Readdress <- FALSE, MaxLate <- 1, RoundMod <- 6,
            HomeUplink <- [m \in ServedMNs(p) |-> 1]

MCInit == select \in Policies /\ \E p \in Policies : select = p /\ S(p)!Init

MCNext == UNCHANGED select /\ \E p \in Policies : select = p /\ S(p)!Next

MCSpec == MCInit /\ [][MCNext]_allvars

MCSymmetry == Permutations(ManyMNs) \cup Permutations(FewMNs)

\* BoundToLive for select_ 0 with its single MN, random and round robin: no MN
\* keeps an address its uplink has lost.  (weight_2 reads past its list's end.)
PolicyBoundToLive == \A p \in {0, 1, 2} : select = p => S(p)!BoundToLive

\* OneEntry under every policy: REGISTER and method 13 never give an MN a second
\* entry.
PolicyOneEntry == \A p \in Policies : select = p => S(p)!OneEntry

\* Under random and round robin a bound MN loses its contact only when the last
\* uplink is lost: the rehome loops find every live uplink.  (Under select_ 0 an
\* MN that registers again gets the contact of its prefix's uplink, dead or not.)
PolicyLosesOnlyLast ==
    [][\A p \in {1, 2} : select = p => S(p)!LosesOnlyLast]_allvars

\* re_homing in round robin spreads the MNs of the lost uplink evenly.
RoundEvenSpread == [][select = 2 => S(2)!EvenSpread]_allvars

\* When an uplink gets an address in round robin, it takes over so many MNs that
\* no other contact has more MNs than the new one.
RoundRenewShare == [][select = 2 => S(2)!RenewShare]_allvars
=============================================================================
