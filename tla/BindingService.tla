--------------------------- MODULE BindingService ---------------------------
(***************************************************************************)
(* What a mobile router promises the MNs behind it, without contacts,      *)
(* lists, counters or packets: each member is served by one live uplink as *)
(* long as there is one, and changes its uplink only when its own uplink   *)
(* goes or another one comes.                                              *)
(***************************************************************************)
CONSTANTS Uplinks, MNs, None

VARIABLES
    live,      \* the uplinks that work
    members,   \* the MNs that registered
    via        \* the uplink that serves each MN, or None

svars == <<live, members, via>>

Init ==
    /\ live = {}
    /\ members = {}
    /\ via = [m \in MNs |-> None]

\* An MN registers (again) and is served by some live uplink.
Join(m) ==
    /\ members' = members \cup {m}
    /\ \E u \in live : via' = [via EXCEPT ![m] = u]
    /\ UNCHANGED live

\* An uplink comes, or gets another address: it takes over some members, among
\* them all that nobody serves.
Gain(u) ==
    /\ live' = live \cup {u}
    /\ \E S \in SUBSET members :
          /\ {m \in members : via[m] = None} \subseteq S
          /\ via' = [m \in MNs |-> IF m \in S THEN u ELSE via[m]]
    /\ UNCHANGED members

\* An uplink goes: exactly the members it served are moved, each to an uplink
\* that is left, if there is one.
Lose(u) ==
    /\ live' = live \ {u}
    /\ \E f \in [MNs -> IF live \subseteq {u} THEN {None} ELSE live \ {u}] :
          via' = [m \in MNs |-> IF via[m] = u THEN f[m] ELSE via[m]]
    /\ UNCHANGED members

Next ==
    \/ \E m \in MNs : Join(m)
    \/ \E u \in Uplinks : Gain(u) \/ Lose(u)

Spec == Init /\ [][Next]_svars
=============================================================================
