---------------------------- MODULE MCSipBinding ----------------------------
(* SipBinding on small instances: all MNs sit on the NEMO subnet of the     *)
(* uplink at the head of the list.                                         *)
EXTENDS SipBinding, TLC

MCHomeUplink == [m \in MNs |-> 1]

MCSymmetry == Permutations(MNs)
=============================================================================
