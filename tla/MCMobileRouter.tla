--------------------------- MODULE MCMobileRouter ---------------------------
(* MobileRouter on small instances: points of attachment 1 and 2 advertise *)
(* the prefixes of the same number.                                        *)
EXTENDS MobileRouter, TLC

MCPoAs == {"ap1", "ap2"}
MCPrefixes == {"p1", "p2"}
MCAdvertised == [b \in MCPoAs |-> IF b = "ap1" THEN {"p1"} ELSE {"p2"}]

MCSymmetry == Permutations(MNs)

MCHomeUplink == [m \in MNs |-> 1]

\* Every uplink can reach every point of attachment.
RoamingCoverage == [u \in 1..NumUplinks |-> MCPoAs]

\* Every uplink has a point of attachment of its own.
FixedCoverage == [u \in 1..NumUplinks |-> {IF u = 1 THEN "ap1" ELSE "ap2"}]
=============================================================================
