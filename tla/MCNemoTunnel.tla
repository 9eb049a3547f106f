---------------------------- MODULE MCNemoTunnel ----------------------------
(* NemoTunnel on small instances: the bounds are given in the cfg files.    *)
EXTENDS NemoTunnel
=============================================================================
