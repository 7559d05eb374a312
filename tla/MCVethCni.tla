----------------------------- MODULE MCVethCni -----------------------------
(***************************************************************************)
(* Instances of VethCni for TLC.                                           *)
(***************************************************************************)
EXTENDS VethCni, TLC

CONSTANTS d1, d2, s1, s2, c1, k1, k2

\* One spoke per pod, one LANSpec.
OwnSpokes == d1 :> s1 @@ d2 :> s2
OneCfg == [d \in Device |-> c1]
=============================================================================
