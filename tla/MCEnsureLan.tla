---------------------------- MODULE MCEnsureLan ----------------------------
(***************************************************************************)
(* Instances of EnsureLan for TLC.                                         *)
(***************************************************************************)
EXTENDS EnsureLan, TLC

CONSTANTS d1, d2, s1, s2, c1, c2, k1, k2, k3

InstSymmetry == Permutations(Inst)

\* Two spokes whose plugins hold the same LANSpec.
SameSpokes == d1 :> s1 @@ d2 :> s2
SameCfg == [d \in Device |-> c1]

\* The LAN was made again with another VNI and one more spoke: the plugin of s1
\* still holds the old spec.
StaleCfg == d1 :> c1 @@ d2 :> c2
=============================================================================
