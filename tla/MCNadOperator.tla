--------------------------- MODULE MCNadOperator ---------------------------
(***************************************************************************)
(* Instances of NadOperator for TLC.                                       *)
(***************************************************************************)
EXTENDS NadOperator, TLC

CONSTANTS h1, l1, l2, n1, s1, ns1, a

\* One LAN, deleted and made again under its name.
AgainNames == [l \in Lan |-> n1]

OneSpoke == [l \in Lan |-> {s1}]
OneNs == [l \in Lan |-> ns1]
OneSpace == [n \in Name |-> a]
=============================================================================
