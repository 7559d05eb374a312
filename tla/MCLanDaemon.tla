---------------------------- MODULE MCLanDaemon ----------------------------
(***************************************************************************)
(* Small instances of LanDaemon.                                           *)
(***************************************************************************)
EXTENDS LanDaemon, TLC

CONSTANTS h1, h2, l1, l2, l3, n1, n2, s1, s2, ns1, ns2, ns3

\* Hosts differ in nothing; safety runs only.
HostSymmetry == Permutations(Host)

\* One object.
OneName == l1 :> n1
OneSpoke == l1 :> {s1}
OneNs == l1 :> ns1

\* Two objects with nothing in common.
TwoNames == l1 :> n1 @@ l2 :> n2
TwoSpokes == l1 :> {s1} @@ l2 :> {s2}
TwoNs == l1 :> ns1 @@ l2 :> ns2

\* l2 is l1 deleted and created again: same name, same spokes, another
\* namespace (as after editing the spec).
AgainNames == l1 :> n1 @@ l2 :> n1
AgainSpokes == l1 :> {s1} @@ l2 :> {s1}

\* l2 is l1 made again with the same namespace too, beside a third object that has
\* nothing in common with them.
ThreeNames == l1 :> n1 @@ l2 :> n1 @@ l3 :> n2
ThreeSpokes == l1 :> {s1} @@ l2 :> {s1} @@ l3 :> {s2}
ThreeNs == l1 :> ns1 @@ l2 :> ns1 @@ l3 :> ns2
=============================================================================
