---------------------------- MODULE MCAdmission ----------------------------
(***************************************************************************)
(* Instances of Admission for TLC.                                         *)
(***************************************************************************)
EXTENDS Admission, TLC

CONSTANTS h1, h2, other

\* Letters, and names of as many characters as Validate lets through, and one
\* more.
Words == {"a", "b", "name of 13", "name of 14"}
Widths ==
    ("a" :> 1 @@ "b" :> 1 @@ "name of 13" :> 13 @@ "name of 14" :> 14)
    @@ ("p" :> 1 @@ "M0" :> 2 @@ "V0" :> 2)
    @@ (VETHPreffix :> 12 @@ MACVTAPPreffix :> 11)

\* What a user writes who leaves out what may be left out.
Short == [ns |-> "ns", bridge |-> <<"b">>, vxlan |-> <<"b">>, vni |-> 1,
          vxlanGrp |-> Absent, vxlanPort |-> Absent, vxlanDevMap |-> Absent,
          spokes |-> {<<"a">>}]

\* Specs that differ from it in a field or two, good ones and bad ones.
Manifests ==
    {[Short EXCEPT !.vxlanPort = p, !.vxlanGrp = g] :
        p \in {Absent, 4789, 5000}, g \in {Absent, "ff02::14", "ff02::99", "fe80::1"}}
    \union {[Short EXCEPT !.vni = v, !.ns = n] :
        v \in {Absent, 0, 1, 16777215, 16777216}, n \in {Absent, "blank", "ns"}}
    \union {[Short EXCEPT !.bridge = b, !.vxlan = x] :
        b \in {<<"a">>, <<"name of 13">>}, x \in {<<>>, <<"b">>, <<"name of 14">>}}
    \union {[Short EXCEPT !.spokes = s] :
        s \in {{}, {<<"a">>, <<"b">>}, {<<"a">>, <<"a", "b">>, <<"b">>},
               {<<"name of 13">>, <<"b">>}, {<<"name of 14">>},
               {<<VETHPreffix, "a">>}, {<<"b", MACVTAPPreffix, "a">>, <<"a">>}}}
    \union {[Short EXCEPT !.vxlanDevMap = "filled"]}

\* With an explicit empty map.
EmptyMap == {Short, [Short EXCEPT !.vxlanDevMap = "empty"]}

Groups == {"ff02::14", "ff02::99"}
=============================================================================
