----------------------------- MODULE Admission -----------------------------
(***************************************************************************)
(* What becomes of the spec of a LAN on its way through the API server:    *)
(* the webhook's defaults and checks (internal/webhook), the updates that  *)
(* the hosts' typed clients send, and the names that resources, links and  *)
(* devices get from the spokes in it (api/v1beta1/lan_types.go).           *)
(*                                                                         *)
(* LanApi takes for granted that the spec of an object is usable, never    *)
(* changes (the guard of ValidateUpdate) and is no obstacle to finalizers; *)
(* here the first and the last are checked.                                *)
(*                                                                         *)
(* A name is a sequence of words, each of some width in characters.  The   *)
(* words are the prefixes and suffixes of the code and those that users    *)
(* choose.  A spoke named twice counts once.  What is done to names is     *)
(* defined without recursion, by the places of words and characters.       *)
(***************************************************************************)
EXTENDS Integers, FiniteSets, Sequences

CONSTANTS
    Host,
    Foreign,        \* finalizers of others
    Word,           \* words users build names from, prefixes among them
    width,          \* [words -> Nat]
    Wanted,         \* the specs users submit
    Multicast,      \* group addresses Validate accepts
    DefaultVxGrp,
    DefaultVxPort,
    MaxSpokes,      \* 4095
    Absent          \* a field that is not there, no object

VETHPreffix == "k8slan-veth-"
MACVTAPPreffix == "k8slan-mac-"
ResourcePrefixes == {VETHPreffix, MACVTAPPreffix}
NameSuffixes == {"p", "M0", "V0"}
Name == Seq(Word \union ResourcePrefixes)

\* The fields of a spec; what is not required may be Absent.
RequiredFields == {"ns", "bridge", "vxlan", "vni", "vxlanGrp", "spokes"}
Fields == RequiredFields \union {"vxlanPort", "vxlanDevMap"}

ASSUME AdmissionAssumption ==
    /\ Host \intersect Foreign = {}
    /\ width \in [Word \union ResourcePrefixes \union NameSuffixes -> Nat]
    /\ width["p"] = 1 /\ width["M0"] = 2 /\ width["V0"] = 2
    /\ MaxSpokes \in Nat
    /\ DefaultVxGrp \in Multicast
    /\ DefaultVxPort \in Nat \ {Absent}
    /\ Absent \notin Multicast \union Host \union Foreign

\* The client decodes any manifest into this type, whatever is in the fields.
ASSUME ManifestAssumption ==
    \A spec \in Wanted :
        /\ spec = [field \in Fields |-> spec[field]]
        /\ {spec.bridge, spec.vxlan} \subseteq {Absent} \union Name
        /\ spec.spokes \in {Absent} \union SUBSET Name

-----------------------------------------------------------------------------
\* Names.
\* The characters of a name: the place of their word, and theirs in it.
Characters(name) == UNION {{i} \X (1..width[name[i]]) : i \in DOMAIN name}
Width(name) == Cardinality(Characters(name))

\* strings.ReplaceAll by nothing: all words but this one, in their order.
Place(places, j) == CHOOSE i \in places : Cardinality(places \intersect 1..i) = j
Without(name, word) ==
    LET kept == {i \in DOMAIN name : name[i] # word}
    IN  [j \in 1..Cardinality(kept) |-> name[Place(kept, j)]]

GetDPResouceName(spoke, isVeth) ==
    <<IF isVeth THEN VETHPreffix ELSE MACVTAPPreffix>> \o spoke

\* Mutant: the macvtap prefix is not looked for.
GetSpokeNameFromResourceName_Veth(resource) ==
    Without(resource, VETHPreffix)

\* Every occurrence of the prefix goes, not only the first.
GetSpokeNameFromResourceName(resource) == Without(resource, resource[1])

\* What the plugin of a resource, and the CNI plugin, take for the spoke.
SpokeOf(spoke, isVeth) == GetSpokeNameFromResourceName(GetDPResouceName(spoke, isVeth))

getPeerVethName(spoke) == Append(spoke, "p")
DeviceName(spoke, isVeth) == Append(spoke, IF isVeth THEN "V0" ELSE "M0")

\* The names of the links Ensure makes for a spec.
LinkNames(spec) ==
    {spec.bridge, spec.vxlan} \union
    UNION {{SpokeOf(s, v), getPeerVethName(SpokeOf(s, v)), DeviceName(SpokeOf(s, v), v)} :
              s \in spec.spokes, v \in BOOLEAN}

-----------------------------------------------------------------------------
\* The webhook.

\* Mutant: as many characters as one suffix of one needs.
checkInterfaceName_Peer(name) == Width(name) \in 1..14

checkInterfaceName(name) == Width(name) \in 1..13

\* 24 bits.
Vnis == 1..16777215

Validate(spec) ==
    /\ \A name \in {spec.bridge, spec.vxlan} \union spec.spokes : checkInterfaceName(name)
    /\ spec.ns # "blank"
    /\ spec.vni \in Vnis
    /\ spec.vxlanGrp \in Multicast
    /\ Cardinality(spec.spokes) \in 1..MaxSpokes

\* Mutant: the default replaces nothing.
SetDefaultGeneric_None(inval, defVal) == inval

SetDefaultGeneric(inval, defVal) == IF inval # Absent THEN inval ELSE defVal

Default(spec) ==
    [spec EXCEPT !.vxlanPort = SetDefaultGeneric(@, DefaultVxPort),
                 !.vxlanGrp = SetDefaultGeneric(@, DefaultVxGrp)]

\* The schema, which the API server applies between the two halves.
Required(spec) == \A field \in RequiredFields : spec[field] # Absent

ValidateCreate(lan) == Validate(lan.spec)

\* Mutant: others' finalizers are refused here too.
ValidateUpdate_Ours(old, lan) == lan.spec = old.spec /\ lan.fins \subseteq Host

\* reflect.DeepEqual: a map without entries differs from none.
ValidateUpdate(old, lan) == lan.spec = old.spec /\ Validate(lan.spec)

\* Mutant: no check.
ValidateDelete_Any(lan) == TRUE

ValidateDelete(lan) == lan.fins \subseteq Host

-----------------------------------------------------------------------------
VARIABLE lan    \* the object in the API server
vars == lan

Init == lan = Absent
Exists == lan # Absent

Create(spec, fins) ==
    LET new == [spec |-> Default(spec), fins |-> fins, deleting |-> FALSE] IN
    /\ ~Exists
    /\ Required(new.spec)
    /\ ValidateCreate(new)
    /\ lan' = new

\* An Update the API server takes; with the last finalizer a deleted object goes.
Update(new) ==
    LET mutated == [new EXCEPT !.spec = Default(@)] IN
    /\ Required(mutated.spec)
    /\ ValidateUpdate(lan, mutated)
    /\ lan' = IF mutated.deleting /\ mutated.fins = {} THEN Absent ELSE mutated

\* A user sends another manifest, or another controller its finalizers, which
\* it can only remove once the object is being deleted.
Edit(spec) == Exists /\ Update([lan EXCEPT !.spec = spec])
OthersHold(fins) ==
    /\ Exists
    /\ lan.deleting => fins \subseteq lan.fins
    /\ Update([lan EXCEPT !.fins = (@ \intersect Host) \union fins])

\* Hosts read and write the typed object: omitempty leaves out what is empty.
Recoded(spec) == [spec EXCEPT !.vxlanDevMap = IF @ = "empty" THEN Absent ELSE @]
HostCopy(fins) == [lan EXCEPT !.spec = Recoded(@), !.fins = fins]

\* Reconcile adds the host's finalizer, or removes it after the cleanup.
Hold(h) ==
    /\ Exists /\ ~lan.deleting
    /\ h \notin lan.fins
    /\ Update(HostCopy(lan.fins \union {h}))
Release(h) ==
    /\ Exists /\ lan.deleting
    /\ h \in lan.fins
    /\ Update(HostCopy(lan.fins \ {h}))

Delete ==
    /\ Exists
    /\ ValidateDelete(lan)
    /\ lan' = IF lan.fins = {} THEN Absent ELSE [lan EXCEPT !.deleting = TRUE]

Next ==
    \/ \E spec \in Wanted : Edit(spec) \/ \E fins \in SUBSET Foreign : Create(spec, fins)
    \/ \E fins \in SUBSET Foreign : OthersHold(fins)
    \/ \E h \in Host : Hold(h) \/ Release(h)
    \/ Delete

\* Hosts try again until their Update is taken.
Fairness == \A h \in Host : WF_vars(Hold(h)) /\ WF_vars(Release(h))

Spec == Init /\ [][Next]_vars /\ Fairness

-----------------------------------------------------------------------------
\* Type of the variable: what Validate lets in has all that the daemon set reads
\* through pointers.
TypeOK ==
    Exists =>
        /\ lan.fins \subseteq Host \union Foreign
        /\ lan.deleting \in BOOLEAN
        /\ Required(lan.spec)
        /\ lan.spec.vxlanPort # Absent

\* Linux refuses names of more than 15 characters.  Every link that Ensure makes
\* for a LAN the webhook let in has a name that fits, with the suffix it gets
\* (lan_types.go:63-74, apply.go:272-274, plugin.go:53-70).
LinksFit ==
    Exists => \A name \in LinkNames(lan.spec) : Width(name) <= 15

\* A resource leads back to the spoke it was made for, so that the plugin and the
\* CNI plugin work on the link the LAN names, as long as the name has none of the
\* prefixes in it (lan_types.go:176-196).
Plain(name) == \A i \in DOMAIN name : name[i] \notin ResourcePrefixes
ResourcesLead ==
    Exists => \A s \in lan.spec.spokes, v \in BOOLEAN : Plain(s) => SpokeOf(s, v) = s

\* "the LAN DS adds host specific finalizer" (design.md:35): no check of the
\* webhook stands in the way of a host (lan_webhook.go:122-142, dset/main.go:69).
FinalizersAdded ==
    \A h \in Host :
        Exists /\ ~lan.deleting ~> (IF Exists THEN lan.deleting \/ h \in lan.fins ELSE TRUE)

\* A deletion that was accepted completes by the work of the hosts alone: nobody
\* else holds the object (lan_webhook.go:145-160).
DeletionCompletes ==
    Exists /\ lan.deleting ~> ~Exists
=============================================================================
