-------------------------- MODULE AdmissionProofs --------------------------
(***************************************************************************)
(* What Admission keeps for every set of hosts, finalizers and specs.      *)
(* Proved of every step, without the fairness.                             *)
(*                                                                         *)
(* The invariant says of an object what Create has checked, which holds    *)
(* as long as the object does because its spec is kept.                    *)
(***************************************************************************)
EXTENDS NamingProofs

\* An object has these three parts.
IsObject(o) == o = [spec |-> o.spec, fins |-> o.fins, deleting |-> o.deleting]

\* What is being deleted is held by hosts alone.
HeldByHosts == Exists /\ lan.deleting => lan.fins \subseteq Host

\* What Create has seen to.
Admitted(spec) ==
    /\ Required(spec) /\ spec.vxlanPort # Absent
    /\ Validate(spec)
    /\ {spec.bridge, spec.vxlan} \union spec.spokes \subseteq Name

IInv ==
    /\ Exists =>
          /\ IsObject(lan) /\ lan.deleting \in BOOLEAN
          /\ lan.fins \subseteq Host \union Foreign
          /\ Admitted(lan.spec)
    /\ HeldByHosts

\* An accepted Update leaves no object or the one sent, with the spec there was.
LEMMA Updated ==
    ASSUME NEW new, IsObject(new), Update(new)
    PROVE  \/ lan' = Absent
           \/ /\ IsObject(lan')
              /\ lan'.spec = lan.spec /\ lan'.fins = new.fins /\ lan'.deleting = new.deleting
<1> DEFINE mutated == [new EXCEPT !.spec = Default(@)]
<1>1. mutated = [spec |-> Default(new.spec), fins |-> new.fins, deleting |-> new.deleting]
  BY DEF IsObject
<1>2. ValidateUpdate(lan, mutated) /\ (lan' = Absent \/ lan' = mutated)
  BY DEF Update
<1>3. mutated.spec = lan.spec
  BY <1>2 DEF ValidateUpdate
<1>4. IsObject(mutated) /\ mutated.fins = new.fins /\ mutated.deleting = new.deleting
  BY <1>1 DEF IsObject
<1>5. QED  BY <1>2, <1>3, <1>4

\* An Update of an object under deletion takes finalizers away at most.
Sends(new) ==
    /\ IsObject(new)
    /\ Update(new)
    /\ new.deleting = lan.deleting
    /\ new.fins \subseteq Host \union Foreign
    /\ lan.deleting => new.fins \subseteq lan.fins

LEMMA HostCopies ==
    ASSUME IsObject(lan), NEW fins
    PROVE  /\ IsObject(HostCopy(fins))
           /\ HostCopy(fins).fins = fins /\ HostCopy(fins).deleting = lan.deleting
<1>1. lan = [spec |-> lan.spec, fins |-> lan.fins, deleting |-> lan.deleting]
  BY DEF IsObject
<1>2. \A r : [lan EXCEPT !.spec = r, !.fins = fins] = [spec |-> r, fins |-> fins, deleting |-> lan.deleting]
  <2> SUFFICES ASSUME NEW r, NEW o, o = [lan EXCEPT !.spec = r, !.fins = fins]
      PROVE  o = [spec |-> r, fins |-> fins, deleting |-> lan.deleting]
    OBVIOUS
  <2>1. DOMAIN lan = {"spec", "fins", "deleting"}
    BY <1>1
  <2>2. o.spec = r /\ o.fins = fins /\ o.deleting = lan.deleting
    BY <2>1
  <2>3. o = [f \in {"spec", "fins", "deleting"} |-> o[f]]
    BY <2>1
  <2>4. QED  BY <2>2, <2>3
<1>3. \E r : HostCopy(fins) = [lan EXCEPT !.spec = r, !.fins = fins]
  BY DEF HostCopy
<1>4. QED  BY <1>2, <1>3 DEF IsObject

\* A step that finds an object deletes it, stutters or sends an Update of it.
LEMMA StepSends ==
    ASSUME Exists, IsObject(lan), lan.fins \subseteq Host \union Foreign, [Next]_vars
    PROVE  Delete \/ UNCHANGED lan \/ \E new : Sends(new)
<1>1. ASSUME NEW spec \in Wanted, Edit(spec)
      PROVE  Sends([lan EXCEPT !.spec = spec])
  BY <1>1 DEF Edit, IsObject, Sends
<1>2. ASSUME NEW fins \in SUBSET Foreign, OthersHold(fins)
      PROVE  Sends([lan EXCEPT !.fins = (@ \intersect Host) \union fins])
  BY <1>2 DEF OthersHold, IsObject, Sends
<1>3. ASSUME NEW h \in Host, Hold(h)
      PROVE  Sends(HostCopy(lan.fins \union {h}))
  BY <1>3, HostCopies DEF Hold, Sends
<1>4. ASSUME NEW h \in Host, Release(h)
      PROVE  Sends(HostCopy(lan.fins \ {h}))
  BY <1>4, HostCopies DEF Release, Sends
<1>5. ~ \E spec \in Wanted, fins \in SUBSET Foreign : Create(spec, fins)
  BY DEF Create
<1>6. QED  BY <1>1, <1>2, <1>3, <1>4, <1>5 DEF Next, vars

\* What each step does to an object.
StepKeeps ==
    Exists /\ Exists' =>
        /\ IsObject(lan') /\ lan'.deleting \in BOOLEAN
        /\ lan'.spec = lan.spec /\ lan'.fins \subseteq Host \union Foreign
        /\ lan'.deleting => lan'.fins \subseteq (IF lan.deleting THEN lan.fins ELSE Host)

LEMMA StepIsOrderly ==
    ASSUME IInv, [Next]_vars
    PROVE  StepKeeps
<1> SUFFICES ASSUME Exists, Exists' PROVE StepKeeps
  BY DEF StepKeeps
<1>1. IsObject(lan) /\ lan.deleting \in BOOLEAN /\ lan.fins \subseteq Host \union Foreign /\ lan' # Absent
  BY DEF IInv, Exists
<1>2. CASE Delete
  <2>1. lan' = [spec |-> lan.spec, fins |-> lan.fins, deleting |-> TRUE] /\ lan.fins \subseteq Host
    BY <1>1, <1>2 DEF Delete, ValidateDelete, IsObject
  <2>2. QED  BY <2>1 DEF StepKeeps, IsObject
<1>3. CASE UNCHANGED lan
  BY <1>1, <1>3 DEF StepKeeps
<1>4. ASSUME NEW new, Sends(new)
      PROVE  StepKeeps
  BY <1>1, <1>4, Updated DEF Sends, StepKeeps
<1>5. QED  BY <1>1, <1>2, <1>3, <1>4, StepSends

\* A default fills a field or leaves it; the names stay those of the manifest.
LEMMA Defaulted ==
    ASSUME NEW spec \in Wanted, Required(Default(spec))
    PROVE  /\ Default(spec).vxlanPort # Absent
           /\ {Default(spec).bridge, Default(spec).vxlan} \union Default(spec).spokes \subseteq Name
<1>1. /\ spec = [field \in Fields |-> spec[field]]
      /\ {spec.bridge, spec.vxlan} \subseteq {Absent} \union Name
      /\ spec.spokes \in {Absent} \union SUBSET Name
  BY ManifestAssumption
<1>2. /\ Default(spec).vxlanPort = SetDefaultGeneric(spec.vxlanPort, DefaultVxPort)
      /\ Default(spec).bridge = spec.bridge /\ Default(spec).vxlan = spec.vxlan
      /\ Default(spec).spokes = spec.spokes
  BY <1>1 DEF Default, Fields, RequiredFields
<1>3. spec.bridge # Absent /\ spec.vxlan # Absent /\ spec.spokes # Absent
  BY <1>2 DEF Required, RequiredFields
<1>4. QED  BY <1>1, <1>2, <1>3, AdmissionAssumption DEF SetDefaultGeneric

LEMMA InvNext == IInv /\ [Next]_vars => IInv'
<1> SUFFICES ASSUME IInv, [Next]_vars, Exists' PROVE IInv'
  BY DEF IInv, HeldByHosts
<1>1. CASE Exists
  BY <1>1, StepIsOrderly DEF IInv, HeldByHosts, StepKeeps
<1>2. CASE ~Exists
  <2>1. PICK spec \in Wanted, fins \in SUBSET Foreign : Create(spec, fins)
    BY <1>2 DEF Next, Edit, OthersHold, Hold, Release, Delete, Exists, vars
  <2>2. lan' = [spec |-> Default(spec), fins |-> fins, deleting |-> FALSE]
    BY <2>1 DEF Create
  <2>3. IsObject(lan') /\ lan'.deleting = FALSE /\ lan'.fins = fins /\ lan'.spec = Default(spec)
    BY <2>2 DEF IsObject
  <2>4. Required(Default(spec)) /\ Validate(Default(spec))
    BY <2>1, <2>2 DEF Create, ValidateCreate
  <2>5. Admitted(Default(spec))
    BY <2>4, Defaulted DEF Admitted
  <2>6. QED  BY <2>3, <2>5 DEF IInv, HeldByHosts
<1>3. QED  BY <1>1, <1>2

LEMMA InvAlways == Spec => []IInv
<1>1. Init => IInv
  BY DEF Init, IInv, HeldByHosts, Exists
<1>2. QED  BY <1>1, InvNext, PTL DEF Spec

-----------------------------------------------------------------------------
\* What the webhook lets in is complete: the daemon set reads all of it through
\* pointers and checks none (lan_types.go:43-61, lan_webhook.go:78-90).
THEOREM AdmittedComplete == Spec => []TypeOK
<1>1. IInv => TypeOK
  BY DEF IInv, Admitted, TypeOK
<1>2. QED  BY InvAlways, <1>1, PTL

\* The two characters that Validate leaves are enough: for all words and widths
\* the names of a LAN's links fit into 15 characters, also those made from what
\* the plugins take for the spoke (lan_types.go:63-74, 187-196, apply.go:272-274,
\* plugin.go:53-70).
THEOREM AdmittedNamesFit == Spec => []LinksFit
<1>1. ASSUME NEW spec, Admitted(spec), NEW link \in LinkNames(spec)
      PROVE  Width(link) <= 15
  <2>1. ASSUME NEW s \in {spec.bridge, spec.vxlan} \union spec.spokes
        PROVE  s \in Name /\ Width(s) \in 1..13
    <3>1. s \in Name
      BY <1>1 DEF Admitted
    <3>2. checkInterfaceName(s)
      BY <1>1 DEF Admitted, Validate
    <3>3. QED  BY <3>1, <3>2 DEF checkInterfaceName
  <2>2. ASSUME NEW s \in spec.spokes, NEW v \in BOOLEAN
        PROVE  /\ SpokeOf(s, v) \in AnyName
               /\ Width(SpokeOf(s, v)) \in Nat /\ Width(SpokeOf(s, v)) <= 13
    BY <2>1, SpokeFits, NamesAreAny, WidthIsNat
  <2>3. ASSUME NEW s \in spec.spokes, NEW v \in BOOLEAN
        PROVE  /\ Width(getPeerVethName(SpokeOf(s, v))) <= 15
               /\ Width(DeviceName(SpokeOf(s, v), v)) <= 15
    <3>1. {"p", "M0", "V0"} \subseteq AnyWord
      BY DEF AnyWord, NameSuffixes
    <3>2. \A word \in {"p", "M0", "V0"} :
             Width(Append(SpokeOf(s, v), word)) = Width(SpokeOf(s, v)) + width[word]
      BY <2>2, <3>1, WidthAppend
    <3>3. \A word \in {"p", "M0", "V0"} : Width(Append(SpokeOf(s, v), word)) <= 15
      BY <2>2, <3>2, AdmissionAssumption
    <3>4. QED  BY <3>3 DEF getPeerVethName, DeviceName
  <2>4. QED  BY <1>1, <2>1, <2>2, <2>3 DEF LinkNames
<1>2. IInv => LinksFit
  BY <1>1 DEF IInv, LinksFit
<1>3. QED  BY InvAlways, <1>2, PTL

\* The plugins of a LAN work on the links it names, whatever the name is, if it
\* has none of the prefixes in it (lan_types.go:176-196).
THEOREM ResourcesLeadBack == Spec => []ResourcesLead
<1>1. IInv => ResourcesLead
  BY PlainLeadsBack DEF IInv, Admitted, ResourcesLead
<1>2. QED  BY InvAlways, <1>1, PTL

\* Once a deletion is accepted no finalizer but those of hosts is on the object
\* (lan_webhook.go:145-160).
THEOREM DeletedHeldByHosts == Spec => []HeldByHosts
<1>1. IInv => HeldByHosts
  BY DEF IInv
<1>2. QED  BY InvAlways, <1>1, PTL
=============================================================================
