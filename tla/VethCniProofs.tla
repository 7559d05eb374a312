--------------------------- MODULE VethCniProofs ---------------------------
(***************************************************************************)
(* Theorems about VethCni, for every set of pods and namespaces and every  *)
(* bound on what goes wrong.                                               *)
(*                                                                         *)
(* The invariant joins that of EnsureLan, which the steps of pods keep     *)
(* too, with where pods, links and addresses may be.                       *)
(***************************************************************************)
EXTENDS VethCni, EnsureLanProofs

\* PodTypeOK without what it takes over from EnsureLan.
PodsTyped ==
    /\ pod \in [Device -> PodPC]
    /\ inPod \in [Device -> Inst \union {Nil}]
    /\ address \in [Device -> BOOLEAN]
    /\ cniFaults \in 0..MaxTrouble

\* A device is wanted as long as its pod waits, and calls are for wanted devices.
WantInv ==
    /\ want = {d \in Device : pod[d] = "waiting"}
    /\ ~At("idle") => call.d \in want

\* What a pod has at which point of its ADD.
Before == {"none", "waiting", "allocated", "move"}
Inside == {"rename", "ipam", "configure", "print", "running"}
AddInv ==
    \A d \in Device :
        /\ pod[d] \in Before => inPod[d] = Nil
        /\ pod[d] \in Before \union {"rename", "ipam"} => ~address[d]
        /\ pod[d] \in {"configure", "print", "running"} /\ d \in usesIpam => address[d]
        /\ address[d] \/ pod[d] = "ipam" => d \in usesIpam

\* The peer of spoke s is on the bridge of namespace k, and its other end is out.
Wired(s, k) ==
    /\ s \in net[k].peers
    /\ s \in net[k].wired
    /\ s \notin net[k].local
    /\ net[k].br # "none"

\* Links hang on a bridge, wherever they are, and are at one place.
LinkInv ==
    /\ \A s \in Spoke : link[s] # Nil => Wired(s, link[s])
    /\ \A d \in Device : inPod[d] # Nil =>
          Wired(spokeOf[d], inPod[d]) /\ inPod[d] # link[spokeOf[d]]
    /\ call.pc \in InVeth => S \in Here.peers \intersect Here.local

\* While no call of Ensure has failed and nothing is removed, namespaces are in
\* use as long as they have something in them, and pods keep their links.
Quiet == spent.fault = 0 /\ spent.remove = 0
QuietInv ==
    Quiet =>
        /\ call.k # Nil => call.k \in Mounted
        /\ \A k \in Inst : k \notin Mounted => net[k] = Empty
        /\ \A d \in Device : pod[d] \in Inside => inPod[d] # Nil
        /\ cniFaults = 0 => \A d \in Device :
              /\ pod[d] \notin {"release", "broken"}
              /\ pod[d] \in {"allocated", "move"} => link[spokeOf[d]] # Nil

PInv == IInv /\ PodsTyped /\ WantInv /\ AddInv /\ LinkInv /\ QuietInv

-----------------------------------------------------------------------------
LEMMA PInvInit == PodInit => PInv
<1> SUFFICES ASSUME PodInit PROVE PInv
  OBVIOUS
<1>1. IInv
  BY InvInit DEF PodInit
<1>2. PodsTyped
  BY CniAssumption DEF PodInit, PodsTyped, PodPC
<1>3. WantInv /\ AddInv
  BY NoCallFacts DEF PodInit, Init, WantInv, At, AddInv, Before
<1>4. LinkInv
  BY NoCallFacts, EnsureAssumption DEF PodInit, Init, LinkInv, InVeth, NoCall
<1>5. QuietInv
  BY NoCallFacts, EnsureAssumption DEF PodInit, Init, QuietInv, Inside
<1>6. QED  BY <1>1, <1>2, <1>3, <1>4, <1>5 DEF PInv

-----------------------------------------------------------------------------
(* What a step of Ensure does to namespaces and links. *)

\* Only the call's namespace and spoke are touched.
OnlyHere ==
    /\ call.k \in Inst
    /\ \A k \in Inst : k # call.k => net'[k] = net[k]
    /\ net'[call.k].br # "none"
    /\ \A s \in Spoke : s # S =>
          /\ link'[s] = link[s]
          /\ s \in net'[call.k].peers <=> s \in Here.peers
          /\ s \in net'[call.k].wired <=> s \in Here.wired
          /\ s \in net'[call.k].local <=> s \in Here.local

\* The link of its spoke, and what is known of the peer in between.
SpokeHangs ==
    /\ \A s \in Spoke : s = S => (link[s] # Nil => Wired(s, link[s]))'
    /\ call'.pc \in InVeth => S \in net'[call.k].peers \intersect net'[call.k].local

\* One of the two ends of the call's veth pair is set.
LEMMA InCallSets ==
    ASSUME IInv, call.pc \in Opened, NEW rec \in Content, SetHere(rec)
    PROVE  /\ \A k \in Inst : k # call.k => net'[k] = net[k]
           /\ net'[call.k] = rec /\ call.k \in Inst
  BY OpenedFacts, TypeParts DEF IInv, SetHere

\* Steps that leave the three sets and the links alone.
LEMMA LeavesVeths ==
    ASSUME IInv, LinkInv, call.pc \in Opened, NEW rec \in Content, SetHere(rec),
           rec.peers = Here.peers, rec.wired = Here.wired, rec.local = Here.local,
           rec.br # "none", UNCHANGED link, call'.pc \notin InVeth
    PROVE  OnlyHere /\ SpokeHangs
<1>1. OnlyHere
  BY InCallSets DEF OnlyHere
<1>2. ASSUME NEW s \in Spoke, s = S
      PROVE  (link[s] # Nil => Wired(s, link[s]))'
  <2>1. link[s] # Nil => Wired(s, link[s]) /\ link[s] \in Inst
    BY <1>2, OpenedFacts DEF LinkInv
  <2>2. QED  BY <1>2, <2>1, InCallSets DEF Wired, Here
<1>3. QED  BY <1>1, <1>2 DEF SpokeHangs

LEMMA BridgeEffect ==
    ASSUME IInv, LinkInv, Bridge
    PROVE  OnlyHere /\ SpokeHangs
<1> DEFINE rec == IF Here.br = "none" THEN [Here EXCEPT !.br = "down"] ELSE Here
<1>1. call.pc \in Opened /\ UNCHANGED link
  BY DEF Bridge, At, Opened, InNS
<1>2. /\ rec \in Content /\ rec.br # "none"
      /\ rec.peers = Here.peers /\ rec.wired = Here.wired /\ rec.local = Here.local
  BY <1>1, OpenedFacts DEF Content
<1>3. SetHere(rec)
  BY <1>1, Keeps DEF Bridge
<1>4. call'.pc \notin InVeth
  BY <1>1, OpenedFacts DEF Bridge, Goto, Calls, InVeth
<1>5. QED  BY <1>1, <1>2, <1>3, <1>4, LeavesVeths

LEMMA BridgeUpEffect ==
    ASSUME IInv, LinkInv, BridgeUp
    PROVE  OnlyHere /\ SpokeHangs
<1> DEFINE rec == [Here EXCEPT !.br = "up"]
<1>1. call.pc \in Opened /\ UNCHANGED link
  BY DEF BridgeUp, At, Opened, HasBridge, InNS
<1>2. /\ rec \in Content /\ rec.br # "none"
      /\ rec.peers = Here.peers /\ rec.wired = Here.wired /\ rec.local = Here.local
  BY <1>1, OpenedFacts DEF Content
<1>3. SetHere(rec) /\ call'.pc \notin InVeth
  BY <1>1, OpenedFacts DEF BridgeUp, Goto, Calls, InVeth
<1>4. QED  BY <1>1, <1>2, <1>3, LeavesVeths

LEMMA CheckVxlanEffect ==
    ASSUME IInv, LinkInv, CheckVxlan
    PROVE  OnlyHere /\ SpokeHangs
<1>1. call.pc \in HasBridge /\ call.pc \in Opened /\ UNCHANGED <<net, link>>
  BY DEF CheckVxlan, At, Opened, HasBridge, InNS
<1>2. Here \in Content /\ Here.br # "none"
  BY <1>1, OpenedFacts DEF IInv, CallInv
<1>3. SetHere(Here)
  BY <1>1, Keeps
<1>4. call'.pc \notin InVeth
  BY <1>1, OpenedFacts DEF CheckVxlan, Calls, InVeth
<1>5. QED  BY <1>1, <1>2, <1>3, <1>4, LeavesVeths

LEMMA DeleteVxlanEffect ==
    ASSUME IInv, LinkInv, DeleteVxlan
    PROVE  OnlyHere /\ SpokeHangs
<1> DEFINE rec == [Here EXCEPT !.vx = Nil, !.joined = FALSE]
<1>1. call.pc \in HasBridge /\ call.pc \in Opened /\ UNCHANGED link
  BY DEF DeleteVxlan, At, Opened, HasBridge, InNS
<1>2. /\ rec \in Content /\ rec.br # "none"
      /\ rec.peers = Here.peers /\ rec.wired = Here.wired /\ rec.local = Here.local
  BY <1>1, OpenedFacts DEF Content, IInv, CallInv
<1>3. SetHere(rec) /\ call'.pc \notin InVeth
  BY <1>1, OpenedFacts DEF DeleteVxlan, Goto, Calls, InVeth
<1>4. QED  BY <1>1, <1>2, <1>3, LeavesVeths

LEMMA AddVxlanEffect ==
    ASSUME IInv, LinkInv, AddVxlan
    PROVE  OnlyHere /\ SpokeHangs
<1> DEFINE rec == IF VxlanTaken THEN Here ELSE [Here EXCEPT !.vx = cfgOf[call.d]]
<1>1. call.pc \in HasBridge /\ call.pc \in Opened /\ UNCHANGED link
  BY DEF AddVxlan, At, Opened, HasBridge, OnHost, InNS
<1>2. /\ rec \in Content /\ rec.br # "none"
      /\ rec.peers = Here.peers /\ rec.wired = Here.wired /\ rec.local = Here.local
  BY <1>1, OpenedFacts, EnsureAssumption DEF Content, IInv, CallInv
<1>3. SetHere(rec)
  BY <1>1, Keeps DEF AddVxlan
<1>4. call'.pc \notin InVeth
  BY <1>1, OpenedFacts DEF AddVxlan, Goto, Calls, InVeth
<1>5. QED  BY <1>1, <1>2, <1>3, <1>4, LeavesVeths

LEMMA AttachEffect ==
    ASSUME IInv, LinkInv, Attach
    PROVE  OnlyHere /\ SpokeHangs
<1> DEFINE rec == [Here EXCEPT !.joined = (Here.vx # Nil)]
<1>1. call.pc \in HasBridge /\ call.pc \in Opened /\ UNCHANGED link
  BY DEF Attach, At, Opened, HasBridge, OnHost, InNS
<1>2. /\ rec \in Content /\ rec.br # "none"
      /\ rec.peers = Here.peers /\ rec.wired = Here.wired /\ rec.local = Here.local
  BY <1>1, OpenedFacts DEF Content, IInv, CallInv
<1>3. SetHere(rec) /\ call'.pc \notin InVeth
  BY <1>1, OpenedFacts DEF Attach, Goto, Calls, InVeth
<1>4. QED  BY <1>1, <1>2, <1>3, LeavesVeths

\* The peer of the spoke goes, and with it its other end if that is on the host.
LEMMA DeletePeerEffect ==
    ASSUME IInv, LinkInv, DeletePeer
    PROVE  OnlyHere /\ SpokeHangs
<1> DEFINE rec == [Here EXCEPT !.peers = @ \ {S}, !.wired = @ \ {S}, !.local = @ \ {S}]
<1>1. call.pc \in HasBridge /\ call.pc \in Opened /\ SetHere(rec)
  BY DEF DeletePeer, At, Opened, HasBridge
<1>2. /\ rec \in Content /\ rec.br = Here.br /\ rec.br # "none"
      /\ rec.peers = Here.peers \ {S} /\ rec.wired = Here.wired \ {S} /\ rec.local = Here.local \ {S}
  BY <1>1, OpenedFacts DEF Content, IInv, CallInv
<1>3. /\ \A s \in Spoke : s # S => link'[s] = link[s]
      /\ link'[S] = IF link[S] = call.k THEN Nil ELSE link[S]
  BY <1>1, OpenedFacts, TypeParts DEF DeletePeer, IInv
<1>4. OnlyHere
  BY <1>1, <1>2, <1>3, InCallSets DEF OnlyHere
<1>5. ASSUME NEW s \in Spoke, s = S
      PROVE  (link[s] # Nil => Wired(s, link[s]))'
  <2>1. link[s] # Nil => Wired(s, link[s]) /\ link[s] \in Inst
    BY <1>1, <1>5, OpenedFacts DEF LinkInv
  <2>2. QED  BY <1>1, <1>2, <1>3, <1>5, <2>1, InCallSets DEF Wired
<1>6. call'.pc \notin InVeth
  BY <1>1, OpenedFacts DEF DeletePeer, Goto, Calls, InVeth
<1>7. QED  BY <1>4, <1>5, <1>6 DEF SpokeHangs

\* There was no peer, so the link of the spoke hangs elsewhere or is gone.
LEMMA AddVethEffect ==
    ASSUME IInv, LinkInv, AddVeth
    PROVE  OnlyHere /\ SpokeHangs
<1> DEFINE rec == [Here EXCEPT !.peers = @ \union {S}, !.local = @ \union {S}]
<1>1. call.pc \in HasBridge /\ call.pc \in Opened /\ SetHere(rec) /\ UNCHANGED link /\ S \notin Here.peers
  BY DEF AddVeth, At, Opened, HasBridge, InNS
<1>2. /\ rec \in Content /\ rec.br # "none" /\ rec.wired = Here.wired
      /\ rec.peers = Here.peers \union {S} /\ rec.local = Here.local \union {S}
  BY <1>1, OpenedFacts DEF Content, IInv, CallInv
<1>3. OnlyHere
  BY <1>1, <1>2, InCallSets DEF OnlyHere
<1>4. ASSUME NEW s \in Spoke, s = S
      PROVE  (link[s] # Nil => Wired(s, link[s]))'
  <2>1. link[s] # Nil => Wired(s, link[s]) /\ link[s] \in Inst /\ link[s] # call.k
    BY <1>1, <1>4, OpenedFacts DEF LinkInv, Wired, Here
  <2>2. QED  BY <1>1, <1>4, <2>1, <1>2, InCallSets DEF Wired
<1>5. S \in net'[call.k].peers \intersect net'[call.k].local
  BY <1>1, <1>2, InCallSets
<1>6. QED  BY <1>3, <1>4, <1>5 DEF SpokeHangs

LEMMA WireEffect ==
    ASSUME IInv, LinkInv, Wire
    PROVE  OnlyHere /\ SpokeHangs
<1> DEFINE rec == [Here EXCEPT !.wired = @ \union {S}]
<1>1. call.pc \in HasBridge /\ call.pc \in Opened /\ SetHere(rec) /\ UNCHANGED link
  BY DEF Wire, At, Opened, HasBridge, InVeth, InNS
<1>2. S \in Here.peers \intersect Here.local
  BY DEF Wire, At, LinkInv, InVeth
<1>3. /\ rec \in Content /\ rec.br # "none" /\ rec.peers = Here.peers /\ rec.local = Here.local
      /\ rec.wired = Here.wired \union {S}
  BY <1>1, OpenedFacts DEF Content, IInv, CallInv
<1>4. OnlyHere
  BY <1>1, <1>3, InCallSets DEF OnlyHere
<1>5. ASSUME NEW s \in Spoke, s = S
      PROVE  (link[s] # Nil => Wired(s, link[s]))'
  <2>1. link[s] # Nil => Wired(s, link[s]) /\ link[s] \in Inst /\ link[s] # call.k
    BY <1>1, <1>2, <1>5, OpenedFacts DEF LinkInv, Wired, Here
  <2>2. QED  BY <1>1, <1>5, <2>1, <1>3, InCallSets DEF Wired
<1>6. S \in net'[call.k].peers \intersect net'[call.k].local
  BY <1>1, <1>2, <1>3, InCallSets
<1>7. QED  BY <1>4, <1>5, <1>6 DEF SpokeHangs

\* The wired peer's other end comes to the host.
LEMMA MoveToHostEffect ==
    ASSUME IInv, LinkInv, MoveToHost
    PROVE  OnlyHere /\ SpokeHangs
<1> DEFINE rec == [Here EXCEPT !.local = @ \ {S}]
<1>1. call.pc = "move" /\ call.pc \in HasBridge /\ call.pc \in Opened /\ SetHere(rec)
  BY DEF MoveToHost, At, Opened, HasBridge, InVeth
<1>2. S \in Here.peers /\ S \in Here.wired
  BY <1>1 DEF At, LinkInv, InVeth, IInv, CallInv
<1>3. /\ rec \in Content /\ rec.br # "none" /\ rec.peers = Here.peers /\ rec.wired = Here.wired
      /\ rec.local = Here.local \ {S}
  BY <1>1, OpenedFacts DEF Content, IInv, CallInv
<1>4. link'[S] = call.k /\ \A s \in Spoke : s # S => link'[s] = link[s]
  BY <1>1, OpenedFacts, TypeParts DEF MoveToHost, IInv
<1>5. OnlyHere
  BY <1>1, <1>3, <1>4, InCallSets DEF OnlyHere
<1>6. ASSUME NEW s \in Spoke, s = S
      PROVE  (link[s] # Nil => Wired(s, link[s]))'
  BY <1>1, <1>2, <1>3, <1>4, <1>6, InCallSets DEF Wired
<1>7. call'.pc \notin InVeth
  BY <1>1, OpenedFacts DEF MoveToHost, Goto, Calls, InVeth
<1>8. QED  BY <1>5, <1>6, <1>7 DEF SpokeHangs

-----------------------------------------------------------------------------
(* Steps that pods follow. *)

\* All of EnsureLan but the coming of pods.
EnsureMoves ==
    \/ \E d \in Device : Start(d)
    \/ EnsureStep \/ Failure \/ Remove \/ RemoveFile \/ Crash \/ Collect
    \/ \E k \in Inst : Destroy(k)

\* Namespaces and links stay; a call that holds a veth pair held it before.
Untouched ==
    /\ UNCHANGED <<net, link>>
    /\ call'.pc \in InVeth => call.pc \in InVeth /\ call'.k = call.k /\ call'.d = call.d

\* The call works in its namespace.
Worked == OnlyHere /\ SpokeHangs /\ call'.k = call.k /\ call'.d = call.d

LEMMA WorkedEffects ==
    ASSUME IInv, LinkInv,
           \/ Bridge \/ BridgeUp \/ CheckVxlan \/ DeleteVxlan \/ DeletePeer \/ AddVeth
           \/ Wire \/ MoveToHost \/ AddVxlan \/ Attach
    PROVE  Worked
<1>1. call \in Calls
  BY TypeParts DEF IInv
<1>2. call'.k = call.k /\ call'.d = call.d
  BY <1>1 DEF Bridge, BridgeUp, CheckVxlan, DeleteVxlan, DeletePeer, AddVeth, Wire, MoveToHost, AddVxlan, Attach,
              Goto, Calls
<1>3. OnlyHere /\ SpokeHangs
  BY BridgeEffect, BridgeUpEffect, CheckVxlanEffect, DeleteVxlanEffect, DeletePeerEffect,
     AddVethEffect, WireEffect, MoveToHostEffect, AddVxlanEffect, AttachEffect
<1>4. QED  BY <1>2, <1>3 DEF Worked

LEMMA EnsureEffects ==
    ASSUME IInv, LinkInv, EnsureMoves
    PROVE  Untouched \/ Worked \/ \E k \in Inst : Destroy(k)
<1>1. call \in Calls
  BY TypeParts DEF IInv
<1>2. CASE \/ (\E d \in Device : Start(d)) \/ GetNS \/ CreateFile \/ (\E k \in Inst : Mount(k)) \/ Open
           \/ SpokeUp \/ RecreateMacvtap
  BY <1>1, <1>2 DEF Start, FirstStep, NoCall, GetNS, CreateFile, Mount, Open, SpokeUp, RecreateMacvtap,
                    Goto, InNS, InCall, Calls, InVeth, Untouched
<1>3. CASE Reply \/ Refused \/ StepFails \/ Crash
  BY <1>3 DEF Reply, Refused, StepFails, Crash, Return, NoCall, InVeth, Untouched
<1>4. CASE GetNSFails \/ IgnoredFailure
  <2>1. CASE GetNSFails
    BY <1>1, <2>1 DEF GetNSFails, Goto, Calls, InVeth, Untouched
  <2>2. CASE IgnoredFailure
    <3>1. call.pc \in {"vxlan", "delVxlan", "peer", "attach"} /\ call'.pc = AfterIgnored[call.pc] /\ UNCHANGED <<net, link>>
      BY <1>1, <2>2 DEF IgnoredFailure, AfterIgnored, Calls
    <3>2. call'.pc \in {"delVxlan", "peer", "veth", "spokeUp"}
      BY <3>1 DEF AfterIgnored
    <3>3. QED  BY <3>1, <3>2 DEF InVeth, Untouched
  <2>3. QED  BY <1>4, <2>1, <2>2
<1>5. CASE Remove \/ RemoveFile \/ Collect
  BY <1>5 DEF Remove, RemoveFile, Collect, Untouched
<1>6. CASE EnsureStep
  BY <1>2, <1>3, <1>6, WorkedEffects DEF EnsureStep
<1>7. CASE Failure
  BY <1>3, <1>4, <1>7 DEF Failure
<1>8. QED  BY <1>2, <1>3, <1>5, <1>6, <1>7 DEF EnsureMoves

\* The device a call is for has no other, and its pod waits.
LEMMA OthersSpokes ==
    ASSUME PInv, call.pc # "idle", NEW d \in Device, pod[d] # "waiting"
    PROVE  d # call.d /\ spokeOf[d] # S
  BY CniAssumption DEF PInv, WantInv, At, S, IInv, CallTyped

\* Who has got its device loses its link to the kernel only.
LEMMA Following ==
    ASSUME PInv, EnsureMoves, PodsFollow, NEW d \in Device
    PROVE  /\ inPod'[d] # inPod[d] => inPod'[d] = Nil /\ inPod[d] \in Inst /\ Destroy(inPod[d])
           /\ pod[d] # "waiting" /\ link'[spokeOf[d]] # link[spokeOf[d]] =>
                 link'[spokeOf[d]] = Nil /\ link[spokeOf[d]] \in Inst /\ Destroy(link[spokeOf[d]])
<1>1. spokeOf[d] \in Spoke /\ Nil \notin Inst /\ inPod[d] \in Inst \union {Nil}
  BY EnsureAssumption DEF PInv, PodsTyped
<1>2. inPod'[d] = IF inPod[d] # Nil /\ spokeOf[d] \in net'[inPod[d]].peers THEN inPod[d] ELSE Nil
  BY DEF PodsFollow
<1>3. /\ inPod[d] # Nil => spokeOf[d] \in net[inPod[d]].peers
      /\ inPod[d] # Nil => pod[d] # "waiting"
  BY DEF PInv, LinkInv, Wired, AddInv, Before
<1>4. CASE Untouched
  BY <1>1, <1>2, <1>3, <1>4 DEF Untouched
<1>5. CASE Worked
  <2>1. call.k \in Inst /\ call.pc # "idle"
    BY <1>5, EnsureAssumption DEF Worked, OnlyHere, PInv, IInv, CallTyped, Opened, HasBridge, OnHost, Ready, InVeth
  <2>2. pod[d] # "waiting" => spokeOf[d] # S
    BY <2>1, OthersSpokes
  <2>3. pod[d] # "waiting" => link'[spokeOf[d]] = link[spokeOf[d]]
    BY <1>1, <1>5, <2>2 DEF Worked, OnlyHere
  <2>4. inPod[d] # Nil => spokeOf[d] \in net'[inPod[d]].peers
    BY <1>1, <1>3, <1>5, <2>2 DEF Worked, OnlyHere, Here
  <2>5. QED  BY <1>2, <2>3, <2>4
<1>6. ASSUME NEW k \in Inst, Destroy(k)
      PROVE  /\ inPod'[d] # inPod[d] => inPod'[d] = Nil /\ inPod[d] = k
             /\ link'[spokeOf[d]] # link[spokeOf[d]] => link'[spokeOf[d]] = Nil /\ link[spokeOf[d]] = k
  <2>1. \A i \in Inst : i # k => net'[i] = net[i]
    BY <1>6, TypeParts DEF Destroy, PInv, IInv
  <2>2. link'[spokeOf[d]] = IF link[spokeOf[d]] = k THEN Nil ELSE link[spokeOf[d]]
    BY <1>1, <1>6 DEF Destroy
  <2>3. QED  BY <1>1, <1>2, <1>3, <2>1, <2>2
<1>7. IInv /\ LinkInv
  BY DEF PInv
<1>8. QED  BY <1>4, <1>5, <1>6, <1>7, EnsureEffects

\* What is wanted and what calls are for: only Reply serves a pod.
LEMMA Serving ==
    ASSUME PInv, EnsureMoves, PodsFollow
    PROVE  /\ want' = want \/ Reply
           /\ call'.pc # "idle" => call'.d \in want'
           /\ \A d \in Device : pod'[d] = IF Reply /\ d = call.d THEN "allocated" ELSE pod[d]
<1>1. call.pc # "idle" => call.d \in want
  BY DEF PInv, WantInv, At
<1>2. /\ want' = want \/ Reply
      /\ call'.pc # "idle" => call'.d \in want'
  <2>1. CASE \E d \in Device : Start(d)
    BY <2>1 DEF Start, NoCall, InNS, InCall
  <2>2. CASE Reply \/ Refused \/ StepFails \/ Crash
    BY <2>2 DEF Reply, Refused, StepFails, Crash, Return, NoCall
  <2>3. ASSUME \/ GetNS \/ CreateFile \/ (\E k \in Inst : Mount(k)) \/ Open
               \/ Bridge \/ BridgeUp \/ CheckVxlan \/ DeleteVxlan \/ DeletePeer \/ AddVeth \/ Wire \/ MoveToHost
               \/ AddVxlan \/ Attach \/ SpokeUp \/ RecreateMacvtap \/ GetNSFails
        PROVE  UNCHANGED want /\ call'.d = call.d /\ call.pc # "idle"
    <3>1. call \in Calls
      BY TypeParts DEF PInv, IInv
    <3>2. QED
      BY <2>3, <3>1 DEF GetNS, CreateFile, Mount, Open, Bridge, BridgeUp, CheckVxlan, DeleteVxlan, DeletePeer,
         AddVeth, Wire, MoveToHost, AddVxlan, Attach, SpokeUp, RecreateMacvtap, GetNSFails,
         At, Goto, InNS, InCall, Calls
  <2>4. ASSUME IgnoredFailure
        PROVE  UNCHANGED want /\ call'.d = call.d /\ call.pc # "idle"
    <3>1. call \in Calls
      BY TypeParts DEF PInv, IInv
    <3>2. QED  BY <2>4, <3>1 DEF IgnoredFailure, AfterIgnored, Calls
  <2>5. CASE Remove \/ RemoveFile \/ Collect \/ \E k \in Inst : Destroy(k)
    BY <1>1, <2>5 DEF Remove, RemoveFile, Collect, Destroy, PInv, WantInv, At
  <2>6. CASE EnsureStep
    BY <1>1, <2>2, <2>3, <2>6 DEF EnsureStep, PInv, WantInv, At
  <2>7. CASE Failure
    BY <1>1, <2>2, <2>3, <2>4, <2>7 DEF Failure, PInv, WantInv, At
  <2>8. QED  BY <2>1, <2>2, <2>5, <2>6, <2>7 DEF EnsureMoves
<1>3. ASSUME NEW d \in Device
      PROVE  pod'[d] = IF Reply /\ d = call.d THEN "allocated" ELSE pod[d]
  <2>1. pod'[d] = IF d \in want \ want' THEN "allocated" ELSE pod[d]
    BY DEF PodsFollow
  <2>2. Reply => call.d \in want /\ want' = want \ {call.d}
    BY DEF Reply, At, PInv, WantInv
  <2>3. QED  BY <1>2, <2>1, <2>2
<1>4. QED  BY <1>2, <1>3

\* Nothing is unmounted and no namespace in use is destroyed while all is quiet.
LEMMA QuietMounts ==
    ASSUME PInv, EnsureMoves, Quiet'
    PROVE  /\ Quiet /\ Mounted \subseteq Mounted'
           /\ call'.k # Nil => call'.k \in Mounted'
           /\ \A k \in Inst : k \notin Mounted => net[k] = Empty
           /\ \A k \in Inst : ~Destroy(k)
<1>1. call \in Calls /\ spent.fault \in Nat /\ spent.remove \in Nat /\ spent \in Spending
  BY TypeParts, EnsureAssumption DEF PInv, IInv, Spending
<1>2. ~(Failure \/ Remove)
  <2>1. Failure => spent'.fault = spent.fault + 1
    BY <1>1 DEF Failure, GetNSFails, StepFails, IgnoredFailure, Fault, Spending
  <2>2. Remove => spent'.remove = spent.remove + 1
    BY <1>1 DEF Remove, Spending
  <2>3. QED  BY <1>1, <2>1, <2>2 DEF Quiet
<1>3. spent'.fault = spent.fault /\ spent'.remove = spent.remove
  BY <1>1, <1>2 DEF EnsureMoves, Start, EnsureStep, GetNS, CreateFile, Mount, Open, Bridge, BridgeUp,
     CheckVxlan, DeleteVxlan, DeletePeer, AddVeth, Wire, MoveToHost, AddVxlan, Attach, SpokeUp,
     RecreateMacvtap, Reply, Refused, RemoveFile, Crash, Collect, Destroy, InNS, InCall, Spending
<1>4. /\ Quiet
      /\ call.k # Nil => call.k \in Mounted
      /\ \A k \in Inst : k \notin Mounted => net[k] = Empty
  BY <1>3 DEF Quiet, PInv, QuietInv
<1>5. \A k \in Inst : ~Destroy(k)
  BY <1>4 DEF Destroy, Alive
<1>6. /\ Mounted \subseteq Mounted'
      /\ call'.k # Nil => call'.k \in Mounted'
  <2>1. CASE GetNS \/ Open
    <3>1. UNCHANGED mounts /\ (call'.k = call.k \/ (mounts # <<>> /\ call'.k = Top))
      BY <1>1, <2>1 DEF GetNS, Open, InNS, Calls
    <3>2. mounts # <<>> => Top \in Mounted
      BY MountFacts DEF PInv, IInv
    <3>3. QED  BY <1>4, <3>1, <3>2, MountedKept
  <2>2. CASE \E k \in Inst : Mount(k)
    <3>1. mounts = <<>> /\ call'.k = call.k
      BY <1>1, <2>2 DEF Mount, At, Goto, Calls, PInv, IInv, MountInv, ToMake
    <3>2. Mounted = {}
      BY <3>1, MountFacts DEF PInv, IInv
    <3>3. QED  BY <1>4, <3>1, <3>2
  <2>3. CASE (\E d \in Device : Start(d)) \/ Reply \/ Refused \/ Crash
    <3>1. UNCHANGED mounts /\ call'.k = Nil
      <4>1. CASE \E d \in Device : Start(d)
        BY <4>1 DEF Start, NoCall, InNS
      <4>2. CASE Reply \/ Refused \/ Crash
        BY <4>2 DEF Reply, Refused, Crash, Return, NoCall
      <4>3. QED  BY <2>3, <4>1, <4>2
    <3>2. QED  BY <3>1, MountedKept
  <2>4. CASE RemoveFile \/ Collect
    BY <1>4, <2>4, MountedKept DEF RemoveFile, Collect
  <2>5. CASE \/ CreateFile \/ Bridge \/ BridgeUp \/ CheckVxlan \/ DeleteVxlan \/ DeletePeer \/ AddVeth \/ Wire
             \/ MoveToHost \/ AddVxlan \/ Attach \/ SpokeUp \/ RecreateMacvtap
    <3>1. UNCHANGED mounts /\ call'.k = call.k
      BY <1>1, <2>5 DEF CreateFile, Bridge, BridgeUp, CheckVxlan, DeleteVxlan, DeletePeer, AddVeth, Wire, MoveToHost,
         AddVxlan, Attach, SpokeUp, RecreateMacvtap, Goto, InNS, Calls
    <3>2. QED  BY <1>4, <3>1, MountedKept
  <2>6. CASE EnsureStep
    BY <2>1, <2>2, <2>3, <2>5, <2>6 DEF EnsureStep
  <2>7. QED  BY <1>2, <1>5, <2>3, <2>4, <2>6 DEF EnsureMoves
<1>7. QED  BY <1>4, <1>5, <1>6

LEMMA FollowTyped ==
    ASSUME PInv, EnsureMoves, PodsFollow
    PROVE  IInv' /\ PodsTyped' /\ WantInv'
<1>1. IInv'
  BY InvNext DEF EnsureMoves, Next, PInv
<1>2. PodsTyped'
  <2>1. pod' \in [Device -> PodPC]
    BY DEF PInv, PodsTyped, PodsFollow, PodPC
  <2>2. QED  BY <2>1 DEF PInv, PodsTyped, PodsFollow
<1>3. WantInv'
  <2>1. call'.pc # "idle" => call'.d \in want'
    BY Serving
  <2>2. want' = {d \in Device : pod'[d] = "waiting"}
    <3>1. CASE want' = want
      BY <3>1 DEF PodsFollow, PInv, WantInv, PodsTyped
    <3>2. CASE Reply
      <4>1. want' \subseteq want /\ want \subseteq Device
        BY <3>2 DEF Reply, PInv, WantInv
      <4>2. \A d \in Device : pod'[d] = IF d \in want \ want' THEN "allocated" ELSE pod[d]
        BY DEF PodsFollow
      <4>3. QED  BY <4>1, <4>2 DEF PInv, WantInv
    <3>3. QED  BY <3>1, <3>2, Serving
  <2>3. QED  BY <2>1, <2>2 DEF WantInv, At
<1>4. QED  BY <1>1, <1>2, <1>3

LEMMA FollowAdd ==
    ASSUME PInv, EnsureMoves, PodsFollow
    PROVE  AddInv'
<1> SUFFICES ASSUME NEW d \in Device
             PROVE  /\ pod'[d] \in Before => inPod'[d] = Nil
                    /\ pod'[d] \in Before \union {"rename", "ipam"} => ~address'[d]
                    /\ pod'[d] \in {"configure", "print", "running"} /\ d \in usesIpam => address'[d]
                    /\ address'[d] \/ pod'[d] = "ipam" => d \in usesIpam
  BY DEF AddInv
<1>1. pod'[d] = pod[d] \/ (pod[d] = "waiting" /\ pod'[d] = "allocated")
  <2>1. Reply => pod[call.d] = "waiting"
    BY DEF Reply, At, PInv, WantInv
  <2>2. QED  BY <2>1, Serving
<1>2. (inPod[d] = Nil => inPod'[d] = Nil) /\ address'[d] = address[d]
  BY Following DEF PodsFollow
<1>3. QED  BY <1>1, <1>2 DEF PInv, AddInv, Before

LEMMA FollowLinks ==
    ASSUME PInv, EnsureMoves, PodsFollow
    PROVE  LinkInv'
<1>1. IInv /\ LinkInv /\ spokeOf \in [Device -> Spoke] /\ Nil \notin Inst
  BY EnsureAssumption DEF PInv
<1>2. /\ \A s \in Spoke : link[s] # Nil => Wired(s, link[s]) /\ link[s] \in Inst
      /\ \A d \in Device : inPod[d] # Nil =>
            /\ Wired(spokeOf[d], inPod[d]) /\ inPod[d] # link[spokeOf[d]] /\ inPod[d] \in Inst
            /\ pod[d] # "waiting"
      /\ \A d \in Device : inPod'[d] \in {inPod[d], Nil}
  <2>1. \A d \in Device : inPod[d] # Nil => pod[d] # "waiting" /\ inPod[d] \in Inst
    BY DEF PInv, AddInv, Before, PodsTyped
  <2>2. QED  BY <1>1, <2>1, TypeParts DEF IInv, LinkInv, PodsFollow
<1>3. CASE Untouched
  <2>1. \A d \in Device : inPod'[d] = inPod[d]
    BY <1>1, <1>2, <1>3 DEF Untouched, PodsFollow, Wired
  <2>2. \A s \in Spoke : link'[s] # Nil => Wired(s, link[s])'
    BY <1>2, <1>3 DEF Untouched, Wired
  <2>3. \A d \in Device : inPod'[d] # Nil => Wired(spokeOf[d], inPod[d])' /\ inPod'[d] # link'[spokeOf[d]]
    BY <1>2, <1>3, <2>1 DEF Untouched, Wired
  <2>4. call'.pc \in InVeth => S' \in (Here').peers \intersect (Here').local
    BY <1>1, <1>3 DEF Untouched, LinkInv, S, Here
  <2>5. QED  BY <2>2, <2>3, <2>4 DEF LinkInv
<1>4. CASE Worked
  <2>1. call.k \in Inst /\ call.pc # "idle"
    BY <1>1, <1>4 DEF Worked, OnlyHere, IInv, CallTyped, Opened, HasBridge, OnHost, Ready, InVeth
  <2>2. ASSUME NEW s \in Spoke, NEW k \in Inst, s # S, Wired(s, k)
        PROVE  Wired(s, k)'
    BY <1>4, <2>2 DEF Worked, OnlyHere, Wired, Here
  <2>3. ASSUME NEW s \in Spoke
        PROVE  link'[s] # Nil => Wired(s, link[s])'
    <3>1. CASE s = S
      BY <1>4, <3>1 DEF Worked, SpokeHangs
    <3>2. CASE s # S
      <4>1. link'[s] = link[s]
        BY <1>4, <3>2 DEF Worked, OnlyHere
      <4>2. QED  BY <1>2, <2>2, <3>2, <4>1 DEF Wired
    <3>3. QED  BY <3>1, <3>2
  <2>4. ASSUME NEW d \in Device, inPod'[d] # Nil
        PROVE  Wired(spokeOf[d], inPod[d])' /\ inPod'[d] # link'[spokeOf[d]]
    <3>1. inPod'[d] = inPod[d] /\ spokeOf[d] \in Spoke /\ spokeOf[d] # S
      BY <1>1, <1>2, <2>1, <2>4, OthersSpokes
    <3>2. link'[spokeOf[d]] = link[spokeOf[d]]
      BY <1>4, <3>1 DEF Worked, OnlyHere
    <3>3. QED  BY <1>2, <2>2, <2>4, <3>1, <3>2 DEF Wired
  <2>5. call'.pc \in InVeth => S' \in (Here').peers \intersect (Here').local
    BY <1>4 DEF Worked, SpokeHangs, S, Here
  <2>6. QED  BY <2>3, <2>4, <2>5 DEF LinkInv
<1>5. ASSUME NEW k \in Inst, Destroy(k)
      PROVE  LinkInv'
  <2>1. /\ \A i \in Inst : i # k => net'[i] = net[i]
        /\ net'[k] = Empty /\ UNCHANGED call /\ k # call.k
    BY <1>1, <1>5, TypeParts DEF Destroy, IInv, Alive
  <2>2. ASSUME NEW s \in Spoke, link'[s] # Nil
        PROVE  Wired(s, link[s])'
    <3>1. link'[s] = link[s] /\ link[s] # k
      BY <1>5, <2>2 DEF Destroy
    <3>2. QED  BY <1>2, <2>1, <2>2, <3>1 DEF Wired
  <2>3. ASSUME NEW d \in Device, inPod'[d] # Nil
        PROVE  Wired(spokeOf[d], inPod[d])' /\ inPod'[d] # link'[spokeOf[d]]
    <3>1. inPod'[d] = inPod[d] /\ inPod[d] # k
      BY <1>2, <2>1, <2>3 DEF PodsFollow, Empty
    <3>2. link'[spokeOf[d]] \in {link[spokeOf[d]], Nil}
      BY <1>1, <1>5 DEF Destroy
    <3>3. QED  BY <1>2, <2>1, <2>3, <3>1, <3>2 DEF Wired
  <2>4. call'.pc \in InVeth => S' \in (Here').peers \intersect (Here').local
    <3>1. call.pc \in InVeth => call.k \in Inst /\ S \in Here.peers \intersect Here.local
      BY <1>1 DEF LinkInv, IInv, CallTyped, Opened, HasBridge, InVeth
    <3>2. QED  BY <2>1, <3>1 DEF S, Here
  <2>5. QED  BY <2>2, <2>3, <2>4 DEF LinkInv
<1>6. QED  BY <1>1, <1>3, <1>4, <1>5, EnsureEffects

LEMMA FollowQuiet ==
    ASSUME PInv, EnsureMoves, PodsFollow
    PROVE  QuietInv'
<1> SUFFICES ASSUME Quiet'
             PROVE  /\ call'.k # Nil => call'.k \in Mounted'
                    /\ \A k \in Inst : k \notin Mounted' => net'[k] = Empty
                    /\ \A d \in Device : pod'[d] \in Inside => inPod'[d] # Nil
                    /\ cniFaults' = 0 => \A d \in Device :
                          /\ pod'[d] \notin {"release", "broken"}
                          /\ pod'[d] \in {"allocated", "move"} => link'[spokeOf[d]] # Nil
  BY DEF QuietInv
<1>1. /\ Quiet /\ Mounted \subseteq Mounted'
      /\ call'.k # Nil => call'.k \in Mounted'
      /\ \A k \in Inst : k \notin Mounted => net[k] = Empty
      /\ \A k \in Inst : ~Destroy(k)
  BY QuietMounts
<1>2. \A k \in Inst : k \notin Mounted' => net'[k] = Empty
  <2>1. CASE Untouched
    BY <1>1, <2>1 DEF Untouched
  <2>2. CASE Worked
    BY <1>1, <2>2, EnsureAssumption DEF Worked, OnlyHere
  <2>3. QED  BY <1>1, <2>1, <2>2, EnsureEffects DEF PInv
<1>3. \A d \in Device :
        /\ inPod'[d] = inPod[d]
        /\ pod[d] # "waiting" => link'[spokeOf[d]] = link[spokeOf[d]]
  BY <1>1, Following
<1>4. Reply => link'[S] # Nil /\ call.d \in Device
  BY EnsureAssumption DEF Reply, At, PInv, IInv, CallInv, CallTyped, OnHost, Ready, Opened, HasBridge
<1>5. ASSUME NEW d \in Device
      PROVE  pod'[d] \in Inside => inPod'[d] # Nil
  BY <1>1, <1>3, Serving DEF PInv, QuietInv, Inside
<1>6. ASSUME NEW d \in Device, cniFaults' = 0
      PROVE  /\ pod'[d] \notin {"release", "broken"}
             /\ pod'[d] \in {"allocated", "move"} => link'[spokeOf[d]] # Nil
  <2>1. /\ pod[d] \notin {"release", "broken"}
        /\ pod[d] \in {"allocated", "move"} => link[spokeOf[d]] # Nil
    BY <1>1, <1>6 DEF PInv, QuietInv, PodsFollow
  <2>2. QED  BY <1>3, <1>4, <2>1, Serving DEF S
<1>7. QED  BY <1>1, <1>2, <1>5, <1>6

LEMMA FollowStep ==
    ASSUME PInv, EnsureMoves, PodsFollow
    PROVE  PInv'
  BY FollowTyped, FollowAdd, FollowLinks, FollowQuiet DEF PInv

-----------------------------------------------------------------------------
(* Steps of pods and their ADDs. *)

LEMMA PodComesStep ==
    ASSUME PInv, NEW d \in Device, PodComes(d)
    PROVE  PInv'
<1>1. /\ want' = want \union {d} /\ pod[d] = "none" /\ pod' = [pod EXCEPT ![d] = "waiting"]
      /\ UNCHANGED <<file, mounts, net, link, call, leaked, remover, spent, inPod, address, cniFaults>>
  BY DEF PodComes, NewPod, Becomes
<1>2. IInv'
  BY InvNext DEF PInv, PodComes, Next
<1>3. PodsTyped'
  BY <1>1 DEF PInv, PodsTyped, PodPC
<1>4. WantInv'
  <2>1. want' = {e \in Device : pod'[e] = "waiting"}
    BY <1>1 DEF PInv, PodsTyped, WantInv
  <2>2. QED  BY <1>1, <2>1 DEF PInv, WantInv, At
<1>5. AddInv'
  BY <1>1 DEF PInv, PodsTyped, AddInv, Before
<1>6. LinkInv'
  BY <1>1 DEF PInv, LinkInv, Wired, S, Here
<1>7. QuietInv'
  BY <1>1, MountedKept DEF PInv, PodsTyped, QuietInv, Quiet, Inside
<1>8. QED  BY <1>2, <1>3, <1>4, <1>5, <1>6, <1>7 DEF PInv

\* One pod that does not wait goes from one place to another.
OnePod(d, to) ==
    /\ pod[d] # "waiting"
    /\ to \in PodPC \ {"waiting"}
    /\ pod' = [pod EXCEPT ![d] = to]
    /\ \A e \in Device : e # d => inPod'[e] = inPod[e] /\ address'[e] = address[e]
    /\ inPod' \in [Device -> Inst \union {Nil}]
    /\ address' \in [Device -> BOOLEAN]
    /\ cniFaults' \in 0..MaxTrouble
    /\ UNCHANGED <<file, mounts, call, leaked, remover, want, spent>>

\* What is required of that pod then.
InOrder(d) ==
    /\ pod'[d] \in Before => inPod'[d] = Nil
    /\ pod'[d] \in Before \union {"rename", "ipam"} => ~address'[d]
    /\ pod'[d] \in {"configure", "print", "running"} /\ d \in usesIpam => address'[d]
    /\ address'[d] \/ pod'[d] = "ipam" => d \in usesIpam

NoHarm(d) ==
    Quiet =>
        /\ pod'[d] \in Inside => inPod'[d] # Nil
        /\ cniFaults' = 0 =>
              /\ cniFaults = 0
              /\ pod'[d] \notin {"release", "broken"}
              /\ pod'[d] \in {"allocated", "move"} => link'[spokeOf[d]] # Nil

LEMMA OnePodStep ==
    ASSUME PInv, NEW d \in Device, NEW to, OnePod(d, to), InOrder(d)
    PROVE  PodsTyped' /\ WantInv' /\ AddInv'
<1>1. pod'[d] = to /\ \A e \in Device : e # d => pod'[e] = pod[e]
  BY DEF OnePod, PInv, PodsTyped
<1>2. PodsTyped'
  BY DEF OnePod, PInv, PodsTyped
<1>3. WantInv'
  <2>1. want' = {e \in Device : pod'[e] = "waiting"}
    BY <1>1 DEF OnePod, PInv, WantInv
  <2>2. QED  BY <2>1 DEF OnePod, PInv, WantInv, At
<1>4. AddInv'
  <2> SUFFICES ASSUME NEW e \in Device
               PROVE  /\ pod'[e] \in Before => inPod'[e] = Nil
                      /\ pod'[e] \in Before \union {"rename", "ipam"} => ~address'[e]
                      /\ pod'[e] \in {"configure", "print", "running"} /\ e \in usesIpam => address'[e]
                      /\ address'[e] \/ pod'[e] = "ipam" => e \in usesIpam
    BY DEF AddInv
  <2>1. CASE e = d
    BY <2>1 DEF InOrder
  <2>2. CASE e # d
    BY <1>1, <2>2 DEF OnePod, PInv, AddInv
  <2>3. QED  BY <2>1, <2>2
<1>5. QED  BY <1>2, <1>3, <1>4

LEMMA OnePodQuiet ==
    ASSUME PInv, NEW d \in Device, NEW to, OnePod(d, to), NoHarm(d),
           \A k \in Inst : net[k] = Empty => net'[k] = Empty,
           \A e \in Device : e # d => link'[spokeOf[e]] = link[spokeOf[e]]
    PROVE  QuietInv'
<1> SUFFICES ASSUME Quiet'
             PROVE  /\ call'.k # Nil => call'.k \in Mounted'
                    /\ \A k \in Inst : k \notin Mounted' => net'[k] = Empty
                    /\ \A e \in Device : pod'[e] \in Inside => inPod'[e] # Nil
                    /\ cniFaults' = 0 => \A e \in Device :
                          /\ pod'[e] \notin {"release", "broken"}
                          /\ pod'[e] \in {"allocated", "move"} => link'[spokeOf[e]] # Nil
  BY DEF QuietInv
<1>1. Quiet /\ UNCHANGED <<call, mounts>>
  BY DEF Quiet, OnePod
<1>2. \A e \in Device : e # d => pod'[e] = pod[e] /\ inPod'[e] = inPod[e]
  BY DEF OnePod, PInv, PodsTyped
<1>3. /\ call.k # Nil => call.k \in Mounted
      /\ \A k \in Inst : k \notin Mounted => net[k] = Empty
      /\ \A e \in Device : pod[e] \in Inside => inPod[e] # Nil
      /\ cniFaults = 0 => \A e \in Device :
            /\ pod[e] \notin {"release", "broken"}
            /\ pod[e] \in {"allocated", "move"} => link[spokeOf[e]] # Nil
  BY <1>1 DEF PInv, QuietInv
<1>4. /\ call'.k # Nil => call'.k \in Mounted'
      /\ \A k \in Inst : k \notin Mounted' => net'[k] = Empty
  BY <1>1, <1>3, MountedKept
<1>5. ASSUME NEW e \in Device, pod'[e] \in Inside
      PROVE  inPod'[e] # Nil
  <2>1. CASE e = d
    BY <1>1, <1>5, <2>1 DEF NoHarm
  <2>2. CASE e # d
    BY <1>2, <1>3, <1>5, <2>2
  <2>3. QED  BY <2>1, <2>2
<1>6. ASSUME NEW e \in Device, cniFaults' = 0
      PROVE  /\ pod'[e] \notin {"release", "broken"}
             /\ pod'[e] \in {"allocated", "move"} => link'[spokeOf[e]] # Nil
  <2>1. CASE e = d
    BY <1>1, <1>6, <2>1 DEF NoHarm
  <2>2. CASE e # d
    BY <1>1, <1>2, <1>3, <1>6, <2>2 DEF NoHarm
  <2>3. QED  BY <2>1, <2>2
<1>7. QED  BY <1>4, <1>5, <1>6

\* Steps that leave the host, the namespaces and the links alone.
LEMMA HostKeptStep ==
    ASSUME PInv, NEW d \in Device, NEW to, OnePod(d, to), InOrder(d), NoHarm(d),
           HostKept, UNCHANGED inPod
    PROVE  PInv'
<1>1. UNCHANGED <<file, mounts, net, link, call, leaked, remover, want, spent>>
  BY DEF HostKept, vars
<1>2. IInv'
  BY InvNext DEF PInv, HostKept
<1>3. LinkInv'
  BY <1>1 DEF PInv, LinkInv, Wired, S, Here
<1>4. QuietInv'
  BY <1>1, OnePodQuiet
<1>5. QED  BY <1>2, <1>3, <1>4, OnePodStep DEF PInv

LEMMA CniFaultTyped ==
    ASSUME PInv, CniFault
    PROVE  cniFaults' \in 0..MaxTrouble /\ cniFaults' # 0
<1>1. spent.fault \in Nat /\ spent.crash \in Nat /\ spent.remove \in Nat
  BY TypeParts, EnsureAssumption DEF PInv, IInv, Spending
<1>2. cniFaults \in Nat /\ MaxTrouble \in Nat /\ cniFaults < MaxTrouble
  BY <1>1, CniAssumption DEF PInv, PodsTyped, CniFault, Trouble
<1>3. QED  BY <1>2 DEF CniFault

LEMMA HostKeptSteps ==
    ASSUME PInv, NEW d \in Device,
           \/ Locate(d) \/ Rename(d) \/ Ipam(d) \/ Configure(d) \/ Release(d) \/ PrintResult(d)
           \/ AddFails(d) \/ AddKilled(d)
    PROVE  PInv'
<1> DEFINE to == pod'[d]
<1>1. HostKept /\ UNCHANGED inPod
  BY DEF Locate, Rename, Ipam, Configure, Release, PrintResult, AddFails, AddKilled
<1>2. UNCHANGED <<file, mounts, net, link, call, leaked, remover, want, spent>>
  BY <1>1 DEF HostKept, vars
<1>3. cniFaults' \in 0..MaxTrouble /\ (cniFaults' = 0 => cniFaults = 0)
  BY CniFaultTyped DEF Locate, Rename, Ipam, Configure, Release, PrintResult, AddFails, AddKilled,
     Becomes, PInv, PodsTyped
<1>4. /\ pod[d] # "waiting" /\ to \in PodPC \ {"waiting"} /\ pod' = [pod EXCEPT ![d] = to]
      /\ address' \in [Device -> BOOLEAN]
      /\ \A e \in Device : e # d => address'[e] = address[e]
  <2>1. pod \in [Device -> PodPC] /\ address \in [Device -> BOOLEAN]
    BY DEF PInv, PodsTyped
  <2>2. CASE Locate(d) \/ Rename(d) \/ Configure(d) \/ PrintResult(d) \/ AddFails(d) \/ AddKilled(d)
    BY <2>1, <2>2 DEF Locate, Rename, Configure, AfterConfigure, PrintResult, AddFails, AddKilled,
       Becomes, PodPC, Adding
  <2>3. CASE Ipam(d) \/ Release(d)
    BY <2>1, <2>3 DEF Ipam, Release, Becomes, PodPC, Adding
  <2>4. QED  BY <2>2, <2>3
<1>5. OnePod(d, to)
  BY <1>1, <1>2, <1>3, <1>4 DEF OnePod, PInv, PodsTyped
<1>6. InOrder(d) /\ NoHarm(d)
  <2>1. /\ pod[d] \in Before => inPod[d] = Nil
        /\ pod[d] \in Before \union {"rename", "ipam"} => ~address[d]
        /\ pod[d] \in {"configure", "print", "running"} /\ d \in usesIpam => address[d]
        /\ address[d] \/ pod[d] = "ipam" => d \in usesIpam
        /\ Quiet => /\ pod[d] \in Inside => inPod[d] # Nil
                    /\ cniFaults = 0 => /\ pod[d] \notin {"release", "broken"}
                                        /\ pod[d] \in {"allocated", "move"} => link[spokeOf[d]] # Nil
    BY DEF PInv, AddInv, QuietInv
  <2>2. pod \in [Device -> PodPC] /\ address \in [Device -> BOOLEAN]
    BY DEF PInv, PodsTyped
  <2> USE DEF Before, Inside
  <2>3. CASE Locate(d)
    <3>1. pod[d] = "allocated" /\ to = (IF link[spokeOf[d]] # Nil THEN "move" ELSE "broken")
          /\ UNCHANGED <<address, cniFaults>>
      BY <2>2, <2>3 DEF Locate, Becomes
    <3>2. QED  BY <1>1, <1>2, <2>1, <3>1 DEF InOrder, NoHarm
  <2>4. CASE Rename(d)
    <3>1. pod[d] = "rename" /\ UNCHANGED <<address, cniFaults>>
          /\ to = (IF inPod[d] = Nil THEN "broken" ELSE IF d \in usesIpam THEN "ipam" ELSE "print")
      BY <2>2, <2>4 DEF Rename, Becomes
    <3>2. QED  BY <1>1, <2>1, <3>1 DEF InOrder, NoHarm
  <2>5. CASE Ipam(d)
    <3>1. pod[d] = "ipam" /\ to = "configure" /\ address'[d] = TRUE /\ UNCHANGED cniFaults
      BY <2>2, <2>5 DEF Ipam, Becomes
    <3>2. QED  BY <1>1, <2>1, <3>1 DEF InOrder, NoHarm
  <2>6. CASE Configure(d)
    <3>1. pod[d] = "configure" /\ to = AfterConfigure(d) /\ UNCHANGED <<address, cniFaults>>
      BY <2>2, <2>6 DEF Configure, Becomes
    <3>2. QED  BY <1>1, <2>1, <3>1 DEF InOrder, NoHarm, AfterConfigure
  <2>7. CASE Release(d)
    <3>1. pod[d] = "release" /\ to = "broken" /\ address'[d] = FALSE /\ UNCHANGED cniFaults
      BY <2>2, <2>7 DEF Release, Becomes
    <3>2. QED  BY <1>1, <2>1, <3>1 DEF InOrder, NoHarm
  <2>8. CASE PrintResult(d)
    <3>1. pod[d] = "print" /\ to = "running" /\ UNCHANGED <<address, cniFaults>>
      BY <2>2, <2>8 DEF PrintResult, Becomes
    <3>2. QED  BY <1>1, <2>1, <3>1 DEF InOrder, NoHarm
  <2>9. CASE AddFails(d) \/ AddKilled(d)
    <3>1. to \in {"release", "broken"} /\ cniFaults' # 0 /\ UNCHANGED address
      BY <2>2, <2>9, CniFaultTyped DEF AddFails, AddKilled
    <3>2. QED  BY <2>1, <3>1 DEF InOrder, NoHarm
  <2>10. QED  BY <2>3, <2>4, <2>5, <2>6, <2>7, <2>8, <2>9
<1>7. QED  BY <1>1, <1>5, <1>6, HostKeptStep

\* The spoke of a pod that does not wait is not the one a call works on.
LEMMA OwnSpoke ==
    ASSUME PInv, NEW d \in Device, pod[d] # "waiting"
    PROVE  /\ call.pc \in Opened => S # spokeOf[d]
           /\ spokeOf[d] \in Spoke /\ \A e \in Device : e # d => spokeOf[e] # spokeOf[d]
<1>1. call.pc \in Opened => call.pc # "idle"
  BY DEF Opened, HasBridge, OnHost, Ready, InVeth
<1>2. QED  BY <1>1, OthersSpokes, EnsureAssumption, CniAssumption

LEMMA MoveStep ==
    ASSUME PInv, NEW d \in Device, Move(d)
    PROVE  PInv'
<1> DEFINE to == pod'[d]
<1>1. /\ pod[d] = "move" /\ UNCHANGED <<file, mounts, net, call, leaked, remover, want, spent, address, cniFaults>>
      /\ pod' = [pod EXCEPT ![d] = to] /\ to = (IF link[spokeOf[d]] # Nil THEN "rename" ELSE "broken")
      /\ inPod'[d] = link[spokeOf[d]] /\ \A e \in Device : e # d => inPod'[e] = inPod[e]
  BY DEF Move, Becomes, PInv, PodsTyped
<1>2. /\ link' \in [Spoke -> Inst \union {Nil}]
      /\ link'[spokeOf[d]] = Nil /\ \A s \in Spoke : s # spokeOf[d] => link'[s] = link[s]
  BY TypeParts, OwnSpoke, <1>1 DEF Move, PInv, IInv
<1>3. IInv'
  <2>1. TypeOK'
    BY <1>1, <1>2, TypeParts DEF TypeOK, PInv, IInv, Content, Calls, Spending
  <2>2. CallTyped' /\ MountInv'
    BY <1>1 DEF PInv, IInv, CallTyped, MountInv, At
  <2>3. CallInv'
    <3>1. call.pc \in HasBridge => call.pc \in Opened
      BY DEF Opened
    <3>2. call.pc \in OnHost => call.pc \in Opened
      BY DEF Opened, HasBridge
    <3>3. call.pc \in OnHost => link'[S] = link[S]
      BY <1>1, <1>2, <3>2, OwnSpoke, OpenedFacts DEF PInv
    <3>4. QED  BY <1>1, <3>3 DEF PInv, IInv, CallInv, At, Here, S, NeedVxlan
  <2>4. QED  BY <2>1, <2>2, <2>3 DEF IInv
<1>4. OnePod(d, to)
  <2>1. inPod' \in [Device -> Inst \union {Nil}]
    BY TypeParts, OwnSpoke, <1>1 DEF Move, PInv, PodsTyped, IInv
  <2>2. QED  BY <1>1, <2>1 DEF OnePod, PInv, PodsTyped, PodPC, Adding
<1>5. InOrder(d)
  BY <1>1 DEF InOrder, PInv, AddInv, Before
<1>6. NoHarm(d)
  BY <1>1 DEF NoHarm, PInv, QuietInv, Inside
<1>7. LinkInv'
  <2>1. \A s \in Spoke : link'[s] # Nil => Wired(s, link[s])'
    BY <1>1, <1>2 DEF PInv, LinkInv, Wired
  <2>2. ASSUME NEW e \in Device, inPod'[e] # Nil
        PROVE  Wired(spokeOf[e], inPod[e])' /\ inPod'[e] # link'[spokeOf[e]]
    <3>1. CASE e = d
      BY <1>1, <1>2, <2>2, <3>1, OwnSpoke DEF PInv, LinkInv, Wired
    <3>2. CASE e # d
      <4>1. spokeOf[e] \in Spoke /\ spokeOf[e] # spokeOf[d]
        BY <1>1, <3>2, OwnSpoke, EnsureAssumption
      <4>2. QED  BY <1>1, <1>2, <2>2, <3>2, <4>1 DEF PInv, LinkInv, Wired
    <3>3. QED  BY <3>1, <3>2
  <2>3. call'.pc \in InVeth => S' \in (Here').peers \intersect (Here').local
    BY <1>1 DEF PInv, LinkInv, S, Here
  <2>4. QED  BY <2>1, <2>2, <2>3 DEF LinkInv
<1>8. QuietInv'
  <2>1. \A e \in Device : e # d => link'[spokeOf[e]] = link[spokeOf[e]]
    BY <1>1, <1>2, OwnSpoke, EnsureAssumption
  <2>2. QED  BY <1>1, <1>4, <1>6, <2>1, OnePodQuiet
<1>9. QED  BY <1>3, <1>4, <1>5, <1>7, <1>8, OnePodStep DEF PInv

\* What is lost with a sandbox: the peer of the spoke in it.
LEMMA SandboxFacts ==
    ASSUME PInv, NEW d \in Device, NoSandbox(d)
    PROVE  /\ net' \in [Inst -> Content]
           /\ \A k \in Inst :
                 /\ k # inPod[d] => net'[k] = net[k]
                 /\ net'[k].br = net[k].br /\ net'[k].local = net[k].local
                 /\ net'[k].vx = net[k].vx /\ net'[k].joined = net[k].joined
                 /\ \A s \in Spoke : s # spokeOf[d] =>
                       /\ s \in net'[k].peers <=> s \in net[k].peers
                       /\ s \in net'[k].wired <=> s \in net[k].wired
           /\ inPod[d] # Nil => inPod[d] \in Inst /\ net[inPod[d]].br # "none"
<1>1. net \in [Inst -> Content] /\ inPod[d] \in Inst \union {Nil} /\ spokeOf[d] \in Spoke
  BY TypeParts, EnsureAssumption DEF PInv, IInv, PodsTyped
<1>2. CASE inPod[d] = Nil
  <2>1. net' = net
    BY <1>2 DEF NoSandbox
  <2>2. QED  BY <1>1, <1>2, <2>1
<1>3. CASE inPod[d] # Nil
  <2> DEFINE k0 == inPod[d]
             rec == [net[k0] EXCEPT !.peers = @ \ {spokeOf[d]}, !.wired = @ \ {spokeOf[d]}]
  <2>1. k0 \in Inst /\ net' = [net EXCEPT ![k0] = rec]
    BY <1>1, <1>3 DEF NoSandbox
  <2>2. /\ rec \in Content /\ rec.br = net[k0].br /\ rec.local = net[k0].local
        /\ rec.vx = net[k0].vx /\ rec.joined = net[k0].joined
        /\ rec.peers = net[k0].peers \ {spokeOf[d]} /\ rec.wired = net[k0].wired \ {spokeOf[d]}
    <3>1. net[k0] \in Content
      BY <1>1, <2>1
    <3>2. QED  BY <3>1 DEF Content
  <2>3. net[k0].br # "none"
    BY <1>3 DEF PInv, LinkInv, Wired
  <2> HIDE DEF rec
  <2>4. net' \in [Inst -> Content] /\ net'[k0] = rec /\ \A k \in Inst : k # k0 => net'[k] = net[k]
    BY <1>1, <2>1, <2>2
  <2>5. QED  BY <2>1, <2>2, <2>3, <2>4
<1>4. QED  BY <1>2, <1>3

LEMMA NoSandboxStep ==
    ASSUME PInv, NEW d \in Device, NoSandbox(d), NEW to, pod[d] # "waiting",
           to \in {"allocated", "none"}, pod' = [pod EXCEPT ![d] = to],
           cniFaults' \in 0..MaxTrouble, cniFaults' = 0 => cniFaults = 0,
           to = "allocated" /\ Quiet => cniFaults' # 0
    PROVE  PInv'
<1>1. /\ UNCHANGED <<file, mounts, link, call, leaked, remover, want, spent>>
      /\ inPod' = [inPod EXCEPT ![d] = Nil] /\ address' = [address EXCEPT ![d] = FALSE]
      /\ \A e \in Device : e # d => inPod'[e] = inPod[e]
      /\ inPod'[d] = Nil /\ address'[d] = FALSE /\ pod'[d] = to
  BY DEF NoSandbox, PInv, PodsTyped
<1>2. IInv'
  <2>1. TypeOK'
    BY <1>1, SandboxFacts, TypeParts DEF TypeOK, PInv, IInv, Content, Calls, Spending
  <2>2. CallTyped' /\ MountInv'
    BY <1>1 DEF PInv, IInv, CallTyped, MountInv, At
  <2>3. CallInv'
    <3>1. CASE call.pc \in Opened
      <4>1. /\ S' = S /\ (Here').br = Here.br /\ (Here').local = Here.local
            /\ (Here').vx = Here.vx
            /\ S \in (Here').wired <=> S \in Here.wired
        BY <1>1, <3>1, SandboxFacts, OwnSpoke, OpenedFacts DEF PInv, S, Here
      <4>2. QED  BY <1>1, <4>1 DEF PInv, IInv, CallInv, At, NeedVxlan
    <3>2. CASE call.pc \notin Opened
      BY <1>1, <3>2 DEF CallInv, At, Opened, HasBridge, OnHost, Ready, InVeth
    <3>3. QED  BY <3>1, <3>2
  <2>4. QED  BY <2>1, <2>2, <2>3 DEF IInv
<1>3. OnePod(d, to)
  BY <1>1 DEF OnePod, PInv, PodsTyped, PodPC
<1>4. InOrder(d) /\ NoHarm(d)
  BY <1>1 DEF InOrder, NoHarm, Before, Inside
<1>5. LinkInv'
  <2>1. ASSUME NEW s \in Spoke, link'[s] # Nil
        PROVE  Wired(s, link[s])'
    <3>1. link'[s] = link[s] /\ link[s] \in Inst /\ Wired(s, link[s])
      BY <1>1, <2>1, TypeParts DEF PInv, IInv, LinkInv
    <3>2. s = spokeOf[d] => link[s] # inPod[d]
      BY <2>1, <3>1 DEF PInv, LinkInv
    <3>3. QED  BY <3>1, <3>2, SandboxFacts DEF Wired
  <2>2. ASSUME NEW e \in Device, inPod'[e] # Nil
        PROVE  Wired(spokeOf[e], inPod[e])' /\ inPod'[e] # link'[spokeOf[e]]
    <3>1. e # d /\ inPod'[e] = inPod[e] /\ inPod[e] \in Inst
      BY <1>1, <2>2 DEF PInv, PodsTyped
    <3>2. spokeOf[e] # spokeOf[d] /\ spokeOf[e] \in Spoke
      BY <3>1, OwnSpoke, EnsureAssumption
    <3>3. Wired(spokeOf[e], inPod[e]) /\ inPod[e] # link[spokeOf[e]]
      BY <2>2, <3>1 DEF PInv, LinkInv
    <3>4. QED  BY <1>1, <3>1, <3>2, <3>3, SandboxFacts DEF Wired
  <2>3. call'.pc \in InVeth => S' \in (Here').peers \intersect (Here').local
    <3>1. call.pc \in InVeth => call.pc \in Opened
      BY DEF Opened, HasBridge
    <3>2. call.pc \in InVeth =>
             /\ S' = S /\ (Here').local = Here.local
             /\ S \in (Here').peers <=> S \in Here.peers
      BY <1>1, <3>1, SandboxFacts, OwnSpoke, OpenedFacts DEF PInv, S, Here
    <3>3. QED  BY <1>1, <3>2 DEF PInv, LinkInv
  <2>4. QED  BY <2>1, <2>2, <2>3 DEF LinkInv
<1>6. QuietInv'
  <2>1. ASSUME NEW k \in Inst, net[k] = Empty
        PROVE  net'[k] = Empty
    <3>1. Empty.br = "none"
      BY DEF Empty
    <3>2. k # inPod[d]
      BY <2>1, <3>1, SandboxFacts, EnsureAssumption
    <3>3. QED  BY <2>1, <3>2, SandboxFacts
  <2>2. QED  BY <1>1, <1>3, <1>4, <2>1, OnePodQuiet
<1>7. QED  BY <1>2, <1>3, <1>4, <1>5, <1>6, OnePodStep DEF PInv

LEMMA SandboxSteps ==
    ASSUME PInv, NEW d \in Device, Retry(d) \/ SandboxDies(d) \/ PodGoes(d)
    PROVE  PInv'
<1>1. CASE Retry(d)
  <2>1. Quiet => cniFaults' # 0
    BY <1>1 DEF Retry, Becomes, PInv, QuietInv
  <2>2. QED  BY <1>1, <2>1, NoSandboxStep DEF Retry, Becomes, PInv, PodsTyped
<1>2. CASE SandboxDies(d)
  BY <1>2, CniFaultTyped, NoSandboxStep DEF SandboxDies
<1>3. CASE PodGoes(d)
  BY <1>3, NoSandboxStep DEF PodGoes, Becomes, PInv, PodsTyped
<1>4. QED  BY <1>1, <1>2, <1>3

LEMMA StillStep ==
    ASSUME PInv, UNCHANGED podVars
    PROVE  PInv'
<1>1. UNCHANGED <<file, mounts, net, link, call, leaked, remover, want, spent, pod, inPod, address, cniFaults>>
  BY DEF podVars, vars
<1>2. IInv'
  BY InvNext DEF PInv, podVars
<1>3. PodsTyped' /\ WantInv' /\ AddInv'
  BY <1>1 DEF PInv, PodsTyped, WantInv, AddInv, At
<1>4. LinkInv' /\ QuietInv'
  BY <1>1, MountedKept DEF PInv, LinkInv, QuietInv, Quiet, Wired, S, Here
<1>5. QED  BY <1>2, <1>3, <1>4 DEF PInv

LEMMA FollowKinds ==
    ASSUME \/ Allocating \/ Interference \/ Removing \/ Collecting
           \/ (\E k \in Inst : Destroying(k)) \/ (\E d \in Device : Admit(d))
    PROVE  EnsureMoves /\ PodsFollow
  BY DEF Allocating, Interference, Removing, Collecting, Destroying, Admit, EnsureMoves

LEMMA PInvNext == PInv /\ [PodNext]_podVars => PInv'
<1> SUFFICES ASSUME PInv, [PodNext]_podVars PROVE PInv'
  OBVIOUS
<1>1. CASE \/ Allocating \/ Interference \/ Removing \/ Collecting
           \/ (\E k \in Inst : Destroying(k)) \/ (\E d \in Device : Admit(d))
  BY <1>1, FollowKinds, FollowStep
<1>2. ASSUME NEW d \in Device, PodComes(d)
      PROVE  PInv'
  BY <1>2, PodComesStep
<1>3. ASSUME NEW d \in Device, AddStep(d) \/ AddFails(d) \/ AddKilled(d)
      PROVE  PInv'
  BY <1>3, HostKeptSteps, MoveStep DEF AddStep
<1>4. ASSUME NEW d \in Device, Retry(d) \/ SandboxDies(d) \/ PodGoes(d)
      PROVE  PInv'
  BY <1>4, SandboxSteps
<1>5. CASE UNCHANGED podVars
  BY <1>5, StillStep
<1>6. QED  BY <1>1, <1>2, <1>3, <1>4, <1>5 DEF PodNext

LEMMA PInvAlways == PodSpec => []PInv
<1>1. QED  BY PInvInit, PInvNext, PTL DEF PodSpec

-----------------------------------------------------------------------------
(* Theorems about pods. *)

\* The variables of pods keep their types, and no address is held for a pod whose
\* network has no IPAM plugin, on whatever way through the ADD (main.go:125-137).
THEOREM PodsAreTyped == PodSpec => []PodTypeOK
<1>1. PInv => PodTypeOK
  BY DEF PInv, IInv, PodsTyped, AddInv, PodTypeOK
<1>2. QED  BY PInvAlways, <1>1, PTL

\* Whatever failed or died before, and whatever other pods' calls do, a pod that
\* runs has a link on the bridge of a namespace, until a removal or a failing
\* GetNS takes that namespace away, and the address its network gives
\* (main.go:91-178, apply.go:154-193).
THEOREM RunningPodsOnLan == PodSpec => []PodsOnLan
<1>1. ASSUME PInv, NEW d \in Device, pod[d] = "running"
      PROVE  /\ inPod[d] # Nil => spokeOf[d] \in net[inPod[d]].wired \ net[inPod[d]].local
             /\ inPod[d] = Nil => spent.remove + spent.fault > 0
             /\ d \in usesIpam => address[d]
  <2>1. spent.fault \in Nat /\ spent.remove \in Nat
    BY <1>1, TypeParts, EnsureAssumption DEF PInv, IInv, Spending
  <2>2. inPod[d] = Nil => ~Quiet
    BY <1>1 DEF PInv, QuietInv, Inside
  <2>3. inPod[d] = Nil => spent.remove + spent.fault > 0
    BY <2>1, <2>2 DEF Quiet
  <2>4. QED  BY <1>1, <2>3 DEF PInv, LinkInv, Wired, AddInv
<1>2. PInv => PodsOnLan
  BY <1>1 DEF PodsOnLan
<1>3. QED  BY PInvAlways, <1>2, PTL

\* An ADD finds the link that Ensure made for its pod, although other pods come
\* and go between the answer of Allocate and the ADD (apply.go:157,
\* main.go:80-99): with no fault no pod breaks.
THEOREM PodsRunUndisturbed == PodSpec => []UndisturbedPodsRun
<1>1. PInv => UndisturbedPodsRun
  <2>1. spent = Unspent => Quiet
    BY DEF Unspent, Quiet
  <2>2. QED  BY <2>1 DEF PInv, QuietInv, UndisturbedPodsRun
<1>2. QED  BY PInvAlways, <1>1, PTL

-----------------------------------------------------------------------------
(* What a step may not do to links and addresses. *)

LinkStep(d) ==
    /\ pod[d] \notin {"none", "waiting"}
    /\ LinkOf(d) \in Mounted
    /\ LinkOf(d)' # LinkOf(d)
    => \/ pod'[d] = "none"
       \/ pod[d] \in {"broken", "running"} /\ pod'[d] = "allocated"

LEMMA FollowKeepsLink ==
    ASSUME PInv, EnsureMoves, PodsFollow, NEW d \in Device
    PROVE  LinkStep(d)
<1> SUFFICES ASSUME pod[d] \notin {"none", "waiting"}, LinkOf(d) \in Mounted
             PROVE  LinkOf(d)' = LinkOf(d)
  BY DEF LinkStep
<1>1. ~Destroy(LinkOf(d))
  BY DEF Destroy, Alive
<1>2. CASE inPod[d] # Nil
  BY <1>1, <1>2, Following DEF LinkOf
<1>3. CASE inPod[d] = Nil
  <2>1. inPod'[d] = Nil
    BY <1>3, Following
  <2>2. QED  BY <1>1, <1>3, <2>1, Following DEF LinkOf
<1>4. QED  BY <1>2, <1>3

LEMMA LinkKeptNext == PInv /\ [PodNext]_podVars => \A d \in Device : LinkStep(d)
<1> SUFFICES ASSUME PInv, [PodNext]_podVars, NEW e \in Device PROVE LinkStep(e)
  OBVIOUS
<1>0. pod \in [Device -> PodPC] /\ inPod \in [Device -> Inst \union {Nil}]
  BY DEF PInv, PodsTyped
<1>1. CASE \/ Allocating \/ Interference \/ Removing \/ Collecting
           \/ (\E k \in Inst : Destroying(k)) \/ (\E d \in Device : Admit(d))
  BY <1>1, FollowKinds, FollowKeepsLink
<1>2. CASE UNCHANGED <<link, inPod>>
  BY <1>2 DEF LinkStep, LinkOf
<1>3. ASSUME NEW d \in Device,
             \/ PodComes(d) \/ Locate(d) \/ Rename(d) \/ Ipam(d) \/ Configure(d) \/ Release(d)
             \/ PrintResult(d) \/ AddFails(d) \/ AddKilled(d)
      PROVE  LinkStep(e)
  <2>1. UNCHANGED <<link, inPod>>
    BY <1>3 DEF PodComes, NewPod, Locate, Rename, Ipam, Configure, Release, PrintResult, AddFails,
       AddKilled, HostKept, vars
  <2>2. QED  BY <1>2, <2>1
<1>4. ASSUME NEW d \in Device, Move(d)
      PROVE  LinkStep(e)
  <2>1. pod[d] = "move" /\ inPod[d] = Nil
    BY <1>4 DEF Move, Becomes, PInv, AddInv, Before
  <2>2. inPod' = [inPod EXCEPT ![d] = link[spokeOf[d]]] /\ link' = [link EXCEPT ![spokeOf[d]] = Nil]
    BY <1>4 DEF Move
  <2>3. link \in [Spoke -> Inst \union {Nil}] /\ spokeOf[d] \in Spoke /\ spokeOf[e] \in Spoke
    BY TypeParts, EnsureAssumption DEF PInv, IInv
  <2>4. CASE e = d
    BY <1>0, <2>1, <2>2, <2>3, <2>4 DEF LinkStep, LinkOf
  <2>5. CASE e # d
    <3>1. spokeOf[e] # spokeOf[d]
      BY <2>5, CniAssumption
    <3>2. QED  BY <1>0, <2>2, <2>3, <2>5, <3>1 DEF LinkStep, LinkOf
  <2>6. QED  BY <2>4, <2>5
<1>5. ASSUME NEW d \in Device, Retry(d) \/ SandboxDies(d) \/ PodGoes(d)
      PROVE  LinkStep(e)
  <2>1. /\ UNCHANGED link
        /\ \/ pod'[d] = "none"
           \/ pod[d] \in {"broken", "running"} /\ pod'[d] = "allocated"
        /\ d # e => inPod'[e] = inPod[e]
    BY <1>0, <1>5 DEF Retry, SandboxDies, PodGoes, Becomes, NoSandbox
  <2>2. QED  BY <2>1 DEF LinkStep, LinkOf
<1>6. CASE UNCHANGED podVars
  BY <1>2, <1>6 DEF podVars, vars
<1>7. QED  BY <1>1, <1>3, <1>4, <1>5, <1>6 DEF PodNext, AddStep

\* From the answer of Allocate to the end of the pod or of its sandbox no step
\* takes a pod's link away, while the namespace of its peer has the name: not
\* before the ADD, not during it and not after it (apply.go:157, main.go:91-99).
THEOREM LinksAreKept == PodSpec => LinkKept
<1>1. PInv /\ [PodNext]_podVars => [\A d \in Device : LinkStep(d)]_podVars
  BY LinkKeptNext
<1>2. QED  BY PInvAlways, <1>1, PTL DEF PodSpec, LinkKept, LinkStep

ReturnStep(d) ==
    pod[d] # "broken" /\ pod'[d] = "broken" /\ cniFaults' = cniFaults => ~address'[d]

LEMMA ReturnedNext == PInv /\ [PodNext]_podVars => \A d \in Device : ReturnStep(d)
<1> SUFFICES ASSUME PInv, [PodNext]_podVars, NEW e \in Device,
                    pod[e] # "broken", pod'[e] = "broken", cniFaults' = cniFaults
             PROVE  ~address'[e]
  BY DEF ReturnStep
<1>0. /\ pod \in [Device -> PodPC] /\ address \in [Device -> BOOLEAN] /\ cniFaults \in Nat
      /\ pod[e] \in {"allocated", "move", "rename"} => ~address[e]
  BY CniAssumption DEF PInv, PodsTyped, AddInv, Before
<1>1. ~ \/ Allocating \/ Interference \/ Removing \/ Collecting
        \/ (\E k \in Inst : Destroying(k)) \/ (\E d \in Device : Admit(d))
  BY FollowKinds, Serving
<1>2. ~UNCHANGED podVars
  BY DEF podVars
<1>3. ASSUME NEW d \in Device, PodComes(d) \/ PrintResult(d) \/ Retry(d) \/ SandboxDies(d) \/ PodGoes(d)
      PROVE  FALSE
  BY <1>0, <1>3 DEF PodComes, PrintResult, Retry, SandboxDies, PodGoes, Becomes
<1>4. ASSUME NEW d \in Device, AddFails(d) \/ AddKilled(d)
      PROVE  FALSE
  BY <1>0, <1>4 DEF AddFails, AddKilled, CniFault
<1>5. ASSUME NEW d \in Device, Ipam(d) \/ Configure(d)
      PROVE  FALSE
  BY <1>0, <1>5 DEF Ipam, Configure, AfterConfigure, Becomes
<1>6. ASSUME NEW d \in Device, Locate(d) \/ Move(d) \/ Rename(d)
      PROVE  ~address'[e]
  <2>1. pod[d] \in {"allocated", "move", "rename"} /\ UNCHANGED address /\ (e # d => pod'[e] = pod[e])
    BY <1>0, <1>6 DEF Locate, Move, Rename, Becomes
  <2>2. QED  BY <1>0, <2>1
<1>7. ASSUME NEW d \in Device, Release(d)
      PROVE  ~address'[e]
  BY <1>0, <1>7 DEF Release, Becomes
<1>8. QED  BY <1>1, <1>2, <1>3, <1>4, <1>5, <1>6, <1>7 DEF PodNext, AddStep

\* An ADD that ends in an error because its link is not there, or with the release
\* after a failure of what follows IPAM, leaves no address.  A failing ExecDel, a
\* failing PrintResult and a killed plugin are outside of this: they leave the
\* address to the end of the sandbox (main.go:91-178).
THEOREM AddressesReturned == PodSpec => AddressReturned
<1>1. PInv /\ [PodNext]_podVars => [\A d \in Device : ReturnStep(d)]_podVars
  BY ReturnedNext
<1>2. QED  BY PInvAlways, <1>1, PTL DEF PodSpec, AddressReturned, ReturnStep

-----------------------------------------------------------------------------
(* What EnsureLan promises, beside pods. *)

\* The steps of pods are steps of EnsureLan or stutter there, except that links
\* leave the host and end with sandboxes.
LEMMA PodKinds ==
    ASSUME [PodNext]_podVars
    PROVE  \/ [Next]_vars
           \/ \E d \in Device : Move(d)
           \/ \E d \in Device : pod[d] # "waiting" /\ NoSandbox(d)
<1>1. CASE \/ Allocating \/ Interference \/ Removing \/ Collecting
           \/ (\E k \in Inst : Destroying(k)) \/ (\E d \in Device : Admit(d))
  BY <1>1 DEF Allocating, Interference, Removing, Collecting, Destroying, Admit, Next, Failure
<1>2. ASSUME NEW d \in Device,
             \/ PodComes(d) \/ Locate(d) \/ Rename(d) \/ Ipam(d) \/ Configure(d) \/ Release(d)
             \/ PrintResult(d) \/ AddFails(d) \/ AddKilled(d)
      PROVE  [Next]_vars
  BY <1>2 DEF PodComes, Next, Locate, Rename, Ipam, Configure, Release, PrintResult, AddFails,
     AddKilled, HostKept
<1>3. ASSUME NEW d \in Device, Retry(d) \/ SandboxDies(d) \/ PodGoes(d)
      PROVE  pod[d] # "waiting" /\ NoSandbox(d)
  BY <1>3 DEF Retry, SandboxDies, PodGoes, Becomes
<1>4. CASE UNCHANGED podVars
  BY <1>4 DEF podVars
<1>5. QED  BY <1>1, <1>2, <1>3, <1>4 DEF PodNext, AddStep

\* Also with pods that take links away and sandboxes that end with them, the name
\* stands for one namespace and a successful Ensure has put the link of its spoke
\* on the bridge (apply.go:16-41, 154-193).
THEOREM PodsKeepEnsure == PodSpec => [](OneMount /\ SpokeServed)
<1>1. IInv => OneMount /\ SpokeServed
  BY DEF IInv, MountInv, CallInv, OneMount, SpokeServed, At, HasBridge, OnHost, Ready
<1>2. PInv => OneMount /\ SpokeServed
  BY <1>1 DEF PInv
<1>3. QED  BY PInvAlways, <1>2, PTL

LEMMA PodVxNext == PInv /\ [PodNext]_podVars => VxStep
<1> SUFFICES ASSUME PInv, [PodNext]_podVars PROVE VxStep
  OBVIOUS
<1>1. CASE [Next]_vars
  BY <1>1, VxKeptNext DEF PInv
<1>2. ASSUME NEW d \in Device, Move(d)
      PROVE  VxStep
  BY <1>2 DEF Move, VxStep
<1>3. ASSUME NEW d \in Device, pod[d] # "waiting", NoSandbox(d)
      PROVE  VxStep
  BY <1>3, SandboxFacts DEF VxStep
<1>4. QED  BY <1>1, <1>2, <1>3, PodKinds

\* No pod that starts, fails or ends takes the vxlan away from a namespace in use,
\* unless the Ensure for it has another one in its spec or fails to look it up
\* (apply.go:99-142).
THEOREM PodsKeepVxlan == PodSpec => VxlanKept
<1>1. PInv /\ [PodNext]_podVars => [VxStep]_vars
  BY PodVxNext
<1>2. QED  BY PInvAlways, <1>1, PTL DEF PodSpec, VxlanKept, VxStep

\* A sandbox that ends leaves the bridge, so no namespace becomes empty by it.
LEMMA FullKept ==
    ASSUME PInv, NEW d \in Device, NoSandbox(d)
    PROVE  Full' = Full
<1>1. Empty.br = "none"
  BY DEF Empty
<1>2. ASSUME NEW k \in Inst
      PROVE  net'[k] = Empty <=> net[k] = Empty
  <2>1. CASE k = inPod[d]
    BY <1>1, <2>1, SandboxFacts, EnsureAssumption
  <2>2. CASE k # inPod[d]
    BY <2>2, SandboxFacts
  <2>3. QED  BY <2>1, <2>2
<1>3. QED  BY <1>2 DEF Full

LEMMA PodAbstract == PInv /\ PInv' /\ [PodNext]_podVars => AbstractStep
<1> SUFFICES ASSUME PInv, PInv', [PodNext]_podVars PROVE AbstractStep
  OBVIOUS
<1>1. CASE [Next]_vars
  BY <1>1, AbstractMaps DEF PInv
<1>2. ASSUME NEW d \in Device, Move(d)
      PROVE  AbstractStep
  <2>1. UNCHANGED <<mounts, net, leaked, call>>
    BY <1>2 DEF Move
  <2>2. UNCHANGED <<NamedNs, Held, Full>>
    BY <2>1, Mounts DEF Held, Full
  <2>3. QED  BY <2>2 DEF AbstractStep
<1>3. ASSUME NEW d \in Device, pod[d] # "waiting", NoSandbox(d)
      PROVE  AbstractStep
  <2>1. UNCHANGED <<mounts, leaked, call>>
    BY <1>3 DEF NoSandbox
  <2>2. UNCHANGED <<NamedNs, Held, Full>>
    BY <1>3, <2>1, Mounts, FullKept DEF Held
  <2>3. QED  BY <2>2 DEF AbstractStep
<1>4. QED  BY <1>1, <1>2, <1>3, PodKinds

\* The promise of NamedNamespace holds beside pods too: a sandbox that ends takes
\* the peer of its link away, but the namespace of the peer keeps its bridge and
\* is not taken for an empty one (ns.go:96-149, 177-186; apply.go:22-41).
THEOREM PodsKeepNamespace == PodSpec => NamespaceSpec
<1>1. PodInit => Named!Init
  BY AbstractInit DEF PodInit
<1>2. PInv /\ PInv' /\ [PodNext]_podVars => [Named!Next]_(Named!vars)
  BY PodAbstract, AbstractNext
<1>3. QED  BY PInvAlways, <1>1, <1>2, PTL DEF PodSpec, NamespaceSpec, Named!Spec

-----------------------------------------------------------------------------
LEMMA PodSettledNext ==
    PInv /\ PInv' /\ SettledInv /\ [PodNext]_podVars => SettledInv'
<1> SUFFICES ASSUME PInv, PInv', SettledInv, [PodNext]_podVars PROVE SettledInv'
  OBVIOUS
<1>1. CASE [Next]_vars
  BY <1>1, SettledNext DEF PInv
<1>2. ASSUME NEW d \in Device, Move(d)
      PROVE  SettledInv'
  BY <1>2, MountedKept DEF Move, SettledInv, Settled, At, Here
<1>3. ASSUME NEW d \in Device, pod[d] # "waiting", NoSandbox(d)
      PROVE  SettledInv'
  <2>1. UNCHANGED <<mounts, call, spent>>
    BY <1>3 DEF NoSandbox
  <2>2. \A k \in Inst : /\ net'[k].br = net[k].br /\ net'[k].vx = net[k].vx
                        /\ net'[k].joined = net[k].joined
                        /\ net[k] = Empty => net'[k] = Empty
    BY <1>3, SandboxFacts, FullKept DEF Full
  <2>3. call.k \in Inst => (Here').vx = Here.vx /\ (Here').joined = Here.joined
    BY <2>1, <2>2 DEF Here
  <2>4. call.pc \in {"delVxlan", "peer", "veth", "wire", "move", "addVxlan", "attach"} \union Ready => call.k \in Inst
    BY DEF PInv, IInv, CallTyped, Opened, HasBridge, InVeth, OnHost
  <2>5. QED  BY <2>1, <2>2, <2>3, <2>4, MountedKept DEF SettledInv, Settled, At
<1>4. QED  BY <1>1, <1>2, <1>3, PodKinds

\* Failing ADDs and dying sandboxes are no excuse for Ensure: as long as its own
\* calls do not fail it makes all that the spec asks for (apply.go:66-226).
THEOREM PodsKeepCompletion == PodSpec => []UndisturbedMakesAll
<1>1. IInv /\ SettledInv => UndisturbedMakesAll
  BY SettledCompletes
<1>2. PodInit => SettledInv
  BY SettledInit DEF PodInit
<1>3. PInv => IInv
  BY DEF PInv
<1>4. QED  BY PInvAlways, <1>1, <1>2, <1>3, PodSettledNext, PTL DEF PodSpec
=============================================================================
