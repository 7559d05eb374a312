-------------------------- MODULE EnsureLanProofs --------------------------
(***************************************************************************)
(* Theorems about EnsureLan, for every set of namespaces, devices and      *)
(* spokes and every bound on failures, crashes and removals.               *)
(*                                                                         *)
(* The inductive invariant IInv joins the types, what the place of a call  *)
(* says about the name (MountInv), and what it says about the namespace it *)
(* works in and the host's link (CallInv).                                 *)
(***************************************************************************)
EXTENDS EnsureLan, TLAPS, SequenceTheorems

\* Places of a call that has its namespace open, in the order of the code.
Ready == {"spokeUp", "tap", "done"}
OnHost == {"addVxlan", "attach"} \union Ready
InVeth == {"wire", "move"}
HasBridge == {"bridgeUp", "vxlan", "delVxlan", "peer", "veth"} \union InVeth \union OnHost
Opened == {"bridge"} \union HasBridge
ToMake == {"create", "mount"}

Content == [br : {"none", "down", "up"}, vx : Cfg \union {Nil}, joined : BOOLEAN,
            peers : SUBSET Spoke, wired : SUBSET Spoke, local : SUBSET Spoke]
Spending == [fault : 0..MaxFaults, crash : 0..MaxCrashes, remove : 0..MaxRemoves]
Calls == [pc : PC, d : Device \union {Nil}, k : Inst \union {Nil},
          need : {"no", "yes", "unseen"}]

\* A call has a device while it is under way, and a namespace once it has opened
\* one.
CallTyped ==
    /\ ~At("idle") => call.d \in Device
    /\ call.k \in Inst <=> call.pc \in Opened

\* The file is there while something is mounted on it, and nothing is when a
\* call is to mount.
MountInv ==
    /\ Len(mounts) <= 1
    /\ mounts # <<>> => file
    /\ call.pc \in ToMake => mounts = <<>>

CallInv ==
    /\ call.pc \in HasBridge => Here.br # "none"
    /\ At("delVxlan") => call.need = "unseen" \/ (call.need = "yes" /\ NeedVxlan)
    /\ At("move") => S \in Here.wired
    /\ call.pc \in OnHost => link[S] = call.k /\ S \in Here.wired \ Here.local

IInv == TypeOK /\ CallTyped /\ MountInv /\ CallInv

-----------------------------------------------------------------------------
(* Mounts. *)

LEMMA ShortSeq ==
    ASSUME NEW I, NEW s \in Seq(I), Len(s) <= 1
    PROVE  /\ s # <<>> => Len(s) = 1 /\ s[1] \in I
           /\ SubSeq(s, 1, Len(s) - 1) = <<>>
           /\ \A e \in I : s = <<>> =>
                 Append(s, e) \in Seq(I) /\ Len(Append(s, e)) = 1 /\ Append(s, e)[1] = e
<1>1. Len(s) \in Nat /\ Len(s) <= 1
  OBVIOUS
<1>2. s # <<>> => Len(s) = 1 /\ s[1] \in I
  <2>1. s # <<>> => Len(s) # 0
    BY EmptySeq
  <2>2. Len(s) = 1 => 1 \in 1..Len(s)
    OBVIOUS
  <2>3. \A n \in 1..Len(s) : s[n] \in I
    BY ElementOfSeq
  <2>4. s # <<>> => Len(s) = 1
    BY <1>1, <2>1
  <2>5. QED  BY <2>2, <2>3, <2>4
<1>3. SubSeq(s, 1, Len(s) - 1) = <<>>
  BY <1>1, SubSeqEmpty
<1>4. \A e \in I : s = <<>> =>
          Append(s, e) \in Seq(I) /\ Len(Append(s, e)) = 1 /\ Append(s, e)[1] = e
  OBVIOUS
<1>5. QED  BY <1>2, <1>3, <1>4

LEMMA MountFacts ==
    ASSUME TypeOK, MountInv
    PROVE  /\ mounts # <<>> => Top \in Inst /\ Mounted = {Top}
           /\ mounts = <<>> => Mounted = {}
           /\ Unmount => mounts' = <<>>
<1>1. mounts \in Seq(Inst) /\ Len(mounts) <= 1
  BY DEF TypeOK, MountInv
<1>2. mounts # <<>> => Len(mounts) = 1 /\ mounts[1] \in Inst
  BY <1>1, ShortSeq
<1>3. ASSUME mounts # <<>>
      PROVE  Top \in Inst /\ Mounted = {Top}
  <2>1. 1..Len(mounts) = {1}
    BY <1>2, <1>3
  <2>2. QED  BY <1>2, <1>3, <2>1 DEF Mounted, Top
<1>4. mounts = <<>> => Mounted = {}
  <2>1. mounts = <<>> => 1..Len(mounts) = {}
    OBVIOUS
  <2>2. QED  BY <2>1 DEF Mounted
<1>5. Unmount => mounts' = <<>>
  BY <1>1, ShortSeq DEF Unmount
<1>6. QED  BY <1>3, <1>4, <1>5

-----------------------------------------------------------------------------
(* Initial states. *)

\* Type correctness with its parts named.
LEMMA TypeParts ==
    TypeOK <=>
        /\ file \in BOOLEAN
        /\ mounts \in Seq(Inst)
        /\ net \in [Inst -> Content]
        /\ link \in [Spoke -> Inst \union {Nil}]
        /\ call \in Calls
        /\ (call.pc \notin {"idle", "getNS", "create", "mount", "open"} => call.k \in Inst)
        /\ leaked \subseteq Inst
        /\ remover \in BOOLEAN
        /\ want \subseteq Device
        /\ spent \in Spending
  BY DEF TypeOK, Content, Calls, Spending

\* A call is before, in, or done with its namespace.
LEMMA OpenedPC ==
    \A c \in Calls : c.pc \notin {"idle", "getNS", "create", "mount", "open"} <=> c.pc \in Opened
  BY DEF Calls, PC, Opened, HasBridge, OnHost, Ready, InVeth

LEMMA InvInit == Init => IInv
<1> SUFFICES ASSUME Init PROVE IInv
  OBVIOUS
<1>1. net \in [Inst -> Content]
  BY DEF Init, Empty, Content
<1>2. call \in Calls /\ spent \in Spending
  BY EnsureAssumption DEF Init, NoCall, Unspent, Calls, Spending, PC
<1>3. TypeOK
  <2>1. mounts \in Seq(Inst) /\ link \in [Spoke -> Inst \union {Nil}]
    BY DEF Init
  <2>2. file \in BOOLEAN /\ leaked \subseteq Inst /\ remover \in BOOLEAN /\ want \subseteq Device
    BY DEF Init
  <2>3. call.pc = "idle"
    BY DEF Init, NoCall
  <2>4. QED  BY <1>1, <1>2, <2>1, <2>2, <2>3, TypeParts
<1>4. CallTyped /\ MountInv /\ CallInv
  BY EnsureAssumption DEF Init, NoCall, CallTyped, MountInv, CallInv, At, Opened, HasBridge, OnHost, Ready,
         InVeth, ToMake
<1>5. QED  BY <1>3, <1>4 DEF IInv

-----------------------------------------------------------------------------
(* Steps of a call. *)

\* What a call works on once it has its namespace open.
LEMMA OpenedFacts ==
    ASSUME IInv, call.pc \in Opened
    PROVE  /\ call \in Calls /\ call.k \in Inst /\ call.d \in Device /\ S \in Spoke
           /\ Here \in Content /\ link[S] \in Inst \union {Nil}
           /\ call.pc \notin ToMake \union {"idle"}
<1>1. call \in Calls /\ call.k \in Inst /\ call.pc \notin ToMake \union {"idle"}
  BY TypeParts DEF IInv, CallTyped, Opened, HasBridge, OnHost, Ready, InVeth, ToMake
<1>2. call.d \in Device
  BY <1>1 DEF IInv, CallTyped, At
<1>3. S \in Spoke
  BY <1>2, EnsureAssumption DEF S
<1>4. Here \in Content /\ link[S] \in Inst \union {Nil}
  BY <1>1, <1>3, TypeParts DEF IInv, Here
<1>5. QED  BY <1>1, <1>2, <1>3, <1>4

LEMMA Moves ==
    ASSUME call \in Calls, NEW pc \in PC, Goto(pc)
    PROVE  /\ call' \in Calls
           /\ call'.pc = pc /\ call'.d = call.d /\ call'.k = call.k /\ call'.need = call.need
  BY DEF Goto, Calls

\* What SetHere and its absence mean for the types.
LEMMA Changes ==
    ASSUME IInv, call.pc \in Opened, NEW rec \in Content, SetHere(rec), call'.k = call.k
    PROVE  net' \in [Inst -> Content] /\ Here' = rec
  BY OpenedFacts, TypeParts DEF IInv, SetHere, Here

\* A call that goes on with its namespace keeps the invariant if it keeps the last
\* part of it and the types.
OthersTyped == leaked \subseteq Inst /\ remover \in BOOLEAN /\ want \subseteq Device /\ spent \in Spending

LEMMA Within ==
    ASSUME IInv, call.pc \in Opened, UNCHANGED <<file, mounts>>, OthersTyped',
           call' \in Calls, call'.pc \in Opened, call'.d = call.d, call'.k = call.k,
           net' \in [Inst -> Content], link' \in [Spoke -> Inst \union {Nil}], CallInv'
    PROVE  IInv'
<1>1. TypeOK'
  BY OpenedFacts, TypeParts DEF TypeOK, IInv, OthersTyped, Content, Calls, Spending
<1>2. CallTyped'
  BY OpenedFacts DEF CallTyped, At
<1>3. call'.pc \notin ToMake
  BY DEF ToMake, Opened, HasBridge, OnHost, Ready, InVeth
<1>4. MountInv'
  BY <1>3 DEF IInv, MountInv
<1>5. QED  BY <1>1, <1>2, <1>4 DEF IInv

LEMMA OthersKept ==
    ASSUME IInv, InCall
    PROVE  OthersTyped'
  BY TypeParts DEF IInv, InCall, OthersTyped

LEMMA BridgeStep ==
    ASSUME IInv, Bridge
    PROVE  IInv'
<1>1. call.pc = "bridge" /\ call.pc \in Opened /\ UNCHANGED <<file, mounts, link>> /\ InCall
  BY DEF Bridge, At, InNS, Opened
<1>2. link' \in [Spoke -> Inst \union {Nil}]
  BY <1>1, TypeParts DEF IInv
<1>3. CASE Here.br = "none"
  <2>1. Goto("bridgeUp") /\ SetHere([Here EXCEPT !.br = "down"])
    BY <1>3 DEF Bridge
  <2>2. [Here EXCEPT !.br = "down"] \in Content /\ [Here EXCEPT !.br = "down"].br = "down"
    BY <1>1, OpenedFacts DEF Content
  <2>3. call' \in Calls /\ call'.pc = "bridgeUp" /\ call'.d = call.d /\ call'.k = call.k
    BY <1>1, <2>1, OpenedFacts, Moves DEF PC
  <2>4. net' \in [Inst -> Content] /\ Here'.br = "down"
    BY <1>1, <2>1, <2>2, <2>3, Changes
  <2>5. CallInv' /\ call'.pc \in Opened
    BY <2>3, <2>4 DEF CallInv, At, Opened, OnHost, Ready, HasBridge
  <2>6. QED  BY <1>1, <1>2, <2>3, <2>4, <2>5, Within, OthersKept
<1>4. CASE Here.br # "none"
  <2>1. Goto("vxlan") /\ UNCHANGED net
    BY <1>4 DEF Bridge
  <2>2. call' \in Calls /\ call'.pc = "vxlan" /\ call'.d = call.d /\ call'.k = call.k
    BY <1>1, <2>1, OpenedFacts, Moves DEF PC
  <2>3. net' \in [Inst -> Content] /\ Here' = Here
    BY <2>1, <2>2, TypeParts DEF IInv, Here
  <2>4. CallInv' /\ call'.pc \in Opened
    BY <1>4, <2>2, <2>3 DEF CallInv, At, Opened, OnHost, Ready, HasBridge
  <2>5. QED  BY <1>1, <1>2, <2>2, <2>3, <2>4, Within, OthersKept
<1>5. QED  BY <1>3, <1>4

LEMMA Keeps ==
    ASSUME IInv, call.pc \in Opened, UNCHANGED net
    PROVE  SetHere(Here)
  BY OpenedFacts, TypeParts DEF IInv, SetHere, Here

LEMMA BridgeUpStep ==
    ASSUME IInv, BridgeUp
    PROVE  IInv'
<1> DEFINE rec == [Here EXCEPT !.br = "up"]
<1>1. call.pc = "bridgeUp" /\ call.pc \in Opened /\ UNCHANGED <<file, mounts, link>> /\ InCall
  BY DEF BridgeUp, At, InNS, Opened, HasBridge, OnHost, Ready, InVeth
<1>2. rec \in Content /\ rec.br = "up"
  BY <1>1, OpenedFacts DEF Content
<1>3. SetHere(rec)
  BY <1>1, Keeps DEF BridgeUp
<1>4. call' \in Calls /\ call'.pc = "vxlan" /\ call'.d = call.d /\ call'.k = call.k
  BY <1>1, OpenedFacts, Moves DEF BridgeUp, PC
<1>5. net' \in [Inst -> Content] /\ Here' = rec /\ S' = S
  BY <1>1, <1>2, <1>3, <1>4, Changes DEF S
<1>6. link' \in [Spoke -> Inst \union {Nil}]
  BY <1>1, TypeParts DEF IInv
<1>7. CallInv' /\ call'.pc \in Opened
  BY <1>1, <1>2, <1>4, <1>5, <1>6, OpenedFacts DEF IInv, CallInv, At, Opened, OnHost, Ready, HasBridge, InVeth
<1>8. QED  BY <1>1, <1>4, <1>5, <1>6, <1>7, Within, OthersKept

LEMMA CheckVxlanStep ==
    ASSUME IInv, CheckVxlan
    PROVE  IInv'
<1>1. call.pc = "vxlan" /\ call.pc \in Opened /\ UNCHANGED <<file, mounts, net, link>> /\ InCall
  BY DEF CheckVxlan, At, InNS, Opened, HasBridge, OnHost, Ready, InVeth
<1>2. /\ call' \in Calls /\ call'.d = call.d /\ call'.k = call.k
      /\ \/ call'.pc = "peer"
         \/ call'.pc = "delVxlan" /\ call'.need = "yes" /\ NeedVxlan
  BY <1>1, OpenedFacts DEF CheckVxlan, Calls, PC
<1>3. /\ net' \in [Inst -> Content] /\ Here' = Here /\ S' = S
      /\ link' \in [Spoke -> Inst \union {Nil}] /\ NeedVxlan' = NeedVxlan
  BY <1>1, <1>2, TypeParts DEF IInv, Here, S, NeedVxlan
<1>4. CallInv' /\ call'.pc \in Opened
  BY <1>1, <1>2, <1>3 DEF IInv, CallInv, At, Opened, OnHost, Ready, HasBridge, InVeth
<1>5. QED  BY <1>1, <1>2, <1>3, <1>4, Within, OthersKept

LEMMA DeleteVxlanStep ==
    ASSUME IInv, DeleteVxlan
    PROVE  IInv'
<1> DEFINE rec == [Here EXCEPT !.vx = Nil, !.joined = FALSE]
<1>1. call.pc = "delVxlan" /\ call.pc \in Opened /\ UNCHANGED <<file, mounts, link>> /\ InCall
  BY DEF DeleteVxlan, At, InNS, Opened, HasBridge, OnHost, Ready, InVeth
<1>2. rec \in Content /\ rec.br = Here.br
  BY <1>1, OpenedFacts DEF Content
<1>3. SetHere(rec)
  BY <1>1 DEF DeleteVxlan
<1>4. call' \in Calls /\ call'.pc = "peer" /\ call'.d = call.d /\ call'.k = call.k
  BY <1>1, OpenedFacts, Moves DEF DeleteVxlan, PC
<1>5. net' \in [Inst -> Content] /\ Here' = rec /\ S' = S
  BY <1>1, <1>2, <1>3, <1>4, Changes DEF S
<1>6. link' \in [Spoke -> Inst \union {Nil}]
  BY <1>1, TypeParts DEF IInv
<1>7. CallInv' /\ call'.pc \in Opened
  BY <1>1, <1>2, <1>4, <1>5, <1>6, OpenedFacts DEF IInv, CallInv, At, Opened, OnHost, Ready, HasBridge, InVeth
<1>8. QED  BY <1>1, <1>4, <1>5, <1>6, <1>7, Within, OthersKept

LEMMA DeletePeerStep ==
    ASSUME IInv, DeletePeer
    PROVE  IInv'
<1> DEFINE rec == [Here EXCEPT !.peers = @ \ {S}, !.wired = @ \ {S}, !.local = @ \ {S}]
<1>1. call.pc = "peer" /\ call.pc \in Opened /\ UNCHANGED <<file, mounts>> /\ InCall
  BY DEF DeletePeer, At, InNS, Opened, HasBridge, OnHost, Ready, InVeth
<1>2. rec \in Content /\ rec.br = Here.br
  BY <1>1, OpenedFacts DEF Content
<1>3. SetHere(rec)
  BY <1>1, Keeps DEF DeletePeer
<1>4. call' \in Calls /\ call'.pc = "veth" /\ call'.d = call.d /\ call'.k = call.k
  BY <1>1, OpenedFacts, Moves DEF DeletePeer, PC
<1>5. net' \in [Inst -> Content] /\ Here' = rec /\ S' = S
  BY <1>1, <1>2, <1>3, <1>4, Changes DEF S
<1>6. link' \in [Spoke -> Inst \union {Nil}]
  BY <1>1, TypeParts, OpenedFacts DEF IInv, DeletePeer
<1>7. CallInv' /\ call'.pc \in Opened
  BY <1>1, <1>2, <1>4, <1>5, <1>6, OpenedFacts DEF IInv, CallInv, At, Opened, OnHost, Ready, HasBridge, InVeth
<1>8. QED  BY <1>1, <1>4, <1>5, <1>6, <1>7, Within, OthersKept

LEMMA AddVethStep ==
    ASSUME IInv, AddVeth
    PROVE  IInv'
<1> DEFINE rec == [Here EXCEPT !.peers = @ \union {S}, !.local = @ \union {S}]
<1>1. call.pc = "veth" /\ call.pc \in Opened /\ UNCHANGED <<file, mounts, link>> /\ InCall
  BY DEF AddVeth, At, InNS, Opened, HasBridge, OnHost, Ready, InVeth
<1>2. rec \in Content /\ rec.br = Here.br
  BY <1>1, OpenedFacts DEF Content
<1>3. SetHere(rec)
  BY <1>1, Keeps DEF AddVeth
<1>4. call' \in Calls /\ call'.pc = "wire" /\ call'.d = call.d /\ call'.k = call.k
  BY <1>1, OpenedFacts, Moves DEF AddVeth, PC
<1>5. net' \in [Inst -> Content] /\ Here' = rec /\ S' = S
  BY <1>1, <1>2, <1>3, <1>4, Changes DEF S
<1>6. link' \in [Spoke -> Inst \union {Nil}]
  BY <1>1, TypeParts DEF IInv
<1>7. CallInv' /\ call'.pc \in Opened
  BY <1>1, <1>2, <1>4, <1>5, <1>6, OpenedFacts DEF IInv, CallInv, At, Opened, OnHost, Ready, HasBridge, InVeth
<1>8. QED  BY <1>1, <1>4, <1>5, <1>6, <1>7, Within, OthersKept

LEMMA WireStep ==
    ASSUME IInv, Wire
    PROVE  IInv'
<1> DEFINE rec == [Here EXCEPT !.wired = @ \union {S}]
<1>1. call.pc = "wire" /\ call.pc \in Opened /\ UNCHANGED <<file, mounts, link>> /\ InCall
  BY DEF Wire, At, InNS, Opened, HasBridge, OnHost, Ready, InVeth
<1>2. rec \in Content /\ rec.br = Here.br /\ S \in rec.wired
  BY <1>1, OpenedFacts DEF Content
<1>3. SetHere(rec)
  BY <1>1, Keeps DEF Wire
<1>4. call' \in Calls /\ call'.pc = "move" /\ call'.d = call.d /\ call'.k = call.k
  BY <1>1, OpenedFacts, Moves DEF Wire, PC
<1>5. net' \in [Inst -> Content] /\ Here' = rec /\ S' = S
  BY <1>1, <1>2, <1>3, <1>4, Changes DEF S
<1>6. link' \in [Spoke -> Inst \union {Nil}]
  BY <1>1, TypeParts DEF IInv
<1>7. CallInv' /\ call'.pc \in Opened
  BY <1>1, <1>2, <1>4, <1>5, <1>6, OpenedFacts DEF IInv, CallInv, At, Opened, OnHost, Ready, HasBridge, InVeth
<1>8. QED  BY <1>1, <1>4, <1>5, <1>6, <1>7, Within, OthersKept

LEMMA MoveToHostStep ==
    ASSUME IInv, MoveToHost
    PROVE  IInv'
<1> DEFINE rec == [Here EXCEPT !.local = @ \ {S}]
<1>1. call.pc = "move" /\ call.pc \in Opened /\ UNCHANGED <<file, mounts>> /\ InCall
  BY DEF MoveToHost, At, InNS, Opened, HasBridge, OnHost, Ready, InVeth
<1>2. rec \in Content /\ rec.br = Here.br /\ rec.wired = Here.wired /\ S \notin rec.local
  BY <1>1, OpenedFacts DEF Content
<1>3. SetHere(rec)
  BY <1>1, Keeps DEF MoveToHost
<1>4. call' \in Calls /\ call'.pc \in {"addVxlan", "spokeUp"} /\ call'.d = call.d /\ call'.k = call.k
  BY <1>1, OpenedFacts, Moves DEF MoveToHost, PC
<1>5. net' \in [Inst -> Content] /\ Here' = rec /\ S' = S
  BY <1>1, <1>2, <1>3, <1>4, Changes DEF S
<1>6. link' \in [Spoke -> Inst \union {Nil}] /\ link'[S] = call.k
  BY <1>1, TypeParts, OpenedFacts DEF IInv, MoveToHost
<1>7. CallInv' /\ call'.pc \in Opened
  BY <1>1, <1>2, <1>4, <1>5, <1>6, OpenedFacts DEF IInv, CallInv, At, Opened, OnHost, Ready, HasBridge, InVeth
<1>8. QED  BY <1>1, <1>4, <1>5, <1>6, <1>7, Within, OthersKept

LEMMA AddVxlanStep ==
    ASSUME IInv, AddVxlan
    PROVE  IInv'
<1> DEFINE rec == IF VxlanTaken THEN Here ELSE [Here EXCEPT !.vx = cfgOf[call.d]]
<1>1. call.pc = "addVxlan" /\ call.pc \in Opened /\ UNCHANGED <<file, mounts, link>> /\ InCall
  BY DEF AddVxlan, At, InNS, Opened, HasBridge, OnHost, Ready, InVeth
<1>2. rec \in Content /\ rec.br = Here.br /\ rec.wired = Here.wired /\ rec.local = Here.local
  BY <1>1, OpenedFacts, EnsureAssumption DEF Content
<1>3. SetHere(rec)
  BY <1>1, Keeps DEF AddVxlan
<1>4. call' \in Calls /\ call'.pc = "attach" /\ call'.d = call.d /\ call'.k = call.k
  BY <1>1, OpenedFacts, Moves DEF AddVxlan, PC
<1>5. net' \in [Inst -> Content] /\ Here' = rec /\ S' = S
  BY <1>1, <1>2, <1>3, <1>4, Changes DEF S
<1>6. link' \in [Spoke -> Inst \union {Nil}]
  BY <1>1, TypeParts DEF IInv
<1>7. CallInv' /\ call'.pc \in Opened
  BY <1>1, <1>2, <1>4, <1>5, <1>6, OpenedFacts DEF IInv, CallInv, At, Opened, OnHost, Ready, HasBridge, InVeth
<1>8. QED  BY <1>1, <1>4, <1>5, <1>6, <1>7, Within, OthersKept

LEMMA AttachStep ==
    ASSUME IInv, Attach
    PROVE  IInv'
<1> DEFINE rec == [Here EXCEPT !.joined = (Here.vx # Nil)]
<1>1. call.pc = "attach" /\ call.pc \in Opened /\ UNCHANGED <<file, mounts, link>> /\ InCall
  BY DEF Attach, At, InNS, Opened, HasBridge, OnHost, Ready, InVeth
<1>2. rec \in Content /\ rec.br = Here.br /\ rec.wired = Here.wired /\ rec.local = Here.local
  BY <1>1, OpenedFacts DEF Content
<1>3. SetHere(rec)
  BY <1>1, Keeps DEF Attach
<1>4. call' \in Calls /\ call'.pc = "spokeUp" /\ call'.d = call.d /\ call'.k = call.k
  BY <1>1, OpenedFacts, Moves DEF Attach, PC
<1>5. net' \in [Inst -> Content] /\ Here' = rec /\ S' = S
  BY <1>1, <1>2, <1>3, <1>4, Changes DEF S
<1>6. link' \in [Spoke -> Inst \union {Nil}]
  BY <1>1, TypeParts DEF IInv
<1>7. CallInv' /\ call'.pc \in Opened
  BY <1>1, <1>2, <1>4, <1>5, <1>6, OpenedFacts DEF IInv, CallInv, At, Opened, OnHost, Ready, HasBridge, InVeth
<1>8. QED  BY <1>1, <1>4, <1>5, <1>6, <1>7, Within, OthersKept

LEMMA SpokeUpStep ==
    ASSUME IInv, SpokeUp
    PROVE  IInv'
<1> DEFINE rec == Here
<1>1. call.pc = "spokeUp" /\ call.pc \in Opened /\ UNCHANGED <<file, mounts, link>> /\ InCall
  BY DEF SpokeUp, At, InNS, Opened, HasBridge, OnHost, Ready, InVeth
<1>2. rec \in Content /\ rec.br = Here.br /\ rec.wired = Here.wired /\ rec.local = Here.local
  BY <1>1, OpenedFacts DEF Content
<1>3. SetHere(rec)
  BY <1>1, Keeps DEF SpokeUp
<1>4. call' \in Calls /\ call'.pc = "tap" /\ call'.d = call.d /\ call'.k = call.k
  BY <1>1, OpenedFacts, Moves DEF SpokeUp, PC
<1>5. net' \in [Inst -> Content] /\ Here' = rec /\ S' = S
  BY <1>1, <1>2, <1>3, <1>4, Changes DEF S
<1>6. link' \in [Spoke -> Inst \union {Nil}]
  BY <1>1, TypeParts DEF IInv
<1>7. CallInv' /\ call'.pc \in Opened
  BY <1>1, <1>2, <1>4, <1>5, <1>6, OpenedFacts DEF IInv, CallInv, At, Opened, OnHost, Ready, HasBridge, InVeth
<1>8. QED  BY <1>1, <1>4, <1>5, <1>6, <1>7, Within, OthersKept

LEMMA RecreateMacvtapStep ==
    ASSUME IInv, RecreateMacvtap
    PROVE  IInv'
<1> DEFINE rec == Here
<1>1. call.pc = "tap" /\ call.pc \in Opened /\ UNCHANGED <<file, mounts, link>> /\ InCall
  BY DEF RecreateMacvtap, At, InNS, Opened, HasBridge, OnHost, Ready, InVeth
<1>2. rec \in Content /\ rec.br = Here.br /\ rec.wired = Here.wired /\ rec.local = Here.local
  BY <1>1, OpenedFacts DEF Content
<1>3. SetHere(rec)
  BY <1>1, Keeps DEF RecreateMacvtap
<1>4. call' \in Calls /\ call'.pc = "done" /\ call'.d = call.d /\ call'.k = call.k
  BY <1>1, OpenedFacts, Moves DEF RecreateMacvtap, PC
<1>5. net' \in [Inst -> Content] /\ Here' = rec /\ S' = S
  BY <1>1, <1>2, <1>3, <1>4, Changes DEF S
<1>6. link' \in [Spoke -> Inst \union {Nil}]
  BY <1>1, TypeParts DEF IInv
<1>7. CallInv' /\ call'.pc \in Opened
  BY <1>1, <1>2, <1>4, <1>5, <1>6, OpenedFacts DEF IInv, CallInv, At, Opened, OnHost, Ready, HasBridge, InVeth
<1>8. QED  BY <1>1, <1>4, <1>5, <1>6, <1>7, Within, OthersKept

LEMMA FaultTyped ==
    ASSUME spent \in Spending, Fault
    PROVE  spent' \in Spending
  BY EnsureAssumption DEF Fault, Spending

\* A failure that Ensure does not see leaves the namespace as it is.
LEMMA IgnoredFailureStep ==
    ASSUME IInv, IgnoredFailure
    PROVE  IInv'
<1>1. /\ call.pc \in {"vxlan", "delVxlan", "peer", "attach"} /\ call.pc \in Opened
      /\ UNCHANGED <<file, mounts, net, link>>
  BY DEF IgnoredFailure, AfterIgnored, Opened, HasBridge, OnHost
<1>2. /\ call' \in Calls /\ call'.d = call.d /\ call'.k = call.k
      /\ call'.pc \in {"delVxlan", "peer", "veth", "spokeUp"}
      /\ call'.pc = "spokeUp" => call.pc = "attach"
      /\ call'.pc = "delVxlan" => call'.need = "unseen"
  <2>1. call'.pc = AfterIgnored[call.pc] /\ call'.d = call.d /\ call'.k = call.k
    BY <1>1, OpenedFacts DEF IgnoredFailure, Calls
  <2>2. /\ call'.pc \in {"delVxlan", "peer", "veth", "spokeUp"}
        /\ call'.pc = "spokeUp" => call.pc = "attach"
        /\ call'.pc = "delVxlan" => call.pc = "vxlan"
    BY <1>1, <2>1 DEF AfterIgnored
  <2>3. call' \in Calls
    BY <1>1, <2>2, OpenedFacts DEF IgnoredFailure, Calls, PC, At, AfterIgnored
  <2>4. call'.pc = "delVxlan" => call'.need = "unseen"
    BY <1>1, <2>2, OpenedFacts DEF IgnoredFailure, Calls, At
  <2>5. QED  BY <2>1, <2>2, <2>3, <2>4
<1>3. net' \in [Inst -> Content] /\ Here' = Here /\ S' = S /\ link' \in [Spoke -> Inst \union {Nil}]
  BY <1>1, <1>2, TypeParts DEF IInv, Here, S
<1>4. CallInv' /\ call'.pc \in Opened
  BY <1>1, <1>2, <1>3 DEF IInv, CallInv, At, Opened, OnHost, Ready, HasBridge, InVeth
<1>5. OthersTyped'
  BY TypeParts, FaultTyped DEF IInv, IgnoredFailure, OthersTyped
<1>6. QED  BY <1>1, <1>2, <1>3, <1>4, <1>5, Within

-----------------------------------------------------------------------------
(* Before the namespace is open, and after the call. *)

\* A call that is not in a namespace has nothing to say about it.
LEMMA Outside ==
    ASSUME IInv, UNCHANGED <<net, link>>, OthersTyped', call' \in Calls,
           call'.pc \notin Opened, call'.k = Nil, call'.pc # "idle" => call'.d \in Device,
           file' \in BOOLEAN, mounts' \in Seq(Inst), MountInv'
    PROVE  IInv'
<1>1. TypeOK'
  BY OpenedPC, TypeParts DEF TypeOK, IInv, OthersTyped, Content, Calls, Spending
<1>2. CallTyped'
  BY EnsureAssumption DEF CallTyped, At
<1>3. CallInv'
  BY DEF CallInv, At, Opened, HasBridge, OnHost, Ready, InVeth
<1>4. QED  BY <1>1, <1>2, <1>3 DEF IInv

\* What is known of a call that has not opened one yet.
LEMMA ClosedFacts ==
    ASSUME IInv, call.pc \notin Opened
    PROVE  call \in Calls /\ call.k = Nil /\ (call.pc # "idle" => call.d \in Device)
  BY TypeParts DEF IInv, CallTyped, At, Calls

LEMMA NoCallFacts ==
    /\ NoCall \in Calls /\ NoCall.k = Nil /\ NoCall.pc = "idle"
    /\ "idle" \notin Opened \union ToMake
  BY DEF NoCall, Calls, PC, Opened, HasBridge, OnHost, Ready, InVeth, ToMake

\* The mounted file, after the call has ended.
LEMMA Ended ==
    ASSUME IInv, call' = NoCall, UNCHANGED <<net, link>>, UNCHANGED mounts,
           file' = file \/ Unlink \/ file' = TRUE, OthersTyped'
    PROVE  IInv'
<1>1. file' \in BOOLEAN /\ mounts' \in Seq(Inst)
  BY TypeParts DEF IInv, Unlink
<1>2. MountInv'
  BY NoCallFacts DEF IInv, MountInv, Unlink
<1>3. QED  BY <1>1, <1>2, NoCallFacts, Outside

LEMMA StartStep ==
    ASSUME IInv, NEW d \in Device, Start(d)
    PROVE  IInv'
<1>1. /\ call' = [NoCall EXCEPT !.pc = FirstStep, !.d = d]
      /\ UNCHANGED <<file, mounts, net, link>> /\ InCall /\ FirstStep \in {"getNS", "create"}
  BY DEF Start, InNS, FirstStep
<1>2. call' \in Calls /\ call'.pc = FirstStep /\ call'.k = Nil /\ call'.d = d
  BY <1>1 DEF NoCall, Calls, PC
<1>3. call'.pc \notin Opened
  BY <1>1, <1>2 DEF Opened, HasBridge, OnHost, Ready, InVeth
<1>4. MountInv'
  BY <1>1, <1>2, TypeParts DEF IInv, MountInv, FirstStep, ToMake
<1>5. QED  BY <1>1, <1>2, <1>3, <1>4, TypeParts, OthersKept, Outside DEF IInv

\* A call opens what is mounted on top.
LEMMA Opens ==
    ASSUME IInv, call.pc \in {"getNS", "open"}, mounts # <<>>, UNCHANGED net, InNS,
           call' = [call EXCEPT !.pc = "bridge", !.k = Top]
    PROVE  IInv'
<1>1. call \in Calls /\ call.d \in Device
  BY ClosedFacts DEF Opened, HasBridge, OnHost, Ready, InVeth
<1>2. Top \in Inst
  BY MountFacts DEF IInv
<1>3. call' \in Calls /\ call'.pc = "bridge" /\ call'.k = Top /\ call'.d = call.d
  BY <1>1, <1>2 DEF Calls, PC
<1>4. TypeOK'
  BY <1>2, <1>3, TypeParts, OthersKept DEF TypeOK, IInv, InNS, OthersTyped, Content, Calls, Spending
<1>5. CallTyped'
  BY <1>1, <1>2, <1>3 DEF CallTyped, At, Opened
<1>6. MountInv'
  BY <1>3 DEF IInv, MountInv, ToMake, InNS
<1>7. CallInv'
  BY <1>3 DEF CallInv, At, HasBridge, OnHost, Ready, InVeth
<1>8. QED  BY <1>4, <1>5, <1>6, <1>7 DEF IInv

LEMMA GetNSStep ==
    ASSUME IInv, GetNS
    PROVE  IInv'
<1>1. call.pc = "getNS" /\ call.pc \notin Opened /\ UNCHANGED net /\ InNS
  BY DEF GetNS, At, Opened, HasBridge, OnHost, Ready, InVeth
<1>2. CASE mounts = <<>>
  <2>1. Goto("create") /\ UNCHANGED <<file, mounts, link>> /\ InCall
    BY <1>1, <1>2 DEF GetNS, Goto, InNS
  <2>2. call' \in Calls /\ call'.pc = "create" /\ call'.k = Nil /\ call'.d \in Device
    BY <1>1, <2>1, ClosedFacts, Moves DEF PC
  <2>3. MountInv' /\ call'.pc \notin Opened
    BY <1>2, <2>1, <2>2 DEF IInv, MountInv, Opened, HasBridge, OnHost, Ready, InVeth
  <2>4. QED  BY <1>1, <2>1, <2>2, <2>3, TypeParts, OthersKept, Outside DEF IInv
<1>3. CASE mounts # <<>>
  BY <1>1, <1>3, Opens DEF GetNS
<1>4. QED  BY <1>2, <1>3

LEMMA CreateFileStep ==
    ASSUME IInv, CreateFile
    PROVE  IInv'
<1>1. call.pc = "create" /\ call.pc \notin Opened /\ call.pc \in ToMake /\ InCall
  BY DEF CreateFile, At, Opened, HasBridge, OnHost, Ready, InVeth, ToMake
<1>2. call' \in Calls /\ call'.pc = "mount" /\ call'.k = Nil /\ call'.d \in Device
  BY <1>1, ClosedFacts, Moves DEF CreateFile, PC
<1>3. MountInv' /\ call'.pc \notin Opened
  BY <1>1, <1>2 DEF IInv, MountInv, CreateFile, Opened, HasBridge, OnHost, Ready, InVeth
<1>4. UNCHANGED <<mounts, net, link>> /\ file' = TRUE
  BY DEF CreateFile
<1>5. QED  BY <1>1, <1>2, <1>3, <1>4, TypeParts, OthersKept, Outside DEF IInv

LEMMA MountStep ==
    ASSUME IInv, NEW k \in Inst, Mount(k)
    PROVE  IInv'
<1>1. /\ call.pc = "mount" /\ call.pc \notin Opened /\ call.pc \in ToMake
      /\ UNCHANGED <<file, net, link>> /\ InCall /\ file
  BY DEF Mount, At, Opened, HasBridge, OnHost, Ready, InVeth, ToMake
<1>2. call' \in Calls /\ call'.pc = "open" /\ call'.k = Nil /\ call'.d \in Device
  BY <1>1, ClosedFacts, Moves DEF Mount, PC
<1>3. mounts' \in Seq(Inst) /\ Len(mounts') = 1
  BY <1>1, TypeParts, ShortSeq DEF IInv, MountInv, Mount
<1>4. MountInv' /\ call'.pc \notin Opened
  BY <1>1, <1>2, <1>3 DEF MountInv, ToMake, Opened, HasBridge, OnHost, Ready, InVeth
<1>5. QED  BY <1>1, <1>2, <1>3, <1>4, TypeParts, OthersKept, Outside DEF IInv

LEMMA OpenStep ==
    ASSUME IInv, Open
    PROVE  IInv'
  BY Opens DEF Open, At

LEMMA GetNSFailsStep ==
    ASSUME IInv, GetNSFails
    PROVE  IInv'
<1>1. /\ call.pc = "getNS" /\ call.pc \notin Opened /\ UNCHANGED <<net, link>>
      /\ Goto("create") /\ Unmount /\ Unlink
  BY DEF GetNSFails, At, Opened, HasBridge, OnHost, Ready, InVeth
<1>2. call' \in Calls /\ call'.pc = "create" /\ call'.k = Nil /\ call'.d \in Device
  BY <1>1, ClosedFacts, Moves DEF PC
<1>3. mounts' = <<>>
  BY <1>1, MountFacts DEF IInv
<1>4. MountInv' /\ call'.pc \notin Opened /\ mounts' \in Seq(Inst) /\ file' \in BOOLEAN
  BY <1>1, <1>2, <1>3 DEF MountInv, Unlink, Opened, HasBridge, OnHost, Ready, InVeth
<1>5. OthersTyped'
  BY TypeParts, FaultTyped DEF IInv, GetNSFails, OthersTyped
<1>6. QED  BY <1>1, <1>2, <1>4, <1>5, Outside

LEMMA ReturnFacts ==
    ASSUME IInv, Return
    PROVE  leaked' \subseteq Inst /\ call' = NoCall
  BY TypeParts DEF IInv, Return, Calls

LEMMA ReplyStep ==
    ASSUME IInv, Reply
    PROVE  IInv'
<1>1. UNCHANGED <<file, mounts, net, link, remover, spent>> /\ Return /\ want' \subseteq want
  BY DEF Reply
<1>2. OthersTyped'
  BY <1>1, TypeParts, ReturnFacts DEF IInv, OthersTyped
<1>3. QED  BY <1>1, <1>2, ReturnFacts, Ended

LEMMA RefusedStep ==
    ASSUME IInv, Refused
    PROVE  IInv'
<1>1. UNCHANGED <<mounts, net, link, remover, want, spent>> /\ Return /\ (file' = file \/ Unlink)
  BY DEF Refused
<1>2. OthersTyped'
  BY <1>1, TypeParts, ReturnFacts DEF IInv, OthersTyped
<1>3. QED  BY <1>1, <1>2, ReturnFacts, Ended

LEMMA StepFailsStep ==
    ASSUME IInv, StepFails
    PROVE  IInv'
<1>1. UNCHANGED <<mounts, net, link, remover, want>> /\ Return /\ (file' = file \/ Unlink) /\ Fault
  BY DEF StepFails
<1>2. OthersTyped'
  BY <1>1, TypeParts, ReturnFacts, FaultTyped DEF IInv, OthersTyped
<1>3. QED  BY <1>1, <1>2, ReturnFacts, Ended

LEMMA CrashStep ==
    ASSUME IInv, Crash
    PROVE  IInv'
<1>1. UNCHANGED <<file, mounts, net, link, want>> /\ call' = NoCall /\ leaked' = {} /\ remover' = FALSE
  BY DEF Crash
<1>2. spent' \in Spending
  BY EnsureAssumption, TypeParts DEF IInv, Crash, Spending
<1>3. OthersTyped'
  BY <1>1, <1>2, TypeParts DEF IInv, OthersTyped
<1>4. QED  BY <1>1, <1>3, Ended

-----------------------------------------------------------------------------
(* Steps of others. *)

\* Steps beside the call that leave the namespaces and links alone.
LEMMA Beside ==
    ASSUME IInv, UNCHANGED <<net, link, call>>, OthersTyped',
           file' \in BOOLEAN, mounts' \in Seq(Inst), MountInv'
    PROVE  IInv'
<1>1. TypeOK'
  BY TypeParts DEF TypeOK, IInv, OthersTyped, Content, Calls, Spending
<1>2. CallTyped'
  BY DEF IInv, CallTyped, At
<1>3. CallInv'
  BY DEF IInv, CallInv, At, Here, S, NeedVxlan
<1>4. QED  BY <1>1, <1>2, <1>3 DEF IInv

LEMMA NewPodStep ==
    ASSUME IInv, NEW d \in Device, NewPod(d)
    PROVE  IInv'
<1>1. OthersTyped' /\ MountInv'
  BY TypeParts DEF IInv, NewPod, OthersTyped, MountInv
<1>2. QED  BY <1>1, TypeParts, Beside DEF IInv, NewPod

LEMMA RemoveStep ==
    ASSUME IInv, Remove
    PROVE  IInv'
<1>1. UNCHANGED <<file, net, link, call, leaked, want>> /\ remover' \in BOOLEAN
  BY TypeParts DEF IInv, Remove
<1>2. spent' \in Spending
  BY EnsureAssumption, TypeParts DEF IInv, Remove, Spending
<1>3. mounts' = <<>>
  BY MountFacts DEF IInv, Remove
<1>4. OthersTyped' /\ MountInv' /\ mounts' \in Seq(Inst)
  BY <1>1, <1>2, <1>3, TypeParts DEF IInv, OthersTyped, MountInv
<1>5. QED  BY <1>1, <1>4, TypeParts, Beside DEF IInv

LEMMA RemoveFileStep ==
    ASSUME IInv, RemoveFile
    PROVE  IInv'
<1>1. UNCHANGED <<mounts, net, link, call, leaked, want, spent>> /\ remover' = FALSE /\ Unlink
  BY DEF RemoveFile
<1>2. OthersTyped' /\ file' \in BOOLEAN
  BY <1>1, TypeParts DEF IInv, OthersTyped, Unlink
<1>3. MountInv'
  BY <1>1 DEF IInv, MountInv, Unlink
<1>4. QED  BY <1>1, <1>2, <1>3, TypeParts, Beside DEF IInv

LEMMA CollectStep ==
    ASSUME IInv, Collect
    PROVE  IInv'
<1>1. OthersTyped' /\ MountInv'
  BY TypeParts DEF IInv, Collect, OthersTyped, MountInv
<1>2. QED  BY <1>1, TypeParts, Beside DEF IInv, Collect

\* The namespace of the call is open, so it is another one that is destroyed.
LEMMA DestroyStep ==
    ASSUME IInv, NEW k \in Inst, Destroy(k)
    PROVE  IInv'
<1>1. UNCHANGED <<file, mounts, call, leaked, remover, want, spent>> /\ k # call.k
  BY DEF Destroy, Alive
<1>2. net' \in [Inst -> Content] /\ \A i \in Inst : i # k => net'[i] = net[i]
  BY TypeParts DEF IInv, Destroy, Content, Empty
<1>3. /\ link' \in [Spoke -> Inst \union {Nil}]
      /\ \A s \in Spoke : link[s] = call.k => link'[s] = call.k
  BY <1>1, TypeParts DEF IInv, Destroy
<1>4. TypeOK'
  BY <1>1, <1>2, <1>3, TypeParts DEF TypeOK, IInv, Content, Calls, Spending
<1>5. CallTyped' /\ MountInv'
  BY <1>1 DEF IInv, CallTyped, MountInv, At
<1>6. CallInv'
  <2>1. CASE call.pc \in Opened
    <3>1. Here' = Here /\ S' = S /\ S \in Spoke
      BY <1>1, <1>2, <2>1, OpenedFacts DEF Here, S
    <3>2. QED  BY <1>1, <1>3, <3>1 DEF IInv, CallInv, At, NeedVxlan
  <2>2. CASE call.pc \notin Opened
    BY <1>1, <2>2 DEF CallInv, At, Opened, HasBridge, OnHost, Ready, InVeth
  <2>3. QED  BY <2>1, <2>2
<1>7. QED  BY <1>4, <1>5, <1>6 DEF IInv

LEMMA InvNext == IInv /\ [Next]_vars => IInv'
<1> SUFFICES ASSUME IInv, [Next]_vars PROVE IInv'
  OBVIOUS
<1>1. ASSUME NEW d \in Device, NewPod(d) \/ Start(d)
      PROVE  IInv'
  BY <1>1, NewPodStep, StartStep
<1>2. CASE EnsureStep
  <2>1. CASE GetNS \/ CreateFile \/ (\E k \in Inst : Mount(k)) \/ Open \/ Reply \/ Refused
    BY <2>1, GetNSStep, CreateFileStep, MountStep, OpenStep, ReplyStep, RefusedStep
  <2>2. CASE Bridge \/ BridgeUp \/ CheckVxlan \/ DeleteVxlan \/ DeletePeer \/ AddVeth
    BY <2>2, BridgeStep, BridgeUpStep, CheckVxlanStep, DeleteVxlanStep, DeletePeerStep, AddVethStep
  <2>3. CASE Wire \/ MoveToHost \/ AddVxlan \/ Attach \/ SpokeUp \/ RecreateMacvtap
    BY <2>3, WireStep, MoveToHostStep, AddVxlanStep, AttachStep, SpokeUpStep, RecreateMacvtapStep
  <2>4. QED  BY <1>2, <2>1, <2>2, <2>3 DEF EnsureStep
<1>3. CASE Failure
  BY <1>3, GetNSFailsStep, StepFailsStep, IgnoredFailureStep DEF Failure
<1>4. CASE Remove \/ RemoveFile \/ Crash \/ Collect
  BY <1>4, RemoveStep, RemoveFileStep, CrashStep, CollectStep
<1>5. ASSUME NEW k \in Inst, Destroy(k)
      PROVE  IInv'
  BY <1>5, DestroyStep
<1>6. CASE UNCHANGED vars
  <2>1. OthersTyped' /\ MountInv'
    BY <1>6, TypeParts DEF IInv, vars, OthersTyped, MountInv
  <2>2. QED  BY <1>6, <2>1, TypeParts, Beside DEF IInv, vars
<1>7. QED  BY <1>1, <1>2, <1>3, <1>4, <1>5, <1>6 DEF Next

LEMMA InvAlways == Spec => []IInv
<1>1. QED  BY InvInit, InvNext, PTL DEF Spec

-----------------------------------------------------------------------------
(* Theorems. *)

\* Every variable of EnsureLan keeps its type, however many calls fail, die or
\* meet a Remove (apply.go, ns.go).
THEOREM EnsureTyped == Spec => []TypeOK
<1>1. IInv => TypeOK
  BY DEF IInv
<1>2. QED  BY InvAlways, <1>1, PTL

\* Ensure never mounts a second namespace over the first, so that one umount
\* takes the name from it (apply.go:22-41, ns.go:94-149).
THEOREM EnsureMountsOnce == Spec => []OneMount
<1>1. IInv => OneMount
  BY DEF IInv, MountInv, OneMount
<1>2. QED  BY InvAlways, <1>1, PTL

\* When Ensure returns without an error the host's spoke link ends on the bridge
\* of the namespace the call worked in (apply.go:154-193).
THEOREM EnsureServes == Spec => []SpokeServed
<1>1. IInv => SpokeServed
  BY DEF IInv, CallInv, SpokeServed, At, HasBridge, OnHost, Ready
<1>2. QED  BY InvAlways, <1>1, PTL

-----------------------------------------------------------------------------
(* The vxlan interface. *)

VxStep ==
    \A k \in Inst :
        Alive(k) /\ net[k].vx # Nil /\ net'[k].vx # net[k].vx =>
            call.k = k /\ (cfgOf[call.d] # net[k].vx \/ call.need = "unseen")

LEMMA VxSet ==
    ASSUME net \in [Inst -> Content], NEW rec \in Content, SetHere(rec),
           rec.vx = Here.vx \/ Here.vx = Nil \/ Here.vx # cfgOf[call.d] \/ call.need = "unseen"
    PROVE  VxStep
  BY DEF VxStep, SetHere, Here

LEMMA VxKeptNext == IInv /\ [Next]_vars => VxStep
<1> SUFFICES ASSUME IInv, [Next]_vars PROVE VxStep
  OBVIOUS
<1> USE DEF At, Opened, HasBridge, OnHost, Ready, InVeth
<1>0. net \in [Inst -> Content]
  BY TypeParts DEF IInv
<1>1. CASE UNCHANGED net
  BY <1>1 DEF VxStep
<1>2. CASE Bridge
  <2>1. [Here EXCEPT !.br = "down"] \in Content /\ [Here EXCEPT !.br = "down"].vx = Here.vx
    BY <1>2, OpenedFacts DEF Bridge, Content
  <2>2. QED  BY <1>0, <1>1, <1>2, <2>1, VxSet DEF Bridge
<1>3. CASE BridgeUp
  <2>1. [Here EXCEPT !.br = "up"] \in Content /\ [Here EXCEPT !.br = "up"].vx = Here.vx
    BY <1>3, OpenedFacts DEF BridgeUp, Content
  <2>2. QED  BY <1>0, <1>3, <2>1, VxSet DEF BridgeUp
<1>4. CASE DeleteVxlan
  <2>1. [Here EXCEPT !.vx = Nil, !.joined = FALSE] \in Content
    BY <1>4, OpenedFacts DEF DeleteVxlan, Content
  <2>2. Here.vx # cfgOf[call.d] \/ call.need = "unseen"
    BY <1>4 DEF DeleteVxlan, IInv, CallInv, NeedVxlan
  <2>3. QED  BY <1>0, <1>4, <2>1, <2>2, VxSet DEF DeleteVxlan
<1>5. CASE DeletePeer
  <2> DEFINE rec == [Here EXCEPT !.peers = @ \ {S}, !.wired = @ \ {S}, !.local = @ \ {S}]
  <2>1. rec \in Content /\ rec.vx = Here.vx
    BY <1>5, OpenedFacts DEF DeletePeer, Content
  <2>2. QED  BY <1>0, <1>5, <2>1, VxSet DEF DeletePeer
<1>6. CASE AddVeth
  <2> DEFINE rec == [Here EXCEPT !.peers = @ \union {S}, !.local = @ \union {S}]
  <2>1. rec \in Content /\ rec.vx = Here.vx
    BY <1>6, OpenedFacts DEF AddVeth, Content
  <2>2. QED  BY <1>0, <1>6, <2>1, VxSet DEF AddVeth
<1>7. CASE Wire
  <2> DEFINE rec == [Here EXCEPT !.wired = @ \union {S}]
  <2>1. rec \in Content /\ rec.vx = Here.vx
    BY <1>7, OpenedFacts DEF Wire, Content
  <2>2. QED  BY <1>0, <1>7, <2>1, VxSet DEF Wire
<1>8. CASE MoveToHost
  <2> DEFINE rec == [Here EXCEPT !.local = @ \ {S}]
  <2>1. rec \in Content /\ rec.vx = Here.vx
    BY <1>8, OpenedFacts DEF MoveToHost, Content
  <2>2. QED  BY <1>0, <1>8, <2>1, VxSet DEF MoveToHost
<1>9. CASE AddVxlan
  <2>1. CASE VxlanTaken
    BY <1>1, <1>9, <2>1 DEF AddVxlan
  <2>2. CASE ~VxlanTaken
    <3>1. [Here EXCEPT !.vx = cfgOf[call.d]] \in Content
      BY <1>9, OpenedFacts, EnsureAssumption DEF AddVxlan, Content
    <3>2. QED  BY <1>0, <1>9, <2>2, <3>1, VxSet DEF AddVxlan, VxlanTaken
  <2>3. QED  BY <2>1, <2>2
<1>10. CASE Attach
  <2> DEFINE rec == [Here EXCEPT !.joined = (Here.vx # Nil)]
  <2>1. rec \in Content /\ rec.vx = Here.vx
    BY <1>10, OpenedFacts DEF Attach, Content
  <2>2. QED  BY <1>0, <1>10, <2>1, VxSet DEF Attach
<1>11. ASSUME NEW k \in Inst, Destroy(k)
       PROVE  VxStep
  BY <1>0, <1>11 DEF Destroy, VxStep
<1>12. CASE UNCHANGED vars
  BY <1>1, <1>12 DEF vars
<1>13. CASE EnsureStep
  <2>1. GetNS \/ CreateFile \/ (\E k \in Inst : Mount(k)) \/ Open \/ CheckVxlan \/ SpokeUp
        \/ RecreateMacvtap \/ Reply \/ Refused => UNCHANGED net
    BY DEF GetNS, CreateFile, Mount, Open, CheckVxlan, SpokeUp, RecreateMacvtap, Reply, Refused
  <2>2. QED  BY <1>1, <1>2, <1>3, <1>4, <1>5, <1>6, <1>7, <1>8, <1>9, <1>10, <1>13, <2>1 DEF EnsureStep
<1>14. (\E d \in Device : NewPod(d) \/ Start(d)) \/ Failure \/ Remove \/ RemoveFile \/ Crash \/ Collect
          => UNCHANGED net
  BY DEF NewPod, Start, Failure, GetNSFails, StepFails, IgnoredFailure, Remove, RemoveFile, Crash, Collect
<1>15. QED  BY <1>1, <1>11, <1>12, <1>13, <1>14 DEF Next

\* No step takes the vxlan away from a namespace in use, except that of a call
\* whose spec has another one or whose own lookup of the vxlan has failed: not the
\* cleanup of another spoke, no other failure, not Remove (apply.go:99-142).
THEOREM EnsureKeepsVxlan == Spec => VxlanKept
<1>1. IInv /\ [Next]_vars => [VxStep]_vars
  BY VxKeptNext
<1>2. QED  BY InvAlways, <1>1, PTL DEF Spec, VxlanKept, VxStep

-----------------------------------------------------------------------------
(* EnsureLan implements NamedNamespace. *)

\* What the variables of NamedNamespace stand for.
NamedNs == IF mounts = <<>> THEN Nil ELSE Top
Held == leaked \union ({call.k} \ {Nil})
Full == {k \in Inst : net[k] # Empty}

AbstractStep ==
    \/ \E k \in Inst :
        \/ NamedNs = Nil /\ k \notin Held \union Full /\ NamedNs' = k /\ UNCHANGED <<Held, Full>>
        \/ k \in Held /\ Full' = Full \union {k} /\ UNCHANGED <<NamedNs, Held>>
        \/ k \notin Held \union {NamedNs} /\ Full' = Full \ {k} /\ UNCHANGED <<NamedNs, Held>>
    \/ NamedNs # Nil /\ NamedNs' = Nil /\ UNCHANGED <<Held, Full>>
    \/ NamedNs # Nil /\ Held' = Held \union {NamedNs} /\ UNCHANGED <<NamedNs, Full>>
    \/ Held' \in SUBSET Held /\ UNCHANGED <<NamedNs, Full>>

LEMMA AbstractNext == AbstractStep => Named!Next
<1>1. \A k \in Inst :
        /\ NamedNs = Nil /\ k \notin Held \union Full /\ NamedNs' = k /\ UNCHANGED <<Held, Full>>
              => Named!Make(k)
        /\ k \in Held /\ Full' = Full \union {k} /\ UNCHANGED <<NamedNs, Held>> => Named!Work(k)
        /\ k \notin Held \union {NamedNs} /\ Full' = Full \ {k} /\ UNCHANGED <<NamedNs, Held>>
              => Named!Destroy(k)
  BY DEF NamedNs, Held, Full, Named!Make, Named!Work, Named!Destroy
<1>2. NamedNs # Nil /\ NamedNs' = Nil /\ UNCHANGED <<Held, Full>> => Named!Remove
  BY DEF NamedNs, Held, Full, Named!Remove
<1>3. NamedNs # Nil /\ Held' = Held \union {NamedNs} /\ UNCHANGED <<NamedNs, Full>> => Named!Open
  BY DEF NamedNs, Held, Full, Named!Open
<1>4. Held' \in SUBSET Held /\ UNCHANGED <<NamedNs, Full>> => Named!Close
  BY DEF NamedNs, Held, Full, Named!Close
<1>5. QED  BY <1>1, <1>2, <1>3, <1>4 DEF AbstractStep, Named!Next

LEMMA Mounts ==
    ASSUME UNCHANGED mounts
    PROVE  UNCHANGED NamedNs
  BY DEF NamedNs, Top

\* Steps that keep the mounts and contents and close at most are steps of Close.
LEMMA Closing ==
    ASSUME UNCHANGED <<mounts, net>>, Held' \subseteq Held
    PROVE  AbstractStep
  BY Mounts DEF Full, AbstractStep

LEMMA Returning ==
    ASSUME IInv, Return
    PROVE  Held' = Held
  BY NoCallFacts DEF Return, Held

LEMMA Unmounting ==
    ASSUME IInv, mounts # <<>>, Unmount, UNCHANGED <<net, leaked>>, call'.k = call.k
    PROVE  AbstractStep
<1>1. NamedNs # Nil /\ NamedNs' = Nil
  BY MountFacts, EnsureAssumption DEF IInv, NamedNs
<1>2. QED  BY <1>1 DEF AbstractStep, Held, Full

LEMMA Opening ==
    ASSUME IInv, call.k = Nil, mounts # <<>>, UNCHANGED <<net, leaked, mounts>>, call'.k = Top
    PROVE  AbstractStep
<1>1. NamedNs = Top /\ NamedNs # Nil
  BY MountFacts, EnsureAssumption DEF IInv, NamedNs
<1>2. Held' = Held \union {NamedNs}
  BY <1>1 DEF Held
<1>3. QED  BY <1>1, <1>2, Mounts DEF AbstractStep, Full

\* What a call does within its namespace leaves at least a bridge in it.
LEMMA Working ==
    ASSUME IInv, IInv', call.k \in Inst, call'.k = call.k, call'.pc \in HasBridge,
           UNCHANGED <<mounts, leaked>>, NEW rec, SetHere(rec)
    PROVE  AbstractStep
<1>1. net \in [Inst -> Content] /\ Nil \notin Inst
  BY TypeParts, EnsureAssumption DEF IInv
<1>2. net'[call.k] # Empty
  BY DEF IInv, CallInv, Here, Empty
<1>3. Full' = Full \union {call.k}
  BY <1>1, <1>2 DEF Full, SetHere
<1>4. call.k \in Held /\ UNCHANGED Held
  BY <1>1 DEF Held
<1>5. QED  BY <1>3, <1>4, Mounts DEF AbstractStep

LEMMA AbstractMaps == IInv /\ IInv' /\ [Next]_vars => AbstractStep
<1> SUFFICES ASSUME IInv, IInv', [Next]_vars PROVE AbstractStep
  OBVIOUS
<1> USE DEF At, Opened, HasBridge, OnHost, Ready, InVeth
<1>0. call \in Calls
  BY TypeParts DEF IInv
<1>1. CASE UNCHANGED <<mounts, net, leaked>> /\ call'.k = call.k
  BY <1>1, Closing DEF Held
<1>2. ASSUME NEW d \in Device, NewPod(d) \/ Start(d)
      PROVE  AbstractStep
  BY <1>1, <1>2, ClosedFacts DEF NewPod, Start, InNS, InCall, NoCall
<1>3. CASE GetNS
  <2>1. CASE mounts = <<>>
    BY <1>0, <1>1, <1>3, <2>1 DEF GetNS, InNS, InCall, Calls
  <2>2. CASE mounts # <<>>
    BY <1>0, <1>3, <2>2, ClosedFacts, Opening DEF GetNS, InNS, InCall, Calls
  <2>3. QED  BY <2>1, <2>2
<1>4. CASE CreateFile \/ SpokeUp \/ RecreateMacvtap
  BY <1>0, <1>1, <1>4 DEF CreateFile, SpokeUp, RecreateMacvtap, InNS, InCall, Goto, Calls
<1>5. ASSUME NEW k \in Inst, Mount(k)
      PROVE  AbstractStep
  <2>1. mounts = <<>> /\ mounts' = <<k>>
    BY <1>5 DEF Mount, IInv, MountInv, ToMake
  <2>2. NamedNs = Nil /\ NamedNs' = k
    BY <2>1 DEF NamedNs, Top
  <2>3. UNCHANGED <<Held, Full>> /\ k \notin Held \union Full
    BY <1>0, <1>5 DEF Mount, InCall, Goto, Calls, Held, Full, Alive
  <2>4. QED  BY <2>2, <2>3 DEF AbstractStep
<1>6. CASE Open
  BY <1>0, <1>6, ClosedFacts, Opening DEF Open, InNS, InCall, Calls
<1>7. CASE Bridge \/ BridgeUp \/ CheckVxlan \/ DeleteVxlan \/ DeletePeer \/ AddVeth
  <2>1. call.pc \in Opened /\ call'.k = call.k /\ UNCHANGED <<mounts, leaked>>
    BY <1>0, <1>7 DEF Bridge, BridgeUp, CheckVxlan, DeleteVxlan, DeletePeer, AddVeth, InNS, InCall, Goto, Calls
  <2>2. call'.pc \in HasBridge
    BY <1>0, <1>7 DEF Bridge, BridgeUp, CheckVxlan, DeleteVxlan, DeletePeer, AddVeth, Goto, Calls
  <2>3. UNCHANGED net \/ \E rec : SetHere(rec)
    BY <1>7 DEF Bridge, BridgeUp, CheckVxlan, DeleteVxlan, DeletePeer, AddVeth
  <2>4. QED  BY <1>1, <2>1, <2>2, <2>3, OpenedFacts, Working
<1>8. CASE Wire \/ MoveToHost \/ AddVxlan \/ Attach
  <2>1. call.pc \in Opened /\ call'.k = call.k /\ UNCHANGED <<mounts, leaked>>
    BY <1>0, <1>8 DEF Wire, MoveToHost, AddVxlan, Attach, InNS, InCall, Goto, Calls
  <2>2. call'.pc \in HasBridge
    BY <1>0, <1>8 DEF Wire, MoveToHost, AddVxlan, Attach, Goto, Calls
  <2>3. UNCHANGED net \/ \E rec : SetHere(rec)
    BY <1>8 DEF Wire, MoveToHost, AddVxlan, Attach
  <2>4. QED  BY <1>1, <2>1, <2>2, <2>3, OpenedFacts, Working
<1>9. CASE Reply \/ Refused \/ StepFails
  BY <1>9, Returning, Closing DEF Reply, Refused, StepFails
<1>10. CASE GetNSFails
  BY <1>0, <1>10, Unmounting DEF GetNSFails, Goto, Calls
<1>11. CASE IgnoredFailure
  BY <1>0, <1>1, <1>11 DEF IgnoredFailure, Calls
<1>12. CASE Remove
  BY <1>1, <1>12, Unmounting DEF Remove
<1>13. CASE RemoveFile \/ UNCHANGED vars
  BY <1>1, <1>13 DEF RemoveFile, vars
<1>14. CASE Crash
  BY <1>14, NoCallFacts, Closing DEF Crash, Held
<1>15. CASE Collect
  BY <1>15, Closing DEF Collect, Held
<1>16. ASSUME NEW k \in Inst, Destroy(k)
       PROVE  AbstractStep
  <2>1. UNCHANGED <<NamedNs, Held>>
    BY <1>16, Mounts DEF Destroy, Held
  <2>2. k \notin Held \union {NamedNs}
    BY <1>16, MountFacts, EnsureAssumption DEF IInv, Destroy, Alive, Held, NamedNs
  <2>3. Full' = Full \ {k}
    BY <1>16, TypeParts DEF IInv, Destroy, Full
  <2>4. QED  BY <2>1, <2>2, <2>3 DEF AbstractStep
<1>17. CASE EnsureStep
  BY <1>3, <1>4, <1>5, <1>6, <1>7, <1>8, <1>9, <1>17 DEF EnsureStep
<1>18. CASE Failure
  BY <1>9, <1>10, <1>11, <1>18 DEF Failure
<1>19. QED  BY <1>2, <1>12, <1>13, <1>14, <1>15, <1>16, <1>17, <1>18 DEF Next

LEMMA AbstractInit == Init => Named!Init
  BY NoCallFacts DEF Init, Named!Init

\* Files, mounts, failures and crashes come down to this: the name stands for one
\* namespace or none, a new one starts empty, and what has the name or is open is
\* neither destroyed nor changed by anybody else (ns.go:96-149, 177-186;
\* apply.go:22-41).
THEOREM EnsureImplements == Spec => NamespaceSpec
<1>1. IInv /\ IInv' /\ [Next]_vars => [Named!Next]_(Named!vars)
  BY AbstractMaps, AbstractNext
<1>2. QED  BY InvAlways, AbstractInit, <1>1, PTL DEF Spec, NamespaceSpec, Named!Spec

-----------------------------------------------------------------------------
(* As long as nothing has failed, died or been removed. *)

\* Only the mounted namespace has anything in it, the call works in that one, and
\* what is half made there is what the call is making.
Settled ==
    /\ \A k \in Inst : k \notin Mounted => net[k] = Empty
    /\ call.k # Nil => call.k \in Mounted
    /\ \A k \in Inst :
        /\ net[k].br = "down" => At("bridgeUp") /\ call.k = k
        /\ net[k].vx # Nil /\ ~net[k].joined => At("attach") /\ call.k = k
    /\ call.pc \in {"peer", "veth", "wire", "move"} =>
        IF call.need = "no" THEN Here.vx = cfgOf[call.d] /\ Here.joined ELSE Here.vx = Nil
    /\ At("delVxlan") => call.need # "no"
    /\ At("addVxlan") => Here.vx = Nil
    /\ At("attach") => Here.vx = cfgOf[call.d]
    /\ call.pc \in Ready => Here.vx = cfgOf[call.d] /\ Here.joined

SettledInv == spent = Unspent => Settled

LEMMA Disturbing ==
    ASSUME spent \in Spending, Failure \/ Remove \/ Crash
    PROVE  spent' # Unspent
<1>1. spent.fault \in Nat /\ spent.crash \in Nat /\ spent.remove \in Nat
  BY EnsureAssumption DEF Spending
<1>2. CASE Failure
  <2>1. spent' = [spent EXCEPT !.fault = @ + 1]
    BY <1>2 DEF Failure, GetNSFails, StepFails, IgnoredFailure, Fault
  <2>2. QED  BY <1>1, <2>1 DEF Unspent, Spending
<1>3. CASE Remove
  BY <1>1, <1>3 DEF Remove, Unspent, Spending
<1>4. CASE Crash
  BY <1>1, <1>4 DEF Crash, Unspent, Spending
<1>5. QED  BY <1>2, <1>3, <1>4

LEMMA MountedKept ==
    ASSUME UNCHANGED mounts
    PROVE  Mounted' = Mounted
  BY DEF Mounted

\* The namespaces that a call does not work in are empty.
LEMMA AloneInIt ==
    ASSUME IInv, Settled, call.k \in Inst
    PROVE  call.k \in Mounted /\ \A k \in Inst : k # call.k => net[k] = Empty
<1>1. call.k \in Mounted
  BY EnsureAssumption DEF Settled
<1>2. Mounted = {call.k}
  BY <1>1, MountFacts DEF IInv
<1>3. QED  BY <1>1, <1>2 DEF Settled

LEMMA SettledWithin ==
    ASSUME IInv, Settled, call.k \in Inst, UNCHANGED mounts, call'.k = call.k, call'.d = call.d,
           NEW rec \in Content, SetHere(rec),
           rec.br = "down" => call'.pc = "bridgeUp",
           rec.vx # Nil /\ ~rec.joined => call'.pc = "attach",
           call'.pc \in {"peer", "veth", "wire", "move"} =>
               IF call'.need = "no" THEN rec.vx = cfgOf[call.d] /\ rec.joined ELSE rec.vx = Nil,
           call'.pc = "delVxlan" => call'.need # "no",
           call'.pc = "addVxlan" => rec.vx = Nil,
           call'.pc = "attach" => rec.vx = cfgOf[call.d],
           call'.pc \in Ready => rec.vx = cfgOf[call.d] /\ rec.joined
    PROVE  Settled'
<1>1. Here' = rec /\ \A k \in Inst : k # call.k => net'[k] = net[k]
  BY TypeParts DEF IInv, SetHere, Here
<1>2. \A k \in Inst : k # call.k => net'[k] = Empty
  BY <1>1, AloneInIt
<1>3. net'[call.k] = rec
  BY <1>1 DEF Here
<1>4. \A k \in Inst : k \notin Mounted' => net'[k] = Empty
  BY <1>2, AloneInIt, MountedKept
<1>5. call'.k \in Mounted'
  BY AloneInIt, MountedKept
<1>6. \A k \in Inst :
        /\ net'[k].br = "down" => call'.pc = "bridgeUp" /\ call'.k = k
        /\ net'[k].vx # Nil /\ ~net'[k].joined => call'.pc = "attach" /\ call'.k = k
  BY <1>2, <1>3 DEF Empty
<1>7. QED  BY <1>1, <1>4, <1>5, <1>6 DEF Settled, At

\* What Settled says of the namespace a call works in, when nothing is half made.
LEMMA SettledHere ==
    ASSUME IInv, Settled, call.k \in Inst
    PROVE  /\ call.pc # "bridgeUp" => Here.br # "down"
           /\ call.pc # "attach" => Here.vx = Nil \/ Here.joined
  BY DEF Settled, At, Here

LEMMA SettledOutside ==
    ASSUME Settled, UNCHANGED <<mounts, net>>, call'.k = Nil, call'.pc \notin Opened,
           call.pc \notin {"bridgeUp", "attach"}
    PROVE  Settled'
<1>1. call'.pc \notin Ready \union {"delVxlan", "peer", "veth", "wire", "move", "addVxlan", "attach"}
  BY DEF Opened, HasBridge, OnHost, Ready, InVeth
<1>2. QED  BY <1>1, MountedKept DEF Settled, At

LEMMA SettledOpens ==
    ASSUME IInv, Settled, call.pc \in {"getNS", "open"}, mounts # <<>>, UNCHANGED <<mounts, net>>,
           call'.pc = "bridge", call'.k = Top
    PROVE  Settled'
<1>1. Top \in Mounted'
  BY MountFacts, MountedKept DEF IInv
<1>2. QED  BY <1>1, MountedKept DEF Settled, At, Ready

LEMMA SettledNext == IInv /\ IInv' /\ SettledInv /\ [Next]_vars => SettledInv'
<1> SUFFICES ASSUME IInv, IInv', SettledInv, [Next]_vars, spent' = Unspent PROVE Settled'
  BY DEF SettledInv
<1> USE DEF At, Opened, HasBridge, OnHost, Ready, InVeth
<1>0. call \in Calls /\ net \in [Inst -> Content] /\ spent \in Spending
  BY TypeParts DEF IInv
<1>1. ~(Failure \/ Remove \/ Crash)
  BY <1>0, Disturbing
<1>2. spent = Unspent /\ Settled
  <2>1. UNCHANGED spent
    BY <1>1 DEF Next, NewPod, Start, EnsureStep, GetNS, CreateFile, Mount, Open, Bridge, BridgeUp,
         CheckVxlan, DeleteVxlan, DeletePeer, AddVeth, Wire, MoveToHost, AddVxlan, Attach,
         SpokeUp, RecreateMacvtap, Reply, Refused, RemoveFile, Collect, Destroy, InNS, InCall, vars
  <2>2. QED  BY <2>1 DEF SettledInv
<1>3. CASE UNCHANGED <<mounts, net, call>>
  BY <1>2, <1>3, MountedKept DEF Settled, Here
<1>4. ASSUME NEW d \in Device, NewPod(d) \/ Start(d)
      PROVE  Settled'
  BY <1>2, <1>3, <1>4, SettledOutside DEF NewPod, Start, FirstStep, NoCall, InNS
<1>5. CASE GetNS
  <2>1. CASE mounts = <<>>
    BY <1>0, <1>2, <1>5, <2>1, ClosedFacts, SettledOutside DEF GetNS, InNS, Calls
  <2>2. CASE mounts # <<>>
    BY <1>0, <1>2, <1>5, <2>2, SettledOpens DEF GetNS, InNS, Calls
  <2>3. QED  BY <2>1, <2>2
<1>6. CASE Open
  BY <1>0, <1>2, <1>6, SettledOpens DEF Open, InNS, Calls
<1>7. CASE CreateFile
  BY <1>0, <1>2, <1>7, ClosedFacts, SettledOutside DEF CreateFile, Goto, Calls
<1>8. ASSUME NEW k \in Inst, Mount(k)
      PROVE  Settled'
  <2>1. mounts = <<>> /\ UNCHANGED net /\ Mounted = {}
    BY <1>8, MountFacts DEF Mount, IInv, MountInv, ToMake
  <2>2. \A i \in Inst : net[i] = Empty
    BY <1>2, <2>1 DEF Settled
  <2>3. call'.k = Nil /\ call'.pc = "open"
    BY <1>0, <1>8, ClosedFacts DEF Mount, Goto, Calls
  <2>4. Empty.br = "none" /\ Empty.vx = Nil
    BY DEF Empty
  <2>5. \A i \in Inst : net'[i] = Empty
    BY <2>1, <2>2
  <2>6. QED  BY <2>3, <2>4, <2>5 DEF Settled
<1>9. CASE Bridge
  <2>1. CASE Here.br = "none"
    <3>1. [Here EXCEPT !.br = "down"] \in Content
      BY <1>9, OpenedFacts DEF Bridge, Content
    <3>2. call'.pc = "bridgeUp" /\ call'.k = call.k /\ call'.d = call.d
      BY <1>0, <1>9, <2>1 DEF Bridge, Goto, Calls
    <3>3. QED
      BY <1>2, <1>9, <2>1, <3>1, <3>2, OpenedFacts, SettledHere, SettledWithin DEF Bridge, Content, InNS
  <2>2. CASE Here.br # "none"
    <3>1. call'.pc = "vxlan" /\ call'.k = call.k /\ call'.d = call.d /\ UNCHANGED net
      BY <1>0, <1>9, <2>2 DEF Bridge, Goto, Calls
    <3>2. QED
      BY <1>2, <1>9, <3>1, OpenedFacts, Keeps, SettledHere, SettledWithin DEF Bridge, InNS
  <2>3. QED  BY <2>1, <2>2
<1>10. CASE BridgeUp
  <2>1. [Here EXCEPT !.br = "up"] \in Content
    BY <1>10, OpenedFacts DEF BridgeUp, Content
  <2>2. call'.pc = "vxlan" /\ call'.k = call.k /\ call'.d = call.d
    BY <1>0, <1>10 DEF BridgeUp, Goto, Calls
  <2>3. QED
    BY <1>2, <1>10, <2>1, <2>2, OpenedFacts, SettledHere, SettledWithin DEF BridgeUp, Content, InNS
<1>11. CASE CheckVxlan \/ DeleteVxlan
  <2>1. CASE CheckVxlan /\ NeedVxlan
    <3>1. /\ call'.pc = "delVxlan" /\ call'.k = call.k /\ call'.d = call.d /\ call'.need = "yes"
      BY <1>0, <2>1 DEF CheckVxlan, Calls
    <3>2. QED
      BY <1>2, <2>1, <3>1, OpenedFacts, Keeps, SettledHere, SettledWithin DEF CheckVxlan, InNS
  <2>2. CASE CheckVxlan /\ ~NeedVxlan
    <3>1. Here.vx = cfgOf[call.d] /\ Here.vx # Nil
      BY <2>2, OpenedFacts, EnsureAssumption DEF CheckVxlan, NeedVxlan
    <3>2. /\ call'.pc = "peer" /\ call'.k = call.k /\ call'.d = call.d /\ call'.need = "no"
      BY <1>0, <2>2 DEF CheckVxlan, Calls
    <3>3. QED
      BY <1>2, <2>2, <3>1, <3>2, OpenedFacts, Keeps, SettledHere, SettledWithin DEF CheckVxlan, InNS
  <2>3. CASE DeleteVxlan
    <3>1. [Here EXCEPT !.vx = Nil, !.joined = FALSE] \in Content
      BY <2>3, OpenedFacts DEF DeleteVxlan, Content
    <3>2. /\ call'.pc = "peer" /\ call'.k = call.k /\ call'.d = call.d /\ call'.need # "no"
      BY <1>0, <1>2, <2>3 DEF DeleteVxlan, Goto, Calls, Settled
    <3>3. QED
      BY <1>2, <2>3, <3>1, <3>2, OpenedFacts, SettledHere, SettledWithin DEF DeleteVxlan, Content, InNS
  <2>4. QED  BY <1>11, <2>1, <2>2, <2>3
<1>12. CASE DeletePeer
  <2> DEFINE rec == [Here EXCEPT !.peers = @ \ {S}, !.wired = @ \ {S}, !.local = @ \ {S}]
  <2>1. rec \in Content /\ rec.br = Here.br /\ rec.vx = Here.vx /\ rec.joined = Here.joined
    BY <1>12, OpenedFacts DEF DeletePeer, Content
  <2>2. call'.pc = "veth" /\ call'.k = call.k /\ call'.d = call.d /\ call'.need = call.need
    BY <1>0, <1>12 DEF DeletePeer, Goto, Calls
  <2>3. QED
    BY <1>2, <1>12, <2>1, <2>2, OpenedFacts, SettledHere, SettledWithin DEF DeletePeer, Settled
<1>13. CASE AddVeth
  <2> DEFINE rec == [Here EXCEPT !.peers = @ \union {S}, !.local = @ \union {S}]
  <2>1. rec \in Content /\ rec.br = Here.br /\ rec.vx = Here.vx /\ rec.joined = Here.joined
    BY <1>13, OpenedFacts DEF AddVeth, Content
  <2>2. call'.pc = "wire" /\ call'.k = call.k /\ call'.d = call.d /\ call'.need = call.need
    BY <1>0, <1>13 DEF AddVeth, Goto, Calls
  <2>3. QED
    BY <1>2, <1>13, <2>1, <2>2, OpenedFacts, SettledHere, SettledWithin DEF AddVeth, Settled, InNS
<1>14. CASE Wire
  <2> DEFINE rec == [Here EXCEPT !.wired = @ \union {S}]
  <2>1. rec \in Content /\ rec.br = Here.br /\ rec.vx = Here.vx /\ rec.joined = Here.joined
    BY <1>14, OpenedFacts DEF Wire, Content
  <2>2. call'.pc = "move" /\ call'.k = call.k /\ call'.d = call.d /\ call'.need = call.need
    BY <1>0, <1>14 DEF Wire, Goto, Calls
  <2>3. QED
    BY <1>2, <1>14, <2>1, <2>2, OpenedFacts, SettledHere, SettledWithin DEF Wire, Settled, InNS
<1>15. CASE MoveToHost
  <2> DEFINE rec == [Here EXCEPT !.local = @ \ {S}]
  <2>1. rec \in Content /\ rec.br = Here.br /\ rec.vx = Here.vx /\ rec.joined = Here.joined
    BY <1>15, OpenedFacts DEF MoveToHost, Content
  <2>2. call'.pc = (IF call.need = "no" THEN "spokeUp" ELSE "addVxlan") /\ call'.k = call.k /\ call'.d = call.d
    BY <1>0, <1>15 DEF MoveToHost, Goto, Calls
  <2>3. IF call.need = "no" THEN Here.vx = cfgOf[call.d] /\ Here.joined ELSE Here.vx = Nil
    BY <1>2, <1>15 DEF MoveToHost, Settled
  <2>4. QED
    BY <1>2, <1>15, <2>1, <2>2, <2>3, OpenedFacts, SettledHere, SettledWithin DEF MoveToHost
<1>16. CASE AddVxlan
  \* Nobody else has this VNI: the other namespaces are empty.
  <2> DEFINE rec == [Here EXCEPT !.vx = cfgOf[call.d]]
  <2>1. Here.vx = Nil /\ call.k \in Inst /\ cfgOf[call.d] # Nil
    BY <1>2, <1>16, OpenedFacts, EnsureAssumption DEF AddVxlan, Settled
  <2>2. ~VxlanTaken
    BY <1>2, <2>1, AloneInIt DEF VxlanTaken, Here, Empty
  <2>3. rec \in Content /\ rec.br = Here.br /\ rec.vx = cfgOf[call.d]
    BY <1>16, OpenedFacts, EnsureAssumption DEF AddVxlan, Content
  <2>4. call'.pc = "attach" /\ call'.k = call.k /\ call'.d = call.d
    BY <1>0, <1>16 DEF AddVxlan, Goto, Calls
  <2>5. QED
    BY <1>2, <1>16, <2>1, <2>2, <2>3, <2>4, OpenedFacts, SettledHere, SettledWithin DEF AddVxlan, InNS
<1>17. CASE Attach
  <2> DEFINE rec == [Here EXCEPT !.joined = (Here.vx # Nil)]
  <2>1. Here.vx = cfgOf[call.d] /\ Here.vx # Nil
    BY <1>2, <1>17, OpenedFacts, EnsureAssumption DEF Attach, Settled
  <2>2. rec \in Content /\ rec.br = Here.br /\ rec.vx = Here.vx /\ rec.joined
    BY <1>17, <2>1, OpenedFacts DEF Attach, Content
  <2>3. call'.pc = "spokeUp" /\ call'.k = call.k /\ call'.d = call.d
    BY <1>0, <1>17 DEF Attach, Goto, Calls
  <2>4. QED
    BY <1>2, <1>17, <2>1, <2>2, <2>3, OpenedFacts, SettledHere, SettledWithin DEF Attach, InNS
<1>18. CASE SpokeUp \/ RecreateMacvtap
  <2>1. call.pc \in Ready /\ call'.pc \in Ready /\ call'.k = call.k /\ call'.d = call.d
        /\ UNCHANGED <<net, mounts>> /\ Here.vx = cfgOf[call.d] /\ Here.joined
    BY <1>0, <1>2, <1>18 DEF SpokeUp, RecreateMacvtap, Goto, Calls, InNS, Settled
  <2>2. call'.pc \in {"tap", "done"}
    BY <1>0, <1>18 DEF SpokeUp, RecreateMacvtap, Goto, Calls
  <2>3. QED  BY <1>2, <2>1, <2>2, OpenedFacts, Keeps, SettledHere, SettledWithin
<1>19. CASE Reply \/ Refused
  BY <1>2, <1>19, NoCallFacts, SettledOutside DEF Reply, Refused, Return
<1>20. CASE RemoveFile \/ Collect \/ UNCHANGED vars
  BY <1>3, <1>20 DEF RemoveFile, Collect, vars
<1>21. ASSUME NEW k \in Inst, Destroy(k)
       PROVE  Settled'
  BY <1>2, <1>21 DEF Settled, Destroy, Alive
<1>22. CASE EnsureStep
  BY <1>5, <1>6, <1>7, <1>8, <1>9, <1>10, <1>11, <1>12, <1>13, <1>14, <1>15, <1>16, <1>17, <1>18,
     <1>19, <1>22 DEF EnsureStep
<1>23. QED  BY <1>1, <1>4, <1>20, <1>21, <1>22 DEF Next

LEMMA SettledInit == Init => SettledInv
  BY NoCallFacts DEF Init, SettledInv, Settled, At, NoCall, Empty, Ready

LEMMA SettledCompletes == IInv /\ SettledInv => UndisturbedMakesAll
<1> SUFFICES ASSUME IInv, SettledInv, spent = Unspent, At("done")
             PROVE  Here.br = "up" /\ Here.vx = cfgOf[call.d] /\ Here.joined
  BY DEF UndisturbedMakesAll, EnsureMakesAll
<1>1. call.pc = "done" /\ call.pc \in Ready /\ call.pc \in HasBridge /\ call.pc \in Opened
  BY DEF At, Ready, OnHost, HasBridge, Opened
<1>2. Here.vx = cfgOf[call.d] /\ Here.joined
  BY <1>1 DEF SettledInv, Settled
<1>3. Here.br \in {"none", "down", "up"} /\ Here.br # "none" /\ Here.br # "down"
  BY <1>1, OpenedFacts, SettledHere DEF IInv, CallInv, Content, SettledInv
<1>4. QED  BY <1>2, <1>3

\* With no failing call, crash or removal Ensure makes all that the spec asks for
\* before it returns without an error, also when plugins with an old and a new
\* spec work in one namespace (apply.go:66-142, 197-226).
THEOREM EnsureCompletes == Spec => []UndisturbedMakesAll
<1>1. QED  BY InvAlways, SettledInit, SettledNext, SettledCompletes, PTL DEF Spec
=============================================================================
