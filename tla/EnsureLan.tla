----------------------------- MODULE EnsureLan -----------------------------
(***************************************************************************)
(* interfaces.Ensure and interfaces.Remove on one host (pkg/interfaces):   *)
(* how a LAN's named network namespace, and the bridge, the vxlan and the  *)
(* spoke links in it, are made and removed, one system call at a time.     *)
(*                                                                         *)
(* A device plugin calls Ensure when a pod is admitted.  The kubelet       *)
(* admits one pod after the other, so one call runs at a time, but         *)
(* Reconcile's Remove runs next to it, a call may fail at every step and   *)
(* leave behind what it has made, and the process may die.                 *)
(*                                                                         *)
(* A member of Inst is one namespace of the kernel.  It lives as long as   *)
(* it is mounted under its name or somebody has it open; then the kernel   *)
(* destroys it, in its own time.  Ensure never closes the namespace it     *)
(* opens, so the Go runtime does when it collects the object.  The bound   *)
(* on namespaces at a time is the number of members of Inst.               *)
(*                                                                         *)
(* Left out: the macvtap interface, which lives and dies with the link it  *)
(* is put on, the names of bridge and vxlan (one of each), and an os.Stat  *)
(* that fails on a name that exists.                                       *)
(***************************************************************************)
EXTENDS Naturals, Sequences

CONSTANTS
    Inst,       \* network namespaces, one reused after it is destroyed
    Device,     \* the devices plugins allocate for the LANs of this name
    Spoke,
    Cfg,        \* what tells vxlan interfaces apart (VNI and port)
    spokeOf,    \* [Device -> Spoke]
    cfgOf,      \* [Device -> Cfg]: the vxlan in the LANSpec of the plugin
    Nil,        \* no namespace, no vxlan
    MaxFaults,  \* bounds on failing system calls,
    MaxCrashes, \* on crashes of the process,
    MaxRemoves  \* and on calls of Remove

ASSUME EnsureAssumption ==
    /\ spokeOf \in [Device -> Spoke]
    /\ cfgOf \in [Device -> Cfg]
    /\ Nil \notin Inst \union Cfg
    /\ {MaxFaults, MaxCrashes, MaxRemoves} \subseteq Nat

VARIABLES
    file,       \* whether /var/run/netns/<name> exists
    mounts,     \* the namespaces mounted on it, the last one on top
    net,        \* what is in each namespace
    link,       \* [Spoke -> namespace of the peer of the host's spoke link]
    call,       \* the call of Ensure under way
    leaked,     \* namespaces opened by earlier calls and not closed yet
    remover,    \* Remove has unmounted and is to delete the file
    want,       \* devices that pods wait for
    spent       \* faults, crashes and removes so far

vars == <<file, mounts, net, link, call, leaked, remover, want, spent>>

Empty == [br |-> "none", vx |-> Nil, joined |-> FALSE,
          peers |-> {}, wired |-> {}, local |-> {}]
NoCall == [pc |-> "idle", d |-> Nil, k |-> Nil, need |-> "no"]
Unspent == [fault |-> 0, crash |-> 0, remove |-> 0]

Mounted == {mounts[i] : i \in 1..Len(mounts)}
Top == mounts[Len(mounts)]
Alive(k) == k \in Mounted \union leaked \union {call.k}

Init ==
    /\ file = FALSE
    /\ mounts = <<>>
    /\ net = [k \in Inst |-> Empty]
    /\ link = [s \in Spoke |-> Nil]
    /\ call = NoCall
    /\ leaked = {}
    /\ remover = FALSE
    /\ want = {}
    /\ spent = Unspent

-----------------------------------------------------------------------------
At(pc) == call.pc = pc
Goto(pc) == call' = [call EXCEPT !.pc = pc]
S == spokeOf[call.d]
Here == net[call.k]
SetHere(rec) == net' = [net EXCEPT ![call.k] = rec]

\* Ensure returns, with or without an error; lanNS stays open.
Return ==
    /\ call' = NoCall
    /\ leaked' = leaked \union ({call.k} \ {Nil})

\* What no step of a call changes, and what those within the namespace do not.
InCall == UNCHANGED <<leaked, remover, want, spent>>
InNS == InCall /\ UNCHANGED <<file, mounts, link>>

\* umount takes what is on top; unlink fails with EBUSY while something is mounted.
Unmount == mounts' = SubSeq(mounts, 1, Len(mounts) - 1)
Unlink == file' = (file /\ mounts' # <<>>)

-----------------------------------------------------------------------------
\* Pods come; a rejected one is replaced, so its device is wanted until it is
\* served.
NewPod(d) ==
    /\ d \notin want
    /\ want' = want \union {d}
    /\ UNCHANGED <<file, mounts, net, link, call, leaked, remover, spent>>

\* Mutant: NewNS without looking.
FirstStep_NoStat == "create"

\* os.Stat decides between opening the namespace and making it.
FirstStep == IF file THEN "getNS" ELSE "create"
Start(d) ==
    /\ At("idle")
    /\ d \in want
    /\ call' = [NoCall EXCEPT !.pc = FirstStep, !.d = d]
    /\ UNCHANGED net
    /\ InNS

\* Mutant: the error of GetNS is not looked at.
GetNS_Unchecked ==
    /\ At("getNS")
    /\ call' = [call EXCEPT !.pc = "bridge", !.k = IF mounts = <<>> THEN Nil ELSE Top]
    /\ UNCHANGED net
    /\ InNS

\* ns.GetNS on the existing name.  If that is no namespace (any more, or yet),
\* DeleteNamed fails and changes nothing, and NewNS follows.
GetNS ==
    /\ At("getNS")
    /\ call' = IF mounts = <<>> THEN [call EXCEPT !.pc = "create"]
                                ELSE [call EXCEPT !.pc = "bridge", !.k = Top]
    /\ UNCHANGED net
    /\ InNS

\* NewNS: os.Create, then the bind mount of a new namespace, then ns.GetNS.
CreateFile ==
    /\ At("create")
    /\ file' = TRUE
    /\ Goto("mount")
    /\ UNCHANGED <<mounts, net, link>>
    /\ InCall

Mount(k) ==
    /\ At("mount")
    /\ file
    /\ ~Alive(k)
    /\ net[k] = Empty
    /\ mounts' = Append(mounts, k)
    /\ Goto("open")
    /\ UNCHANGED <<file, net, link>>
    /\ InCall

Open ==
    /\ At("open")
    /\ mounts # <<>>
    /\ call' = [call EXCEPT !.pc = "bridge", !.k = Top]
    /\ UNCHANGED net
    /\ InNS

-----------------------------------------------------------------------------
\* In the namespace.  A bridge that exists is taken as it is.
Bridge ==
    /\ At("bridge")
    /\ IF Here.br = "none"
       THEN SetHere([Here EXCEPT !.br = "down"]) /\ Goto("bridgeUp")
       ELSE UNCHANGED net /\ Goto("vxlan")
    /\ InNS

BridgeUp ==
    /\ At("bridgeUp")
    /\ SetHere([Here EXCEPT !.br = "up"])
    /\ Goto("vxlan")
    /\ InNS

\* Mutants: looking only for the name; always making it anew.
NeedVxlan_NameOnly == Here.vx = Nil
NeedVxlan_Always == TRUE

\* The vxlan interface is to be made if there is none with the wanted
\* configuration.
NeedVxlan == Here.vx # cfgOf[call.d]
CheckVxlan ==
    /\ At("vxlan")
    /\ call' = IF NeedVxlan THEN [call EXCEPT !.pc = "delVxlan", !.need = "yes"]
                            ELSE [call EXCEPT !.pc = "peer", !.need = "no"]
    /\ UNCHANGED net
    /\ InNS

\* LinkDelete of what has its name, if anything has.
DeleteVxlan ==
    /\ At("delVxlan")
    /\ SetHere([Here EXCEPT !.vx = Nil, !.joined = FALSE])
    /\ Goto("peer")
    /\ InNS

\* Mutant: the deletion is left out.
DeletePeer_Skip ==
    /\ At("peer")
    /\ Goto("veth")
    /\ UNCHANGED net
    /\ InNS

\* Mutant: all that is in the namespace is deleted, not the one peer.
DeletePeer_All ==
    /\ At("peer")
    /\ SetHere([Here EXCEPT !.peers = {}, !.wired = {}, !.local = {}])
    /\ link' = [s \in Spoke |-> IF link[s] = call.k THEN Nil ELSE link[s]]
    /\ Goto("veth")
    /\ UNCHANGED <<file, mounts>>
    /\ InCall

\* Deleting the peer deletes the other end too, wherever it is.
DeletePeer ==
    /\ At("peer")
    /\ SetHere([Here EXCEPT !.peers = @ \ {S}, !.wired = @ \ {S}, !.local = @ \ {S}])
    /\ link' = [link EXCEPT ![S] = IF @ = call.k THEN Nil ELSE @]
    /\ Goto("veth")
    /\ UNCHANGED <<file, mounts>>
    /\ InCall

AddVeth ==
    /\ At("veth")
    /\ S \notin Here.peers
    /\ SetHere([Here EXCEPT !.peers = @ \union {S}, !.local = @ \union {S}])
    /\ Goto("wire")
    /\ InNS

\* The peer joins the bridge and both ends go up.
Wire ==
    /\ At("wire")
    /\ SetHere([Here EXCEPT !.wired = @ \union {S}])
    /\ Goto("move")
    /\ InNS

\* The spoke end goes back to the host, where its name must be free.
MoveToHost ==
    /\ At("move")
    /\ link[S] = Nil
    /\ SetHere([Here EXCEPT !.local = @ \ {S}])
    /\ link' = [link EXCEPT ![S] = call.k]
    /\ Goto(IF call.need = "no" THEN "spokeUp" ELSE "addVxlan")
    /\ UNCHANGED <<file, mounts>>
    /\ InCall

\* CreateVXLANIF ignores EEXIST: the name exists in the namespace, or the kernel
\* has a vxlan of this VNI and port in any namespace it still keeps.
VxlanTaken == Here.vx # Nil \/ \E k \in Inst : net[k].vx = cfgOf[call.d]
AddVxlan ==
    /\ At("addVxlan")
    /\ IF VxlanTaken THEN UNCHANGED net ELSE SetHere([Here EXCEPT !.vx = cfgOf[call.d]])
    /\ Goto("attach")
    /\ InNS

\* The vxlan joins the bridge and goes up.  When it cannot be found the error
\* goes to a shadowed variable and Ensure goes on.
Attach ==
    /\ At("attach")
    /\ SetHere([Here EXCEPT !.joined = (Here.vx # Nil)])
    /\ Goto("spokeUp")
    /\ InNS

SpokeUp ==
    /\ At("spokeUp")
    /\ link[S] # Nil
    /\ Goto("tap")
    /\ UNCHANGED net
    /\ InNS

\* On the spoke link, or on the dummy link: the macvtap is made anew.
RecreateMacvtap ==
    /\ At("tap")
    /\ Goto("done")
    /\ UNCHANGED net
    /\ InNS

Reply ==
    /\ At("done")
    /\ want' = want \ {call.d}
    /\ Return
    /\ UNCHANGED <<file, mounts, net, link, remover, spent>>

\* A step that finds its object there already, or gone: Ensure returns the error.
\* What has been made stays, but NewNS deletes its file unless it is mounted on.
Refused ==
    /\ \/ At("mount") /\ ~file
       \/ At("open") /\ mounts = <<>>
       \/ At("veth") /\ S \in Here.peers
       \/ At("move") /\ link[S] # Nil
    /\ UNCHANGED mounts
    /\ IF call.k = Nil THEN Unlink ELSE UNCHANGED file
    /\ Return
    /\ UNCHANGED <<net, link, remover, want, spent>>

-----------------------------------------------------------------------------
\* Failing system calls.

Fault == spent.fault < MaxFaults /\ spent' = [spent EXCEPT !.fault = @ + 1]

\* ns.GetNS fails on a mounted namespace: DeleteNamed removes it.
GetNSFails ==
    /\ At("getNS")
    /\ Fault
    /\ mounts # <<>>
    /\ Unmount
    /\ Unlink
    /\ Goto("create")
    /\ UNCHANGED <<net, link, leaked, remover, want>>

\* A failure that makes Ensure return an error, as in Refused.
StepFails ==
    /\ call.pc \in {"create", "mount", "open", "bridge", "bridgeUp", "veth", "wire",
                    "move", "addVxlan", "spokeUp", "tap"}
    /\ Fault
    /\ UNCHANGED mounts
    /\ IF call.pc \in {"mount", "open"} THEN Unlink ELSE UNCHANGED file
    /\ Return
    /\ UNCHANGED <<net, link, remover, want>>

\* Mutant: the error of LinkSetMaster is dropped.
AfterIgnored_Wire ==
    [vxlan |-> "delVxlan", delVxlan |-> "peer", peer |-> "veth", wire |-> "move",
     attach |-> "spokeUp"]

\* Failures that Ensure does not see: of the LinkByName of the vxlan, which any
\* error makes one that is not there; of the two LinkDelete in the namespace; and
\* of the steps after the vxlan is added.
AfterIgnored ==
    [vxlan |-> "delVxlan", delVxlan |-> "peer", peer |-> "veth", attach |-> "spokeUp"]
IgnoredFailure ==
    /\ Fault
    /\ call.pc \in DOMAIN AfterIgnored
    /\ call' = [call EXCEPT !.pc = AfterIgnored[@],
                            !.need = IF At("vxlan") THEN "unseen" ELSE @]
    /\ UNCHANGED <<file, mounts, net, link, leaked, remover, want>>

-----------------------------------------------------------------------------
\* Remove, called by Reconcile: DeleteNamed, in two system calls.  If the first
\* fails the second is not tried.
Remove ==
    /\ ~remover
    /\ spent.remove < MaxRemoves
    /\ spent' = [spent EXCEPT !.remove = @ + 1]
    /\ IF mounts = <<>> THEN UNCHANGED <<mounts, remover>> ELSE Unmount /\ remover' = TRUE
    /\ UNCHANGED <<file, net, link, call, leaked, want>>

RemoveFile ==
    /\ remover
    /\ UNCHANGED mounts
    /\ Unlink
    /\ remover' = FALSE
    /\ UNCHANGED <<net, link, call, leaked, want, spent>>

\* The process dies, at any point, and closes what it has open.
Crash ==
    /\ spent.crash < MaxCrashes
    /\ spent' = [spent EXCEPT !.crash = @ + 1]
    /\ call' = NoCall
    /\ leaked' = {}
    /\ remover' = FALSE
    /\ UNCHANGED <<file, mounts, net, link, want>>

\* The Go runtime closes the namespaces that nobody refers to.
Collect ==
    /\ leaked # {}
    /\ leaked' = {}
    /\ UNCHANGED <<file, mounts, net, link, call, remover, want, spent>>

\* The kernel destroys a namespace nobody uses, and the peers of its links.
Destroy(k) ==
    /\ ~Alive(k)
    /\ net[k] # Empty
    /\ net' = [net EXCEPT ![k] = Empty]
    /\ link' = [s \in Spoke |-> IF link[s] = k THEN Nil ELSE link[s]]
    /\ UNCHANGED <<file, mounts, call, leaked, remover, want, spent>>

-----------------------------------------------------------------------------
EnsureStep ==
    \/ GetNS
    \/ CreateFile \/ (\E k \in Inst : Mount(k)) \/ Open
    \/ Bridge \/ BridgeUp \/ CheckVxlan \/ DeleteVxlan
    \/ DeletePeer \/ AddVeth \/ Wire \/ MoveToHost
    \/ AddVxlan \/ Attach \/ SpokeUp \/ RecreateMacvtap \/ Reply
    \/ Refused

Failure == GetNSFails \/ StepFails \/ IgnoredFailure

Next ==
    \/ \E d \in Device : NewPod(d) \/ Start(d)
    \/ EnsureStep
    \/ Failure
    \/ Remove \/ RemoveFile
    \/ Crash
    \/ Collect
    \/ \E k \in Inst : Destroy(k)

Spec == Init /\ [][Next]_vars

-----------------------------------------------------------------------------
PC == {"idle", "getNS", "create", "mount", "open", "bridge", "bridgeUp", "vxlan",
       "delVxlan", "peer", "veth", "wire", "move", "addVxlan", "attach", "spokeUp", "tap",
       "done"}

\* Types of all variables; a call that works in a namespace has one open, so what
\* ns.GetNS and NewNS return is never used unopened (apply.go:22-41, ns.go:177-186).
TypeOK ==
    /\ file \in BOOLEAN
    /\ mounts \in Seq(Inst)
    /\ net \in [Inst -> [br : {"none", "down", "up"}, vx : Cfg \union {Nil},
                         joined : BOOLEAN, peers : SUBSET Spoke,
                         wired : SUBSET Spoke, local : SUBSET Spoke]]
    /\ link \in [Spoke -> Inst \union {Nil}]
    /\ call \in [pc : PC, d : Device \union {Nil}, k : Inst \union {Nil},
                need : {"no", "yes", "unseen"}]
    /\ call.pc \notin {"idle", "getNS", "create", "mount", "open"} => call.k \in Inst
    /\ leaked \subseteq Inst
    /\ remover \in BOOLEAN
    /\ want \subseteq Device
    /\ spent \in [fault : 0..MaxFaults, crash : 0..MaxCrashes, remove : 0..MaxRemoves]

\* The name stands for at most one namespace, so one umount takes it all: no
\* failed or killed call and no Remove in between leaves Ensure mounting a second
\* one on the first (apply.go:22-41, ns.go:94-149 and 177-186).
OneMount == Len(mounts) <= 1

\* When Ensure succeeds the spoke link of the host ends in a peer that is on the
\* bridge of the namespace the call worked in, whatever earlier calls or other
\* namespaces left under the same names (apply.go:154-193).
SpokeServed ==
    At("done") =>
        /\ link[S] = call.k
        /\ S \in Here.wired \ Here.local
        /\ Here.br # "none"

\* "ensure creates all objs to match lan's spec" (apply.go:16): when it succeeds
\* the bridge is up and the vxlan of the spec is on it.
EnsureMakesAll ==
    At("done") => Here.br = "up" /\ Here.vx = cfgOf[call.d] /\ Here.joined

\* That is so as long as no system call fails, nothing is removed and the process
\* lives, also when plugins with an old and a new spec of the LAN share the
\* namespace (apply.go:66-142, 197-226).
UndisturbedMakesAll == spent = Unspent => EnsureMakesAll

\* The vxlan interface carries the traffic of all spokes of the LAN: while its
\* namespace is in use it is only taken away by a call whose spec has another
\* one, or by one whose LinkByName failed - any error of that counts as "not
\* there", and the vxlan is deleted though it is right (apply.go:99-142).
VxlanKept ==
    [][\A k \in Inst :
        Alive(k) /\ net[k].vx # Nil /\ net'[k].vx # net[k].vx =>
            call.k = k /\ (cfgOf[call.d] # net[k].vx \/ call.need = "unseen")]_vars

\* Reconcile and other calls may count on this: the name stands for one namespace
\* or none, and what has the name or is open is not destroyed or taken over
\* (ns.go:96-149, 177-186; apply.go:22-41).
Named == INSTANCE NamedNamespace WITH
            named <- IF mounts = <<>> THEN Nil ELSE Top,
            held <- leaked \union ({call.k} \ {Nil}),
            full <- {k \in Inst : net[k] # Empty}
NamespaceSpec == Named!Spec
=============================================================================
