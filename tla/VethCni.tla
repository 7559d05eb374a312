------------------------------ MODULE VethCni ------------------------------
(***************************************************************************)
(* The k8slanveth CNI plugin (cni/k8slanveth) beside interfaces.Ensure: a  *)
(* pod asks for the device of a spoke, Ensure makes the spoke link on the  *)
(* host, and cmdAdd moves it into the pod's sandbox, gives it the name and *)
(* the addresses of the pod, and may fail at every step.                   *)
(*                                                                         *)
(* Everything of EnsureLan goes on meanwhile: calls of Ensure for other    *)
(* pods, failing or killed ones, Remove.  A link ends with its peer, and   *)
(* the peer with the link, wherever the two are.                           *)
(*                                                                         *)
(* The runtime removes the sandbox of a failed ADD and tries again with a  *)
(* new one, without asking the device plugin; so it does when a sandbox    *)
(* dies.  The other side of DEL, cmdDel, changes nothing.                  *)
(*                                                                         *)
(* The address of a sandbox is followed as long as the sandbox.            *)
(***************************************************************************)
EXTENDS EnsureLan

CONSTANTS
    usesIpam,    \* devices whose network has an IPAM plugin
    MaxTrouble   \* bound on all that goes wrong, in EnsureLan and here

\* A resource has one device (plugin.go:56), and spokes are used once
\* (README.md:114-125): no two pods ask for the same one.
ASSUME CniAssumption ==
    /\ usesIpam \subseteq Device
    /\ MaxTrouble \in Nat
    /\ \A d, e \in Device : spokeOf[d] = spokeOf[e] => d = e

VARIABLES
    pod,        \* [Device -> how far the pod that has the device is]
    inPod,      \* [Device -> namespace of the peer of the link in its sandbox]
    address,    \* [Device -> whether IPAM holds an address for its sandbox]
    cniFaults   \* failed and killed ADDs, dead sandboxes so far

\* All that has gone wrong: failing calls, crashes, removals, and cniFaults.
Trouble == spent.fault + spent.crash + spent.remove + cniFaults

podVars == <<vars, pod, inPod, address, cniFaults>>

PodInit ==
    /\ Init
    /\ pod = [d \in Device |-> "none"]
    /\ inPod = [d \in Device |-> Nil]
    /\ address = [d \in Device |-> FALSE]
    /\ cniFaults = 0

-----------------------------------------------------------------------------
\* What Ensure and Remove do to pods.

\* A link in a sandbox goes when its peer does, and a pod that Allocate has
\* answered for may start.
PodsFollow ==
    /\ inPod' = [d \in Device |->
                    IF inPod[d] # Nil /\ spokeOf[d] \in net'[inPod[d]].peers
                    THEN inPod[d] ELSE Nil]
    /\ pod' = [d \in Device |-> IF d \in want \ want' THEN "allocated" ELSE pod[d]]
    /\ UNCHANGED <<address, cniFaults>>

Admit(d) == Start(d) /\ PodsFollow
Allocating == EnsureStep /\ PodsFollow
Interference ==
    /\ Trouble < MaxTrouble
    /\ \/ Failure
       \/ Remove
       \/ Crash
    /\ PodsFollow
Removing == RemoveFile /\ PodsFollow
Collecting == Collect /\ PodsFollow
Destroying(k) == Destroy(k) /\ PodsFollow

-----------------------------------------------------------------------------
\* cmdAdd, one call that changes something after the other.

\* From one step of the ADD to the next.
Becomes(d, from, to) ==
    /\ pod[d] = from
    /\ pod' = [pod EXCEPT ![d] = to]
    /\ UNCHANGED cniFaults
HostKept == UNCHANGED vars

PodComes(d) ==
    /\ NewPod(d)
    /\ Becomes(d, "none", "waiting")
    /\ UNCHANGED <<inPod, address>>

\* The ADD begins: LinkByName on the host.
Locate(d) ==
    /\ Becomes(d, "allocated", IF link[spokeOf[d]] # Nil THEN "move" ELSE "broken")
    /\ HostKept /\ UNCHANGED <<inPod, address>>

\* LinkSetNsFd: the link leaves the host, if it is still there.
Move(d) ==
    /\ Becomes(d, "move", IF link[spokeOf[d]] # Nil THEN "rename" ELSE "broken")
    /\ inPod' = [inPod EXCEPT ![d] = link[spokeOf[d]]]
    /\ link' = [link EXCEPT ![spokeOf[d]] = Nil]
    /\ UNCHANGED <<file, mounts, net, call, leaked, remover, want, spent, address>>

\* Mutant: IPAM is called without a look at the configuration.
Rename_Ipam(d) ==
    /\ Becomes(d, "rename", IF inPod[d] = Nil THEN "broken" ELSE "ipam")
    /\ HostKept /\ UNCHANGED <<inPod, address>>

\* In the sandbox; an IPAM plugin is called if there is one.
Rename(d) ==
    /\ Becomes(d, "rename", IF inPod[d] = Nil THEN "broken"
                            ELSE IF d \in usesIpam THEN "ipam" ELSE "print")
    /\ HostKept /\ UNCHANGED <<inPod, address>>

Ipam(d) ==
    /\ Becomes(d, "ipam", "configure")
    /\ address' = [address EXCEPT ![d] = TRUE]
    /\ HostKept /\ UNCHANGED inPod

\* Mutant: the error return without the deferred call.
AfterConfigure_NoRelease(d) == IF inPod[d] # Nil THEN "print" ELSE "broken"

\* ConfigureIface needs the link.  A failure from here on runs the deferred
\* ExecDel first.
AfterConfigure(d) == IF inPod[d] # Nil THEN "print" ELSE "release"
Configure(d) ==
    /\ Becomes(d, "configure", AfterConfigure(d))
    /\ HostKept /\ UNCHANGED <<inPod, address>>

Release(d) ==
    /\ Becomes(d, "release", "broken")
    /\ address' = [address EXCEPT ![d] = FALSE]
    /\ HostKept /\ UNCHANGED inPod

PrintResult(d) ==
    /\ Becomes(d, "print", "running")
    /\ HostKept /\ UNCHANGED <<inPod, address>>

AddStep(d) ==
    \/ Locate(d) \/ Move(d) \/ Rename(d)
    \/ Ipam(d) \/ Configure(d) \/ Release(d) \/ PrintResult(d)

-----------------------------------------------------------------------------
\* What goes wrong.
CniFault == Trouble < MaxTrouble /\ cniFaults' = cniFaults + 1

Adding == {"move", "rename", "ipam", "configure", "release", "print"}

\* A call fails.  The result of ExecDel is dropped, and when printing fails
\* success is TRUE already: in both cases the address stays.
AddFails(d) ==
    /\ CniFault
    /\ pod[d] \in Adding
    /\ pod' = [pod EXCEPT ![d] = IF @ = "configure" THEN "release" ELSE "broken"]
    /\ HostKept /\ UNCHANGED <<inPod, address>>

\* The runtime gives up and kills the plugin; no deferred function runs.
AddKilled(d) ==
    /\ CniFault
    /\ pod[d] \in Adding
    /\ pod' = [pod EXCEPT ![d] = "broken"]
    /\ HostKept /\ UNCHANGED <<inPod, address>>

\* The sandbox is removed, after a DEL that does nothing, and with it the link
\* and its peer.
NoSandbox(d) ==
    /\ inPod' = [inPod EXCEPT ![d] = Nil]
    /\ address' = [address EXCEPT ![d] = FALSE]
    /\ net' = IF inPod[d] = Nil THEN net
              ELSE [net EXCEPT ![inPod[d]].peers = @ \ {spokeOf[d]},
                               ![inPod[d]].wired = @ \ {spokeOf[d]}]
    /\ UNCHANGED <<file, mounts, link, call, leaked, remover, want, spent>>

\* A new sandbox for the same pod, which keeps its device.
Retry(d) == Becomes(d, "broken", "allocated") /\ NoSandbox(d)
SandboxDies(d) ==
    /\ CniFault
    /\ pod[d] = "running"
    /\ pod' = [pod EXCEPT ![d] = "allocated"]
    /\ NoSandbox(d)

PodGoes(d) ==
    /\ \E from \in {"allocated", "broken", "running"} : Becomes(d, from, "none")
    /\ NoSandbox(d)

PodNext ==
    \/ Allocating \/ Interference \/ Removing \/ Collecting
    \/ \E k \in Inst : Destroying(k)
    \/ \E d \in Device :
        \/ PodComes(d) \/ Admit(d) \/ AddStep(d)
        \/ AddFails(d) \/ AddKilled(d)
        \/ Retry(d) \/ SandboxDies(d) \/ PodGoes(d)

PodSpec == PodInit /\ [][PodNext]_podVars

\* Pods are admitted in the order they come, a call goes on, the runtime collects
\* (it forces a cycle every two minutes), the kernel cleans up; an ADD is started
\* and goes on.
PodFairness ==
    /\ \A d \in Device : SF_podVars(Admit(d)) /\ WF_podVars(AddStep(d))
    /\ WF_podVars(Allocating)
    /\ WF_podVars(Removing)
    /\ WF_podVars(Collecting)
    /\ \A k \in Inst : WF_podVars(Destroying(k))

PodFairSpec == PodSpec /\ PodFairness

-----------------------------------------------------------------------------
PodPC == {"none", "waiting", "allocated", "broken", "running"} \union Adding

\* Types of all variables; only a network with an IPAM plugin has addresses.
PodTypeOK ==
    /\ TypeOK
    /\ pod \in [Device -> PodPC]
    /\ inPod \in [Device -> Inst \union {Nil}]
    /\ address \in [Device -> BOOLEAN]
    /\ cniFaults \in 0..MaxTrouble
    /\ \A d \in Device : address[d] => d \in usesIpam

\* A pod that runs has a link in its sandbox whose peer is on the bridge of a
\* namespace, which only a removal or a failing GetNS may take away, and the
\* address IPAM gave it (main.go:91-178 after apply.go:154-193).
PodsOnLan ==
    \A d \in Device : pod[d] = "running" =>
        /\ inPod[d] # Nil => spokeOf[d] \in net[inPod[d]].wired \ net[inPod[d]].local
        /\ inPod[d] = Nil => spent.remove + spent.fault > 0
        /\ d \in usesIpam => address[d]

\* Once Allocate has answered for a pod its link is there until the ADD, and then
\* in its sandbox until the pod goes or that sandbox is replaced: nothing that
\* other pods' calls, or their failures, clean up takes it away while its
\* namespace is mounted (apply.go:157, main.go:91-99).
LinkOf(d) == IF inPod[d] # Nil THEN inPod[d] ELSE link[spokeOf[d]]
LinkKept ==
    [][\A d \in Device :
        /\ pod[d] \notin {"none", "waiting"}
        /\ LinkOf(d) \in Mounted
        /\ LinkOf(d)' # LinkOf(d)
        => \/ pod'[d] = "none"
           \/ pod[d] \in {"broken", "running"} /\ pod'[d] = "allocated"]_podVars

\* "release IP in case of failure" (main.go:134): an ADD that returns an error
\* leaves no address behind, if it is not the release itself that fails, or the
\* writing of the result.
AddressReturned ==
    [][\A d \in Device :
        pod[d] # "broken" /\ pod'[d] = "broken" /\ cniFaults' = cniFaults
            => ~address'[d]]_podVars

\* An ADD finds the link Ensure has made: as long as nothing fails, dies or is
\* removed no pod breaks, however pods of other spokes come and go meanwhile.
UndisturbedPodsRun ==
    spent = Unspent /\ cniFaults = 0 => \A d \in Device : pod[d] # "broken"

\* Whatever earlier calls, ADDs and sandboxes left behind, a pod that waits gets
\* its device and its ADD an answer in the end (apply.go:22-41, 135, 157;
\* main.go:80-180).
PodsAnswered ==
    \A d \in Device : pod[d] = "waiting" ~> pod[d] \in {"running", "broken", "none"}
=============================================================================
