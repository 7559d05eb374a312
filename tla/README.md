# A TLA+ verification of k8slan

k8slan stretches a virtual LAN over the nodes of a Kubernetes cluster. A user
creates a `LAN` custom resource; a daemon set on every worker advertises the LAN's
spokes as device-plugin resources; when a pod asks for one, the daemon set builds a
network namespace with a bridge, a vxlan and a veth pair, and hands the veth (or a
macvtap on it) to the pod.

This directory models that program, checks the models with TLC and proves their
safety properties with TLAPS. Source paths below are relative to the repository.

- [Inventory](#inventory): the parts of the system
- [Modules](#modules): what models what
- [Runs](#runs): what TLC checks, on which bounds
- [Fairness](#fairness)
- [Proofs](#proofs)
- [Findings](#findings)
- [Not modelled](#not-modelled)
- [What is left](#what-is-left)

## Inventory

| Component | State | Operations | What makes it hard | What makes it correct |
|---|---|---|---|---|
| LAN custom resource, kept by the API server (`api/v1beta1/lan_types.go`) | spec, finalizers, deletion timestamp | create, delete, Update of finalizers | every host writes the whole list; optimistic concurrency; deleted and made again under one name | no entry is lost; gone only when everybody has cleaned up |
| Reconciler of the daemon set (`dset/main.go`) | informer cache, work queue, the copy Reconcile read | add finalizer, send to the lister, cleanup, remove finalizer | stale copies, conflicts, lost answers, blocking channels, crash between cleanup and Update | everything a host has for a LAN is answered for; deletions complete |
| Lister (`pkg/deviceplugin/lister.go`) and the plugin manager (library) | two channels, `DeviceList`, plugins | Discover, report, NewPlugin | select between two channels, the empty list, an unlocked map, plugins that keep their first spec | a LAN that stays is listed and served with its own spec |
| Device plugin (`pkg/deviceplugin/plugin.go`) | its `*LANSpec` | ListAndWatch, Allocate | its LAN may be gone | no namespace without a LAN |
| Network objects (`pkg/interfaces`) | file and mounts of a namespace, links in it and on the host | Ensure, NewNS, CreateVXLANIF, Remove | some 20 system calls, any may fail; crash in between; Remove next to it; leftovers under the same names | success means a working spoke; leftovers never block |
| k8slanveth CNI (`cni/k8slanveth/main.go`) | link in host or pod, addresses | ADD, DEL, CHECK | other pods' calls between its steps; failure after the link has moved; DEL does nothing | nobody takes a pod's link away; addresses of failed ADDs return |
| LAN operator (`internal/controller/lan_controller.go`) | network-attachment-definitions | Reconcile | errors only logged; names compared over all namespaces | every spoke of a LAN has its two definitions |
| Webhook (`internal/webhook/v1beta1/lan_webhook.go`) | none of its own | Default, ValidateCreate/Update/Delete | stands between users, other controllers and the hosts' Updates | the spec is complete and never changes; no host is refused its finalizer |
| Names (`lan_types.go:166-196`, `apply.go:272`, `plugin.go:53-70`) | - | resource, peer and device names | suffixes, prefixes, 15 characters | names fit; a resource leads back to its spoke |

Interaction. The hosts never talk to each other: they meet in the finalizer list.
On one host the reconciler and the lister share two buffered channels; the lister
and the manager share an unbuffered channel and, without a lock, the map
`DeviceList`; reconciler and plugins share the kernel's namespaces and nothing
else. What can go wrong at which line is listed under "hazards" in `PROJECT.json`.

## Modules

```
LanApi  <-  Lister  <-  LanDaemon  <-  MCLanDaemon         (TLC)
                            |     <-  LanDaemonProofs     (TLAPS)
                            '-- refines --> LanLifecycle

LanApi  <-  NadOperator  <-  MCNadOperator                (TLC)
                        <-  NadOperatorProofs            (TLAPS)

EnsureLan  <-  MCEnsureLan                                (TLC)
    |     <-  EnsureLanProofs                            (TLAPS)
    |     <-  VethCni  <-  MCVethCni                     (TLC)
    |               <-  VethCniProofs                    (TLAPS)
    '-- refines --> NamedNamespace

Admission  <-  MCAdmission                                (TLC)
          <-  NamingProofs  <-  AdmissionProofs          (TLAPS)
```

An arrow is EXTENDS. VethCni is the composition of the CNI plugin with all of
EnsureLan; LanDaemon that of the reconcilers with the lister and the API server.
VethCniProofs also EXTENDS EnsureLanProofs, whose lemmas it uses.

### LanApi

The objects in the API server. A member of `Lan` is one object (one UID);
`nameOf` lets two objects have one name, which is how delete-and-recreate is
modelled. `phase` and `fins` are deletion timestamp, existence and the finalizer
list. `Accepted` is the resourceVersion check of an Update: within an object's life
finalizers are only added while it is live and only removed while it is being
deleted, so no pair of phase and finalizers occurs twice and comparing them is
comparing versions. The spec is a constant function of the object because
`ValidateUpdate` rejects every change (`lan_webhook.go:134`, in Admission the guard
of every Update).

### Lister

`addCh`, `rmCh`, `deviceList` are the channels and the map; `offer` is the list
`report` blocks on; `DiscoverAdd`, `DiscoverRemove` are the two cases of the
select. A new list is only offered when it is not empty (`report`). The manager
(`ManagerReceive`, `StartPlugin`, `EndRound`) is external and modelled from how
`lister.go` uses it: it takes a list, calls NewPlugin for names without a plugin,
each in a goroutine, waits for them and then stops plugins that are not listed.
`plugins` records the LANSpec each was made with.

### LanDaemon

All hosts around one API server. `worker[h]` is where Reconcile is and what it has
read; it is cut after the read from the cache, after `interfaces.Remove`, at the
channel sends and at the Update, because that is where other things can happen.

| Code | Action |
|---|---|
| `Reconcile`, read and branch (`dset/main.go:49-79`) | `Reconcile` |
| `interfaces.Remove` (80) | `Cleanup` |
| send on DPRemoveChan (82), on DPAddChan (104) | `SendRemove`, `SendAdd` |
| `Update` (70, 86) | `UpdateOK`, `UpdateFails`, `UpdateAnswerLost` |
| informer, resync | `CacheSync`, `Resync` |
| `Allocate` of a plugin | `Allocate` (in one step; its steps are EnsureLan) |
| crash, rollout; nil plugin | `Restart`, `PanicOnNil` |

`cleaned` is a history variable: the objects Remove was called for. `events` counts
restarts and resyncs up to `MaxEvents`.

Data race: NewPlugin reads `DeviceList` while Discover may write it. What the Go
build does then is either a consistent read (the interleavings of the model) or the
fatal error "concurrent map read and map write", which is a `Restart`.

### LanLifecycle

What the daemon set promises, without caches, queues, channels or plugins: hosts
hold an object while it is live, offer it only if they hold it or have cleaned up
after it, clean up once it is being deleted, and release it after that; with the
last release it is gone. LanDaemon implements it with `holders` mapped to the
finalizers and `offering` to the LANs that a channel, the map or a plugin of the
host still knows.

### EnsureLan

`interfaces.Ensure` and `interfaces.Remove` on one host and one namespace name,
one system call at a time. `Inst` are namespaces of the kernel; each lives while it
is mounted or open. Ensure opens one and never closes it (`lanNS`), so it stays in
`leaked` until the Go runtime collects it. `net[k]` is what a namespace contains:
the bridge, the vxlan (and its configuration), whether that is on the bridge, the
peers of the spokes, the ones on the bridge and the spoke ends not moved yet;
`link[s]` is the namespace in which the host's link of spoke s ends.

| Code | Action |
|---|---|
| `os.Stat` (`apply.go:23`), taken to fail only on a name that is not there | `Start` |
| `ns.GetNS`, `DeleteNamed` (32-35) | `GetNS`, `GetNSFails` |
| `NewNS` (`ns.go:96-149`) | `CreateFile`, `Mount`, `Open` |
| bridge (`apply.go:71-96`) | `Bridge`, `BridgeUp` |
| check of the vxlan (97-132), its deletion (134-135) | `CheckVxlan`, `DeleteVxlan` |
| veth pair (156-192) | `DeletePeer`, `AddVeth`, `Wire`, `MoveToHost` |
| vxlan (198-226) | `AddVxlan`, `Attach` |
| spoke link, macvtap (232-262) | `SpokeUp`, `RecreateMacvtap` |
| error returns | `Refused` (the object is there already, or gone), `StepFails` (anything else) |
| errors nobody looks at | `IgnoredFailure` |
| `DeleteNamed` (`ns.go:177-186`) | `Remove`, `RemoveFile` |

One call runs at a time because the kubelet admits one pod after the other. A pod
that is rejected is replaced by its controller, so `want` keeps the device.

The lookup of the vxlan, its deletion, that of the old peer and the steps after the
vxlan is made do not report their errors, so they are in `IgnoredFailure`; everything
else returns. The lookup is the one that does harm: any error of `LinkByName` sets
`needToAdd` (102-104), and then a vxlan that is right is deleted (134-135), together
with the LAN of the pods that run if the call fails before it makes a new one. The
call's `need` tells this from a lookup that answered: `"unseen"`, not `"yes"`.
`VxlanKept` says that nothing but this and another spec takes a vxlan away: no other
failing call, no crash, no Remove, no Ensure for another spoke.

### NamedNamespace

What Ensure and Remove promise about the namespace of a LAN, without files, mounts
and links: `named` is what the name stands for, `held` are the namespaces somebody
has open, `full` those with something in them. The name passes from one namespace to
another only by `Remove` and `Make`, a new one is empty, and none is destroyed while
it is named or held. EnsureLan implements it: the mount is `Make`, umount is
`Remove`, GetNS is `Open`, and the end of the process, or of the Go object, `Close`.

It is the interface between LanDaemon and EnsureLan. LanDaemon's `Allocate` stands
for a call of Ensure that ends with the namespace under its name, its `Cleanup` for
`Remove`. The two are related by this module and not run as one model: their states
together are out of TLC's reach.

### VethCni

A pod from its admission to its end, next to every step of EnsureLan. `pod[d]` is
how far the pod with device d is, `inPod[d]` the namespace in which the peer of the
link in its sandbox is, `address[d]` whether IPAM holds an address for that sandbox.
A link is at one place: on the host (`link`) or in a sandbox (`inPod`). Each action
of EnsureLan is taken over with `PodsFollow`, which ends the links whose peers are
deleted or whose namespace is destroyed.

| Code | Action |
|---|---|
| admission of the pod, `Allocate` (`plugin.go:83-120`) | `PodComes`, `Admit`, `Allocating` |
| `LinkByName` (`cni/k8slanveth/main.go:91`) | `Locate` |
| `LinkSetNsFd` (96) | `Move` |
| `LinkSetName` in the sandbox (101-112) | `Rename` |
| `ipam.ExecAdd` (129) | `Ipam` |
| `ipam.ConfigureIface` (166) | `Configure` |
| deferred `ipam.ExecDel` (135-139) | `Release` |
| `types.PrintResult` (178) | `PrintResult` |
| error returns; a killed plugin | `AddFails`; `AddKilled` |
| `cmdDel` (190-200), which changes nothing, and the end of a sandbox | part of `NoSandbox` |
| kubelet and runtime | `Retry`, `SandboxDies`, `PodGoes` |

A failed ADD ends with its sandbox, and the link in it. The runtime then makes a new
sandbox for the same pod and calls ADD again, but nobody calls Allocate again, so
there is no link on the host any more: such a pod breaks every time until it is
replaced. This is what the code does (`Retry`, `Locate`); `PodsAnswered` counts a
refused ADD as an answer.

### Admission

One LAN object between users (`Create`, `Edit`, `Delete`), other controllers
(`OthersHold`) and hosts (`Hold`, `Release`). `Update` is the API server's: default,
schema, `ValidateUpdate`, and the end of a deleted object with its last finalizer.
A field is absent, or a value; `Wanted` are the manifests users send. `Recoded` is
what a spec becomes on its way through the hosts' typed client: a map that is there
and empty is left out (`omitempty`), and `reflect.DeepEqual` tells the two apart.

Names are sequences of words with a width each: the prefixes and suffixes of the
code, letters, and words as wide as the limit and one more. The conversions between
spoke, resource, peer and device names are modelled by what they do to those words;
`strings.ReplaceAll` removes every occurrence of the prefix (`Without`). Both this and
the length of a name are defined by counting places of words and of characters, not
by recursion, so that they can be reasoned about.

| Code | Definition |
|---|---|
| `Validate`, `checkInterfaceName` (`lan_types.go:68-108`) | same names |
| `SetDefaultGeneric`, `Default` (`lan_webhook.go:66-90`) | same names |
| `ValidateCreate`, `-Update`, `-Delete` (`lan_webhook.go:108-160`) | same names |
| `GetDPResouceName`, `GetSpokeNameFromResourceName` (`lan_types.go:176-196`) | same names |
| `getPeerVethName` (`apply.go:272`), device names (`plugin.go:53-70`) | `getPeerVethName`, `DeviceName` |

### NadOperator

The operator beside the same LanApi. A NAD is its spoke and kind, Kubernetes
namespace and owner; the API server refuses a second one of a key (`CreateNad`).
`feed` is the watch of NADs, at most `MaxFeed` changes long; `lanCache` and
`nadCache` are the caches Get and List read, and both watches fill `queue`. The
daemon sets appear as `Hold` and `Release`, which keep a deleted LAN for a while.

| Code | Action |
|---|---|
| Get, List, comparison by name (`lan_controller.go:55-71`) | `Reconcile` |
| SetControllerReference, Create (75-83) | `CreateNad`, `CreateFails` (only logged) |
| `For`, `Owns` (97-102) | `LanSync`, `NadSync`, `Resync` |
| garbage collector | `Collect` |

A watch that breaks and lists again, and so never tells of a NAD that came and went
in between, is not modelled; a new process, which lists everything, is (`Restart`).

## Runs

Bounds: `MaxEvents` counts restarts and resyncs; `ChanDepth` is 1 or 2 instead of
16, so that the channels fill with one or two LANs; `MaxFaults`, `MaxCrashes`,
`MaxRemoves` count failing system calls, crashes and removals, and `MaxTrouble` all
of these together with failed and killed ADDs and dead sandboxes; `Inst` bounds how
many namespaces exist at a time; `MaxFeed` how many changes of definitions are on
their way. Failing and lost Updates are not bounded.

| Run | Instance | Shows |
|---|---|---|
| `again` | 1 host, 3 LANs: two objects of one name, spoke and namespace, one beside them; one slot, no event | `EveryTraceAnswered`, `CopiesAreSafe` with old copies around; `LiveNamespaceKept`: the LAN made again has the namespace of the old one and keeps it, once the host knows of it, although the cleanup of the old object comes late and more than once; `TypeOK` |
| `two_hosts` | 2 hosts (symmetric), 1 LAN, 1 event | `EveryTraceAnswered` across a restart, `NoHostSkipped`, `ReleaseAfterCleanup`, `NoHoldAfterDelete`, refinement of LanLifecycle |
| `live_lans` | 1 host, 2 LANs, one slot, 1 event, fair | `DeletionCompletes`, `EventuallyListed`, `EventuallyServed` |
| `live_hosts` | 2 hosts, 1 LAN, no resources, 1 event, fair | `DeletionCompletes` though two hosts conflict |
| `stale_plugin` | one name used twice, no event | violation of `NamespaceRemovedWithCR` |
| `recreate_served` | the same, fair | violation of `EventuallyServed` |
| `ensure_faults` | 2 spokes, an old and a new spec, 3 namespaces, 2 faults, 1 crash, 1 Remove | `TypeOK`, `OneMount`, `SpokeServed`, `UndisturbedMakesAll`, `VxlanKept`, refinement of NamedNamespace, no deadlock |
| `ensure_half` | 2 spokes, one spec, 1 fault | violation of `EnsureMakesAll` |
| `pods` | 2 pods on 2 spokes, one with IPAM; 2 namespaces; 2 troubles, of them at most 1 failing system call of Ensure and 1 Remove; fair | `PodsOnLan`, `LinkKept`, `UndisturbedPodsRun`, `AddressReturned`, `PodsAnswered`, `PodTypeOK`, no deadlock |
| `nad_again` | one name used by two objects, both kinds, 1 failing Create, 1 restart, 4 changes on the way, fair | `TypeOK`, `NoneForgotten`, `EventuallyDefined`, `NothingStays` |
| `admission` | some 40 manifests, good and bad, 2 hosts, 1 foreign finalizer, fair | `TypeOK`, `LinksFit`, `ResourcesLead`, `FinalizersAdded`, `DeletionCompletes` |
| `finalizer_refused` | a manifest with and without an empty `vxlanDevMap` | violation of `FinalizersAdded` |

Why these are enough. The finalizer protocol relates one object to the entries of
the hosts; two hosts already give every conflict between a writer and another one,
and one restart puts a fresh cache beside old state. Two LANs with one slot make
the worker block with the other LAN waiting behind it. Recreation needs two objects
of a name, and both must be in flight at once, which `again` reaches, with a third
LAN that none of it may touch; a restart is in `two_hosts` instead. What these
instances cannot show, more hosts and LANs and all of them with a restart, is proved. In EnsureLan two faults let
a leftover of one failed call meet a failing cleanup in the next; three namespaces
are the mounted one, one still open and one being destroyed, and the theorems hold
for any number. In `pods` two troubles allow each of them to meet another, for
example a failed ADD and the Remove of the namespace the next pod is served from; a
crash of the daemon set is in `ensure_faults`, where it also ends the call and
closes what is open.

The manifests of `admission` vary one or two fields at a time, because `Validate`
looks at each field on its own; values are the ones at and next to its limits. The
empty map is in `finalizer_refused` alone.

`EventuallyListed` and `EventuallyServed` hold in `live_lans`, where names are not
used again; with recreation the second fails (see Findings) and the first depends on
the resync (a reordered add and remove leaves the new LAN unlisted until then). The
runs of LanDaemon, NadOperator and Admission do not check deadlock: users may stop
and the counters may run out.

The repository's README (lines 114-119) makes users keep namespaces, spoke names
and VNIs different over all LANs, and nothing checks it. The instances respect that,
but for the two objects of one name, which never live at the same time. A LAN whose
spoke is named as another's in another Kubernetes namespace, for instance, never
gets its definitions, since the operator compares names only
(`lan_controller.go:61-71`).

What `LiveNamespaceKept` says, and what it does not. It is about an object that the
host has been told of (queued, listed or served by a plugin) and a namespace that
only objects of its name have; it does not matter that these follow each other with
the same namespace. From a copy of an object that is gone `Reconcile` calls
`interfaces.Remove` again when the answer to the Update that ended the object was
lost. By then a new object may exist, and a plugin that outlived the old one may have
made the namespace for a pod of the new one: that namespace the code removes (without
`l \notin Known(h)` TLC finds it, in the instance of `again`). The host then has not
read the new object yet, and the next Allocate makes the namespace again; the pod's
links are lost. Once the new object has been read, and with it the end of the old
one, that cannot happen any more, and this is what is checked and proved.

Every property has a mutant of the code that breaks it, defined next to the
definition it replaces: the commented-out merge patch of `dset/main.go`
(`CanStore_MergePatch`, `NewFins_OwnOnly`), another order of the deletion branch
(`Plan_SendFirst`, `Plan_ReleaseFirst`), a swallowed error, a skipped `os.Stat`, a
forgotten deletion, an error of GetNS nobody looks at, a vxlan looked up by name only, a limit of 14 characters.

## Fairness

LanDaemon (`Fairness`):

- `WF(CacheSync)`: the watch delivers, controller-runtime reconnects it.
- `SF(Reconcile(h, n))`: the work queue is first in, first out, so a name that is
  queued again and again gets its turn although the worker is busy in between.
- `WF(WorkerStep)`: Reconcile goes on, unless a full channel blocks it.
- `SF(UpdateOK)`: an Update that is tried again and again is accepted in the end.
  That is an assumption about the API server and the other hosts' pace; each stored
  Update of another host uses up one of its finitely many changes, so conflicts end.
- `WF(Discover)`, `WF(Manager)`: two goroutines. `WF(PanicOnNil)`: the panic is
  raised and the kubelet restarts the container.

Users, resyncs, the kubelet and crashes are not fair, and a process that died comes
back (`Restart` is one step).

EnsureLan is checked for safety only and states none. VethCni (`PodFairness`):
`SF(Admit(d))` (pods are admitted in the order they come, and the kubelet has a call
under way in between), `WF(AddStep(d))` (the runtime starts an ADD and it goes on),
`WF` on the steps of a call and of Remove, on `Collecting` (the Go runtime forces a
collection every two minutes) and on the kernel's `Destroying`. Retries, ends of
pods and sandboxes are not fair.

NadOperator: the watches deliver, `SF(Reconcile(n))` as above, Creates are answered,
the garbage collector comes round. The resync is not fair on purpose: it comes every
ten hours, and a LAN that only gets its definitions then is not served.

Admission: `WF(Hold(h))`, `WF(Release(h))`: a Reconcile that returns an error is
tried again, so a host does not give up while its Update would be accepted.

## Proofs

### LanDaemon

`LanDaemonProofs.tla` proves for every number of hosts, LANs, names, spokes and
namespaces, every channel capacity and every bound on events:

| Theorem | Property |
|---|---|
| `TypeCorrect` | `TypeOK` |
| `CopiesSafe` | `CopiesAreSafe` |
| `TracesAnswered` | `EveryTraceAnswered` |
| `NobodySkipped` | `NoHostSkipped` |
| `ReleasesAreOrderly` | `ReleaseAfterCleanup` |
| `NobodyHoldsLate` | `NoHoldAfterDelete` |
| `LiveNamespacesStay` | `LiveNamespaceKept` |
| `ImplementsLifecycle` | `LifecycleSpec` |

Assumptions: `LanAssumption`, `ListerAssumption`, `DaemonAssumption` - the types of
the constants, a capacity of at least one, at least one spoke per LAN. None says
that names, spokes or namespaces of different LANs differ (`LiveNamespaceKept` itself is
about namespaces of one name).

The argument. `EveryTraceAnswered` is not inductive: whether a queued spec is
answered for depends on what the worker believed when it sent it. The inductive
invariant is

    IInv == TypeOK /\ CopiesAreSafe /\ EveryTraceAnswered

where `CopiesAreSafe` says that old copies lie in one direction only. A copy that
says "deleting" is right about that (deletion is never taken back), and a copy that
has this host's finalizer may be outdated, but then the host has cleaned up since,
because nobody else removes its entry. The second holds because Updates are
compared with what they were computed from. So the worker that finds its finalizer
in a copy sends a LAN that the host answers for, and the one that removes it has
removed the namespace before.

The proof has one lemma per group of actions and per conjunct (user, informer,
worker, Update, lister, restart). `NoHostSkipped` follows from IInv: a gone object
has no finalizers. Of the action properties, `ReleaseAfterCleanup` and `NoHoldAfterDelete`
follow from IInv in the first state of a step. `LiveNamespaceKept` needs to know of
what a host has been told, so it has an invariant of its own beside IInv,

    CopiesAreFresh == OneStored /\ \A h : OneCached(h) /\ FreshCopies(h) /\ LateCleanup(h)

one object of a name exists, in the API server and in each cache; a live object that
a host was told of is in that host's cache; and a worker about to clean up after an
object has not been told of a later one of the name. The last holds because one worker
does both: it decided to clean up when its cache still had the old object, which rules
out the new one in the cache, and only the worker itself tells the lister. For the
refinement every step is mapped to a step of LanLifecycle or to a
stutter: an accepted Update is Hold or Release, Cleanup is Clean, a send, a read by
the lister or a stopped plugin changes `offering` (Offer, Withdraw), and the rest
stutters.

### EnsureLan

`EnsureLanProofs.tla` proves for every set of namespaces, devices, spokes and vxlan
configurations, every assignment of them to devices and every bound on failures,
crashes and removals:

| Theorem | Property |
|---|---|
| `EnsureTyped` | `TypeOK` |
| `EnsureMountsOnce` | `OneMount` |
| `EnsureServes` | `SpokeServed` |
| `EnsureKeepsVxlan` | `VxlanKept` |
| `EnsureImplements` | `NamespaceSpec`, the refinement of NamedNamespace |
| `EnsureCompletes` | `UndisturbedMakesAll` |

Assumption: `EnsureAssumption` (types of the constants). The inductive invariant is

    IInv == TypeOK /\ CallTyped /\ MountInv /\ CallInv

`OneMount` is not inductive: whether a mount is the second depends on how the call
came to it. `MountInv` says that a call that is to create the file or to mount has
seen nothing mounted - `os.Stat` found no file, which implies that nothing is mounted
on it, or GetNS failed and was followed by the umount - and that nobody but a call
mounts. `CallInv` carries what a call has done in its namespace to its end: the
bridge from `Bridge` on, the wired peer from `Wire` on, the host's link from
`MoveToHost` on, and that a call that is to delete the vxlan has found another one or
failed to look. Nothing beside the call disturbs these, because the namespace is
open (`call.k`), so the kernel does not destroy it, and only the call works in it.
`CallTyped` relates the place of the call to whether it has a namespace open.

The refinement needs two facts more than the mapping: the umount of a single mount
leaves the name without a namespace, and a step within a call leaves all namespaces
but its own as they are. `EnsureCompletes` rests on a second invariant, `SettledInv`,
for behaviours in which nothing has gone wrong: outside the place of the call that
is bringing it up or attaching it, every bridge is up and every vxlan attached, and
a namespace without the name is empty, so that AddVxlan never meets another vxlan of
its configuration.

### VethCni

`VethCniProofs.tla` proves of `PodSpec`, the composition of the CNI plugin with all of
EnsureLan, for every set of pods, namespaces and spokes and every bound on what goes
wrong:

| Theorem | Property |
|---|---|
| `PodsAreTyped` | `PodTypeOK`: types, and no address where there is no IPAM |
| `RunningPodsOnLan` | `PodsOnLan` |
| `LinksAreKept` | `LinkKept`: from Allocate's answer through the ADD to the end of the pod or the sandbox |
| `PodsRunUndisturbed` | `UndisturbedPodsRun` |
| `AddressesReturned` | `AddressReturned`: for ADDs that end because the link is gone, or with the deferred release; not for a release or a PrintResult that fails itself, which leave the address |
| `PodsKeepEnsure` | `OneMount`, `SpokeServed` |
| `PodsKeepVxlan` | `VxlanKept` |
| `PodsKeepNamespace` | `NamespaceSpec` |
| `PodsKeepCompletion` | `UndisturbedMakesAll` |

The last four say that what EnsureLan promises alone it also promises with pods: a
sandbox that ends takes the peer of its link out of a namespace while a call may be
working in it. They do not follow from the theorems of EnsureLan, whose steps leave
the namespaces of others alone; each step of a pod is shown to keep EnsureLan's
`IInv` (and `SettledInv`), and to be a stutter of NamedNamespace.

Assumptions: `EnsureAssumption`, and `CniAssumption`: pods use IPAM or not, and two
devices are of two spokes. The second is what the code does: a plugin advertises one
device (`plugin.go:53-70`) and the kubelet gives it to one pod at a time. Without it
the theorems are false, since Ensure for the second pod of a spoke deletes the link
of the first (`apply.go:157`); that is also why using both resources of a spoke, which
the model leaves out, is left to the user.

The inductive invariant is

    PInv == IInv /\ PodsTyped /\ WantInv /\ AddInv /\ LinkInv /\ QuietInv

`PodsOnLan` speaks of pods that run; whether the link of one is good was decided
when Ensure made it, and has to hold wherever the link is. `LinkInv` says so: every
link, on the host or in a sandbox, has its peer on the bridge of the namespace
recorded for it, with the other end out of it, and no peer belongs to two links;
within a call, between AddVeth and MoveToHost, both ends are in the call's
namespace. A call that deletes a peer therefore only meets that of its own spoke,
and its own spoke has no pod, because the device is wanted only while the pod waits
(`WantInv`), and the sandbox of a pod that waits holds no link (`AddInv`). `AddInv`
also ties the address to the point the ADD has reached, and to
whether the network has IPAM, which is all `AddressReturned` and `PodTypeOK` need. `QuietInv` is for behaviours in which no call has failed
and nothing is removed: then a namespace that is not mounted is empty, so the kernel
never ends a pod's link with one, and a pod that Allocate answered for finds it.

### NadOperator

`NadOperatorProofs.tla` proves for every set of LANs, names, spokes and hosts and every
bound:

| Theorem | Property |
|---|---|
| `OperatorTypesHold` | `TypeOK`: one definition per namespace and name, one cached LAN per name |
| `DefinitionsComing` | `NoneForgotten` |
| `DefinedAtRest` | when all is heard of, done and collected, and no Create has failed, every live LAN has its own definitions |

Assumptions: `LanAssumption`, `OperatorAssumption`. The last two theorems speak of LANs
whose spoke names are their own (`SpokesApart`), as the repository's README asks for.

One cached LAN per name is not inductive; it follows from `UniqueNames`, the same for
the objects of the API server. `NoneForgotten` is the safety half of
`EventuallyDefined`. What could go wrong is a Reconcile that takes an old definition in
its cache for the one it should create, and is not called again. The invariant

    FInv == IInv /\ MadeInv /\ HeardInv /\ NoneForgotten

excludes that: `HeardInv` says that whatever the cache has, or is still told of, either
exists or has its deletion on the way behind it, and `MadeInv` that a deletion on the
way is of an object that is gone, so that the definition it is about is not the one that
is missing. The deletion queues the name of its owner, which is the name of the new
object too. `DefinedAtRest` then needs only `UniqueNames`: what hides a definition at
rest would belong to a second live object of the name.

### Admission

`AdmissionProofs.tla` and `NamingProofs.tla` prove, for every set of manifests, hosts,
finalizers and words:

| Theorem | Property |
|---|---|
| `AdmittedComplete` | `TypeOK`: no field the daemon set reads is missing |
| `AdmittedNamesFit` | `LinksFit` |
| `ResourcesLeadBack` | `ResourcesLead` |
| `DeletedHeldByHosts` | once a deletion is accepted only hosts hold the object, the safety half of `DeletionCompletes` |

The invariant says what `Create` has checked (`Admitted`); it lasts because
`ValidateUpdate` refuses every Update whose spec, after defaulting, is another one.
`DeletedHeldByHosts` rests on `ValidateDelete` and on the API
server's rule that an object under deletion gets no new finalizers.

About names: `WidthAppend` (a suffix adds its own width), `SpokeFits` (what is left of
a resource's name when its prefix is removed wherever it occurs is a name again, no
wider than the spoke) and `PlainLeadsBack` (a spoke without a prefix in it comes back
unchanged) hold for names of any length. With the 13 characters of `checkInterfaceName` they leave
exactly the two characters of the longest suffix.

Assumptions: `AdmissionAssumption` - every word has a width; the suffixes have the
widths of the strings in the code, 1 and 2 characters; the default group is a
multicast address and the default port a number - and `ManifestAssumption`: a
manifest has the fields of the Go struct, each absent or not, with names where names
are. The API server decodes into that type before the webhook is called. Nothing is
assumed of the values, which is what `Validate` is for.

### Only model-checked

- Liveness, which is beyond this prover: `DeletionCompletes` (of LanDaemon and of
  Admission), `EventuallyListed`, `EventuallyServed`, `PodsAnswered`,
  `EventuallyDefined`, `NothingStays`, `FinalizersAdded`.
- That there is no deadlock in EnsureLan and VethCni, which is about ENABLED.
- The violations, which are behaviours and found by TLC.

Every invariant and every action property of the passing runs is a theorem above.

## Findings

1. `stale_plugin` (`design/design.md:49-51` against `lister.go:39-44`,
   `dset/main.go:80-82`). The design says that with the CR its namespace goes. An
   empty `DeviceList` is never reported, so plugins of the last LAN run on, and the
   namespace is removed before the lister is told; a late Allocate makes it again,
   and no finalizer is left to remove it.
2. `recreate_served` (`lan_webhook.go:137` against `lister.go:69-78`). The webhook
   tells users to delete and recreate a LAN to change it. Plugins that are still
   running are not made again and keep the old spec.
3. `ensure_half` (`apply.go:16` against `apply.go:199-228`). The error of attaching
   the vxlan goes to a shadowed `err`. Ensure succeeds, and later calls see a vxlan
   of the right configuration and do not attach it either. The same state is left
   by a crash between the two steps. Two other ways to break `EnsureMakesAll`: a
   bridge whose LinkSetUp failed is never brought up (`apply.go:92`), and a removed
   namespace that the process still has open keeps its vxlan, so that the new one's
   is refused with EEXIST, which `CreateVXLANIF` ignores (`vxlan.go:126`).

4. `finalizer_refused` (`design/design.md:35` against `lan_webhook.go:134`). A LAN
   made with `vxlanDevMap: {}` keeps the empty map in the API server. The hosts'
   typed Update leaves it out, so the webhook compares a nil map with an empty one,
   takes that for a change of the spec and refuses every Update of the finalizers:
   the LAN is never served, though nothing is wrong with it.

## Not modelled

- The macvtap and dummy links: they come last in Ensure and die with the link below.
  That the two resources of a spoke exclude each other is left to the user
  (`README.md:125` of the repository).
- Overlapping calls of Ensure, which need a kubelet that restarts during a call, and
  so the race on the dummy link all LANs share.
- Several LANs in one namespace in EnsureLan (bridge and vxlan names are one each),
  and names of links that collide.
- A umount that fails on a mounted namespace.
- An `os.Stat` that fails on a name that exists: line 24 of `apply.go` takes any error
  for "not there", and NewNS would go on with a path that is mounted. `OneMount`,
  `NamespaceSpec` and their theorems assume that `os.Stat` of a path under
  `/var/run/netns` fails only when there is nothing.
- `cmdCheck` and `cmdStatus` of the CNI plugin, which change nothing; addresses of
  sandboxes that had run, which nothing returns.
- The resource accounting of the kubelet and ListAndWatch's endless loop.
- The status of a LAN, which the code never writes.
- Process entry points, manifests, generated code and test programs.

## What is left

1. **Composition**: LanDaemon over NamedNamespace in place of the one-step
   `Allocate` and `Cleanup`, so that a Remove meets a call under way in one model.
2. **Life of the macvtap**: the other resource of a spoke, with its device node and
   the dummy link, and two calls of Ensure at a time.
