----------------------------- MODULE LanDaemon -----------------------------
(***************************************************************************)
(* The daemon set (dset/main.go) on all hosts, around one API server: on   *)
(* every host an informer cache, a work queue, the one worker that runs    *)
(* LANReconciler.Reconcile, the lister with its manager (Lister), and the  *)
(* network namespaces that pods' allocations create.                       *)
(*                                                                         *)
(* The hosts never talk to each other.  They meet in the finalizer list of *)
(* the LAN objects, which each of them writes as a whole with Update.      *)
(*                                                                         *)
(* Reconcile is cut at every point where something else can happen: after  *)
(* the read from the cache, after the removal of the namespace, at the     *)
(* sends on the two channels, and at the Update.                           *)
(***************************************************************************)
EXTENDS Lister

CONSTANTS
    PodHost,    \* the hosts that pods using the LANs are scheduled on
    MaxEvents   \* bound on restarts and periodic resyncs, over all hosts

ASSUME DaemonAssumption ==
    /\ PodHost \subseteq Host
    /\ MaxEvents \in Nat

VARIABLES
    cache,      \* the informer's copy of every object
    queue,      \* the work queue: reconcile keys, each at most once
    worker,     \* where Reconcile is, and the object as it was read
    netns,      \* named network namespaces of the host
    events,     \* how many restarts and periodic resyncs there have been
    cleaned     \* history: the objects interfaces.Remove was called for

daemonVars == <<cache, queue, worker, netns, events, cleaned>>
vars == <<apiVars, listerVars, daemonVars>>

PC == {"idle", "addFin", "sendAdd", "cleanup", "sendRemove", "delFin"}

NoView == [phase |-> "absent", fins |-> {}]
IdleWorker == [pc |-> "idle", lan |-> None, seen |-> NoView]

-----------------------------------------------------------------------------

Init ==
    /\ ApiInit
    /\ ListerInit
    /\ cache = [h \in Host |-> [l \in Lan |-> NoView]]
    /\ queue = [h \in Host |-> {}]
    /\ worker = [h \in Host |-> IdleWorker]
    /\ netns = [h \in Host |-> {}]
    /\ events = 0
    /\ cleaned = [h \in Host |-> {}]

Create(l) == UserCreate(l) /\ UNCHANGED <<listerVars, daemonVars>>
Delete(l) == UserDelete(l) /\ UNCHANGED <<listerVars, daemonVars>>

-----------------------------------------------------------------------------
\* The informer and the work queue (controller-runtime, external).

Named(n) == {l \in Lan : nameOf[l] = n}

\* The watch brings the cache up to date with what is stored under a name and
\* enqueues the name.
CacheSync(h, n) ==
    /\ \E l \in Named(n) : cache[h][l] # ViewOf(l)
    /\ cache' = [cache EXCEPT ![h] =
           [l \in Lan |-> IF l \in Named(n) THEN ViewOf(l) ELSE @[l]]]
    /\ queue' = [queue EXCEPT ![h] = @ \union {n}]
    /\ UNCHANGED <<apiVars, listerVars, worker, netns, events, cleaned>>

\* The periodic resync enqueues what is cached.
Resync(h, n) ==
    /\ events < MaxEvents
    /\ events' = events + 1
    /\ n \notin queue[h]
    /\ \E l \in Named(n) : Exists(cache[h][l].phase)
    /\ queue' = [queue EXCEPT ![h] = @ \union {n}]
    /\ UNCHANGED <<apiVars, listerVars, cache, worker, netns, cleaned>>

Requeue(h) == queue' = [queue EXCEPT ![h] = @ \union {nameOf[worker[h].lan]}]

-----------------------------------------------------------------------------
\* Reconcile.

Goto(h, pc) == worker' = [worker EXCEPT ![h].pc = pc]
Return(h) == worker' = [worker EXCEPT ![h] = IdleWorker]

\* Mutants of Plan: a live object is sent without a finalizer; the cleanup is left
\* out; the finalizer goes first.
Plan_NoFinalizer(h, v) == IF v.phase = "live" THEN "sendAdd" ELSE "cleanup"
Plan_SendFirst(h, v) ==
    IF v.phase = "live"
    THEN IF h \in v.fins THEN "sendAdd" ELSE "addFin"
    ELSE "sendRemove"
Plan_ReleaseFirst(h, v) ==
    IF v.phase = "live"
    THEN IF h \in v.fins THEN "sendAdd" ELSE "addFin"
    ELSE "delFin"

\* What Reconcile does with the object it has read.
Plan(h, v) ==
    IF v.phase = "live"
    THEN IF h \in v.fins THEN "sendAdd" ELSE "addFin"
    ELSE "cleanup"

\* Mutant: it waits until its finalizer is the last one.
NothingToDo_UnlessLast(h, v) == v.phase = "deleting" /\ v.fins # {h}

\* The deletion branch does nothing unless the finalizer is there.
NothingToDo(h, v) == v.phase = "deleting" /\ h \notin v.fins

\* The worker takes a key and reads the object from the cache.
Reconcile(h, n) ==
    /\ worker[h].pc = "idle"
    /\ n \in queue[h]
    /\ queue' = [queue EXCEPT ![h] = @ \ {n}]
    /\ LET found == {l \in Named(n) : /\ Exists(cache[h][l].phase)
                                      /\ ~NothingToDo(h, cache[h][l])}
       IN  IF found = {}
           THEN UNCHANGED worker
           ELSE \E l \in found : worker' = [worker EXCEPT ![h] =
                    [pc |-> Plan(h, cache[h][l]), lan |-> l, seen |-> cache[h][l]]]
    /\ UNCHANGED <<apiVars, listerVars, cache, netns, events, cleaned>>

\* Mutant: all namespaces of the host go.
Cleanup_AllNs(h) ==
    /\ worker[h].pc = "cleanup"
    /\ netns' = [netns EXCEPT ![h] = {}]
    /\ cleaned' = [cleaned EXCEPT ![h] = @ \union {worker[h].lan}]
    /\ Goto(h, "sendRemove")
    /\ UNCHANGED <<apiVars, listerVars, cache, queue, events>>

\* interfaces.Remove deletes the namespace with all that is in it.  Its result
\* is ignored; when it can fail is the subject of EnsureLan.
Cleanup(h) ==
    /\ worker[h].pc = "cleanup"
    /\ netns' = [netns EXCEPT ![h] = @ \ {nsOf[worker[h].lan]}]
    /\ cleaned' = [cleaned EXCEPT ![h] = @ \union {worker[h].lan}]
    /\ Goto(h, "sendRemove")
    /\ UNCHANGED <<apiVars, listerVars, cache, queue, events>>

SendRemove(h) ==
    /\ worker[h].pc = "sendRemove"
    /\ CanSend(rmCh, h)
    /\ RemovChanSend(h, worker[h].lan)
    /\ Goto(h, "delFin")
    /\ UNCHANGED <<apiVars, addCh, deviceList, offer, round, plugins>>
    /\ UNCHANGED <<cache, queue, netns, events, cleaned>>

SendAdd(h) ==
    /\ worker[h].pc = "sendAdd"
    /\ CanSend(addCh, h)
    /\ AddChanSend(h, worker[h].lan)
    /\ Return(h)
    /\ UNCHANGED <<apiVars, rmCh, deviceList, offer, round, plugins>>
    /\ UNCHANGED <<cache, queue, netns, events, cleaned>>

\* Mutant: the list holds only this host's entry, as the commented-out merge patch.
NewFins_OwnOnly(h) == IF worker[h].pc = "addFin" THEN {h} ELSE {}

\* Mutant: a patch of the whole list instead of an Update.
CanStore_MergePatch(h) == Accepted_MergePatch(worker[h].lan, worker[h].seen)

\* The list Reconcile writes: AddFinalizer or RemoveFinalizer on what it read.
Updating(h) == worker[h].pc \in {"addFin", "delFin"}
NewFins(h) ==
    IF worker[h].pc = "addFin" THEN worker[h].seen.fins \union {h}
                               ELSE worker[h].seen.fins \ {h}
CanStore(h) == Accepted(worker[h].lan, worker[h].seen)

UpdateOK(h) ==
    /\ Updating(h)
    /\ CanStore(h)
    /\ StoreFins(worker[h].lan, NewFins(h))
    /\ Return(h)
    /\ UNCHANGED <<listerVars, cache, queue, netns, events, cleaned>>

\* Mutant: the error is logged and not returned.
UpdateFails_Swallowed(h) ==
    /\ Updating(h)
    /\ Return(h)
    /\ UNCHANGED <<apiVars, listerVars, cache, queue, netns, events, cleaned>>

\* Conflict, NotFound, or any transient error: Reconcile returns the error and
\* the key is queued again.
UpdateFails(h) ==
    /\ Updating(h)
    /\ Return(h)
    /\ Requeue(h)
    /\ UNCHANGED <<apiVars, listerVars, cache, netns, events, cleaned>>

\* The Update is stored but its answer is lost, which looks the same here.
UpdateAnswerLost(h) ==
    /\ Updating(h)
    /\ CanStore(h)
    /\ StoreFins(worker[h].lan, NewFins(h))
    /\ Return(h)
    /\ Requeue(h)
    /\ UNCHANGED <<listerVars, cache, netns, events, cleaned>>

\* The rest of Reconcile after its read.
WorkerStep(h) ==
    \/ Cleanup(h)
    \/ SendRemove(h)
    \/ SendAdd(h)
    \/ UpdateOK(h)
    \/ UpdateFails(h)
    \/ UpdateAnswerLost(h)

-----------------------------------------------------------------------------
\* The kubelet (external) asks the plugin of a resource to allocate its device;
\* Ensure makes the namespace of the LAN the plugin holds, and what is in it.
Allocate(h, r) ==
    /\ h \in PodHost
    /\ plugins[h][r] # None
    /\ nsOf[plugins[h][r]] \notin netns[h]
    /\ netns' = [netns EXCEPT ![h] = @ \union {nsOf[plugins[h][r]]}]
    /\ UNCHANGED <<apiVars, listerVars, cache, queue, worker, events, cleaned>>

\* Mutant: only what changes from now on is reconciled.
NewProcess_NoList(h) ==
    /\ ListerReset(h)
    /\ cache' = [cache EXCEPT ![h] = [l \in Lan |-> ViewOf(l)]]
    /\ queue' = [queue EXCEPT ![h] = {}]
    /\ worker' = [worker EXCEPT ![h] = IdleWorker]
    /\ UNCHANGED <<apiVars, netns, cleaned>>

\* The process is new: it lists the objects and queues them all.  What it made
\* in the kernel outlives it.
NewProcess(h) ==
    /\ ListerReset(h)
    /\ cache' = [cache EXCEPT ![h] = [l \in Lan |-> ViewOf(l)]]
    /\ queue' = [queue EXCEPT ![h] = {nameOf[l] : l \in {k \in Lan : Exists(phase[k])}}]
    /\ worker' = [worker EXCEPT ![h] = IdleWorker]
    /\ UNCHANGED <<apiVars, netns, cleaned>>

\* A crash or a rollout, at any point.  This includes the fatal error of the
\* Go runtime when NewPlugin reads DeviceList while Discover writes it.
Restart(h) ==
    /\ events < MaxEvents
    /\ events' = events + 1
    /\ NewProcess(h)

\* A plugin that NewPlugin returned as nil is called by the manager: panic.
PanicOnNil(h) ==
    /\ \E r \in Resource : NilPlugin(h, r)
    /\ NewProcess(h)
    /\ UNCHANGED events

-----------------------------------------------------------------------------
ListerStep(h) == (Discover(h) \/ Manager(h)) /\ UNCHANGED <<apiVars, daemonVars>>

HostNext(h) ==
    \/ \E n \in Name : CacheSync(h, n) \/ Resync(h, n) \/ Reconcile(h, n)
    \/ WorkerStep(h)
    \/ \E r \in Resource : Allocate(h, r)
    \/ Restart(h)
    \/ PanicOnNil(h)
    \/ ListerStep(h)

Next ==
    \/ \E l \in Lan : Create(l) \/ Delete(l)
    \/ \E h \in Host : HostNext(h)

Spec == Init /\ [][Next]_vars

\* The watch delivers, the queue is first in first out, the worker goes on, every
\* Update is answered and one that is tried again and again succeeds in the end.
\* Users, the resync, the kubelet and crashes owe nothing.
Fairness ==
    \A h \in Host :
        /\ \A n \in Name : WF_vars(CacheSync(h, n)) /\ SF_vars(Reconcile(h, n))
        /\ WF_vars(WorkerStep(h))
        /\ SF_vars(UpdateOK(h))
        /\ WF_vars(PanicOnNil(h))
        /\ ListerFairness(h)

FairSpec == Spec /\ Fairness

-----------------------------------------------------------------------------
\* Types of all variables.
TypeOK ==
    /\ phase \in [Lan -> Phase]
    /\ fins \in [Lan -> SUBSET Host]
    /\ ListerTypeOK
    /\ cache \in [Host -> [Lan -> View]]
    /\ queue \in [Host -> SUBSET Name]
    /\ worker \in [Host -> [pc : PC, lan : Optional, seen : View]]
    /\ \A h \in Host : worker[h].pc # "idle" => worker[h].lan \in Lan
    /\ netns \in [Host -> SUBSET Ns]
    /\ events \in 0..MaxEvents
    /\ cleaned \in [Host -> SUBSET Lan]

\* The host is on the object's finalizer list, or has already removed the
\* namespace it had for it.
Answered(h, l) == h \in fins[l] \/ l \in cleaned[h]

Ended(l) == phase[l] \in {"deleting", "gone"}

\* An object nobody holds any more, or does not hold yet, has no finalizers.
FinalizersInUse ==
    \A l \in Lan : phase[l] \in {"absent", "gone"} => fins[l] = {}

\* Namespaces are only removed for objects users have deleted.
CleanedIsEnded ==
    \A h \in Host : \A l \in cleaned[h] : Ended(l)

\* A copy under deletion tells the truth about that, and one with this host's
\* finalizer still has an answer for it.
CacheSafe(h) ==
    \A l \in Lan :
        /\ cache[h][l].phase = "deleting" => Ended(l)
        /\ h \in cache[h][l].fins => Answered(h, l)

\* The worker adds a finalizer to what it saw live, sends what this host answers
\* for, and takes the steps of the deletion branch in their order.
WorkerSafe(h) ==
    LET w == worker[h] IN
    /\ w.pc = "addFin" => w.seen.phase = "live"
    /\ w.pc = "sendAdd" => Answered(h, w.lan)
    /\ w.pc \in {"cleanup", "sendRemove", "delFin"} =>
           w.seen.phase = "deleting" /\ h \in w.seen.fins /\ Ended(w.lan)
    /\ w.pc \in {"sendRemove", "delFin"} => w.lan \in cleaned[h]

\* What a host may still do with an old copy of an object is harmless
\* (dset/main.go:52-104).
CopiesAreSafe ==
    /\ FinalizersInUse
    /\ CleanedIsEnded
    /\ \A h \in Host : CacheSafe(h) /\ WorkerSafe(h)

\* Reconcile writes its finalizer before it sends a LAN to the lister
\* (dset/main.go:69-73 and 104), and takes it off only after interfaces.Remove
\* (80-86): whatever a host still knows or has made for a LAN - a queued or
\* listed spec, a running plugin, a namespace - some LAN object answers for it.
\* Stale caches, lost answers, restarts and full channels do not break this.
EveryTraceAnswered ==
    \A h \in Host :
        /\ \A l \in Known(h) : Answered(h, l)
        /\ \A ns \in netns[h] : \E l \in Lan : nsOf[l] = ns /\ Answered(h, l)

\* A LAN object is gone only when every host that ever advertised it, or made a
\* namespace that only it uses, has run interfaces.Remove for it: the concurrent
\* whole-list Updates of the hosts never lose an entry (dset/main.go:69-73, 84-88).
SoleUser(l) == \A m \in Lan : nsOf[m] = nsOf[l] => m = l
NoHostSkipped ==
    \A l \in Lan : phase[l] = "gone" =>
        \A h \in Host :
            (l \in Known(h) \/ (SoleUser(l) /\ nsOf[l] \in netns[h])) => l \in cleaned[h]

\* A finalizer leaves the list only while the object is being deleted and after
\* its own host has removed the namespace; no host ever drops the entry of
\* another one (dset/main.go:77-88).
ReleaseAfterCleanup ==
    [][\A l \in Lan, h \in Host :
        h \in fins[l] \ fins'[l] => phase[l] = "deleting" /\ l \in cleaned[h]]_vars

\* Once an object is being deleted no host puts a finalizer on it, however old
\* the copy it works from (dset/main.go:59-74): deletion only gets closer.
NoHoldAfterDelete ==
    [][\A l \in Lan : phase[l] = "deleting" => fins'[l] \subseteq fins[l]]_vars

\* Once a host has been told of a live LAN the namespace it has for it stays: not
\* even the cleanup of the object that had the name and the namespace before, run
\* again from an old copy, by a late retry or after a restart, takes it away, for
\* by then the host has a newer copy (dset/main.go:52-58 and 75-80).  Objects of
\* other names are to have other namespaces.
SoleName(l) == \A m \in Lan : nsOf[m] = nsOf[l] => nameOf[m] = nameOf[l]
LiveNamespaceKept ==
    [][\A l \in Lan, h \in Host :
        phase[l] = "live" /\ SoleName(l) /\ nsOf[l] \in netns[h] =>
            nsOf[l] \in netns'[h] \/ l \notin Known(h)]_vars

\* A deletion completes: every host with a finalizer gets to cleanup and Update,
\* though it may have to wait for the lister to make room in a channel, for the
\* cache, or for the other hosts' Updates (dset/main.go:75-97).
DeletionCompletes ==
    \A l \in Lan : phase[l] = "deleting" ~> phase[l] = "gone"

\* A LAN that stays is in the end listed on every host, ready to be advertised
\* ("so that every worker has the spoke resrouce available", design.md:36).
Listed(h, l) == \A r \in ResOf(l) : deviceList[h][r] = l
EventuallyListed ==
    \A l \in Lan : <>[](phase[l] = "live") => <>[](\A h \in Host : Listed(h, l))

\* And in the end the plugins that allocate for its spokes hold its own spec.
Served(h, l) == \A r \in ResOf(l) : plugins[h][r] = l
EventuallyServed ==
    \A l \in Lan : <>[](phase[l] = "live") => <>[](\A h \in Host : Served(h, l))

\* The daemon set implements LanLifecycle: finalizers are the holders, and a host
\* offers the LANs its lister or manager knows.
Lifecycle == INSTANCE LanLifecycle WITH
    holders <- fins,
    offering <- [h \in Host |-> Known(h)]
LifecycleSpec == Lifecycle!Spec

\* design.md:49-51: when the CR is removed, its namespace is removed.
NamespaceRemovedWithCR ==
    \A l \in Lan, h \in Host :
        phase[l] = "gone" /\ SoleUser(l) => nsOf[l] \notin netns[h]
=============================================================================
