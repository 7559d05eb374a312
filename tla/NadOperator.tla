---------------------------- MODULE NadOperator ----------------------------
(***************************************************************************)
(* The LAN operator (internal/controller/lan_controller.go): for every     *)
(* spoke of a LAN it creates two network-attachment-definitions (NADs) in  *)
(* the LAN's Kubernetes namespace, owned by the LAN object.                *)
(*                                                                         *)
(* The operator works from two caches, of LANs and of NADs, and both       *)
(* watches queue LANs: a change of a NAD queues the name of its owner.     *)
(* NADs are never deleted by the operator; the garbage collector of        *)
(* Kubernetes deletes those whose owner object is gone.                    *)
(*                                                                         *)
(* The daemon sets appear only as the finalizers that keep a deleted LAN   *)
(* for a while.                                                            *)
(***************************************************************************)
EXTENDS LanApi, Naturals, Sequences

CONSTANTS
    Kind,       \* the definitions of a spoke: macvtap and veth
    Space,      \* Kubernetes namespaces
    spaceOf,    \* [Name -> Space], the namespace part of namespace/name
    NoLan,      \* no LAN
    MaxFailures,\* bounds on failing Creates
    MaxRestarts,\* on restarts of the operator
    MaxFeed     \* and on changes of NADs on their way to the operator

ASSUME OperatorAssumption ==
    /\ spaceOf \in [Name -> Space]
    /\ NoLan \notin Lan
    /\ {MaxFailures, MaxRestarts, MaxFeed} \subseteq Nat

VARIABLES
    nads,       \* the NADs in the API server
    feed,       \* their changes on the way to the operator, in order
    lanCache,   \* the operator's copy of the LAN objects: those that exist
    nadCache,   \* and of the NADs
    queue,      \* names to reconcile
    todo,       \* Reconcile: its LAN and the NADs it is to create
    failures,
    restarts

operatorVars == <<feed, lanCache, nadCache, queue, todo, failures, restarts>>
vars == <<apiVars, nads, operatorVars>>

Named(n) == {l \in Lan : nameOf[l] = n}

\* NADs by their owner; the API server keeps one per namespace and name.
Nad == [name : Spoke \X Kind, space : Space, owner : Lan \union {NoLan}]
KeyOf(d) == <<d.space, d.name>>
WithKey(k, ds) == {d \in ds : KeyOf(d) = k}

\* LANSpec.GetNADs: one for each kind of every spoke.
GetNADs(l, owner) ==
    {[name |-> r, space |-> spaceOf[nameOf[l]], owner |-> owner] : r \in spokesOf[l] \X Kind}

\* Mutant: created without an owner.
Owner_None(l) == NoLan

\* SetControllerReference: the object that was read, by its UID.
Owner(l) == l

Done == [lan |-> NoLan, new |-> {}]

Init ==
    /\ ApiInit
    /\ nads = {}
    /\ feed = << >>
    /\ lanCache = {}
    /\ nadCache = {}
    /\ queue = {}
    /\ todo = Done
    /\ failures = 0
    /\ restarts = 0

-----------------------------------------------------------------------------
\* Users and daemon sets.
Create(l) == UserCreate(l) /\ UNCHANGED <<nads, operatorVars>>
Delete(l) == UserDelete(l) /\ UNCHANGED <<nads, operatorVars>>

Hold(l, h) ==
    /\ phase[l] = "live"
    /\ h \notin fins[l]
    /\ StoreFins(l, fins[l] \union {h})
    /\ UNCHANGED <<nads, operatorVars>>

Release(l, h) ==
    /\ phase[l] = "deleting"
    /\ h \in fins[l]
    /\ StoreFins(l, fins[l] \ {h})
    /\ UNCHANGED <<nads, operatorVars>>

\* Every change of the NADs is sent to the operator; an accepted Create or
\* Delete is one change.
Send(d, added) ==
    /\ Len(feed) < MaxFeed
    /\ nads' = IF added THEN nads \union {d} ELSE nads \ {d}
    /\ feed' = Append(feed, [nad |-> d, added |-> added])

\* The garbage collector looks for owners by UID.
Collect(d) ==
    /\ d \in nads
    /\ d.owner \in Lan
    /\ ~Exists(phase[d.owner])
    /\ Send(d, FALSE)
    /\ UNCHANGED <<apiVars, lanCache, nadCache, queue, todo, failures, restarts>>

-----------------------------------------------------------------------------
\* The watches.  Of a LAN only the last change matters; one name is caught up at
\* a time.
Living(n) == {l \in Named(n) : Exists(phase[l])}
LanSync(n) ==
    /\ lanCache \intersect Named(n) # Living(n)
    /\ lanCache' = (lanCache \ Named(n)) \union Living(n)
    /\ queue' = queue \union {n}
    /\ UNCHANGED <<apiVars, nads, feed, nadCache, todo, failures, restarts>>

\* Mutant: only LANs are watched.
OwnerNames_None(ds) == {}

\* Owns: the name of the owner of a changed NAD is queued.
OwnerNames(ds) == {nameOf[l] : l \in {d.owner : d \in ds} \ {NoLan}}
NadSync ==
    /\ feed # << >>
    /\ LET e == Head(feed)
       IN  /\ nadCache' = IF e.added THEN nadCache \union {e.nad} ELSE nadCache \ {e.nad}
           /\ queue' = queue \union OwnerNames({e.nad})
    /\ feed' = Tail(feed)
    /\ UNCHANGED <<apiVars, nads, lanCache, todo, failures, restarts>>

\* The periodic resync queues what is cached.
Resync(n) ==
    /\ lanCache \intersect Named(n) # {}
    /\ n \notin queue
    /\ queue' = queue \union {n}
    /\ UNCHANGED <<apiVars, nads, feed, lanCache, nadCache, todo, failures, restarts>>

-----------------------------------------------------------------------------
\* Reconcile.  The list is not restricted to the namespace of the LAN, and the
\* definitions are looked up by name.  Get and List are one step: the two caches
\* come up to date independently, so what comes in between may as well come
\* before (NADs) or after (LANs).
Missing(l) == {d \in GetNADs(l, Owner(l)) : \A e \in nadCache : e.name # d.name}
Work(l) == IF Missing(l) = {} THEN Done ELSE [lan |-> l, new |-> Missing(l)]

Reconcile(n) ==
    /\ todo = Done
    /\ n \in queue
    /\ queue' = queue \ {n}
    /\ \/ lanCache \intersect Named(n) = {} /\ UNCHANGED todo
       \/ \E l \in lanCache \intersect Named(n) : todo' = Work(l)
    /\ UNCHANGED <<apiVars, nads, feed, lanCache, nadCache, failures, restarts>>

\* One Create is over, and Reconcile with the last one.
Tried(d) ==
    todo' = IF todo.new = {d} THEN Done ELSE [todo EXCEPT !.new = @ \ {d}]

\* Mutant: created under a generated name.
CreateNad_NewName(d) ==
    /\ d \in todo.new
    /\ Send(d, TRUE)
    /\ Tried(d)
    /\ UNCHANGED <<apiVars, lanCache, nadCache, queue, failures, restarts>>

\* The Create of a NAD the API server has already is refused.  Errors are logged
\* and nothing else.
CreateNad(d) ==
    /\ d \in todo.new
    /\ IF WithKey(KeyOf(d), nads) = {} THEN Send(d, TRUE) ELSE UNCHANGED <<nads, feed>>
    /\ Tried(d)
    /\ UNCHANGED <<apiVars, lanCache, nadCache, queue, failures, restarts>>

CreateFails(d) ==
    /\ d \in todo.new
    /\ failures < MaxFailures
    /\ failures' = failures + 1
    /\ Tried(d)
    /\ UNCHANGED <<apiVars, nads, feed, lanCache, nadCache, queue, restarts>>

\* A new process lists everything and queues it.
Restart ==
    /\ restarts < MaxRestarts
    /\ restarts' = restarts + 1
    /\ lanCache' = {l \in Lan : Exists(phase[l])}
    /\ nadCache' = nads
    /\ feed' = << >>
    /\ queue' = {nameOf[l] : l \in lanCache'} \union OwnerNames(nads)
    /\ todo' = Done
    /\ UNCHANGED <<apiVars, nads, failures>>

-----------------------------------------------------------------------------
Next ==
    \/ \E l \in Lan : Create(l) \/ Delete(l)
    \/ \E l \in Lan, h \in Host : Hold(l, h) \/ Release(l, h)
    \/ \E d \in nads : Collect(d)
    \/ \E n \in Name : LanSync(n) \/ Resync(n) \/ Reconcile(n)
    \/ NadSync
    \/ \E d \in todo.new : CreateNad(d) \/ CreateFails(d)
    \/ Restart

Spec == Init /\ [][Next]_vars

\* The watches deliver, the queue is first in first out, Creates are answered and
\* the garbage collector comes round.  The resync (every ten hours) is not counted
\* on.
Fairness ==
    /\ \A n \in Name : WF_vars(LanSync(n)) /\ SF_vars(Reconcile(n))
    /\ WF_vars(NadSync)
    /\ WF_vars(\E d \in todo.new : CreateNad(d))
    /\ WF_vars(\E d \in nads : Collect(d))

FairSpec == Spec /\ Fairness

-----------------------------------------------------------------------------
\* Types of all variables; one NAD per key, one LAN per name.
TypeOK ==
    /\ phase \in [Lan -> Phase]
    /\ fins \in [Lan -> SUBSET Host]
    /\ nads \subseteq Nad
    /\ nadCache \subseteq Nad
    /\ \A d, e \in nads : KeyOf(d) = KeyOf(e) => d = e
    /\ feed \in Seq([nad : Nad, added : BOOLEAN])
    /\ Len(feed) <= MaxFeed
    /\ lanCache \subseteq Lan
    /\ \A l, m \in lanCache : nameOf[l] = nameOf[m] => l = m
    /\ queue \subseteq Name
    /\ \/ todo = Done
       \/ todo.lan \in Lan /\ todo.new \in (SUBSET Nad) \ {{}}
    /\ failures \in 0..MaxFailures
    /\ restarts \in 0..MaxRestarts

\* "the operator creates two net-attach-def for each spoke in the CR"
\* (design.md:32): a LAN that stays gets its own, also when it is made again while
\* those of the deleted object wait for the garbage collector, unless a Create
\* fails (lan_controller.go:59-86).
Defined(l) == GetNADs(l, l) \subseteq nads
EventuallyDefined ==
    \A l \in Lan :
        <>[](phase[l] = "live" /\ failures = 0) => <>[]Defined(l)

\* A definition that a live LAN lacks is never forgotten, unless a Create fails:
\* its LAN is still to be reconciled, it is about to be created, or one of a
\* former object hides it, whose deletion queues the LAN again when the operator
\* hears of it (lan_controller.go:59-86, 97-102).  LANs share no spoke names
\* (README.md:114-119).
SpokesApart(l) ==
    \A m \in Lan : nameOf[m] # nameOf[l] => spokesOf[m] \intersect spokesOf[l] = {}
Hides(e, d) ==
    /\ e.name = d.name
    /\ e.owner \in Named(nameOf[d.owner]) \ {d.owner}
NoneForgotten ==
    failures = 0 =>
        \A l \in {m \in Lan : phase[m] = "live" /\ SpokesApart(m)} :
            \A d \in GetNADs(l, l) \ nads :
                \/ l \notin lanCache
                \/ nameOf[l] \in queue
                \/ d \in todo.new
                \/ \E e \in nads : Hides(e, d)
                \/ \E i \in DOMAIN feed : ~feed[i].added /\ Hides(feed[i].nad, d)

\* "all corresponding net-attach-def are also removed" (design.md:52): when all
\* LANs are gone no definition stays, though Reconcile may go on creating them
\* from what it has read (lan_controller.go:56-79).
NothingStays ==
    <>[](\A l \in Lan : ~Exists(phase[l])) => <>[](nads = {})
=============================================================================
