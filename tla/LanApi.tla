------------------------------- MODULE LanApi -------------------------------
(***************************************************************************)
(* The LAN custom resources as the Kubernetes API server keeps them.       *)
(*                                                                         *)
(* A member of Lan is one CR object, i.e. one UID: deleting a LAN and      *)
(* creating it again under the same name gives a second member of Lan      *)
(* with the same nameOf.  The spec of an object never changes, because     *)
(* ValidateUpdate rejects every update of it, so the parts of LANSpec the  *)
(* daemon set reads (the namespace and the spokes) are constant functions  *)
(* of the object.                                                          *)
(*                                                                         *)
(* The API server itself is external.  What is modelled of it is what the  *)
(* daemon set relies on: optimistic concurrency (an Update carries the     *)
(* resourceVersion it was computed from) and finalizers (an object under   *)
(* deletion stays until its finalizer list is empty).                      *)
(***************************************************************************)
CONSTANTS
    Host,       \* the workers that run the daemon set
    Lan,        \* LAN objects, one for every UID ever used
    Name,       \* namespace/name of an object: the reconcile key
    Spoke,      \* spoke names
    Ns,         \* names of network namespaces
    nameOf,     \* [Lan -> Name]
    spokesOf,   \* [Lan -> SUBSET Spoke], LANSpec.SpokeList
    nsOf        \* [Lan -> Ns], LANSpec.NS

ASSUME LanAssumption ==
    /\ nameOf \in [Lan -> Name]
    /\ nsOf \in [Lan -> Ns]
    /\ spokesOf \in [Lan -> SUBSET Spoke]
    /\ \A l \in Lan : spokesOf[l] # {}   \* Validate: at least one spoke

VARIABLES
    phase,      \* where the object is in its life
    fins        \* [Lan -> SUBSET Host]: finalizer.k8slan.io/<host> entries

apiVars == <<phase, fins>>

Phase == {"absent", "live", "deleting", "gone"}

\* What a read of the object returns, and what an Update is compared with.
\* Within the life of one object no pair of values occurs twice (finalizers
\* are only added while it is live and only removed while it is deleting),
\* so comparing views is comparing resourceVersions.
View == [phase : Phase, fins : SUBSET Host]

ViewOf(l) == [phase |-> phase[l], fins |-> fins[l]]

Exists(p) == p \in {"live", "deleting"}

-----------------------------------------------------------------------------

ApiInit ==
    /\ phase = [l \in Lan |-> "absent"]
    /\ fins = [l \in Lan |-> {}]

\* A user creates the object; defaulting and validation have accepted it.
\* The API server keeps one object per name, also while it is being deleted.
UserCreate(l) ==
    /\ phase[l] = "absent"
    /\ \A m \in Lan : nameOf[m] = nameOf[l] => ~Exists(phase[m])
    /\ phase' = [phase EXCEPT ![l] = "live"]
    /\ UNCHANGED fins

\* A user deletes the object.  ValidateDelete lets it pass: every finalizer in
\* fins has the k8slan prefix.  Without finalizers it is gone at once, otherwise
\* it gets a deletion timestamp.
UserDelete(l) ==
    /\ phase[l] = "live"
    /\ phase' = [phase EXCEPT ![l] = IF fins[l] = {} THEN "gone" ELSE "deleting"]
    /\ UNCHANGED fins

\* The API server stores a finalizer list; the last one to leave an object
\* under deletion takes the object with it.
StoreFins(l, new) ==
    /\ fins' = [fins EXCEPT ![l] = new]
    /\ phase' = [phase EXCEPT
           ![l] = IF @ = "deleting" /\ new = {} THEN "gone" ELSE @]

\* A write of the whole list without a resourceVersion (the merge patch that
\* dset/main.go keeps commented out) would always be; used by a mutant.
Accepted_MergePatch(l, seen) == Exists(phase[l])

\* An Update computed from the view `seen` is accepted iff nobody has written
\* the object since; otherwise the answer is Conflict, or NotFound.
Accepted(l, seen) == Exists(phase[l]) /\ ViewOf(l) = seen
=============================================================================
