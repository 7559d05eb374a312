---------------------------- MODULE LanLifecycle ----------------------------
(***************************************************************************)
(* What the daemon set promises about a LAN, without caches, queues,       *)
(* channels or retries.                                                    *)
(*                                                                         *)
(* A host holds a LAN (its finalizer is on the object) before it offers it *)
(* to pods; a live LAN is held on to; once the LAN is being deleted no     *)
(* host takes hold of it any more, every holder cleans up and then lets    *)
(* go, and the last one to let go ends the LAN.                            *)
(*                                                                         *)
(* LanDaemon implements this module.  Offering outlives cleaning up: the   *)
(* code gives no guarantee that a host that has cleaned up stops offering. *)
(***************************************************************************)
CONSTANTS Host, Lan

VARIABLES
    phase,      \* life of the object
    holders,    \* hosts the object waits for
    offering,   \* hosts that know the object on the device-plugin side
    cleaned     \* [Host -> SUBSET Lan]: where its namespace has been removed

vars == <<phase, holders, offering, cleaned>>

Init ==
    /\ phase = [l \in Lan |-> "absent"]
    /\ holders = [l \in Lan |-> {}]
    /\ offering = [h \in Host |-> {}]
    /\ cleaned = [h \in Host |-> {}]

Create(l) ==
    /\ phase[l] = "absent"
    /\ phase' = [phase EXCEPT ![l] = "live"]
    /\ UNCHANGED <<holders, offering, cleaned>>

Delete(l) ==
    /\ phase[l] = "live"
    /\ phase' = [phase EXCEPT ![l] = IF holders[l] = {} THEN "gone" ELSE "deleting"]
    /\ UNCHANGED <<holders, offering, cleaned>>

\* One host takes hold of a live LAN.
Hold(h, l) ==
    /\ phase[l] = "live"
    /\ h \notin holders[l]
    /\ holders' = [holders EXCEPT ![l] = @ \union {h}]
    /\ UNCHANGED <<phase, offering, cleaned>>

\* A host begins to offer a LAN it holds, or held until it had cleaned up.
Offer(h, l) ==
    /\ h \in holders[l] \/ l \in cleaned[h]
    /\ offering' = [offering EXCEPT ![h] = @ \union {l}]
    /\ UNCHANGED <<phase, holders, cleaned>>

\* A host stops offering some LANs: others took their place, or it crashed.
Withdraw(h) ==
    /\ offering' \in {[offering EXCEPT ![h] = S] : S \in SUBSET offering[h]}
    /\ UNCHANGED <<phase, holders, cleaned>>

\* A host removes what it has for a LAN that users have deleted.
Clean(h, l) ==
    /\ phase[l] \in {"deleting", "gone"}
    /\ cleaned' = [cleaned EXCEPT ![h] = @ \union {l}]
    /\ UNCHANGED <<phase, holders, offering>>

\* One host lets go; the last one ends the LAN.
Release(h, l) ==
    /\ phase[l] = "deleting"
    /\ h \in holders[l]
    /\ l \in cleaned[h]
    /\ holders' = [holders EXCEPT ![l] = @ \ {h}]
    /\ phase' = [phase EXCEPT ![l] = IF holders[l] = {h} THEN "gone" ELSE @]
    /\ UNCHANGED <<offering, cleaned>>

Next ==
    \/ \E l \in Lan : Create(l) \/ Delete(l)
    \/ \E h \in Host, l \in Lan : Hold(h, l) \/ Offer(h, l) \/ Clean(h, l) \/ Release(h, l)
    \/ \E h \in Host : Withdraw(h)

Spec == Init /\ [][Next]_vars
=============================================================================
