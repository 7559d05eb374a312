--------------------------- MODULE NamedNamespace ---------------------------
(***************************************************************************)
(* What interfaces.Ensure and interfaces.Remove promise about the network  *)
(* namespace of a LAN, without files, mounts and links.                    *)
(*                                                                         *)
(* The name stands for at most one namespace.  It passes from one to       *)
(* another only by being removed and made again, and the new one is empty. *)
(* Only who has opened a namespace changes what is in it, and it is not    *)
(* destroyed while it has the name or somebody has it open.                *)
(*                                                                         *)
(* EnsureLan implements this module.                                       *)
(***************************************************************************)
CONSTANTS Inst, Nil

VARIABLES
    named,      \* the namespace the name stands for
    held,       \* the namespaces somebody has open
    full        \* those with something in them

vars == <<named, held, full>>

Init ==
    /\ named = Nil
    /\ held = {}
    /\ full = {}

Make(k) ==
    /\ named = Nil
    /\ k \notin held \union full
    /\ named' = k
    /\ UNCHANGED <<held, full>>

Remove ==
    /\ named # Nil
    /\ named' = Nil
    /\ UNCHANGED <<held, full>>

\* Only by its name is a namespace opened.
Open ==
    /\ named # Nil
    /\ held' = held \union {named}
    /\ UNCHANGED <<named, full>>

Close ==
    /\ held' \in SUBSET held
    /\ UNCHANGED <<named, full>>

Work(k) ==
    /\ k \in held
    /\ full' = full \union {k}
    /\ UNCHANGED <<named, held>>

Destroy(k) ==
    /\ k \notin held \union {named}
    /\ full' = full \ {k}
    /\ UNCHANGED <<named, held>>

Next ==
    \/ \E k \in Inst : Make(k) \/ Work(k) \/ Destroy(k)
    \/ Remove \/ Open \/ Close

Spec == Init /\ [][Next]_vars
=============================================================================
