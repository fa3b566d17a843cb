----------------------------- MODULE Ownership ------------------------------
(***************************************************************************)
(* What the finalizer protocol promises, without the controller: a         *)
(* propagation owns copies only between gaining and losing its finalizer,  *)
(* and loses it only when no copy of its source is left. Copies may be     *)
(* dropped at any time, by cleanup or by users; nobody but a guarded       *)
(* propagation makes one.                                                  *)
(***************************************************************************)
CONSTANTS
    CRs,            \* names of propagations
    Namespaces,
    SourceOf,       \* propagation -> the source it copies
    None            \* no owner

VARIABLES
    phase,          \* propagation -> where it is in its life
    owner           \* namespace -> source of the managed copy in it, or None

vars == <<phase, owner>>

Guarded == {"guarded", "deleting"}

Init ==
    /\ phase = [c \in CRs |-> "absent"]
    /\ owner = [ns \in Namespaces |-> None]

Move(c, from, to) ==
    /\ phase[c] = from
    /\ phase' = [phase EXCEPT ![c] = to]
    /\ UNCHANGED owner

Create(c) == Move(c, "absent", "new")

\* Deleted before it had the finalizer.
Withdraw(c) == Move(c, "new", "absent")

Guard(c) == Move(c, "new", "guarded")

RequestDelete(c) == Move(c, "guarded", "deleting")

Release(c) ==
    /\ \A ns \in Namespaces : owner[ns] # SourceOf[c]
    /\ Move(c, "deleting", "absent")

\* A reconcile that began before the deletion may still write.
Copy(c, ns) ==
    /\ phase[c] \in Guarded
    /\ owner' = [owner EXCEPT ![ns] = SourceOf[c]]
    /\ UNCHANGED phase

Drop(ns) ==
    /\ owner' = [owner EXCEPT ![ns] = None]
    /\ UNCHANGED phase

Next ==
    \/ \E c \in CRs :
        \/ Create(c) \/ Withdraw(c) \/ Guard(c) \/ RequestDelete(c) \/ Release(c)
        \/ \E ns \in Namespaces : Copy(c, ns)
    \/ \E ns \in Namespaces : Drop(ns)

Spec == Init /\ [][Next]_vars

\* Every copy belongs to the source of a propagation that will clean it up.
Accounted ==
    \A ns \in Namespaces : owner[ns] # None =>
        \E c \in CRs : SourceOf[c] = owner[ns] /\ phase[c] \in Guarded
=============================================================================
