-------------------------- MODULE PropagationClaims -------------------------
(***************************************************************************)
(* What the repository's documents, comments and planned tests say of the  *)
(* controller and its code does not do. Each claim is quoted; the run that *)
(* refutes it shows the behaviour of the code that disagrees.              *)
(***************************************************************************)
EXTENDS PropagationOwnership

\* configmap_spec.md:105, "When a propagation is created for a valid source,
\* copies appear in all matching namespaces within the SLA window, with status
\* showing Ready": at rest, Ready (Reconciled) means that the copies exist.
ReadyMeansCopied ==
    Settled => \A c \in CRs :
        Live(c) /\ cr[c].status.conditions.reason = "Reconciled" =>
            \A ns \in Selected(cr[c].spec) : Synced(cr[c].spec, ns)

\* rollout_strategies.md:24, "Rolling schedules up to `batchSize` per iteration,
\* then advances": every selected namespace without a conflicting ConfigMap is
\* eventually served, even if others are skipped (conflictPolicy: skip).
RolloutAdvances ==
    <>[](\A c \in CRs : Live(c) => \A ns \in Selected(cr[c].spec) :
            \/ Synced(cr[c].spec, ns)
            \/ cm[ns] # Nil /\ ~ManagedFor(cm[ns], cr[c].spec.source))

\* configmap_spec.md:110, "Deleting the propagation cleans up managed copies per
\* prune policy": when every propagation is gone, no ConfigMap is managed.
DeletionLeavesNothing ==
    (\A c \in CRs : cr[c] = Nil) => \A ns \in Namespaces : cm[ns] = Nil \/ ~cm[ns].managed

\* target_selection_and_sync.md:17, "never mutate user-owned resources (guard
\* reads annotation before write)": under conflictPolicy skip no step of the
\* worker, neither the upsert nor the cleanup, changes an unmanaged ConfigMap.
UserOwnedUntouched ==
    [][pc # "idle" /\ hand.spec.conflictPolicy = "skip" /\ edits' = edits =>
        \A ns \in Namespaces :
            cm[ns] # Nil /\ ~ManagedFor(cm[ns], hand.spec.source) => cm'[ns] = cm[ns]]_vars
=============================================================================
