--------------------------- MODULE RolloutPlanner ---------------------------
(***************************************************************************)
(* The in-memory rollout planner (rollout.go): for each ConfigPropagation, *)
(* the content hash being rolled out and the namespaces already completed. *)
(* An entry of the planner's states map is Nil or [hash, completed]. Every *)
(* method holds the planner's mutex from start to end, so each one is a    *)
(* function of the entry.                                                  *)
(***************************************************************************)
EXTENDS SpecRules

RolloutStates == [hash : Hashes, completed : SUBSET Namespaces] \cup {Nil}

\* ensureStateLocked that keeps the completed set when the content changes.
EnsureStateSticky(state, desiredHash) ==
    IF state = Nil
    THEN [hash |-> desiredHash, completed |-> {}]
    ELSE [state EXCEPT !.hash = desiredHash]

\* rollout.go, ensureStateLocked: a new content hash restarts the rollout.
EnsureState(state, desiredHash) ==
    IF state # Nil /\ state.hash = desiredHash
    THEN state
    ELSE [hash |-> desiredHash, completed |-> {}]

\* Plan that forgets to drop what is no longer a target.
PlannedStateKeepingAll(state, desiredHash, targets) == EnsureState(state, desiredHash)

\* rollout.go, Plan: completed namespaces that are no longer targets are dropped.
PlannedState(state, desiredHash, targets) ==
    LET ensured == EnsureState(state, desiredHash)
    IN  [ensured EXCEPT !.completed = @ \cap targets]

\* Plan that looks at the size of the batch before it takes the next target.
NextBatchTooMany(completed, batchSize, targets) ==
    LET pending == targets \ completed
        limit   == IF batchSize < 1 THEN 1 ELSE batchSize
    IN  {ns \in pending : Cardinality({m \in pending : m < ns}) <= limit}

\* rollout.go, Plan: the first batchSize targets, in order, that are not completed.
NextBatch(completed, batchSize, targets) ==
    LET pending == targets \ completed
        limit   == IF batchSize < 1 THEN 1 ELSE batchSize
    IN  {ns \in pending : Cardinality({m \in pending : m < ns}) < limit}

\* rollout.go, MarkCompleted: recording nothing does not touch the state.
MarkCompleted(state, desiredHash, namespaces) ==
    LET ensured == EnsureState(state, desiredHash)
    IN  IF namespaces = {}
        THEN state
        ELSE [ensured EXCEPT !.completed = @ \cup namespaces]

\* rollout.go, CompletedNamespaces.
CompletedNamespaces(state, desiredHash) ==
    IF state = Nil \/ state.hash # desiredHash THEN {} ELSE state.completed

\* rollout.go, Forget.
Forget(state) == Nil
=============================================================================
