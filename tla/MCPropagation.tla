--------------------------- MODULE MCPropagation ----------------------------
(* Small instances of Propagation for TLC. *)
EXTENDS PropagationClaims

NoLabels == [k \in {} |-> Nil]
Team(v) == [k \in {"team"} |-> v]

\* The namespaces of the sources have no labels, the others are of two teams.
SourceApart ==
    [ns \in Namespaces |->
        IF ns \in SourceNamespaces THEN NoLabels ELSE IF ns % 2 = 0 THEN Team("a") ELSE Team("b")]

\* The sources' contents: they differ from each other, or are one, or have two entries.
OneEntry == [ns \in SourceNamespaces |-> [k \in {"k1"} |-> "v1"]]
Different == [ns \in SourceNamespaces |-> [k \in {"k1"} |-> IF ns = 1 THEN "v1" ELSE "v2"]]
TwoEntries == [ns \in SourceNamespaces |-> [k \in {"k1", "k2"} |-> "v1"]]

Requirement(operator, values) == [key |-> "team", operator |-> operator, values |-> values]
Expression(operator, values) ==
    [matchLabels |-> NoLabels, matchExpressions |-> {Requirement(operator, values)}]

Everything == [matchLabels |-> NoLabels, matchExpressions |-> {}]
AnyTeam == Expression("Exists", {})
TeamA == [matchLabels |-> Team("a"), matchExpressions |-> {}]
TeamB == [matchLabels |-> NoLabels,
          matchExpressions |-> {Requirement("NotIn", {"a"}), Requirement("In", {"a", "b"})}]
\* Admitted, and refused by the labels library.
NotASelector == Expression("In", {})

BaseSpec ==
    [source |-> 1, dataKeys |-> {}, selector |-> AnyTeam, strategy |-> "rolling",
     batchSize |-> 1, conflictPolicy |-> "overwrite", prune |-> Nil, resync |-> Nil]

\* Periodic resync, the shortest period validation allows.
ResyncSpec == [BaseSpec EXCEPT !.resync = 10]

RollingOnly == [c \in CRs |-> {BaseSpec}]

BothResyncSpecs == [c \in CRs |-> {ResyncSpec, [ResyncSpec EXCEPT !.strategy = "immediate"]}]

\* Only the required fields, so that the rest is defaulted (rolling, prune,
\* overwrite), and an immediate propagation that detaches and skips.
DetachSpec == [BaseSpec EXCEPT !.strategy = "immediate", !.prune = FALSE, !.conflictPolicy = "skip"]
MinimalSpec == [BaseSpec EXCEPT !.strategy = Nil, !.batchSize = Nil, !.conflictPolicy = Nil]

InterferenceSpecs == [c \in CRs |-> {MinimalSpec, DetachSpec}]

\* Here the second one selects every namespace, that of the source included,
\* and the first may be given a selector that cannot be converted.
LifecycleSpecs ==
    [c \in CRs |-> {MinimalSpec, [DetachSpec EXCEPT !.selector = Everything],
                    [MinimalSpec EXCEPT !.selector = NotASelector]}]

\* Rolling propagations that differ in what they select of the source and the cluster.
RolloutSpecs ==
    [c \in CRs |->
        {BaseSpec,
         [BaseSpec EXCEPT !.dataKeys = {"k1"}, !.conflictPolicy = "skip"],
         [BaseSpec EXCEPT !.selector = TeamA, !.batchSize = 2]}]

\* The same, and a change of strategy in the middle of a rollout.
UpdatesSpecs ==
    [c \in CRs |-> RolloutSpecs[c] \cup {[BaseSpec EXCEPT !.strategy = "immediate", !.dataKeys = {"k1"}]}]

\* Two immediate propagations of different sources to different teams. The
\* first also selects the namespace of the second one's source.
NeighbourSpecs ==
    [c \in CRs |->
        {IF c = "p" THEN [ResyncSpec EXCEPT !.strategy = "immediate", !.selector = TeamA]
         ELSE [ResyncSpec EXCEPT !.strategy = "immediate", !.selector = TeamB,
                                 !.source = 3, !.prune = FALSE]}]
NeighbourLabels == [[ns \in Namespaces |-> NoLabels] EXCEPT ![2] = Team("b"), ![3] = Team("a")]

\* The source is exchanged for another one.
SourceChangeSpecs ==
    [c \in CRs |-> {[BaseSpec EXCEPT !.strategy = "immediate", !.source = ns] : ns \in SourceNamespaces}]

SkipSpecs == [c \in CRs |-> {[ResyncSpec EXCEPT !.conflictPolicy = "skip"]}]
=============================================================================
