----------------------------- MODULE Selectors ------------------------------
(***************************************************************************)
(* Which namespaces a namespaceSelector selects: listTargets               *)
(* (controller.go) and ListNamespacesBySelector                            *)
(* (controller_runtime_client.go) over the labels library of Kubernetes.   *)
(*                                                                         *)
(* The CRD admits the four operators with any list of values; only the     *)
(* conversion at reconcile time finds out that In needs a value and Exists *)
(* must have none.                                                         *)
(***************************************************************************)
CONSTANTS
    LabelKeys,      \* label names
    LabelValues     \* label values

\* The labels of a namespace, and a selector's matchLabels.
LabelMaps == UNION {[S -> LabelValues] : S \in SUBSET LabelKeys}

Requirements ==
    [key      : LabelKeys,
     operator : {"In", "NotIn", "Exists", "DoesNotExist"},
     values   : SUBSET LabelValues]

LabelSelectors == [matchLabels : LabelMaps, matchExpressions : SUBSET Requirements]

\* labels.NewRequirement: the operators on values need one, the others refuse any.
NewRequirement(r) == r.operator \in {"In", "NotIn"} <=> r.values # {}

\* Requirement.Matches: a label that is absent satisfies NotIn.
Matches(r, labelMap) ==
    LET has == r.key \in DOMAIN labelMap
    IN  CASE r.operator = "In"           -> has /\ labelMap[r.key] \in r.values
          [] r.operator = "NotIn"        -> has => labelMap[r.key] \notin r.values
          [] r.operator = "Exists"       -> has
          [] r.operator = "DoesNotExist" -> ~has

\* ListNamespacesBySelector: matchLabels are requirements too (Equals).
AllRequirements(selector) ==
    {[key |-> k, operator |-> "In", values |-> {selector.matchLabels[k]}] :
        k \in DOMAIN selector.matchLabels} \cup selector.matchExpressions

\* The selector can be converted; otherwise listing is an error.
Convertible(selector) == \A r \in AllRequirements(selector) : NewRequirement(r)

\* Every requirement holds; an empty selector selects every namespace.
Selects(selector, labelMap) ==
    \A r \in AllRequirements(selector) : Matches(r, labelMap)
=============================================================================
