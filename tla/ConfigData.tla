----------------------------- MODULE ConfigData -----------------------------
(***************************************************************************)
(* The payload of a ConfigMap and the two pure functions the controller    *)
(* applies to it: the key filter (controller.go, computeEffective) and the *)
(* content hash written on every target (hash.go, HashData).               *)
(*                                                                         *)
(* A ConfigMap's data is a partial function from Keys to Values. The       *)
(* SHA-256 digest of the serialised data is abstracted to an injective     *)
(* image of it, with the one exception the code makes: empty data hashes   *)
(* to the empty string, which is also what reading an absent annotation    *)
(* of a Go map yields, so both are Nil here. The injectivity of the        *)
(* serialisation itself is the subject of module ContentHash.              *)
(***************************************************************************)
CONSTANTS
    Keys,       \* names of the entries of a ConfigMap
    Values,     \* contents of an entry
    Nil         \* an absent pointer, an empty string, a missing map entry

\* The possible contents of a ConfigMap's Data field.
Data == UNION {[S -> Values] : S \in SUBSET Keys}

EmptyData == [k \in {} |-> Nil]

\* hash.go, HashData: "" for empty data, otherwise a digest of the data.
HashData(data) == IF DOMAIN data = {} THEN Nil ELSE [digest |-> data]

Hashes == {Nil} \cup [digest : Data]

\* No digest is the empty string.
ASSUME DigestAssumption == Nil \notin [digest : Data]

\* controller.go, computeEffective: the selected entries that exist, or all
\* of them when no key is selected.
ComputeEffective(sourceData, selectedKeys) ==
    IF selectedKeys = {}
    THEN sourceData
    ELSE [k \in selectedKeys \cap DOMAIN sourceData |-> sourceData[k]]
=============================================================================
