---------------------------- MODULE ContentHash -----------------------------
(***************************************************************************)
(* hash.go, HashData: the text that is digested into the hash annotation.  *)
(* Go ranges over a map in any order, so the keys are collected one by one *)
(* and sorted before the text is written. The digest itself is taken to be *)
(* injective, which is how module ConfigData sees the whole function.      *)
(*                                                                         *)
(* A string is a sequence of naturals that keeps the order of the bytes:   *)
(* 0 is NUL, 1 is the line feed, the rest are letters.                     *)
(***************************************************************************)
EXTENDS Naturals, Sequences, FiniteSets, Functions

CONSTANTS
    Names,      \* keys of ConfigMaps; Kubernetes allows neither NUL nor line feed in them
    Contents    \* values of ConfigMaps

NUL  == 0
LF   == 1

ASSUME NamesAssumption ==
    /\ Names \subseteq Seq(Nat)
    /\ \A name \in Names : \A i \in DOMAIN name : name[i] > LF
\* Validity of the abstraction: no value contains a NUL character.
ASSUME ContentsAssumption ==
    /\ Contents \subseteq Seq(Nat)
    /\ \A value \in Contents : \A i \in DOMAIN value : value[i] # NUL

Maps == UNION {[S -> Contents] : S \in {T \in SUBSET Names : IsFiniteSet(T)}}

\* The order of sort.Strings: where the strings part, s ends or has the lesser byte.
Before(s, t) ==
    \E i \in DOMAIN t :
        /\ i <= Len(s) + 1
        /\ \A j \in 1 .. i - 1 : s[j] = t[j]
        /\ i <= Len(s) => s[i] < t[i]

VARIABLES
    data,       \* the argument
    rest,       \* keys the range has not visited
    keys,       \* keys collected, then keys still to be written
    text,       \* the string builder
    pc

vars == <<data, rest, keys, text, pc>>

\* Empty data returns the empty string at once.
Init ==
    /\ data \in Maps
    /\ rest = DOMAIN data
    /\ keys = <<>> /\ text = <<>>
    /\ pc = IF DOMAIN data = {} THEN "done" ELSE "collect"

Collect(key) ==
    /\ pc = "collect" /\ key \in rest
    /\ keys' = Append(keys, key)
    /\ rest' = rest \ {key}
    /\ UNCHANGED <<data, text, pc>>

\* Forgets to sort.
SortSkipped ==
    /\ pc = "collect" /\ rest = {}
    /\ pc' = "write"
    /\ UNCHANGED <<data, rest, keys, text>>

\* sort.Strings permutes the keys until none stands behind one that it is before.
Sort ==
    /\ pc = "collect" /\ rest = {}
    /\ \E place \in Bijection(DOMAIN keys, DOMAIN keys) :
            keys' = [i \in DOMAIN keys |-> keys[place[i]]]
    /\ \A i, j \in DOMAIN keys : i < j => ~Before(keys'[j], keys'[i])
    /\ pc' = "write"
    /\ UNCHANGED <<data, rest, text>>

\* Leaves out what separates one entry from the next.
LineUnterminated(key) == key \o <<NUL>> \o data[key]

Line(key) == key \o <<NUL>> \o data[key] \o <<LF>>

Write ==
    /\ pc = "write" /\ keys # <<>>
    /\ text' = text \o Line(Head(keys))
    /\ keys' = Tail(keys)
    /\ UNCHANGED <<data, rest, pc>>

Return ==
    /\ pc = "write" /\ keys = <<>>
    /\ pc' = "done"
    /\ UNCHANGED <<data, rest, keys, text>>

Next == (\E key \in Names : Collect(key)) \/ Sort \/ Write \/ Return

Spec == Init /\ [][Next]_vars

-----------------------------------------------------------------------------
\* How many keys of a map are before a key, and the key that is the i-th.
Rank(map, key) == Cardinality({k \in DOMAIN map : Before(k, key)})

KeyAt(map, i) == CHOOSE key \in DOMAIN map : Rank(map, key) = i - 1

Entry(map, key) == key \o <<NUL>> \o map[key] \o <<LF>>

\* The texts of the first i entries of a map in the order of its keys.
Prefixes(map) ==
    LET prefix[i \in 0 .. Cardinality(DOMAIN map)] ==
            IF i = 0 THEN <<>> ELSE prefix[i - 1] \o Entry(map, KeyAt(map, i))
    IN  prefix

Serialised(map) == Prefixes(map)[Cardinality(DOMAIN map)]

\* Whatever order Go ranges in, the text is the same: every entry, in key order
\* (hash.go:17-32, "stable").
Stable == pc = "done" => text = Serialised(data)

\* Different data never give the same text, although line feeds may occur in
\* values: an annotation that equals the desired hash means equal content.
Faithful == pc = "done" => \A other \in Maps : text = Serialised(other) => other = data
=============================================================================
