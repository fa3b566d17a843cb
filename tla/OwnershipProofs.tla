-------------------------- MODULE OwnershipProofs ---------------------------
(***************************************************************************)
(* The ownership protocol leaves no orphan: Accounted is an invariant of   *)
(* it, for any number of propagations, shared sources included.            *)
(***************************************************************************)
EXTENDS Ownership, TLAPS

Phases == {"absent", "new"} \cup Guarded

Shape ==
    /\ phase \in [CRs -> Phases]
    /\ owner \in [Namespaces -> {SourceOf[c] : c \in CRs} \cup {None}]

\* A move keeps every copy accounted for if its propagation stays guarded or
\* has no copies.
LEMMA MoveAccounted ==
    ASSUME Shape, Accounted, NEW c \in CRs, NEW from, NEW to \in Phases, Move(c, from, to),
           \/ to \in Guarded
           \/ from \notin Guarded
           \/ \A ns \in Namespaces : owner[ns] # SourceOf[c]
    PROVE  Shape' /\ Accounted'
<1>1. Shape'
    BY DEF Move, Shape
<1>2. /\ owner' = owner /\ phase[c] = from /\ phase'[c] = to
      /\ \A d \in CRs \ {c} : phase'[d] = phase[d]
    BY DEF Move, Shape
<1>3. Accounted'
    <2> SUFFICES ASSUME NEW ns \in Namespaces, owner[ns] # None
                 PROVE  \E d \in CRs : SourceOf[d] = owner[ns] /\ phase'[d] \in Guarded
        BY <1>2 DEF Accounted
    <2>1. PICK d \in CRs : SourceOf[d] = owner[ns] /\ phase[d] \in Guarded
        BY DEF Accounted
    <2> QED BY <1>2, <2>1
<1> QED BY <1>1, <1>3

\* Every step keeps every copy accounted for.
LEMMA StepAccounted == Shape /\ Accounted /\ [Next]_vars => Shape' /\ Accounted'
<1> SUFFICES ASSUME Shape, Accounted, [Next]_vars PROVE Shape' /\ Accounted'
    OBVIOUS
<1>1. ASSUME NEW c \in CRs,
             Create(c) \/ Withdraw(c) \/ Guard(c) \/ RequestDelete(c) \/ Release(c)
      PROVE  Shape' /\ Accounted'
    BY <1>1, MoveAccounted
       DEF Create, Withdraw, Guard, RequestDelete, Release, Phases, Guarded
<1>2. ASSUME NEW c \in CRs, NEW ns \in Namespaces, Copy(c, ns) PROVE Shape' /\ Accounted'
    BY <1>2 DEF Copy, Shape, Accounted
<1>3. ASSUME NEW ns \in Namespaces, Drop(ns) PROVE Shape' /\ Accounted'
    BY <1>3 DEF Drop, Shape, Accounted
<1>4. CASE UNCHANGED vars
    BY <1>4 DEF vars, Shape, Accounted
<1> QED BY <1>1, <1>2, <1>3, <1>4 DEF Next

\* In the ownership protocol no managed copy outlives every propagation of its
\* source, whatever users and cleanups do in between.
THEOREM AllAccounted == Spec => []Accounted
<1>1. Init => Shape /\ Accounted
    BY DEF Init, Shape, Accounted, Phases
<1> QED BY <1>1, StepAccounted, PTL DEF Spec
=============================================================================
