-------------------------- MODULE WorkQueueProofs ---------------------------
(***************************************************************************)
(* Consistent and NoLostChange hold for any number of keys and workers.    *)
(* Consistent is inductive alone. NoLostChange needs it: that Add may skip *)
(* a key rests on the set telling the truth about the slice.               *)
(***************************************************************************)
EXTENDS WorkQueue, TLAPS

-----------------------------------------------------------------------------
(* The slice and the set                                                   *)

\* Appending adds one member and, if it is new, no duplicate.
LEMMA AppendFacts ==
    ASSUME NEW s \in Seq(Keys), NEW k \in Keys
    PROVE  /\ Append(s, k) \in Seq(Keys)
           /\ Range(Append(s, k)) = Range(s) \cup {k}
           /\ IsInjective(s) /\ k \notin Range(s) => IsInjective(Append(s, k))
<1>1. /\ Append(s, k) \in Seq(Keys)
      /\ DOMAIN s = 1 .. Len(s) /\ DOMAIN Append(s, k) = 1 .. Len(s) + 1 /\ Len(s) \in Nat
      /\ \A i \in 1 .. Len(s) : Append(s, k)[i] = s[i]
      /\ Append(s, k)[Len(s) + 1] = k
    OBVIOUS
<1> DEFINE t == Append(s, k)
           n == Len(s)
<1>2. n \in Nat /\ DOMAIN t = 1 .. n + 1 /\ (\A i \in 1 .. n : t[i] = s[i]) /\ t[n + 1] = k
      /\ DOMAIN s = 1 .. n
    BY <1>1
<1> HIDE DEF t, n
<1>3. \A i \in DOMAIN t : i \in 1 .. n \/ i = n + 1
    BY <1>2
<1>4. Range(t) = Range(s) \cup {k}
    <2>1. \A x \in Range(t) : x \in Range(s) \cup {k}
        BY <1>2, <1>3 DEF Range
    <2>2. \A x \in Range(s) : x \in Range(t)
        BY <1>2 DEF Range
    <2>3. k \in Range(t)
        <3>1. n + 1 \in DOMAIN t
            BY <1>2
        <3> QED BY <1>2, <3>1 DEF Range
    <2> QED BY <2>1, <2>2, <2>3
<1>5. ASSUME IsInjective(s), k \notin Range(s) PROVE IsInjective(t)
    <2>1. \A i \in 1 .. n : s[i] # k
        BY <1>2, <1>5 DEF Range
    <2> QED BY <1>2, <1>3, <1>5, <2>1 DEF IsInjective
<1> QED BY <1>1, <1>4, <1>5 DEF t

\* Taking the head of a sequence without duplicates removes it from the members.
LEMMA TailFacts ==
    ASSUME NEW s \in Seq(Keys), s # <<>>
    PROVE  /\ Head(s) \in Keys /\ Tail(s) \in Seq(Keys) /\ Head(s) \in Range(s)
           /\ IsInjective(s) =>
                IsInjective(Tail(s)) /\ Range(Tail(s)) = Range(s) \ {Head(s)}
<1> DEFINE n == Len(s)
           t == Tail(s)
<1>1. /\ n \in Nat /\ n >= 1 /\ DOMAIN s = 1 .. n
      /\ t \in Seq(Keys) /\ DOMAIN t = 1 .. n - 1
      /\ Head(s) = s[1] /\ Head(s) \in Keys
      /\ \A i \in 1 .. n - 1 : t[i] = s[i + 1]
    OBVIOUS
<1> HIDE DEF n, t
<1>2. Head(s) \in Range(s)
    <2>1. 1 \in DOMAIN s
        BY <1>1
    <2> QED BY <1>1, <2>1 DEF Range
<1>3. ASSUME IsInjective(s) PROVE IsInjective(t) /\ Range(t) = Range(s) \ {Head(s)}
    <2>1. \A i \in DOMAIN t : i + 1 \in DOMAIN s /\ i + 1 # 1 /\ t[i] = s[i + 1]
        BY <1>1
    <2>2. \A i, j \in DOMAIN t : i + 1 = j + 1 => i = j
        BY <1>1
    <2>3. IsInjective(t)
        BY <1>3, <2>1, <2>2 DEF IsInjective
    <2>4. \A x \in Range(t) : x \in Range(s) \ {Head(s)}
        <3>1. \A i \in DOMAIN t : t[i] # s[1]
            BY <1>1, <1>3, <2>1 DEF IsInjective
        <3> QED BY <1>1, <2>1, <3>1 DEF Range
    <2>5. \A x \in Range(s) \ {Head(s)} : x \in Range(t)
        <3>1. \A j \in DOMAIN s : j # 1 => j - 1 \in DOMAIN t /\ t[j - 1] = s[j]
            BY <1>1
        <3> QED BY <1>1, <3>1 DEF Range
    <2> QED BY <2>3, <2>4, <2>5
<1> QED BY <1>1, <1>2, <1>3 DEF t

-----------------------------------------------------------------------------
\* What an Add leaves behind: the key is queued, nothing else has moved.
LEMMA AddFacts ==
    ASSUME Consistent, NEW k \in Keys, Add(k)
    PROVE  /\ items' \in Seq(Keys) /\ members' \in SUBSET Keys
           /\ members' = Range(items') /\ IsInjective(items')
           /\ Range(items') = Range(items) \cup {k}
<1>1. CASE k \in members
    BY <1>1 DEF Add, queue, Consistent, TypeOK
<1>2. CASE k \notin members
    BY <1>2, AppendFacts DEF Add, Consistent, TypeOK
<1> QED BY <1>1, <1>2

\* What a Get leaves behind.
LEMMA GetFacts ==
    ASSUME Consistent, Get
    PROVE  /\ items' \in Seq(Keys) /\ members' \in SUBSET Keys
           /\ members' = Range(items') /\ IsInjective(items')
           /\ Range(items') = Range(items) \ {Head(items)} /\ Head(items) \in Keys
BY TailFacts DEF Get, Consistent, TypeOK

\* Every step keeps the set and the slice together.
LEMMA StepConsistent == Consistent /\ [Next]_vars => Consistent'
<1> SUFFICES ASSUME Consistent, [Next]_vars PROVE Consistent'
    OBVIOUS
<1>1. ASSUME NEW k \in Keys, Change(k) PROVE Consistent'
    BY <1>1 DEF Change, queue, Consistent, TypeOK
<1>2. ASSUME NEW k \in Keys, Notify(k) PROVE Consistent'
    BY <1>2, AddFacts DEF Notify, Consistent, TypeOK
<1>3. ASSUME NEW w \in Workers, Take(w) PROVE Consistent'
    BY <1>3, GetFacts DEF Take, Consistent, TypeOK
<1>4. ASSUME NEW w \in Workers, Process(w) PROVE Consistent'
    BY <1>4 DEF Process, queue, Consistent, TypeOK
<1>5. CASE UNCHANGED vars
    BY <1>5 DEF vars, queue, Consistent, TypeOK
<1> QED BY <1>1, <1>2, <1>3, <1>4, <1>5 DEF Next

\* No step of handlers or workers loses a change.
LEMMA StepNoLoss == Consistent /\ NoLostChange /\ [Next]_vars => NoLostChange'
<1> SUFFICES ASSUME Consistent, NoLostChange, [Next]_vars PROVE NoLostChange'
    OBVIOUS
<1>1. ASSUME NEW k \in Keys, Change(k) PROVE NoLostChange'
    BY <1>1 DEF Change, queue, NoLostChange
<1>2. ASSUME NEW k \in Keys, Notify(k) PROVE NoLostChange'
    BY <1>2, AddFacts DEF Notify, NoLostChange
<1>3. ASSUME NEW w \in Workers, Take(w) PROVE NoLostChange'
    <2>1. /\ holding[w] = None /\ UNCHANGED <<changed, events>>
          /\ Range(items') = Range(items) \ {Head(items)}
          /\ holding' = [holding EXCEPT ![w] = Head(items)]
        BY <1>3, GetFacts DEF Take
    <2>2. /\ holding'[w] = Head(items)
          /\ \A v \in Workers : holding[v] # None => holding'[v] = holding[v]
        BY <2>1 DEF Consistent, TypeOK
    <2>3. \A k \in changed : k # None
        BY NoneAssumption DEF Consistent, TypeOK
    <2> QED BY <2>1, <2>2, <2>3 DEF NoLostChange
<1>4. ASSUME NEW w \in Workers, Process(w) PROVE NoLostChange'
    <2>1. /\ changed' = changed \ {holding[w]} /\ UNCHANGED <<items, events>>
          /\ \A v \in Workers \ {w} : holding'[v] = holding[v]
        BY <1>4 DEF Process, queue, Consistent, TypeOK
    <2> QED BY <2>1 DEF NoLostChange
<1>5. CASE UNCHANGED vars
    BY <1>5 DEF vars, queue, NoLostChange
<1> QED BY <1>1, <1>2, <1>3, <1>4, <1>5 DEF Next

\* With any number of keys and workers, in every order of handlers and workers,
\* the set and the slice of the queue describe the same keys, each once.
THEOREM QueueConsistent == Spec => []Consistent
<1>1. Init => Consistent
    <2>1. ASSUME Init PROVE Consistent
        <3>1. items = <<>> /\ DOMAIN items = {} /\ items \in Seq(Keys)
            BY <2>1 DEF Init
        <3>2. Range(items) = {} /\ IsInjective(items)
            BY <3>1 DEF Range, IsInjective
        <3> QED BY <2>1, <3>1, <3>2 DEF Init, Consistent, TypeOK
    <2> QED BY <2>1
<1> QED BY <1>1, StepConsistent, PTL DEF Spec

\* With any number of keys and workers the de-duplication loses no change:
\* what changed is announced, queued or about to be read.
THEOREM ChangesKept == Spec => []NoLostChange
<1>1. Init => NoLostChange
    BY DEF Init, NoLostChange
<1> QED BY <1>1, QueueConsistent, StepNoLoss, PTL DEF Spec
=============================================================================
