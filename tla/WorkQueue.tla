----------------------------- MODULE WorkQueue ------------------------------
(***************************************************************************)
(* core.WorkQueue, the de-duplicating queue the Reconciler is built with,  *)
(* between the event handlers that fill it and workers that empty it. Each *)
(* operation holds the mutex from its first line to its last, so it is one *)
(* step here.                                                              *)
(*                                                                         *)
(* The operator's binary is driven by the queue of controller-runtime, and *)
(* the repository calls Get only in a test. The workers below are what the *)
(* queue is made for: take a key, then read the objects it stands for.     *)
(***************************************************************************)
EXTENDS Sequences, FiniteSets, Functions

CONSTANTS
    Keys,       \* the propagations' keys, namespace and name
    Workers,    \* the goroutines that call Get
    None        \* no key

ASSUME NoneAssumption == None \notin Keys

VARIABLES
    items,      \* queue.items
    members,    \* the keys of queue.set
    changed,    \* keys whose objects no worker has read since they changed
    events,     \* keys with a change the handlers have not been told of
    holding     \* worker -> the key it took and has not worked on yet, or None

queue == <<items, members>>
vars  == <<queue, changed, events, holding>>

-----------------------------------------------------------------------------
\* Appends without asking whether the key is there already.
AddAlways(k) ==
    /\ items' = Append(items, k)
    /\ members' = members \cup {k}

\* The newest key is served first.
AddFirst(k) ==
    IF k \in members THEN UNCHANGED queue
    ELSE items' = <<k>> \o items /\ members' = members \cup {k}

Add(k) ==
    IF k \in members THEN UNCHANGED queue
    ELSE items' = Append(items, k) /\ members' = members \cup {k}

\* Leaves the key in the set.
GetKeepingMember ==
    /\ items # <<>>
    /\ items' = Tail(items)
    /\ UNCHANGED members

\* The queue's half of Get; on an empty queue it changes nothing.
Get ==
    /\ items # <<>>
    /\ items' = Tail(items)
    /\ members' = members \ {Head(items)}

-----------------------------------------------------------------------------
\* An object behind the key changes; the informer will tell of it.
Change(k) ==
    /\ changed' = changed \cup {k}
    /\ events' = events \cup {k}
    /\ UNCHANGED <<queue, holding>>

\* OnCRChange, OnSourceChange or OnNamespaceLabelChange.
Notify(k) ==
    /\ k \in events
    /\ events' = events \ {k}
    /\ Add(k)
    /\ UNCHANGED <<changed, holding>>

Take(w) ==
    /\ holding[w] = None
    /\ Get
    /\ holding' = [holding EXCEPT ![w] = Head(items)]
    /\ UNCHANGED <<changed, events>>

\* The worker reads the objects and acts on what it read.
Process(w) ==
    /\ holding[w] # None
    /\ changed' = changed \ {holding[w]}
    /\ holding' = [holding EXCEPT ![w] = None]
    /\ UNCHANGED <<queue, events>>

Init ==
    /\ items = <<>> /\ members = {}
    /\ changed = {} /\ events = {}
    /\ holding = [w \in Workers |-> None]

Next ==
    \/ \E k \in Keys : Change(k) \/ Notify(k)
    \/ \E w \in Workers : Take(w) \/ Process(w)

Spec == Init /\ [][Next]_vars

\* Informers deliver and workers keep taking keys; nothing makes objects change.
Fairness ==
    /\ \A k \in Keys : WF_vars(Notify(k))
    /\ \A w \in Workers : WF_vars(Take(w)) /\ WF_vars(Process(w))

FairSpec == Spec /\ Fairness

-----------------------------------------------------------------------------
TypeOK ==
    /\ items \in Seq(Keys)
    /\ members \in SUBSET Keys
    /\ changed \in SUBSET Keys
    /\ events \in SUBSET Keys
    /\ holding \in [Workers -> Keys \cup {None}]

\* The set and the slice, which the code keeps side by side, describe the same
\* queue: every key is in the slice once exactly when it is in the set
\* (queue.go:24-29, 43-46). If they drift apart, Add drops a key or grows the
\* slice without end.
Consistent ==
    /\ TypeOK
    /\ members = Range(items)
    /\ IsInjective(items)

\* De-duplication loses no change: whatever changed since it was last read is
\* still announced, queued, or in the hands of a worker that has not read it
\* yet, also when the change came between that worker's Get and an Add that
\* found the key absent or present (queue.go:24, 46).
NoLostChange ==
    \A k \in changed :
        k \in events \/ k \in Range(items) \/ \E w \in Workers : holding[w] = k

\* Every change is read in the end, however often other keys change: a key is
\* overtaken by none that was added after it (queue.go:29, 43).
EventuallyRead == \A k \in Keys : k \in changed ~> k \notin changed
=============================================================================
