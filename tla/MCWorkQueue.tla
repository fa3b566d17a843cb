---------------------------- MODULE MCWorkQueue -----------------------------
(* Three keys, so that one waits while two others keep coming back, and two *)
(* workers, so that one key can be taken again while it is worked on.       *)
EXTENDS WorkQueue

CONSTANTS k1, k2, k3, w1, w2

MCKeys == {k1, k2, k3}

MCWorkers == {w1, w2}
=============================================================================
