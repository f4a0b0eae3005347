------------------------------ MODULE MCQueueStore -----------------------------
(***************************************************************************)
(* Instances of the queue store for TLC.                                   *)
(***************************************************************************)
EXTENDS QueueStore, TLC

CONSTANTS w1, w2, p1, p2, i1, i2

\* Two messages submitted under one key: a producer's retry with a new id.
SameKey == {<<1, i1>>, <<2, i1>>}

\* The same, beside a message without a key.
SharedKey == {<<1, i1>>, <<2, i1>>, <<3, NoKey>>}

\* Every message under a key of its own.
OwnKeys == {<<1, i1>>, <<2, i2>>}

Clients == Permutations({w1, w2}) \cup Permutations({p1, p2})

================================================================================
