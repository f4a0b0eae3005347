------------------------------- MODULE AtomicStore -----------------------------
(***************************************************************************)
(* What the backend abstraction promises its clients: a transaction reads  *)
(* values, prepares writes, and either takes effect in one step in which   *)
(* everything it was handed is still current, or not at all.  No versions, *)
(* no indexes, no read set.                                                *)
(***************************************************************************)
CONSTANTS Client, Key, Doc, Absent, Untouched

VARIABLES
    db,      \* the document under each key
    active,  \* the clients with a transaction open
    view,    \* every value the client's transaction has been handed
    writes   \* what the transaction will leave under each key

avars == <<db, active, view, writes>>

NoWrites == [k \in Key |-> Untouched]

AInit ==
    /\ db = [k \in Key |-> Absent]
    /\ active = {}
    /\ view = [c \in Client |-> [k \in Key |-> {}]]
    /\ writes = [c \in Client |-> NoWrites]

ABegin(c) ==
    /\ c \notin active
    /\ active' = active \cup {c}
    /\ UNCHANGED <<db, view, writes>>

\* A read hands out the current value of keys the transaction has not written.
ARead(c, ks) ==
    /\ c \in active
    /\ \A k \in ks : writes[c][k] = Untouched
    /\ view' = [view EXCEPT ![c] = [k \in Key |->
                    IF k \in ks THEN view[c][k] \cup {db[k]} ELSE view[c][k]]]
    /\ UNCHANGED <<db, active, writes>>

\* The first write of a key also reads it: there are no blind writes.
AWrite(c, k, v) ==
    /\ c \in active
    /\ writes' = [writes EXCEPT ![c][k] = v]
    /\ view' = [view EXCEPT ![c][k] =
                    IF writes[c][k] = Untouched THEN @ \cup {db[k]} ELSE @]
    /\ UNCHANGED <<db, active>>

AClose(c) ==
    /\ active' = active \ {c}
    /\ view' = [view EXCEPT ![c] = [k \in Key |-> {}]]
    /\ writes' = [writes EXCEPT ![c] = NoWrites]

ACommit(c) ==
    /\ c \in active
    /\ \A k \in Key : view[c][k] \subseteq {db[k]}
    /\ db' = [k \in Key |-> IF writes[c][k] = Untouched THEN db[k] ELSE writes[c][k]]
    /\ AClose(c)

AAbort(c) ==
    /\ c \in active
    /\ AClose(c)
    /\ UNCHANGED db

ANext ==
    \E c \in Client :
        \/ ABegin(c)
        \/ \E ks \in SUBSET Key : ARead(c, ks)
        \/ \E k \in Key, v \in Doc \cup {Absent} : AWrite(c, k, v)
        \/ ACommit(c)
        \/ AAbort(c)

ASpec == AInit /\ [][ANext]_avars

================================================================================
