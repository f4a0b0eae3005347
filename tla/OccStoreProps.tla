------------------------------ MODULE OccStoreProps ----------------------------
(***************************************************************************)
(* What is required of the in-memory backend.                              *)
(***************************************************************************)
EXTENDS OccStore

CONSTANT Untouched

ASSUME UntouchedAssumption == Untouched \notin Doc \cup {Absent}

Writes(t) == [k \in Key |-> IF k \in t.erases THEN Absent
                            ELSE IF Putting(t, k) THEN t.puts[k]
                            ELSE Untouched]

\* The backend seen as the atomic store it promises to be.
Atomic == INSTANCE AtomicStore WITH
    db     <- [k \in Key |-> Committed(k)],
    active <- {c \in Client : txs[c].open},
    view   <- seen,
    writes <- [c \in Client |-> Writes(txs[c])]

\* commit() of transaction.hpp applies a transaction in one step, and only
\* while every value get, put, erase or query handed to it is still the
\* committed one: no lost update, no non-repeatable read that commits.
ImplementsAtomicStore == Atomic!ASpec

\* No two records of the collection have the same key in a unique index,
\* whatever order the conflict check and the index removal of commit() meet
\* the staged records in.
UniqueIndexes ==
    \A i \in Unique, j, k \in Key :
        /\ Live(records, j) /\ Live(records, k)
        /\ IndexKeyOf[i][records[j].document] = IndexKeyOf[i][records[k].document]
        => j = k

\* An index query sees what a scan with the same condition sees, with the
\* transaction's own puts and erases mixed in: the two branches of query()
\* merge staged and committed records differently.
IndexAgreesWithScan ==
    \A c \in Client, i \in Index, x \in IndexKey :
        IndexResult(txs[c], i, {x}) =
            ScanResult(txs[c], Key, {d \in Doc : IndexKeyOf[i][d] = x})

\* A record carries the version its key has in the version map, so that the
\* version get() records is the one commit() compares.
RecordVersionIsCurrent ==
    \A k \in Key : Live(records, k) => records[k].version = versions[k]

\* A committed erase is for good: the version map remembers the key, a later
\* get() of it records version 0, and no transaction that touches the key
\* passes the validation of commit() again.
ErasedForEver ==
    [][\A k \in Key : versions[k] > 0 /\ ~Live(records, k) =>
            ~Live(records, k)' /\ versions'[k] = versions[k]]_vars

--------------------------------------------------------------------------------
\* The inductive invariant behind the properties above.

\* A transaction that is not open holds nothing.
ClosedHoldsNothing ==
    \A c \in Client : ~txs[c].open => txs[c] = Closed /\ seen[c] = [k \in Key |-> {}]

\* No staged write is blind: put() and erase() call get() first.
StagedIsRead ==
    \A c \in Client, k \in Key :
        Staged(txs[c], k) => txs[c].reads[k] # Unread

\* While the version a transaction read is current, it has been handed no
\* value but the committed one.
CurrentReadsSawCommitted ==
    \A c \in Client, k \in Key :
        /\ txs[c].reads[k] = Unread => seen[c][k] = {}
        /\ txs[c].reads[k] = versions[k] => seen[c][k] = {Committed(k)}
        /\ txs[c].reads[k] <= versions[k]

\* A key no commit has written holds no record; one whose record was erased
\* is in the read set of no transaction with the version it has now.
ErasedIsUnreadable ==
    \A k \in Key :
        /\ versions[k] = 0 => ~Live(records, k)
        /\ versions[k] > 0 /\ ~Live(records, k) =>
                \A c \in Client : txs[c].reads[k] # versions[k]

VersionInv ==
    /\ TypeOK
    /\ RecordVersionIsCurrent
    /\ ClosedHoldsNothing
    /\ StagedIsRead
    /\ CurrentReadsSawCommitted
    /\ ErasedIsUnreadable

================================================================================
