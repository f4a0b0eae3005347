-------------------------------- MODULE OccStore -------------------------------
(***************************************************************************)
(* The in-memory backend shared by every generated C++ tier: one           *)
(* InMemoryState behind a mutex, and the InMemoryTransaction objects its   *)
(* clients (request handlers, worker loops, keep-alive threads) hold.      *)
(* Each call takes the mutex once, so each call is one step; calls of      *)
(* different transactions interleave freely.                               *)
(*                                                                         *)
(* One collection is modelled; Key is a set of numbers because commit()    *)
(* checks its staged puts against the unique indexes in key order.         *)
(***************************************************************************)
EXTENDS Occ, FiniteSets

CONSTANTS
    Client,      \* each holds at most one transaction at a time
    Index,       \* the indexes of the collection
    Unique,      \* those declared unique
    IndexKey,    \* the keys an index files documents under
    IndexKeyOf,  \* [Index -> [Doc -> IndexKey]]: extract_index_key
    MaxVersion   \* bound: no key is committed more often

ASSUME OccStoreAssumption ==
    /\ Key \subseteq Nat
    /\ Unique \subseteq Index
    /\ IndexKeyOf \in [Index -> [Doc -> IndexKey]]
    /\ MaxVersion \in Nat

VARIABLES
    records,   \* state_->records
    versions,  \* state_->versions, 0 where the map has no entry
    indexes,   \* state_->indexes: the keys filed under each index key
    txs,       \* the transaction of each client
    seen       \* observed only: every committed value a transaction was handed

vars == <<records, versions, indexes, txs, seen>>

Value == Doc \cup {Absent}

Committed(k) == IF Live(records, k) THEN records[k].document ELSE Absent

TypeOK ==
    /\ records \in [Key -> Record \cup {Absent}]
    /\ versions \in [Key -> Nat]
    /\ indexes \in [Index -> [IndexKey -> SUBSET Key]]
    /\ txs \in [Client -> Transaction]
    /\ seen \in [Client -> [Key -> SUBSET Value]]

Init ==
    /\ records = [k \in Key |-> Absent]
    /\ versions = [k \in Key |-> 0]
    /\ indexes = [i \in Index |-> [x \in IndexKey |-> {}]]
    /\ txs = [c \in Client |-> Closed]
    /\ seen = [c \in Client |-> [k \in Key |-> {}]]

--------------------------------------------------------------------------------

Begin(c) ==
    /\ ~txs[c].open
    /\ txs' = [txs EXCEPT ![c] = Begun]
    /\ UNCHANGED <<records, versions, indexes, seen>>

\* The committed values of ks are handed to the client.
Observe(c, ks) ==
    seen' = [seen EXCEPT ![c] = [k \in Key |->
                IF k \in ks THEN seen[c][k] \cup {Committed(k)} ELSE seen[c][k]]]

\* What get() reads of the shared records: nothing if k is staged.
Fetched(c, k) == IF Staged(txs[c], k) THEN {} ELSE {k}

GetOp(c, k) ==
    /\ txs[c].open
    /\ txs' = [txs EXCEPT ![c] = Get(records, @, k)]
    /\ Observe(c, Fetched(c, k))
    /\ UNCHANGED <<records, versions, indexes>>

PutOp(c, k, d) ==
    /\ txs[c].open
    /\ txs' = [txs EXCEPT ![c] = Put(records, @, k, d)]
    /\ Observe(c, Fetched(c, k))
    /\ UNCHANGED <<records, versions, indexes>>

EraseOp(c, k) ==
    /\ txs[c].open
    /\ txs' = [txs EXCEPT ![c] = Erase(records, @, k)]
    /\ Observe(c, Fetched(c, k))
    /\ UNCHANGED <<records, versions, indexes>>

\* All, KeyPrefix and JsonEquals: the visible records whose key is in ks and
\* whose document is in ds.
ScanResult(t, ks, ds) == {k \in ks : Visible(records, t, k) \in ds \ {Absent}}

\* Faulty variant of IndexResult: staged keys are not taken out of the entries.
IndexResultStale(t, i, xs) ==
    {k \in UNION {indexes[i][x] : x \in xs} : Live(records, k)}
    \cup {k \in Key : Putting(t, k) /\ IndexKeyOf[i][t.puts[k]] \in xs}

\* IndexEquals, IndexPrefix and IndexRange select a set xs of index keys: the
\* live committed records filed under xs that the transaction has not staged,
\* and its own puts whose index key is in xs.
IndexResult(t, i, xs) ==
    {k \in UNION {indexes[i][x] : x \in xs} : Live(records, k) /\ ~Staged(t, k)}
    \cup {k \in Key : Putting(t, k) /\ IndexKeyOf[i][t.puts[k]] \in xs}

\* A query reads every committed record it returns, and no other: keys that
\* do not match now are not in the read set.
QueryReads(c, ks) ==
    LET fetched == {k \in ks : ~Staged(txs[c], k)}
    IN  /\ txs' = [txs EXCEPT ![c] = RecordRead(records, @, fetched)]
        /\ Observe(c, fetched)
        /\ UNCHANGED <<records, versions, indexes>>

ScanOp(c) ==
    /\ txs[c].open
    /\ \E found \in {ScanResult(txs[c], ks, ds) : ks \in SUBSET Key, ds \in SUBSET Doc} :
            QueryReads(c, found)

IndexOp(c) ==
    /\ txs[c].open
    /\ \E found \in {IndexResult(txs[c], i, xs) : i \in Index, xs \in SUBSET IndexKey} :
            QueryReads(c, found)

--------------------------------------------------------------------------------

\* k is filed under the index key of its committed document.
FiledUnder(i, k, x) == Live(records, k) /\ IndexKeyOf[i][records[k].document] = x

\* staged_indexes once the erases are applied, and the puts of the keys up to
\* and including `last`: remove_record_from_indexes, add_record_to_indexes.
StagedIndex(t, i, x, last) ==
    {k \in indexes[i][x] :
        ~(/\ k \in t.erases \/ (Putting(t, k) /\ k <= last)
          /\ FiledUnder(i, k, x))}
    \cup {k \in Key : Putting(t, k) /\ k <= last /\ IndexKeyOf[i][t.puts[k]] = x}

\* Faulty variant of UniqueConflict: puts are compared with the committed
\* entries only, not with each other.
UniqueConflictCommitted(t) ==
    \E k \in {j \in Key : Putting(t, j)}, i \in Unique :
        ~(indexes[i][IndexKeyOf[i][t.puts[k]]] \subseteq {k} \cup t.erases)

\* The put of k finds its unique index key taken by another key.
UniqueConflict(t) ==
    \E k \in {j \in Key : Putting(t, j)}, i \in Unique :
        StagedIndex(t, i, IndexKeyOf[i][t.puts[k]], k) # {k}

CommitIndexes(t) ==
    [i \in Index |-> [x \in IndexKey |->
        {k \in indexes[i][x] : ~(Staged(t, k) /\ FiledUnder(i, k, x))}
        \cup {k \in Key : Putting(t, k) /\ IndexKeyOf[i][t.puts[k]] = x}]]

\* abort(), which a successful commit() ends with, clears the transaction.
Close(c) ==
    /\ txs' = [txs EXCEPT ![c] = Closed]
    /\ seen' = [seen EXCEPT ![c] = [k \in Key |-> {}]]

Commit(c) ==
    LET t == txs[c] IN
    /\ t.open
    /\ Validates(versions, t)
    /\ ~UniqueConflict(t)
    /\ \A k \in Key : Staged(t, k) => versions[k] < MaxVersion
    /\ records' = CommitRecords(records, versions, t)
    /\ versions' = CommitVersions(versions, t)
    /\ indexes' = CommitIndexes(t)
    /\ Close(c)

\* commit() throws: nothing is applied, and the transaction stays open for its
\* client to abort.
CommitThrows(c) ==
    /\ txs[c].open
    /\ ~Validates(versions, txs[c]) \/ UniqueConflict(txs[c])
    /\ UNCHANGED vars

Abort(c) ==
    /\ txs[c].open
    /\ Close(c)
    /\ UNCHANGED <<records, versions, indexes>>

Next ==
    \E c \in Client :
        \/ Begin(c)
        \/ \E k \in Key : GetOp(c, k) \/ EraseOp(c, k)
        \/ \E k \in Key, d \in Doc : PutOp(c, k, d)
        \/ ScanOp(c)
        \/ IndexOp(c)
        \/ Commit(c)
        \/ CommitThrows(c)
        \/ Abort(c)

Spec == Init /\ [][Next]_vars

================================================================================
