------------------------------ MODULE OccStoreProofs ---------------------------
(***************************************************************************)
(* Proofs about the in-memory backend, for every set of clients, keys,     *)
(* documents and indexes.                                                  *)
(***************************************************************************)
EXTENDS OccStoreProps, TLAPS

USE OccAssumption, OccStoreAssumption, UntouchedAssumption

\* begin() yields a well-formed transaction, abort() leaves one.
LEMMA FreshTransactions == Closed \in Transaction /\ Begun \in Transaction
BY DEF Closed, Begun, Transaction, Unread

\* A recorded version is a number, and an absent one below all of them.
LEMMA ReadsAreNumbers ==
    ASSUME NEW t \in Transaction, NEW k \in Key
    PROVE  t.reads[k] \in Int /\ t.reads[k] >= -1
<1>1. t.reads[k] \in Nat \cup {Unread}
  BY DEF Transaction
<1> QED
  BY <1>1 DEF Unread

\* record_read() of transaction.hpp keeps a transaction well formed and
\* changes its read set only.
LEMMA RecordReadType ==
    ASSUME records \in [Key -> Record \cup {Absent}],
           NEW t \in Transaction, NEW ks
    PROVE  /\ RecordRead(records, t, ks) \in Transaction
           /\ RecordRead(records, t, ks).open = t.open
           /\ RecordRead(records, t, ks).puts = t.puts
           /\ RecordRead(records, t, ks).erases = t.erases
           /\ \A k \in Key : RecordRead(records, t, ks).reads[k] =
                IF k \in ks /\ t.reads[k] = Unread THEN ReadVersion(records, k)
                ELSE t.reads[k]
<1>1. \A k \in Key : ReadVersion(records, k) \in Nat
  BY DEF ReadVersion, Live, Record
<1> QED
  BY <1>1 DEF RecordRead, Transaction, Unread

\* What is staged depends on the puts and the erases only.
LEMMA StagedFields ==
    ASSUME NEW t, NEW u, t.puts = u.puts, t.erases = u.erases, NEW k
    PROVE  Staged(t, k) <=> Staged(u, k)
BY DEF Staged, Putting

\* get() of transaction.hpp reads the key unless it is staged.
LEMMA GetFields ==
    ASSUME records \in [Key -> Record \cup {Absent}],
           NEW t \in Transaction, NEW k \in Key
    PROVE  /\ Get(records, t, k) \in Transaction
           /\ Get(records, t, k).open = t.open
           /\ Get(records, t, k).puts = t.puts
           /\ Get(records, t, k).erases = t.erases
           /\ \A j \in Key : Get(records, t, k).reads[j] =
                RecordRead(records, t, IF Staged(t, k) THEN {} ELSE {k}).reads[j]
<1>1. CASE Staged(t, k)
  <2>1. \A j \in Key : RecordRead(records, t, {}).reads[j] = t.reads[j]
    BY RecordReadType
  <2> QED
    BY <1>1, <2>1 DEF Get
<1>2. CASE ~Staged(t, k)
  BY <1>2, RecordReadType DEF Get
<1> QED
  BY <1>1, <1>2

\* put() of transaction.hpp is a get() and a staged document.
LEMMA PutFields ==
    ASSUME records \in [Key -> Record \cup {Absent}],
           NEW t \in Transaction, NEW k \in Key, NEW d \in Doc
    PROVE  /\ Put(records, t, k, d) \in Transaction
           /\ Put(records, t, k, d).open = t.open
           /\ Put(records, t, k, d).reads = Get(records, t, k).reads
           /\ Put(records, t, k, d).puts = [t.puts EXCEPT ![k] = d]
           /\ Put(records, t, k, d).erases = t.erases \ {k}
<1> DEFINE g == Get(records, t, k)
<1>1. g \in Transaction /\ g.open = t.open /\ g.puts = t.puts /\ g.erases = t.erases
  BY GetFields
<1>2. Put(records, t, k, d) = [g EXCEPT !.puts = [g.puts EXCEPT ![k] = d],
                                        !.erases = g.erases \ {k}]
  BY DEF Put
<1> HIDE DEF g
<1>3. [g EXCEPT !.puts = [g.puts EXCEPT ![k] = d], !.erases = g.erases \ {k}] \in Transaction
  BY <1>1 DEF Transaction
<1> QED
  BY <1>1, <1>2, <1>3 DEF Transaction, g

\* erase() of transaction.hpp is a get() and a staged erase.
LEMMA EraseFields ==
    ASSUME records \in [Key -> Record \cup {Absent}],
           NEW t \in Transaction, NEW k \in Key
    PROVE  /\ Erase(records, t, k) \in Transaction
           /\ Erase(records, t, k).open = t.open
           /\ Erase(records, t, k).reads = Get(records, t, k).reads
           /\ Erase(records, t, k).puts = [t.puts EXCEPT ![k] = Absent]
           /\ Erase(records, t, k).erases = t.erases \cup {k}
<1> DEFINE g == Get(records, t, k)
<1>1. g \in Transaction /\ g.open = t.open /\ g.puts = t.puts /\ g.erases = t.erases
  BY GetFields
<1>2. Erase(records, t, k) = [g EXCEPT !.puts = [g.puts EXCEPT ![k] = Absent],
                                       !.erases = g.erases \cup {k}]
  BY DEF Erase
<1> HIDE DEF g
<1>3. [g EXCEPT !.puts = [g.puts EXCEPT ![k] = Absent], !.erases = g.erases \cup {k}]
            \in Transaction
  BY <1>1 DEF Transaction
<1> QED
  BY <1>1, <1>2, <1>3 DEF Transaction, g

\* commit() of transaction.hpp leaves well-formed records and versions.
LEMMA CommitTypes ==
    ASSUME records \in [Key -> Record \cup {Absent}],
           versions \in [Key -> Nat],
           NEW t \in Transaction
    PROVE  /\ CommitRecords(records, versions, t) \in [Key -> Record \cup {Absent}]
           /\ CommitVersions(versions, t) \in [Key -> Nat]
BY DEF CommitRecords, CommitVersions, Transaction, Record, Putting

\* The type invariant of the in-memory backend.
THEOREM OccStoreTypeOK == Spec => []TypeOK
<1>1. Init => TypeOK
  BY FreshTransactions DEF Init, TypeOK, Value
<1>2. TypeOK /\ [Next]_vars => TypeOK'
  <2> SUFFICES ASSUME TypeOK, [Next]_vars PROVE TypeOK'
    OBVIOUS
  <2> USE DEF TypeOK
  <2>seen. \A k : Committed(k) \in Value \/ k \notin Key
    BY DEF Committed, Value, Live, Record
  <2>observe. \A c \in Client : \A ks : Observe(c, ks) =>
                  seen' \in [Client -> [Key -> SUBSET Value]]
    BY <2>seen DEF Observe
  <2>close. \A c \in Client : Close(c) =>
                /\ txs' \in [Client -> Transaction]
                /\ seen' \in [Client -> [Key -> SUBSET Value]]
    BY FreshTransactions DEF Close
  <2>query. \A c \in Client : \A ks : QueryReads(c, ks) => TypeOK'
    <3> SUFFICES ASSUME NEW c \in Client, NEW ks, QueryReads(c, ks) PROVE TypeOK'
      OBVIOUS
    <3>1. txs' \in [Client -> Transaction]
      BY RecordReadType DEF QueryReads
    <3> QED
      BY <3>1, <2>observe DEF QueryReads
  <2>1. ASSUME NEW c \in Client, Begin(c) PROVE TypeOK'
    BY <2>1, FreshTransactions DEF Begin
  <2>2. ASSUME NEW c \in Client, NEW k \in Key, GetOp(c, k) PROVE TypeOK'
    BY <2>2, GetFields, <2>observe DEF GetOp
  <2>3. ASSUME NEW c \in Client, NEW k \in Key, NEW d \in Doc, PutOp(c, k, d)
        PROVE TypeOK'
    BY <2>3, PutFields, <2>observe DEF PutOp
  <2>4. ASSUME NEW c \in Client, NEW k \in Key, EraseOp(c, k) PROVE TypeOK'
    BY <2>4, EraseFields, <2>observe DEF EraseOp
  <2>5. ASSUME NEW c \in Client, ScanOp(c) \/ IndexOp(c) PROVE TypeOK'
    <3>1. \E found : QueryReads(c, found)
      BY <2>5 DEF ScanOp, IndexOp
    <3> QED
      BY <3>1, <2>query
  <2>6. ASSUME NEW c \in Client, Commit(c) PROVE TypeOK'
    <3>1. indexes' \in [Index -> [IndexKey -> SUBSET Key]]
      BY <2>6 DEF Commit, CommitIndexes
    <3> QED
      BY <2>6, <3>1, <2>close, CommitTypes DEF Commit
  <2>7. ASSUME NEW c \in Client, CommitThrows(c) PROVE TypeOK'
    BY <2>7 DEF CommitThrows, vars
  <2>8. ASSUME NEW c \in Client, Abort(c) PROVE TypeOK'
    BY <2>8, <2>close DEF Abort
  <2>9. CASE UNCHANGED vars
    BY <2>9 DEF vars
  <2> QED
    BY <2>1, <2>2, <2>3, <2>4, <2>5, <2>6, <2>7, <2>8, <2>9 DEF Next
<1> QED
  BY <1>1, <1>2, PTL DEF Spec

--------------------------------------------------------------------------------

\* The common part of get(), put(), erase() and query(): the keys ks are read
\* and the transaction becomes t, which stages only what it has read.
LEMMA ReadPreservesVersionInv ==
    ASSUME VersionInv, TypeOK',
           NEW c \in Client, NEW ks \in SUBSET Key, NEW t \in Transaction,
           txs[c].open, t.open,
           \A k \in Key : t.reads[k] = RecordRead(records, txs[c], ks).reads[k],
           \A k \in Key : Staged(t, k) => t.reads[k] # Unread,
           txs' = [txs EXCEPT ![c] = t],
           Observe(c, ks),
           UNCHANGED <<records, versions>>
    PROVE  VersionInv'
<1> USE DEF VersionInv, TypeOK
<1>1. \A o \in Client : o # c => txs'[o] = txs[o] /\ seen'[o] = seen[o]
  BY DEF Observe
<1>2. txs'[c] = t
  OBVIOUS
<1>3. \A k \in Key : t.reads[k] =
        IF k \in ks /\ txs[c].reads[k] = Unread THEN ReadVersion(records, k)
        ELSE txs[c].reads[k]
  BY RecordReadType
<1>4. \A k \in Key : seen'[c][k] =
        IF k \in ks THEN seen[c][k] \cup {Committed(k)} ELSE seen[c][k]
  BY DEF Observe
<1>5. \A k \in Key : Committed(k)' = Committed(k) /\ Live(records', k) = Live(records, k)
  BY DEF Committed, Live
<1>6. RecordVersionIsCurrent'
  BY <1>5 DEF RecordVersionIsCurrent
<1>7. ClosedHoldsNothing'
  BY <1>1, <1>2 DEF ClosedHoldsNothing
<1>8. StagedIsRead'
  BY <1>1, <1>2 DEF StagedIsRead
<1>9. \A k \in Key :
        /\ t.reads[k] = Unread => seen'[c][k] = {}
        /\ t.reads[k] = versions[k] => seen'[c][k] = {Committed(k)}
        /\ t.reads[k] <= versions[k]
  <2> SUFFICES ASSUME NEW k \in Key
               PROVE  /\ t.reads[k] = Unread => seen'[c][k] = {}
                      /\ t.reads[k] = versions[k] => seen'[c][k] = {Committed(k)}
                      /\ t.reads[k] <= versions[k]
    OBVIOUS
  <2>1. /\ txs[c].reads[k] = Unread => seen[c][k] = {}
        /\ txs[c].reads[k] = versions[k] => seen[c][k] = {Committed(k)}
        /\ txs[c].reads[k] <= versions[k]
    BY DEF CurrentReadsSawCommitted
  <2>2. ReadVersion(records, k) \in Nat /\ ReadVersion(records, k) <= versions[k]
    BY DEF ReadVersion, RecordVersionIsCurrent, Live, Record
  <2>3. t.reads[k] \in Int /\ txs[c].reads[k] \in Int /\ versions[k] \in Nat
    BY ReadsAreNumbers
  <2>4. CASE k \in ks
    <3>1. CASE txs[c].reads[k] = Unread
      <4>1. t.reads[k] = ReadVersion(records, k) /\ seen'[c][k] = {Committed(k)}
        BY <2>1, <2>4, <3>1, <1>3, <1>4
      <4> QED
        BY <4>1, <2>2 DEF Unread
    <3>2. CASE txs[c].reads[k] # Unread
      <4>1. t.reads[k] = txs[c].reads[k] /\ seen'[c][k] = seen[c][k] \cup {Committed(k)}
        BY <2>4, <3>2, <1>3, <1>4
      <4> QED
        BY <4>1, <2>1, <3>2
    <3> QED
      BY <3>1, <3>2
  <2>5. CASE k \notin ks
    BY <2>1, <2>5, <1>3, <1>4
  <2> QED
    BY <2>4, <2>5
<1>10. CurrentReadsSawCommitted'
  BY <1>1, <1>2, <1>5, <1>9 DEF CurrentReadsSawCommitted
<1>11. ErasedIsUnreadable'
  <2>1. \A k \in Key : versions[k] > 0 /\ ~Live(records, k) => t.reads[k] # versions[k]
    <3> SUFFICES ASSUME NEW k \in Key, versions[k] > 0, ~Live(records, k)
                 PROVE  t.reads[k] # versions[k]
      OBVIOUS
    <3>1. ReadVersion(records, k) = 0
      BY DEF ReadVersion
    <3>2. txs[c].reads[k] # versions[k]
      BY DEF ErasedIsUnreadable
    <3> QED
      BY <3>1, <3>2, <1>3
  <2>2. \A k \in Key, o \in Client :
            versions[k] > 0 /\ ~Live(records, k) => txs'[o].reads[k] # versions[k]
    BY <2>1, <1>1 DEF ErasedIsUnreadable
  <2> QED
    BY <2>2, <1>2, <1>5 DEF ErasedIsUnreadable
<1> QED
  BY <1>6, <1>7, <1>8, <1>10, <1>11

\* abort(), which commit() ends with, empties the transaction of c.
LEMMA ClosePreservesOthers ==
    ASSUME TypeOK, NEW c \in Client, Close(c)
    PROVE  /\ txs'[c] = Closed /\ seen'[c] = [k \in Key |-> {}]
           /\ \A o \in Client : o # c => txs'[o] = txs[o] /\ seen'[o] = seen[o]
BY DEF Close, TypeOK

\* A closed transaction has read nothing and staged nothing.
LEMMA ClosedIsEmpty ==
    ASSUME NEW k \in Key
    PROVE  ~Closed.open /\ Closed.reads[k] = Unread /\ ~Staged(Closed, k)
BY DEF Closed, Staged, Putting

\* commit() of transaction.hpp preserves the invariant: a key it writes gets a
\* version above every version read so far.
LEMMA CommitPreservesVersionInv ==
    ASSUME VersionInv, TypeOK', NEW c \in Client, Commit(c)
    PROVE  VersionInv'
<1> USE DEF VersionInv, TypeOK
<1> DEFINE t == txs[c]
<1>1. Close(c)
  BY DEF Commit
<1>2. \A k \in Key : versions'[k] = IF Staged(t, k) THEN versions[k] + 1 ELSE versions[k]
  BY DEF Commit, CommitVersions
<1>3. \A k \in Key : records'[k] =
        IF k \in t.erases THEN Absent
        ELSE IF Putting(t, k) THEN [version |-> versions[k] + 1, document |-> t.puts[k]]
        ELSE records[k]
  BY DEF Commit, CommitRecords
<1>4. \A k \in Key : Putting(t, k) /\ k \notin t.erases =>
            records'[k] # Absent /\ records'[k].version = versions'[k]
  BY <1>2, <1>3, OccAssumption DEF Staged, Transaction, Putting
<1>5. \A k \in Key : ~Staged(t, k) => versions'[k] = versions[k] /\ records'[k] = records[k]
  BY <1>2, <1>3 DEF Staged
<1>6. RecordVersionIsCurrent'
  <2> SUFFICES ASSUME NEW k \in Key, Live(records', k)
               PROVE  records'[k].version = versions'[k]
    BY DEF RecordVersionIsCurrent
  <2>1. CASE Staged(t, k)
    BY <2>1, <1>3, <1>4 DEF Staged, Live
  <2>2. CASE ~Staged(t, k)
    BY <2>2, <1>5 DEF RecordVersionIsCurrent, Live
  <2> QED
    BY <2>1, <2>2
<1>7. ClosedHoldsNothing'
  BY <1>1, ClosePreservesOthers DEF ClosedHoldsNothing
<1>8. StagedIsRead'
  BY <1>1, ClosePreservesOthers, ClosedIsEmpty DEF StagedIsRead
<1>9. CurrentReadsSawCommitted'
  <2> SUFFICES ASSUME NEW o \in Client, NEW k \in Key
               PROVE  /\ txs'[o].reads[k] = Unread => seen'[o][k] = {}
                      /\ txs'[o].reads[k] = versions'[k] => seen'[o][k] = {Committed(k)'}
                      /\ txs'[o].reads[k] <= versions'[k]
    BY DEF CurrentReadsSawCommitted
  <2>1. CASE o = c
    <3>1. txs'[o].reads[k] = Unread /\ seen'[o][k] = {}
      BY <2>1, <1>1, ClosePreservesOthers, ClosedIsEmpty
    <3> QED
      BY <3>1 DEF Unread
  <2>2. CASE o # c
    <3>1. txs'[o] = txs[o] /\ seen'[o] = seen[o]
      BY <2>2, <1>1, ClosePreservesOthers
    <3>2. /\ txs[o].reads[k] = Unread => seen[o][k] = {}
          /\ txs[o].reads[k] = versions[k] => seen[o][k] = {Committed(k)}
          /\ txs[o].reads[k] <= versions[k]
      BY DEF CurrentReadsSawCommitted
    <3>3. txs[o].reads[k] \in Int /\ versions[k] \in Nat
      BY ReadsAreNumbers
    <3>4. CASE Staged(t, k)
      BY <3>1, <3>2, <3>3, <3>4, <1>2
    <3>5. CASE ~Staged(t, k)
      <4>1. Committed(k)' = Committed(k)
        BY <3>5, <1>5 DEF Committed, Live
      <4> QED
        BY <4>1, <3>1, <3>2, <3>5, <1>5
    <3> QED
      BY <3>4, <3>5
  <2> QED
    BY <2>1, <2>2
<1>10. ErasedIsUnreadable'
  <2> SUFFICES ASSUME NEW k \in Key
               PROVE  /\ versions'[k] = 0 => ~Live(records', k)
                      /\ versions'[k] > 0 /\ ~Live(records', k) =>
                            \A o \in Client : txs'[o].reads[k] # versions'[k]
    BY DEF ErasedIsUnreadable
  <2>1. \A o \in Client : txs'[o].reads[k] = Unread \/ txs'[o].reads[k] = txs[o].reads[k]
    BY <1>1, ClosePreservesOthers, ClosedIsEmpty
  <2>2. \A o \in Client : txs[o].reads[k] <= versions[k] /\ txs[o].reads[k] \in Int
    BY ReadsAreNumbers DEF CurrentReadsSawCommitted
  <2>3. versions[k] \in Nat
    OBVIOUS
  <2>4. CASE Staged(t, k)
    <3>1. versions'[k] = versions[k] + 1
      BY <2>4, <1>2
    <3>2. ASSUME NEW o \in Client PROVE txs'[o].reads[k] # versions'[k]
      <4>1. txs[o].reads[k] # versions[k] + 1
        BY <2>2, <2>3
      <4>2. Unread # versions[k] + 1
        BY <2>3 DEF Unread
      <4> QED
        BY <4>1, <4>2, <3>1, <2>1
    <3> QED
      BY <3>1, <3>2, <2>3
  <2>5. CASE ~Staged(t, k)
    <3>1. versions'[k] = versions[k] /\ (Live(records', k) <=> Live(records, k))
      BY <2>5, <1>5 DEF Live
    <3>2. ASSUME NEW o \in Client, versions[k] > 0, ~Live(records, k)
          PROVE  txs'[o].reads[k] # versions[k]
      <4>1. txs[o].reads[k] # versions[k]
        BY <3>2 DEF ErasedIsUnreadable
      <4>2. Unread # versions[k]
        BY <2>3 DEF Unread
      <4> QED
        BY <4>1, <4>2, <2>1
    <3> QED
      BY <3>1, <3>2 DEF ErasedIsUnreadable
  <2> QED
    BY <2>4, <2>5
<1> QED
  BY <1>6, <1>7, <1>8, <1>9, <1>10


\* query() of transaction.hpp reads the records of some set of keys.
LEMMA QueriesReadKeys ==
    ASSUME TypeOK, NEW c \in Client, ScanOp(c) \/ IndexOp(c)
    PROVE  txs[c].open /\ \E ks \in SUBSET Key : QueryReads(c, ks)
<1>1. CASE ScanOp(c)
  <2>0. \A ks \in SUBSET Key, ds \in SUBSET Doc : ScanResult(txs[c], ks, ds) \in SUBSET Key
    BY DEF ScanResult
  <2>1. PICK found \in {ScanResult(txs[c], ks, ds) : ks \in SUBSET Key, ds \in SUBSET Doc} :
            QueryReads(c, found)
    BY <1>1 DEF ScanOp
  <2>2. found \in SUBSET Key
    BY <2>0, <2>1
  <2> QED
    BY <1>1, <2>1, <2>2 DEF ScanOp
<1>2. CASE IndexOp(c)
  <2>1. PICK found \in {IndexResult(txs[c], i, xs) : i \in Index, xs \in SUBSET IndexKey} :
            QueryReads(c, found)
    BY <1>2 DEF IndexOp
  <2>2. indexes \in [Index -> [IndexKey -> SUBSET Key]]
    BY DEF TypeOK
  <2>0. \A i \in Index, xs \in SUBSET IndexKey : IndexResult(txs[c], i, xs) \in SUBSET Key
    BY <2>2 DEF IndexResult
  <2>3. found \in SUBSET Key
    BY <2>0, <2>1
  <2> QED
    BY <1>2, <2>1, <2>3 DEF IndexOp
<1> QED
  BY <1>1, <1>2

\* Every step of the backend preserves the invariant.
LEMMA StepPreservesVersionInv ==
    ASSUME VersionInv, TypeOK', [Next]_vars
    PROVE  VersionInv'
<1> USE DEF VersionInv
<1>type. /\ records \in [Key -> Record \cup {Absent}]
         /\ versions \in [Key -> Nat]
         /\ txs \in [Client -> Transaction]
         /\ seen \in [Client -> [Key -> SUBSET Value]]
         /\ \A c \in Client : txs[c] \in Transaction
  BY DEF TypeOK
<1>query. ASSUME NEW c \in Client, NEW ks \in SUBSET Key, txs[c].open, QueryReads(c, ks)
          PROVE  VersionInv'
  <2> DEFINE fetched == {k \in ks : ~Staged(txs[c], k)}
             t == RecordRead(records, txs[c], fetched)
  <2>1. /\ t \in Transaction /\ t.open
        /\ \A k \in Key : Staged(t, k) <=> Staged(txs[c], k)
    BY <1>query, <1>type, RecordReadType, StagedFields
  <2>2. \A k \in Key : txs[c].reads[k] # Unread => t.reads[k] # Unread
    BY <1>type, RecordReadType
  <2>3. \A k \in Key : Staged(t, k) => t.reads[k] # Unread
    BY <2>1, <2>2 DEF StagedIsRead
  <2>4. txs' = [txs EXCEPT ![c] = t] /\ Observe(c, fetched) /\ UNCHANGED <<records, versions>>
    BY <1>query DEF QueryReads
  <2> HIDE DEF t
  <2> QED
    BY <1>query, <2>1, <2>3, <2>4, ReadPreservesVersionInv DEF t
<1>get. ASSUME NEW c \in Client, NEW k \in Key
        PROVE  /\ \A j \in Key : Get(records, txs[c], k).reads[j] =
                    RecordRead(records, txs[c], Fetched(c, k)).reads[j]
               /\ \A j \in Key : Staged(txs[c], j) \/ j = k =>
                    Get(records, txs[c], k).reads[j] # Unread
  <2>1. \A j \in Key : Get(records, txs[c], k).reads[j] =
            RecordRead(records, txs[c], Fetched(c, k)).reads[j]
    <3>1. records \in [Key -> Record \cup {Absent}] /\ txs[c] \in Transaction
      BY <1>type
    <3> QED
      BY <3>1, GetFields DEF Fetched
  <2>2. ReadVersion(records, k) \in Nat
    BY <1>type DEF ReadVersion, Live, Record
  <2>3. \A j \in Key : Staged(txs[c], j) => txs[c].reads[j] # Unread
    BY DEF StagedIsRead
  <2>4. \A j \in Key : RecordRead(records, txs[c], Fetched(c, k)).reads[j] =
            IF j \in Fetched(c, k) /\ txs[c].reads[j] = Unread
            THEN ReadVersion(records, j) ELSE txs[c].reads[j]
    BY <1>type, RecordReadType
  <2>5. k \in Fetched(c, k) \/ Staged(txs[c], k)
    BY DEF Fetched
  <2>6. \A j \in Fetched(c, k) : j = k
    BY DEF Fetched
  <2> QED
    BY <2>1, <2>2, <2>3, <2>4, <2>5, <2>6 DEF Unread
<1>1. ASSUME NEW c \in Client, Begin(c) PROVE VersionInv'
  <2>1. /\ Begun.open /\ \A k \in Key : Begun.reads[k] = Unread /\ ~Staged(Begun, k)
    BY DEF Begun, Closed, Staged, Putting
  <2>2. /\ \A o \in Client : o # c => txs'[o] = txs[o]
        /\ txs'[c] = Begun /\ ~txs[c].open
        /\ records' = records /\ versions' = versions /\ seen' = seen
    BY <1>1, <1>type DEF Begin
  <2>3. \A k \in Key : seen[c][k] = {} /\ versions[k] # Unread /\ Unread <= versions[k]
    BY <1>type, <2>2 DEF ClosedHoldsNothing, Unread
  <2>4. RecordVersionIsCurrent'
    BY <2>2 DEF RecordVersionIsCurrent, Live
  <2>7. ClosedHoldsNothing'
    BY <2>1, <2>2 DEF ClosedHoldsNothing
  <2>8. StagedIsRead'
    BY <2>1, <2>2 DEF StagedIsRead
  <2>5. CurrentReadsSawCommitted'
    BY <2>1, <2>2, <2>3 DEF CurrentReadsSawCommitted, Committed
  <2>6. ErasedIsUnreadable'
    BY <2>1, <2>2, <2>3 DEF ErasedIsUnreadable
  <2> QED
    BY <2>4, <2>5, <2>6, <2>7, <2>8
<1>2. ASSUME NEW c \in Client, NEW k \in Key, GetOp(c, k) PROVE VersionInv'
  <2> DEFINE t == Get(records, txs[c], k)
  <2>1. /\ t \in Transaction /\ t.open = txs[c].open
        /\ t.puts = txs[c].puts /\ t.erases = txs[c].erases
    BY <1>type, GetFields
  <2>3. \A j \in Key : Staged(t, j) => Staged(txs[c], j)
    BY <2>1 DEF Staged, Putting
  <2>2. /\ txs[c].open /\ txs' = [txs EXCEPT ![c] = t]
        /\ Observe(c, Fetched(c, k)) /\ Fetched(c, k) \in SUBSET Key
        /\ UNCHANGED <<records, versions>>
    BY <1>2 DEF GetOp, Fetched
  <2>5. /\ \A j \in Key : t.reads[j] = RecordRead(records, txs[c], Fetched(c, k)).reads[j]
        /\ \A j \in Key : Staged(t, j) => t.reads[j] # Unread
    BY <2>3, <1>get
  <2> HIDE DEF t
  <2> QED
    BY <2>1, <2>2, <2>5, ReadPreservesVersionInv
<1>3. ASSUME NEW c \in Client, NEW k \in Key, NEW d \in Doc, PutOp(c, k, d)
      PROVE  VersionInv'
  <2> DEFINE t == Put(records, txs[c], k, d)
  <2>0. records \in [Key -> Record \cup {Absent}] /\ txs[c] \in Transaction
    BY <1>type
  <2>1. /\ t \in Transaction
        /\ t.open = txs[c].open /\ t.reads = Get(records, txs[c], k).reads
        /\ t.puts = [txs[c].puts EXCEPT ![k] = d]
        /\ t.erases = txs[c].erases \ {k}
    <3> HIDE DEF t
    <3>1. ASSUME NEW u \in Transaction PROVE
              /\ Put(records, u, k, d) \in Transaction
              /\ Put(records, u, k, d).open = u.open
              /\ Put(records, u, k, d).reads = Get(records, u, k).reads
              /\ Put(records, u, k, d).puts = [u.puts EXCEPT ![k] = d]
              /\ Put(records, u, k, d).erases = u.erases \ {k}
      BY <2>0, PutFields
    <3>2. t = Put(records, txs[c], k, d)
      BY DEF t
    <3> QED
      BY <2>0, <3>1, <3>2
  <2>3. txs[c].puts \in [Key -> Doc \cup {Absent}]
    BY <1>type DEF Transaction
  <2>4. \A j \in Key : Staged(t, j) => Staged(txs[c], j) \/ j = k
    BY <2>1, <2>3 DEF Staged, Putting
  <2>2. /\ txs[c].open /\ txs' = [txs EXCEPT ![c] = t]
        /\ Observe(c, Fetched(c, k)) /\ Fetched(c, k) \in SUBSET Key
        /\ UNCHANGED <<records, versions>>
    BY <1>3 DEF PutOp, Fetched
  <2> HIDE DEF t
  <2>5. /\ \A j \in Key : t.reads[j] = RecordRead(records, txs[c], Fetched(c, k)).reads[j]
        /\ \A j \in Key : Staged(t, j) => t.reads[j] # Unread
    BY <2>1, <2>4, <1>get
  <2> QED
    BY <2>1, <2>2, <2>5, ReadPreservesVersionInv
<1>4. ASSUME NEW c \in Client, NEW k \in Key, EraseOp(c, k) PROVE VersionInv'
  <2> DEFINE t == Erase(records, txs[c], k)
  <2>1. /\ t \in Transaction
        /\ t.open = txs[c].open /\ t.reads = Get(records, txs[c], k).reads
        /\ t.puts = [txs[c].puts EXCEPT ![k] = Absent]
        /\ t.erases = txs[c].erases \cup {k}
    BY <1>type, EraseFields
  <2>3. txs[c].puts \in [Key -> Doc \cup {Absent}]
    BY <1>type DEF Transaction
  <2>4. \A j \in Key : Staged(t, j) => Staged(txs[c], j) \/ j = k
    BY <2>1, <2>3 DEF Staged, Putting
  <2>2. /\ txs[c].open /\ txs' = [txs EXCEPT ![c] = t]
        /\ Observe(c, Fetched(c, k)) /\ Fetched(c, k) \in SUBSET Key
        /\ UNCHANGED <<records, versions>>
    BY <1>4 DEF EraseOp, Fetched
  <2> HIDE DEF t
  <2>5. /\ \A j \in Key : t.reads[j] = RecordRead(records, txs[c], Fetched(c, k)).reads[j]
        /\ \A j \in Key : Staged(t, j) => t.reads[j] # Unread
    BY <2>1, <2>4, <1>get
  <2> QED
    BY <2>1, <2>2, <2>5, ReadPreservesVersionInv
<1>5. ASSUME NEW c \in Client, ScanOp(c) \/ IndexOp(c) PROVE VersionInv'
  BY <1>5, <1>query, QueriesReadKeys
<1>7. ASSUME NEW c \in Client, Commit(c) PROVE VersionInv'
  BY <1>7, CommitPreservesVersionInv
<1>8. ASSUME NEW c \in Client, Abort(c) PROVE VersionInv'
  <2>1. Close(c) /\ UNCHANGED <<records, versions>>
    BY <1>8 DEF Abort
  <2>2. \A k \in Key : versions[k] # Unread /\ Unread <= versions[k]
    BY <1>type DEF Unread
  <2>3. RecordVersionIsCurrent'
    BY <2>1 DEF RecordVersionIsCurrent, Live
  <2>8. /\ txs'[c] = Closed /\ seen'[c] = [k \in Key |-> {}]
        /\ \A o \in Client : o # c => txs'[o] = txs[o] /\ seen'[o] = seen[o]
    BY <2>1, ClosePreservesOthers
  <2>6. ClosedHoldsNothing'
    BY <2>8 DEF ClosedHoldsNothing
  <2>7. StagedIsRead'
    <3>1. \A k \in Key : Staged(txs'[c], k) => txs'[c].reads[k] # Unread
      BY <2>8, ClosedIsEmpty
    <3> QED
      BY <2>8, <3>1 DEF StagedIsRead
  <2>4. CurrentReadsSawCommitted'
    <3>1. \A k \in Key : /\ txs'[c].reads[k] = Unread /\ seen'[c][k] = {}
                        /\ Committed(k)' = Committed(k) /\ versions'[k] = versions[k]
      BY <2>1, <2>8, ClosedIsEmpty DEF Committed
    <3>2. \A k \in Key : /\ txs'[c].reads[k] = Unread => seen'[c][k] = {}
                        /\ txs'[c].reads[k] # versions'[k]
                        /\ txs'[c].reads[k] <= versions'[k]
      BY <2>2, <3>1
    <3> QED
      BY <2>8, <3>1, <3>2 DEF CurrentReadsSawCommitted
  <2>5. ErasedIsUnreadable'
    BY <2>1, <2>2, <1>type, ClosePreservesOthers, ClosedIsEmpty DEF ErasedIsUnreadable
  <2> QED
    BY <2>3, <2>4, <2>5, <2>6, <2>7
<1>9. CASE UNCHANGED vars
  <2>1. UNCHANGED <<records, versions, txs, seen>>
    BY <1>9 DEF vars
  <2>2. RecordVersionIsCurrent' /\ ErasedIsUnreadable'
    BY <2>1 DEF RecordVersionIsCurrent, ErasedIsUnreadable
  <2>3. ClosedHoldsNothing' /\ StagedIsRead'
    BY <2>1 DEF ClosedHoldsNothing, StagedIsRead
  <2>4. CurrentReadsSawCommitted'
    BY <2>1 DEF CurrentReadsSawCommitted, Committed
  <2> QED
    BY <2>2, <2>3, <2>4
<1>10. ASSUME NEW c \in Client, CommitThrows(c) PROVE VersionInv'
  <2>1. UNCHANGED vars
    BY <1>10 DEF CommitThrows
  <2> QED
    BY <2>1, <1>9
<1> QED
  BY <1>1, <1>2, <1>3, <1>4, <1>5, <1>7, <1>8, <1>9, <1>10 DEF Next

\* The versions of the in-memory backend agree with its records, and no read
\* set holds the current version of a key its transaction saw otherwise.
THEOREM OccStoreVersions == Spec => []VersionInv
<1>1. Init => VersionInv
  <2> SUFFICES ASSUME Init PROVE VersionInv
    OBVIOUS
  <2>1. TypeOK
    BY FreshTransactions DEF Init, TypeOK, Value
  <2>2. \A k \in Key : ~Live(records, k)
    BY DEF Init, Live
  <2>3. \A c \in Client : txs[c] = Closed /\ seen[c] = [k \in Key |-> {}]
    BY DEF Init
  <2>4. \A k \in Key : versions[k] = 0
    BY DEF Init
  <2>5. RecordVersionIsCurrent /\ ClosedHoldsNothing
    BY <2>2, <2>3 DEF RecordVersionIsCurrent, ClosedHoldsNothing
  <2>6. StagedIsRead
    BY <2>3, ClosedIsEmpty DEF StagedIsRead
  <2>7. CurrentReadsSawCommitted
    <3>0. \A k \in Key : Closed.reads[k] = -1
      BY ClosedIsEmpty DEF Unread
    <3>1. \A c \in Client, k \in Key : txs[c].reads[k] = -1 /\ seen[c][k] = {}
      BY <2>3, <3>0
    <3> SUFFICES ASSUME NEW c \in Client, NEW k \in Key
                 PROVE  txs[c].reads[k] # versions[k] /\ txs[c].reads[k] <= versions[k]
      BY <3>1 DEF CurrentReadsSawCommitted
    <3>2. versions[k] = 0 /\ txs[c].reads[k] = -1
      BY <2>4, <3>1
    <3> QED
      BY <3>2
  <2>8. ErasedIsUnreadable
    <3> SUFFICES ASSUME NEW k \in Key
                 PROVE  ~Live(records, k) /\ ~(versions[k] > 0)
      BY DEF ErasedIsUnreadable
    <3>1. versions[k] = 0
      BY <2>4
    <3>2. ~(versions[k] > 0)
      BY <3>1
    <3> QED
      BY <2>2, <3>2
  <2> QED
    BY <2>1, <2>5, <2>6, <2>7, <2>8 DEF VersionInv
<1>2. VersionInv /\ TypeOK' /\ [Next]_vars => VersionInv'
  BY StepPreservesVersionInv
<1> QED
  BY <1>1, <1>2, OccStoreTypeOK, PTL DEF Spec

--------------------------------------------------------------------------------

\* A transaction that passes the validation of commit() has not touched a key
\* whose record was erased before.
LEMMA ErasedBlocksCommit ==
    ASSUME VersionInv, NEW c \in Client, Validates(versions, txs[c]),
           NEW k \in Key, versions[k] > 0, ~Live(records, k)
    PROVE  ~Staged(txs[c], k)
<1>1. txs[c].reads[k] # versions[k]
  BY DEF VersionInv, ErasedIsUnreadable
<1>2. txs[c].reads[k] = Unread
  BY <1>1 DEF Validates
<1> QED
  BY <1>2 DEF VersionInv, StagedIsRead

\* A committed erase of the in-memory backend is for good.
THEOREM OccStoreErasedForEver == Spec => ErasedForEver
<1> DEFINE Stays == \A k \in Key : versions[k] > 0 /\ ~Live(records, k) =>
                        ~Live(records, k)' /\ versions'[k] = versions[k]
<1>1. VersionInv /\ [Next]_vars => Stays
  <2> SUFFICES ASSUME VersionInv, [Next]_vars, NEW k \in Key,
                      versions[k] > 0, ~Live(records, k)
               PROVE  ~Live(records, k)' /\ versions'[k] = versions[k]
    OBVIOUS
  <2>1. ASSUME NEW c \in Client, Commit(c)
        PROVE  ~Live(records, k)' /\ versions'[k] = versions[k]
    <3>1. ~Staged(txs[c], k)
      BY <2>1, ErasedBlocksCommit DEF Commit
    <3>2. versions'[k] = versions[k] /\ records'[k] = records[k]
      BY <2>1, <3>1 DEF Commit, CommitVersions, CommitRecords, Staged
    <3> QED
      BY <3>2 DEF Live
  <2>2. CASE UNCHANGED <<records, versions>>
    BY <2>2 DEF Live
  <2>3. CASE UNCHANGED vars
    BY <2>2, <2>3 DEF vars
  <2>4. ASSUME NEW c \in Client, Begin(c) \/ CommitThrows(c) \/ Abort(c)
        PROVE  UNCHANGED <<records, versions>>
    BY <2>4 DEF Begin, CommitThrows, vars, Abort
  <2>7. ASSUME NEW c \in Client, ScanOp(c) \/ IndexOp(c)
        PROVE  UNCHANGED <<records, versions>>
    <3>1. \A ks : QueryReads(c, ks) => UNCHANGED <<records, versions>>
      BY DEF QueryReads
    <3> QED
      BY <2>7, <3>1, QueriesReadKeys DEF VersionInv
  <2>5. ASSUME NEW c \in Client, NEW j \in Key, NEW d \in Doc, PutOp(c, j, d)
        PROVE  UNCHANGED <<records, versions>>
    BY <2>5 DEF PutOp
  <2>6. ASSUME NEW c \in Client, NEW j \in Key, GetOp(c, j) \/ EraseOp(c, j)
        PROVE  UNCHANGED <<records, versions>>
    BY <2>6 DEF GetOp, EraseOp
  <2> QED
    BY <2>1, <2>2, <2>3, <2>4, <2>5, <2>6, <2>7 DEF Next
<1>2. VersionInv /\ [Next]_vars => [Stays]_vars
  BY <1>1
<1>3. Spec => [][Stays]_vars
  BY <1>2, OccStoreVersions, PTL DEF Spec
<1> QED
  BY <1>3 DEF ErasedForEver

--------------------------------------------------------------------------------

\* What a transaction will leave under a key, case by case.
LEMMA WritesCases ==
    ASSUME NEW t, NEW k \in Key
    PROVE  /\ k \in t.erases => Writes(t)[k] = Absent
           /\ k \notin t.erases /\ Putting(t, k) => Writes(t)[k] = t.puts[k]
           /\ ~Staged(t, k) => Writes(t)[k] = Untouched
BY DEF Writes, Staged

\* Untouched stands for exactly the keys that are not staged.
LEMMA WritesStaged ==
    ASSUME NEW t \in Transaction, NEW k \in Key
    PROVE  Writes(t)[k] = Untouched <=> ~Staged(t, k)
<1>1. t.puts[k] \in Doc \cup {Absent}
  BY DEF Transaction
<1> QED
  BY <1>1, WritesCases DEF Staged, Putting

\* The writes of a transaction depend on its puts and erases only.
LEMMA WritesFields ==
    ASSUME NEW t, NEW u, t.puts = u.puts, t.erases = u.erases
    PROVE  Writes(t) = Writes(u)
BY DEF Writes, Putting

\* An empty transaction writes nothing.
LEMMA WritesOfFresh == Writes(Closed) = Atomic!NoWrites /\ Writes(Begun) = Atomic!NoWrites
BY DEF Writes, Closed, Begun, Putting, Atomic!NoWrites

\* The refinement mapping of OccStoreProps, abbreviated.
AbstractDb == [k \in Key |-> Committed(k)]
AbstractActive == {c \in Client : txs[c].open}
AbstractWrites == [c \in Client |-> Writes(txs[c])]

\* A step that changes one transaction's staged writes from those of t to
\* those of u changes the abstract writes of that client only.
LEMMA AbstractWritesStep ==
    ASSUME txs \in [Client -> Transaction], NEW c \in Client, NEW u,
           txs' = [txs EXCEPT ![c] = u]
    PROVE  AbstractWrites' = [AbstractWrites EXCEPT ![c] = Writes(u)]
BY DEF AbstractWrites

\* get() and query() are reads of the atomic store.
LEMMA ReadsRefine ==
    ASSUME TypeOK, NEW c \in Client, NEW ks \in SUBSET Key, NEW t,
           txs[c].open, t.open, t.puts = txs[c].puts, t.erases = txs[c].erases,
           \A k \in ks : ~Staged(txs[c], k),
           txs' = [txs EXCEPT ![c] = t],
           Observe(c, ks), UNCHANGED records
    PROVE  Atomic!ARead(c, ks)
<1>1. AbstractDb' = AbstractDb
  BY DEF AbstractDb, Committed, Live
<1>2. AbstractActive' = AbstractActive
  BY DEF AbstractActive, TypeOK
<1>3. AbstractWrites' = AbstractWrites
  <2>1. Writes(t) = Writes(txs[c])
    BY WritesFields
  <2> QED
    BY <2>1, AbstractWritesStep DEF TypeOK, AbstractWrites
<1>4. \A k \in ks : AbstractWrites[c][k] = Untouched
  BY WritesCases DEF AbstractWrites
<1>5. seen' = [seen EXCEPT ![c] = [k \in Key |->
                 IF k \in ks THEN seen[c][k] \cup {AbstractDb[k]} ELSE seen[c][k]]]
  BY DEF Observe, AbstractDb
<1>6. c \in AbstractActive
  BY DEF AbstractActive
<1> QED
  BY <1>1, <1>2, <1>3, <1>4, <1>5, <1>6
  DEF Atomic!ARead, AbstractDb, AbstractActive, AbstractWrites

\* put() and erase() are writes of the atomic store: u is the transaction with
\* the value v staged under k.
LEMMA WritesRefine ==
    ASSUME TypeOK, NEW c \in Client, NEW k \in Key, NEW v \in Doc \cup {Absent},
           NEW u, txs[c].open, u.open,
           Writes(u) = [Writes(txs[c]) EXCEPT ![k] = v],
           txs' = [txs EXCEPT ![c] = u],
           Observe(c, Fetched(c, k)), UNCHANGED records
    PROVE  Atomic!AWrite(c, k, v)
<1>1. AbstractDb' = AbstractDb
  BY DEF AbstractDb, Committed, Live
<1>2. AbstractActive' = AbstractActive /\ c \in AbstractActive
  BY DEF AbstractActive, TypeOK
<1>3. AbstractWrites' = [AbstractWrites EXCEPT ![c][k] = v]
  BY AbstractWritesStep DEF TypeOK, AbstractWrites
<1>4. AbstractWrites[c][k] = Untouched <=> ~Staged(txs[c], k)
  BY WritesStaged DEF AbstractWrites, TypeOK
<1>5. seen' = [seen EXCEPT ![c][k] =
                 IF AbstractWrites[c][k] = Untouched THEN @ \cup {AbstractDb[k]} ELSE @]
  <2> DEFINE viewed == [j \in Key |-> IF j \in Fetched(c, k)
                                      THEN seen[c][j] \cup {Committed(j)} ELSE seen[c][j]]
             written == [seen[c] EXCEPT ![k] =
                IF AbstractWrites[c][k] = Untouched THEN @ \cup {AbstractDb[k]} ELSE @]
  <2>1. seen[c] \in [Key -> SUBSET Value]
    BY DEF TypeOK
  <2>2. \A j \in Key : viewed[j] = written[j]
    BY <1>4, <2>1 DEF Fetched, AbstractDb
  <2>3. viewed = written
    BY <2>1, <2>2
  <2>4. seen' = [seen EXCEPT ![c] = viewed]
    BY DEF Observe
  <2> QED
    BY <2>3, <2>4
<1> QED
  BY <1>1, <1>2, <1>3, <1>5
  DEF Atomic!AWrite, AbstractDb, AbstractActive, AbstractWrites

\* abort(), on its own or at the end of commit(), closes the transaction.
LEMMA CloseRefines ==
    ASSUME TypeOK, NEW c \in Client, Close(c)
    PROVE  Atomic!AClose(c)
<1>1. AbstractActive' = AbstractActive \ {c}
  BY ClosePreservesOthers, ClosedIsEmpty DEF AbstractActive, Closed
<1>2. AbstractWrites' = [AbstractWrites EXCEPT ![c] = Atomic!NoWrites]
  <2>1. txs' = [txs EXCEPT ![c] = Closed] /\ txs \in [Client -> Transaction]
    BY DEF Close, TypeOK
  <2> QED
    BY <2>1, AbstractWritesStep, WritesOfFresh
<1>3. seen' = [seen EXCEPT ![c] = [k \in Key |-> {}]]
  BY DEF Close
<1> QED
  BY <1>1, <1>2, <1>3 DEF Atomic!AClose, AbstractActive, AbstractWrites

\* commit() takes effect at an instant at which all it has read is current.
LEMMA CommitRefines ==
    ASSUME VersionInv, NEW c \in Client, Commit(c)
    PROVE  Atomic!ACommit(c)
<1> DEFINE t == txs[c]
<1>type. TypeOK /\ t \in Transaction
  BY DEF VersionInv, TypeOK
<1>1. \A k \in Key : seen[c][k] \subseteq {AbstractDb[k]}
  <2> SUFFICES ASSUME NEW k \in Key PROVE seen[c][k] \subseteq {Committed(k)}
    BY DEF AbstractDb
  <2>1. t.reads[k] = Unread \/ t.reads[k] = versions[k]
    BY DEF Commit, Validates
  <2> QED
    BY <2>1 DEF VersionInv, CurrentReadsSawCommitted
<1>2. \A k \in Key : Committed(k)' =
        IF Writes(t)[k] = Untouched THEN Committed(k) ELSE Writes(t)[k]
  <2> SUFFICES ASSUME NEW k \in Key
               PROVE  Committed(k)' =
                        IF Writes(t)[k] = Untouched THEN Committed(k) ELSE Writes(t)[k]
    OBVIOUS
  <2>1. records'[k] = IF k \in t.erases THEN Absent
                      ELSE IF Putting(t, k)
                           THEN [version |-> versions[k] + 1, document |-> t.puts[k]]
                      ELSE records[k]
    BY DEF Commit, CommitRecords
  <2>2. Writes(t)[k] = Untouched <=> ~Staged(t, k)
    BY <1>type, WritesStaged
  <2>3. CASE k \in t.erases
    BY <2>1, <2>2, <2>3, WritesCases DEF Committed, Live, Staged
  <2>4. CASE k \notin t.erases /\ Putting(t, k)
    <3>1. t.puts[k] \in Doc
      BY <1>type, <2>4 DEF Transaction, Putting
    <3>2. records'[k] # Absent /\ records'[k].document = t.puts[k]
      <4>1. versions[k] + 1 \in Nat
        BY <1>type DEF TypeOK
      <4>2. records'[k] \in Record
        BY <2>1, <2>4, <3>1, <4>1 DEF Record
      <4> QED
        BY <2>1, <2>4, <4>2, OccAssumption DEF Record
    <3> QED
      BY <2>2, <2>4, <3>2, WritesCases DEF Committed, Live, Staged
  <2>5. CASE ~Staged(t, k)
    BY <2>1, <2>2, <2>5 DEF Committed, Live, Staged
  <2> QED
    BY <2>3, <2>4, <2>5 DEF Staged
<1>3. AbstractDb' = [k \in Key |-> IF AbstractWrites[c][k] = Untouched THEN AbstractDb[k]
                                   ELSE AbstractWrites[c][k]]
  BY <1>2 DEF AbstractDb, AbstractWrites
<1>4. Atomic!AClose(c)
  BY <1>type, CloseRefines DEF Commit
<1>5. c \in AbstractActive
  BY DEF Commit, AbstractActive
<1> QED
  BY <1>1, <1>3, <1>4, <1>5
  DEF Atomic!ACommit, AbstractDb, AbstractActive, AbstractWrites

\* Every step of the backend is a step of the atomic store or a stutter.
LEMMA StepRefines ==
    ASSUME VersionInv, [Next]_vars
    PROVE  [Atomic!ANext]_(Atomic!avars)
<1>type. /\ TypeOK
         /\ records \in [Key -> Record \cup {Absent}]
         /\ \A c \in Client : txs[c] \in Transaction
  BY DEF VersionInv, TypeOK
<1>query. ASSUME NEW c \in Client, NEW ks \in SUBSET Key, txs[c].open, QueryReads(c, ks)
          PROVE  Atomic!ANext
  <2> DEFINE fetched == {k \in ks : ~Staged(txs[c], k)}
             t == RecordRead(records, txs[c], fetched)
  <2>1. t.open /\ t.puts = txs[c].puts /\ t.erases = txs[c].erases
    BY <1>type, <1>query, RecordReadType
  <2>2. /\ txs' = [txs EXCEPT ![c] = t] /\ Observe(c, fetched) /\ UNCHANGED records
        /\ fetched \in SUBSET Key /\ \A k \in fetched : ~Staged(txs[c], k)
    BY <1>query DEF QueryReads
  <2> HIDE DEF t, fetched
  <2>3. Atomic!ARead(c, fetched)
    BY <1>type, <1>query, <2>1, <2>2, ReadsRefine
  <2> QED
    BY <2>2, <2>3 DEF Atomic!ANext
<1>1. ASSUME NEW c \in Client, Begin(c) PROVE Atomic!ANext
  <2>1. txs' = [txs EXCEPT ![c] = Begun] /\ ~txs[c].open /\ UNCHANGED <<records, seen>>
    BY <1>1 DEF Begin
  <2>2. AbstractDb' = AbstractDb
    BY <2>1 DEF AbstractDb, Committed, Live
  <2>3. AbstractActive' = AbstractActive \cup {c} /\ c \notin AbstractActive
    <3>1. Begun.open
      BY DEF Begun, Closed
    <3> QED
      BY <1>type, <2>1, <3>1 DEF AbstractActive, TypeOK
  <2>4. AbstractWrites' = AbstractWrites
    <3>1. txs[c] = Closed
      BY <2>1 DEF VersionInv, ClosedHoldsNothing
    <3>2. Writes(Begun) = Writes(txs[c])
      BY <3>1, WritesOfFresh
    <3> QED
      BY <1>type, <2>1, <3>2, AbstractWritesStep DEF TypeOK, AbstractWrites
  <2>5. Atomic!ABegin(c)
    BY <2>1, <2>2, <2>3, <2>4
    DEF Atomic!ABegin, AbstractDb, AbstractActive, AbstractWrites
  <2> QED
    BY <2>5 DEF Atomic!ANext
<1>2. ASSUME NEW c \in Client, NEW k \in Key, GetOp(c, k) PROVE Atomic!ANext
  <2> DEFINE t == Get(records, txs[c], k)
  <2>1. t.open = txs[c].open /\ t.puts = txs[c].puts /\ t.erases = txs[c].erases
    BY <1>type, GetFields
  <2>2. /\ txs[c].open /\ txs' = [txs EXCEPT ![c] = t]
        /\ Observe(c, Fetched(c, k)) /\ UNCHANGED records
    BY <1>2 DEF GetOp
  <2>3. Fetched(c, k) \in SUBSET Key /\ \A j \in Fetched(c, k) : ~Staged(txs[c], j)
    BY DEF Fetched
  <2> HIDE DEF t
  <2>4. Atomic!ARead(c, Fetched(c, k))
    BY <1>type, <2>1, <2>2, <2>3, ReadsRefine
  <2> QED
    BY <2>3, <2>4 DEF Atomic!ANext
<1>3. ASSUME NEW c \in Client, NEW k \in Key, NEW d \in Doc, PutOp(c, k, d)
      PROVE  Atomic!ANext
  <2> DEFINE t == Put(records, txs[c], k, d)
  <2>1. /\ t.open = txs[c].open
        /\ t.puts = [txs[c].puts EXCEPT ![k] = d] /\ t.erases = txs[c].erases \ {k}
    BY <1>type, PutFields
  <2>2. /\ txs[c].open /\ txs' = [txs EXCEPT ![c] = t]
        /\ Observe(c, Fetched(c, k)) /\ UNCHANGED records
    BY <1>3 DEF PutOp
  <2> HIDE DEF t
  <2>3. Writes(t) = [Writes(txs[c]) EXCEPT ![k] = d]
    <3>1. txs[c].puts \in [Key -> Doc \cup {Absent}] /\ d # Absent
      BY <1>type, OccAssumption DEF Transaction
    <3>2. \A j \in Key : j # k =>
            /\ j \in t.erases <=> j \in txs[c].erases
            /\ t.puts[j] = txs[c].puts[j]
      BY <2>1, <3>1
    <3>3. k \notin t.erases /\ t.puts[k] = d
      BY <2>1, <3>1
    <3> QED
      BY <3>1, <3>2, <3>3 DEF Writes, Putting
  <2>4. Atomic!AWrite(c, k, d)
    BY <1>type, <2>1, <2>2, <2>3, WritesRefine
  <2> QED
    BY <2>4 DEF Atomic!ANext
<1>4. ASSUME NEW c \in Client, NEW k \in Key, EraseOp(c, k) PROVE Atomic!ANext
  <2> DEFINE t == Erase(records, txs[c], k)
  <2>1. /\ t.open = txs[c].open
        /\ t.puts = [txs[c].puts EXCEPT ![k] = Absent]
        /\ t.erases = txs[c].erases \cup {k}
    BY <1>type, EraseFields
  <2>2. /\ txs[c].open /\ txs' = [txs EXCEPT ![c] = t]
        /\ Observe(c, Fetched(c, k)) /\ UNCHANGED records
    BY <1>4 DEF EraseOp
  <2> HIDE DEF t
  <2>3. Writes(t) = [Writes(txs[c]) EXCEPT ![k] = Absent]
    <3>1. txs[c].puts \in [Key -> Doc \cup {Absent}]
      BY <1>type DEF Transaction
    <3>2. \A j \in Key : j # k =>
            /\ j \in t.erases <=> j \in txs[c].erases
            /\ t.puts[j] = txs[c].puts[j]
      BY <2>1, <3>1
    <3>3. k \in t.erases
      BY <2>1
    <3> QED
      BY <3>2, <3>3 DEF Writes, Putting
  <2>4. Atomic!AWrite(c, k, Absent)
    BY <1>type, <2>1, <2>2, <2>3, WritesRefine
  <2> QED
    BY <2>4 DEF Atomic!ANext
<1>5. ASSUME NEW c \in Client, ScanOp(c) \/ IndexOp(c) PROVE Atomic!ANext
  BY <1>type, <1>5, <1>query, QueriesReadKeys
<1>7. ASSUME NEW c \in Client, Commit(c) PROVE Atomic!ANext
  BY <1>7, CommitRefines DEF Atomic!ANext
<1>8. ASSUME NEW c \in Client, Abort(c) PROVE Atomic!ANext
  <2>1. Close(c) /\ txs[c].open /\ UNCHANGED records
    BY <1>8 DEF Abort
  <2>2. AbstractDb' = AbstractDb
    BY <2>1 DEF AbstractDb, Committed, Live
  <2>3. Atomic!AClose(c)
    BY <1>type, <2>1, CloseRefines
  <2>4. Atomic!AAbort(c)
    BY <2>1, <2>2, <2>3 DEF Atomic!AAbort, AbstractDb
  <2> QED
    BY <2>4 DEF Atomic!ANext
<1>9. CASE UNCHANGED vars
  BY <1>9 DEF vars, Atomic!avars, Committed, Live, Writes, Putting
<1>10. ASSUME NEW c \in Client, CommitThrows(c) PROVE UNCHANGED (Atomic!avars)
  <2>1. UNCHANGED vars
    BY <1>10 DEF CommitThrows
  <2> QED
    BY <2>1 DEF vars, Atomic!avars, Committed, Live, Writes, Putting
<1> QED
  BY <1>1, <1>2, <1>3, <1>4, <1>5, <1>7, <1>8, <1>9, <1>10 DEF Next

\* The in-memory backend implements the atomic store: every committed
\* transaction takes effect at one instant at which all it read is current.
THEOREM OccStoreImplementsAtomicStore == Spec => ImplementsAtomicStore
<1>1. Init => Atomic!AInit
  <2> SUFFICES ASSUME Init PROVE Atomic!AInit
    OBVIOUS
  <2>1. \A k \in Key : Committed(k) = Absent
    BY DEF Init, Committed, Live
  <2>2. \A c \in Client : ~txs[c].open /\ Writes(txs[c]) = Atomic!NoWrites
    BY ClosedIsEmpty, WritesOfFresh DEF Init, Closed
  <2>3. seen = [c \in Client |-> [k \in Key |-> {}]]
    BY DEF Init
  <2> QED
    BY <2>1, <2>2, <2>3 DEF Atomic!AInit
<1>2. VersionInv /\ [Next]_vars => [Atomic!ANext]_(Atomic!avars)
  BY StepRefines
<1>3. Spec => Atomic!ASpec
  BY <1>1, <1>2, OccStoreVersions, PTL DEF Spec, Atomic!ASpec
<1> QED
  BY <1>3 DEF ImplementsAtomicStore

--------------------------------------------------------------------------------
(***************************************************************************)
(* The indexes.                                                            *)
(***************************************************************************)

\* An index files the committed records, and no other key.
IndexesFileRecords ==
    \A i \in Index, x \in IndexKey : indexes[i][x] = {k \in Key : FiledUnder(i, k, x)}

\* put() takes its key out of the staged erases, erase() out of the staged puts.
PutOrErased ==
    \A c \in Client, k \in Key : ~(k \in txs[c].erases /\ Putting(txs[c], k))

\* The inductive invariant, on top of the types.
IndexInv == IndexesFileRecords /\ UniqueIndexes /\ PutOrErased

\* A step of transactions that commits nothing leaves the indexes right.
LEMMA ReadKeepsIndexInv ==
    ASSUME TypeOK, IndexInv, NEW c \in Client, NEW t, txs' = [txs EXCEPT ![c] = t],
           \A k \in Key : ~(k \in t.erases /\ Putting(t, k)),
           UNCHANGED <<records, indexes>>
    PROVE  IndexInv'
<1>1. PutOrErased'
  BY DEF IndexInv, PutOrErased, TypeOK
<1>2. IndexesFileRecords' /\ UniqueIndexes'
  BY DEF IndexInv, IndexesFileRecords, UniqueIndexes, FiledUnder, Live
<1> QED
  BY <1>1, <1>2 DEF IndexInv

\* get() and queries change the read set only.
LEMMA QueryKeepsIndexInv ==
    ASSUME TypeOK, IndexInv, NEW c \in Client, NEW ks, QueryReads(c, ks)
    PROVE  IndexInv'
<1> DEFINE fetched == {k \in ks : ~Staged(txs[c], k)}
           t == RecordRead(records, txs[c], fetched)
<1>1. t.puts = txs[c].puts /\ t.erases = txs[c].erases
  BY RecordReadType DEF TypeOK
<1>2. txs' = [txs EXCEPT ![c] = t] /\ UNCHANGED <<records, indexes>>
  BY DEF QueryReads
<1>3. \A k \in Key : ~(k \in t.erases /\ Putting(t, k))
  BY <1>1 DEF IndexInv, PutOrErased, Putting
<1> HIDE DEF t
<1> QED
  BY <1>2, <1>3, ReadKeepsIndexInv

\* What commit() makes of the record of k: nothing if it is erased, the staged
\* document if it is put, and otherwise what it was.
CommittedBy(t, k) ==
    /\ k \in t.erases => ~Live(records', k)
    /\ Putting(t, k) /\ k \notin t.erases =>
          Live(records', k) /\ records'[k].document = t.puts[k]
    /\ ~Putting(t, k) /\ k \notin t.erases =>
          records'[k] = records[k] /\ (Live(records', k) <=> Live(records, k))

\* The cases of CommitRecords.
LEMMA CommitRecord ==
    ASSUME TypeOK, NEW t \in Transaction, records' = CommitRecords(records, versions, t), NEW k \in Key
    PROVE  CommittedBy(t, k)
<1>1. records'[k] = IF k \in t.erases THEN Absent
                    ELSE IF Putting(t, k)
                         THEN [version |-> versions[k] + 1, document |-> t.puts[k]]
                    ELSE records[k]
  BY DEF CommitRecords
<1>2. ASSUME Putting(t, k), k \notin t.erases
      PROVE  Live(records', k) /\ records'[k].document = t.puts[k]
  <2>1. records'[k] = [version |-> versions[k] + 1, document |-> t.puts[k]]
    BY <1>1, <1>2
  <2>2. t.puts[k] \in Doc /\ versions[k] + 1 \in Nat
    BY <1>2 DEF Putting, Transaction, TypeOK
  <2> QED
    BY <2>1, <2>2 DEF Live
<1> QED
  BY <1>1, <1>2 DEF CommittedBy, Live

\* commit() files each record where it belongs: what was staged leaves its old
\* entry, and every put enters its new one.
LEMMA CommitFilesRecords ==
    ASSUME TypeOK, IndexInv, NEW c \in Client, Commit(c)
    PROVE  IndexesFileRecords'
<1> DEFINE t == txs[c]
<1>1. t \in Transaction /\ \A k \in Key : ~(k \in t.erases /\ Putting(t, k))
  BY DEF TypeOK, IndexInv, PutOrErased
<1>2. records' = CommitRecords(records, versions, t) /\ indexes' = CommitIndexes(t)
  BY DEF Commit
<1>3. \A k \in Key : CommittedBy(t, k)
  BY <1>1, <1>2, CommitRecord
<1> SUFFICES ASSUME NEW i \in Index, NEW x \in IndexKey
             PROVE  indexes'[i][x] = {k \in Key : FiledUnder(i, k, x)'}
  BY DEF IndexesFileRecords
<1>5. indexes'[i][x] = {k \in indexes[i][x] : ~(Staged(t, k) /\ FiledUnder(i, k, x))}
                       \cup {k \in Key : Putting(t, k) /\ IndexKeyOf[i][t.puts[k]] = x}
  BY <1>2 DEF CommitIndexes
<1>6. indexes[i][x] = {k \in Key : FiledUnder(i, k, x)}
  BY DEF IndexInv, IndexesFileRecords
<1>7. ASSUME NEW k \in Key
      PROVE  FiledUnder(i, k, x)' <=>
                (FiledUnder(i, k, x) /\ ~Staged(t, k))
                \/ (Putting(t, k) /\ IndexKeyOf[i][t.puts[k]] = x)
  <2>1. CommittedBy(t, k) /\ ~(k \in t.erases /\ Putting(t, k))
    BY <1>1, <1>3
  <2>2. FiledUnder(i, k, x)' <=> Live(records', k) /\ IndexKeyOf[i][records'[k].document] = x
    BY DEF FiledUnder, Live
  <2> HIDE DEF t
  <2>3. CASE k \in t.erases
    BY <2>1, <2>2, <2>3 DEF CommittedBy, Staged
  <2>4. CASE Putting(t, k)
    BY <2>1, <2>2, <2>4 DEF CommittedBy, Staged
  <2>5. CASE ~Staged(t, k)
    BY <2>1, <2>2, <2>5 DEF CommittedBy, Staged, FiledUnder
  <2> QED
    BY <2>3, <2>4, <2>5 DEF Staged
<1>8. ASSUME NEW k \in Key
      PROVE  k \in indexes'[i][x] <=> FiledUnder(i, k, x)'
  <2>1. k \in indexes'[i][x] <=>
          \/ k \in indexes[i][x] /\ ~(Staged(t, k) /\ FiledUnder(i, k, x))
          \/ Putting(t, k) /\ IndexKeyOf[i][t.puts[k]] = x
    BY <1>5
  <2>2. k \in indexes[i][x] <=> FiledUnder(i, k, x)
    BY <1>6
  <2>3. FiledUnder(i, k, x)' <=>
                (FiledUnder(i, k, x) /\ ~Staged(t, k))
                \/ (Putting(t, k) /\ IndexKeyOf[i][t.puts[k]] = x)
    BY <1>7
  <2> QED
    BY <2>1, <2>2, <2>3
<1>9. indexes'[i][x] \subseteq Key
  BY <1>5, <1>6
<1> QED
  BY <1>8, <1>9

\* commit() lets no two records into one unique entry. Of two that would share
\* it one is put, the later one say; its check finds the other filed, either
\* because it is put as well or because it is committed and stays.
LEMMA CommitKeepsUnique ==
    ASSUME TypeOK, IndexInv, NEW c \in Client, Commit(c)
    PROVE  UniqueIndexes'
<1> DEFINE t == txs[c]
           Shared(i, k) == IndexKeyOf[i][records'[k].document]
<1>1. t \in Transaction /\ ~UniqueConflict(t)
  BY DEF TypeOK, Commit
<1>2. \A k \in Key : CommittedBy(t, k)
  BY <1>1, CommitRecord DEF Commit
<1>3. ASSUME NEW i \in Unique, NEW j \in Key, NEW k \in Key, j # k,
             Live(records', j), Live(records', k), Shared(i, j) = Shared(i, k),
             Putting(t, k), Putting(t, j) => j <= k
      PROVE  FALSE
  <2> DEFINE x == IndexKeyOf[i][t.puts[k]]
  <2>1. i \in Index /\ k \notin t.erases /\ j \notin t.erases
    BY <1>2, <1>3 DEF CommittedBy
  <2>2. t.puts[k] \in Doc
    BY <1>1, <1>3 DEF Transaction, Putting
  <2>3. x \in IndexKey /\ Shared(i, j) = x
    <3>1. records'[k].document = t.puts[k]
      BY <1>2, <1>3, <2>1 DEF CommittedBy
    <3> QED
      BY <1>3, <2>1, <2>2, <3>1
  <2>4. j \in StagedIndex(t, i, x, k)
    <3>1. CASE Putting(t, j)
      <4>1. records'[j].document = t.puts[j]
        BY <1>2, <2>1, <3>1 DEF CommittedBy
      <4> QED
        BY <1>3, <2>3, <3>1, <4>1 DEF StagedIndex
    <3>2. CASE ~Putting(t, j)
      <4>1. records'[j] = records[j] /\ Live(records, j)
        BY <1>2, <1>3, <2>1, <3>2 DEF CommittedBy
      <4>2. FiledUnder(i, j, x)
        BY <2>3, <4>1 DEF FiledUnder
      <4>3. j \in indexes[i][x]
        BY <2>1, <2>3, <4>2 DEF IndexInv, IndexesFileRecords
      <4> QED
        BY <2>1, <3>2, <4>3 DEF StagedIndex
    <3> QED
      BY <3>1, <3>2
  <2>5. StagedIndex(t, i, x, k) = {k}
    BY <1>1, <1>3 DEF UniqueConflict
  <2> QED
    BY <1>3, <2>4, <2>5
<1>4. ASSUME NEW i \in Unique, NEW j \in Key, NEW k \in Key, j # k,
             Live(records', j), Live(records', k), Shared(i, j) = Shared(i, k)
      PROVE  FALSE
  <2>1. j \in Nat /\ k \in Nat
    OBVIOUS
  <2>2. CASE ~Putting(t, j) /\ ~Putting(t, k)
    <3>1. /\ records'[j] = records[j] /\ records'[k] = records[k]
          /\ Live(records, j) /\ Live(records, k)
      BY <1>2, <1>4, <2>2 DEF CommittedBy
    <3> QED
      BY <1>4, <3>1 DEF IndexInv, UniqueIndexes
  <2>3. CASE Putting(t, k) /\ (Putting(t, j) => j <= k)
    BY <1>3, <1>4, <2>3
  <2>4. CASE Putting(t, j) /\ (Putting(t, k) => k <= j)
    BY <1>3, <1>4, <2>4
  <2>5. j <= k \/ k <= j
    BY <2>1
  <2> QED
    BY <2>2, <2>3, <2>4, <2>5
<1> QED
  BY <1>4 DEF UniqueIndexes

\* Every step of the backend preserves the invariant.
LEMMA StepKeepsIndexInv ==
    ASSUME TypeOK, IndexInv, [Next]_vars
    PROVE  IndexInv'
<1>type. /\ records \in [Key -> Record \cup {Absent}]
         /\ \A c \in Client : txs[c] \in Transaction
  BY DEF TypeOK
<1>closed. \A k \in Key : /\ ~(k \in Closed.erases /\ Putting(Closed, k))
                         /\ ~(k \in Begun.erases /\ Putting(Begun, k))
  BY DEF Closed, Begun
<1>1. ASSUME NEW c \in Client, Begin(c) PROVE IndexInv'
  BY <1>1, <1>closed, ReadKeepsIndexInv DEF Begin
<1>2. ASSUME NEW c \in Client, NEW k \in Key, GetOp(c, k) PROVE IndexInv'
  <2>1. /\ Get(records, txs[c], k).puts = txs[c].puts
        /\ Get(records, txs[c], k).erases = txs[c].erases
    BY <1>type, GetFields
  <2>2. txs' = [txs EXCEPT ![c] = Get(records, txs[c], k)] /\ UNCHANGED <<records, indexes>>
    BY <1>2 DEF GetOp
  <2>3. \A j \in Key : ~(/\ j \in Get(records, txs[c], k).erases
                         /\ Putting(Get(records, txs[c], k), j))
    BY <2>1 DEF IndexInv, PutOrErased, Putting
  <2> QED
    BY <2>2, <2>3, ReadKeepsIndexInv
<1>3. ASSUME NEW c \in Client, NEW k \in Key, NEW d \in Doc, PutOp(c, k, d)
      PROVE  IndexInv'
  <2> DEFINE t == Put(records, txs[c], k, d)
  <2>1. t.puts = [txs[c].puts EXCEPT ![k] = d] /\ t.erases = txs[c].erases \ {k}
    BY <1>type, PutFields
  <2>2. txs' = [txs EXCEPT ![c] = t] /\ UNCHANGED <<records, indexes>>
    BY <1>3 DEF PutOp
  <2> HIDE DEF t
  <2>3. \A j \in Key : ~(j \in t.erases /\ Putting(t, j))
    BY <1>type, <2>1 DEF IndexInv, PutOrErased, Putting, Transaction
  <2> QED
    BY <2>2, <2>3, ReadKeepsIndexInv
<1>4. ASSUME NEW c \in Client, NEW k \in Key, EraseOp(c, k) PROVE IndexInv'
  <2> DEFINE t == Erase(records, txs[c], k)
  <2>1. t.puts = [txs[c].puts EXCEPT ![k] = Absent] /\ t.erases = txs[c].erases \cup {k}
    BY <1>type, EraseFields
  <2>2. txs' = [txs EXCEPT ![c] = t] /\ UNCHANGED <<records, indexes>>
    BY <1>4 DEF EraseOp
  <2> HIDE DEF t
  <2>3. \A j \in Key : ~(j \in t.erases /\ Putting(t, j))
    BY <1>type, <2>1 DEF IndexInv, PutOrErased, Putting, Transaction
  <2> QED
    BY <2>2, <2>3, ReadKeepsIndexInv
<1>5. ASSUME NEW c \in Client, ScanOp(c) \/ IndexOp(c) PROVE IndexInv'
  <2>1. \E found : QueryReads(c, found)
    BY <1>5 DEF ScanOp, IndexOp
  <2> QED
    BY <2>1, QueryKeepsIndexInv
<1>6. ASSUME NEW c \in Client, Commit(c) PROVE IndexInv'
  <2>1. txs' = [txs EXCEPT ![c] = Closed]
    BY <1>6 DEF Commit, Close
  <2>2. PutOrErased'
    BY <1>closed, <2>1 DEF IndexInv, PutOrErased, TypeOK
  <2> QED
    BY <1>6, <2>2, CommitFilesRecords, CommitKeepsUnique DEF IndexInv
<1>7. ASSUME NEW c \in Client, Abort(c) PROVE IndexInv'
  BY <1>7, <1>closed, ReadKeepsIndexInv DEF Abort, Close
<1>8. ASSUME UNCHANGED vars PROVE IndexInv'
  BY <1>8 DEF vars, IndexInv, IndexesFileRecords, UniqueIndexes, PutOrErased, FiledUnder
<1> QED
  BY <1>1, <1>2, <1>3, <1>4, <1>5, <1>6, <1>7, <1>8 DEF Next, CommitThrows

\* Initially there are no records, and nothing is filed.
LEMMA InitIndexInv == Init => IndexInv
<1> SUFFICES ASSUME Init
             PROVE  IndexInv
  OBVIOUS
<1>1. \A k \in Key : ~Live(records, k)
  BY DEF Init, Live
<1>2. IndexesFileRecords /\ UniqueIndexes
  BY <1>1 DEF Init, IndexesFileRecords, UniqueIndexes, FiledUnder
<1>3. PutOrErased
  BY DEF Init, PutOrErased, Closed
<1> QED
  BY <1>2, <1>3 DEF IndexInv

--------------------------------------------------------------------------------

\* transaction.hpp, commit(): the index states are those of the committed
\* records, and unique indexes are unique.
THEOREM OccStoreIndexInv == Spec => []IndexInv
BY InitIndexInv, StepKeepsIndexInv, OccStoreTypeOK, PTL DEF Spec

\* No two records have the same key in a unique index.
THEOREM OccStoreUniqueIndexes == Spec => []UniqueIndexes
<1>1. IndexInv => UniqueIndexes
  BY DEF IndexInv
<1> QED
  BY <1>1, OccStoreIndexInv, PTL

\* transaction.hpp, query(): the index branch returns what the scan returns.
THEOREM OccStoreIndexAgreesWithScan == Spec => []IndexAgreesWithScan
<1>1. ASSUME TypeOK, IndexInv, NEW c \in Client, NEW i \in Index, NEW x \in IndexKey
      PROVE  IndexResult(txs[c], i, {x})
               = ScanResult(txs[c], Key, {d \in Doc : IndexKeyOf[i][d] = x})
  <2> DEFINE t == txs[c]
             ds == {d \in Doc : IndexKeyOf[i][d] = x}
  <2>1. t \in Transaction /\ \A k \in Key : ~(k \in t.erases /\ Putting(t, k))
    BY <1>1 DEF TypeOK, IndexInv, PutOrErased
  <2>2. UNION {indexes[i][y] : y \in {x}} = {k \in Key : FiledUnder(i, k, x)}
    BY <1>1 DEF IndexInv, IndexesFileRecords
  <2>3. ASSUME NEW k \in Key
        PROVE  \/ FiledUnder(i, k, x) /\ ~Staged(t, k)
               \/ Putting(t, k) /\ IndexKeyOf[i][t.puts[k]] = x
               <=> Visible(records, t, k) \in ds \ {Absent}
    <3>1. Putting(t, k) => t.puts[k] \in Doc
      BY <2>1 DEF Transaction, Putting
    <3>2. Live(records, k) => records[k].document \in Doc
      BY <1>1 DEF TypeOK, Live, Record
    <3>3. CASE k \in t.erases
      BY <2>1, <3>3 DEF Visible, Staged
    <3>4. CASE Putting(t, k)
      BY <2>1, <3>1, <3>4 DEF Visible, Staged
    <3>5. CASE ~Staged(t, k)
      BY <3>2, <3>5 DEF Visible, Staged, FiledUnder
    <3> QED
      BY <3>3, <3>4, <3>5 DEF Staged
  <2>4. IndexResult(t, i, {x}) =
          {k \in Key : \/ FiledUnder(i, k, x) /\ ~Staged(t, k)
                       \/ Putting(t, k) /\ IndexKeyOf[i][t.puts[k]] = x}
    BY <2>2 DEF IndexResult, FiledUnder
  <2> QED
    BY <2>3, <2>4 DEF ScanResult
<1>2. TypeOK /\ IndexInv => IndexAgreesWithScan
  BY <1>1 DEF IndexAgreesWithScan
<1> QED
  BY <1>2, OccStoreTypeOK, OccStoreIndexInv, PTL

================================================================================
