---------------------------------- MODULE Occ ----------------------------------
(***************************************************************************)
(* The optimistic transaction of the C++ in-memory backend, as operators:  *)
(* what get, put, erase and commit do to the shared records and versions   *)
(* and to one transaction's own read set, staged puts and staged erases.   *)
(* OccStore makes a state machine of them; the lease, queue and workflow   *)
(* stores run their operations on them.                                    *)
(*                                                                         *)
(* A key stands for a (collection, key) pair, which is what the code's     *)
(* "record:<collection>:<key>" version keys name.                          *)
(***************************************************************************)
EXTENDS Integers

CONSTANTS
    Key,        \* the (collection, key) pairs
    Doc,        \* the documents a record can hold
    Absent      \* no record, no staged put

ASSUME OccAssumption == Absent \notin Doc /\ Absent \notin [version : Nat, document : Doc]

\* No entry in read_versions_: a version is never negative.
Unread == -1

Record == [version : Nat, document : Doc]

Transaction == [open   : BOOLEAN,
                reads  : [Key -> Nat \cup {Unread}],
                puts   : [Key -> Doc \cup {Absent}],
                erases : SUBSET Key]

\* A transaction after abort(), or before it is begun.
Closed == [open   |-> FALSE,
           reads  |-> [k \in Key |-> Unread],
           puts   |-> [k \in Key |-> Absent],
           erases |-> {}]

Begun == [Closed EXCEPT !.open = TRUE]

Live(records, k) == records[k] # Absent

Putting(t, k) == t.puts[k] # Absent

Staged(t, k) == k \in t.erases \/ Putting(t, k)

\* The document a transaction sees under k, its own staged writes included.
Visible(records, t, k) ==
    IF k \in t.erases THEN Absent
    ELSE IF Putting(t, k) THEN t.puts[k]
    ELSE IF Live(records, k) THEN records[k].document
    ELSE Absent

\* The version a read of k records: that of the record, and 0 without one,
\* whatever the version map holds for a key whose record was erased.
ReadVersion(records, k) == IF Live(records, k) THEN records[k].version ELSE 0

\* read_versions_ after the committed records of ks are read: emplace keeps
\* the version of the first read.
RecordRead(records, t, ks) ==
    [t EXCEPT !.reads = [k \in Key |->
        IF k \in ks /\ t.reads[k] = Unread THEN ReadVersion(records, k)
        ELSE t.reads[k]]]

\* get: a staged key is answered from the transaction and reads nothing.
Get(records, t, k) == IF Staged(t, k) THEN t ELSE RecordRead(records, t, {k})

\* Faulty variant of Put: a blind write, which reads no version.
PutUnread(records, t, k, d) == [t EXCEPT !.puts[k] = d, !.erases = @ \ {k}]

Put(records, t, k, d) ==
    [Get(records, t, k) EXCEPT !.puts[k] = d, !.erases = @ \ {k}]

Erase(records, t, k) ==
    [Get(records, t, k) EXCEPT !.puts[k] = Absent, !.erases = @ \cup {k}]

\* Faulty variants of Validates: only written keys are compared (write skew);
\* version 0 is taken for "nothing to compare"; a newer version is good enough.
ValidatesStaged(versions, t) ==
    \A k \in Key : Staged(t, k) => versions[k] = t.reads[k]

ValidatesExisting(versions, t) ==
    \A k \in Key : t.reads[k] \notin {Unread, 0} => versions[k] = t.reads[k]

ValidatesNewer(versions, t) ==
    \A k \in Key : t.reads[k] # Unread => versions[k] >= t.reads[k]

\* The first loop of commit(): every version read is still the current one.
Validates(versions, t) ==
    \A k \in Key : t.reads[k] # Unread => versions[k] = t.reads[k]

\* Faulty variant of CommitVersions: an erase leaves a tombstone for a version.
VersionsTombstone(versions, t) ==
    [k \in Key |-> IF k \in t.erases THEN Unread
                   ELSE IF Putting(t, k) THEN versions[k] + 1 ELSE versions[k]]

\* The effect of a commit: every erase and every put counts a version.
CommitVersions(versions, t) ==
    [k \in Key |-> IF Staged(t, k) THEN versions[k] + 1 ELSE versions[k]]

CommitRecords(records, versions, t) ==
    [k \in Key |->
        IF k \in t.erases THEN Absent
        ELSE IF Putting(t, k)
             THEN [version |-> versions[k] + 1, document |-> t.puts[k]]
        ELSE records[k]]

================================================================================
