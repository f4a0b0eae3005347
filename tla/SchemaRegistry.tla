----------------------------- MODULE SchemaRegistry ----------------------------
(***************************************************************************)
(* Collections of the in-memory backend while application instances of     *)
(* different versions come and go: each registers the descriptors it was   *)
(* generated with, the backend accepts upgrades it takes for compatible,   *)
(* and all go on writing documents under the descriptor they know.         *)
(*                                                                         *)
(* A document is the set of the fields it has; an index files a key under  *)
(* those of its fields the document has.                                   *)
(***************************************************************************)
EXTENDS Naturals, SequencesExt

CONSTANTS
    Batches,   \* the sequences of descriptors applications register at once
    Key,       \* the keys of the documents of a collection
    None

\* A CollectionDescriptor is [name, version, key, fields, indexes]: fields is a
\* sequence of [name, type, required], indexes one of [name, fields, unique].
\* type stands for the type and the type_name of a field.

Descriptor == UNION {ToSet(batch) : batch \in Batches}
Collection == {d.name : d \in Descriptor}

VARIABLES
    collections,   \* state_->collections
    indexes,       \* state_->indexes: collection -> index -> {<<entry, key>>}
    records,       \* state_->records: collection -> key -> document, or None
    accepted       \* observed: the descriptors registered by calls that returned

vars == <<collections, indexes, records, accepted>>

Fields(d) == {f.name : f \in ToSet(d.fields)}
Required(d) == {f.name : f \in {g \in ToSet(d.fields) : g.required}}

FieldName == UNION {Fields(d) : d \in Descriptor}

\* Generated descriptors name no field twice, which the validator sees to.
ASSUME BatchesAssumption ==
    /\ \A batch \in Batches : batch \in Seq(Descriptor)
    /\ \A d \in Descriptor : \A f, g \in ToSet(d.fields) : f.name = g.name => f = g
    /\ None \notin Descriptor
    /\ \A document \in SUBSET FieldName : document # None

Init ==
    /\ collections = [n \in Collection |-> None]
    /\ indexes = [n \in Collection |-> [i \in {} |-> {}]]
    /\ records = [n \in Collection |-> [k \in Key |-> None]]
    /\ accepted = {}

--------------------------------------------------------------------------------
\* compare_collection_descriptors. A field or an index that is renamed is one
\* removed and one added.

\* Faulty variant of FieldsKept: an optional field may become required.
FieldsTightened(old, new) ==
    \A f \in ToSet(old.fields) : \E g \in ToSet(new.fields) :
        g.name = f.name /\ g.type = f.type
FieldsKept(old, new) ==
    \A f \in ToSet(old.fields) : \E g \in ToSet(new.fields) :
        g.name = f.name /\ g.type = f.type /\ (g.required => f.required)

FieldsAdded(old, new) == Required(new) \subseteq Fields(old)

\* Faulty variant of IndexesKept: an index of the same name will do.
IndexNamesKept(old, new) ==
    \A i \in ToSet(old.indexes) : \E j \in ToSet(new.indexes) : i.name = j.name
IndexesKept(old, new) == ToSet(old.indexes) \subseteq ToSet(new.indexes)

IndexesAdded(old, new) ==
    \A i \in ToSet(new.indexes) \ ToSet(old.indexes) : ~i.unique

Upgradable(old, new) ==
    \/ old = new
    \/ /\ new.version > old.version
       /\ new.key = old.key
       /\ FieldsKept(old, new) /\ FieldsAdded(old, new)
       /\ IndexesKept(old, new) /\ IndexesAdded(old, new)

\* The descriptors once the batch is applied, of which the last counts.
Staged(batch) ==
    [n \in Collection |->
        LET ofn == {i \in DOMAIN batch : batch[i].name = n}
        IN  IF ofn = {} THEN collections[n]
            ELSE batch[CHOOSE i \in ofn : \A j \in ofn : j <= i]]

\* Each descriptor is compared with what those before it have left.
Accepts(batch) ==
    \A i \in DOMAIN batch :
        LET old == Staged(SubSeq(batch, 1, i - 1))[batch[i].name]
        IN  old # None => Upgradable(old, batch[i])

\* empty_index_states
EmptyIndexes(d) == [i \in ToSet(d.indexes) |-> {}]

\* Faulty variant of Publish: an upgrade makes index states of its own.
PublishAnew(batch) ==
    /\ collections' = Staged(batch)
    /\ indexes' = [n \in Collection |->
          IF collections'[n] # collections[n]
          THEN EmptyIndexes(collections'[n]) ELSE indexes[n]]
    /\ UNCHANGED records

Publish(batch) ==
    /\ collections' = Staged(batch)
    /\ indexes' = [n \in Collection |->
          IF collections[n] = None /\ collections'[n] # None
          THEN EmptyIndexes(collections'[n]) ELSE indexes[n]]
    /\ UNCHANGED records

\* ensure_collections, and ensure_collection for a batch of one.
Ensure(batch) ==
    /\ Accepts(batch)
    /\ Publish(batch)
    /\ accepted' = accepted \cup ToSet(batch)

\* Faulty variant of EnsureThrows: what precedes the refused descriptor stays.
EnsureThrowsLate(batch) ==
    /\ ~Accepts(batch)
    /\ \E i \in DOMAIN batch :
          /\ Accepts(SubSeq(batch, 1, i - 1)) /\ ~Accepts(SubSeq(batch, 1, i))
          /\ Publish(SubSeq(batch, 1, i - 1))
    /\ UNCHANGED accepted

\* A batch with a descriptor that is refused throws SchemaConflict.
EnsureThrows(batch) ==
    /\ ~Accepts(batch)
    /\ UNCHANGED vars

--------------------------------------------------------------------------------
\* Commits of one document.

Entry(index, document) == ToSet(index.fields) \cap document

\* remove_record_from_indexes and add_record_to_indexes
Refile(n, k, document) ==
    [i \in DOMAIN indexes[n] |->
        (IF records[n][k] = None THEN indexes[n][i]
         ELSE indexes[n][i] \ {<<Entry(i, records[n][k]), k>>})
        \cup (IF document = None THEN {} ELSE {<<Entry(i, document), k>>})]

UniqueConflict(n, k, document) ==
    \E i \in DOMAIN indexes[n] : i.unique /\ \E e \in indexes[n][i] :
        e[1] = Entry(i, document) /\ e[2] # k

\* A document of the application that was generated with d.
Put(d, k, document) ==
    /\ Required(d) \subseteq document
    /\ ~UniqueConflict(d.name, k, document)
    /\ records' = [records EXCEPT ![d.name][k] = document]
    /\ indexes' = [indexes EXCEPT ![d.name] = Refile(d.name, k, document)]
    /\ UNCHANGED <<collections, accepted>>

Erase(d, k) ==
    /\ records[d.name][k] # None
    /\ records' = [records EXCEPT ![d.name][k] = None]
    /\ indexes' = [indexes EXCEPT ![d.name] = Refile(d.name, k, None)]
    /\ UNCHANGED <<collections, accepted>>

Next ==
    \/ \E batch \in Batches : Ensure(batch) \/ EnsureThrows(batch)
    \/ \E d \in accepted, k \in Key :
          \/ \E document \in SUBSET Fields(d) : Put(d, k, document)
          \/ Erase(d, k)

Spec == Init /\ [][Next]_vars

--------------------------------------------------------------------------------

Stored(n) == {k \in Key : records[n][k] # None}
Registered == {n \in Collection : collections[n] # None}

\* "All existing records remain valid" (docs/schema-upgrades.md): whichever
\* instances wrote them, before or after the upgrade, the documents of a
\* collection have the fields its descriptor requires, and no unknown ones.
DocumentsStayValid ==
    \A n \in Registered : \A k \in Stored(n) :
        /\ Required(collections[n]) \subseteq records[n][k]
        /\ records[n][k] \subseteq Fields(collections[n])

\* An instance that has started is not left behind by later upgrades: the
\* collection it addresses has its key, its fields and its indexes.
OldInstancesServed ==
    \A d \in accepted :
        LET now == collections[d.name]
        IN  /\ now.key = d.key
            /\ \A f \in ToSet(d.fields) :
                  \E g \in ToSet(now.fields) : g.name = f.name /\ g.type = f.type
            /\ ToSet(d.indexes) \subseteq ToSet(now.indexes)

\* "Bulk registration must be atomic": no descriptor of a batch that was
\* refused is in force.
NothingHalfPublished == \A n \in Registered : collections[n] \in accepted

\* The indexes a collection started with file its records through every
\* upgrade, and the unique ones of its descriptor are unique.
IndexesSurvive ==
    \A n \in Registered :
        /\ \A i \in DOMAIN indexes[n] :
              indexes[n][i] = {<<Entry(i, records[n][k]), k>> : k \in Stored(n)}
        /\ \A i \in ToSet(collections[n].indexes) : i.unique =>
              \A j, k \in Stored(n) :
                 Entry(i, records[n][j]) = Entry(i, records[n][k]) => j = k

================================================================================
