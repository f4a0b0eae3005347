---- MODULE Handlers ----
\* The vocabulary of the generated CRUD handlers. A handler body is a sequence
\* of steps: what it decides by itself between two calls of the backend is part
\* of the call that follows. CrudHandlers runs the steps.
EXTENDS Naturals, Sequences, FiniteSets

CONSTANT None           \* an absent optional

\* The parts of an IrSystem the handlers are made from:
\*   entities[e] = [keys, fields, initial, terminal, transitions,
\*                  relations (sequence of [kind, target, optional]),
\*                  indexes (set of sequences of fields)]
\*   shapes[s]   = [fields, list (its first array field), items (the entity
\*                  named by the item type, without the suffix Response)]
\* and an API [entity, operation, input, output, path (the parameters in its
\* path), selector, starts, enqueues].

\* Where a generated expression takes a value from.
Body(f) == <<"request", f>>
PathParameter(f) == <<"path", f>>
Stored(f) == <<"record", f>>
Literal(text) == <<"literal", text>>
Timestamp == <<"time", "now">>

Timestamps == {"created_at", "updated_at"}
Foundational == Timestamps \cup {"status"}

\* The steps. A key maps the key fields of an entity to sources.
Raise == [op |-> "raise"]
\* Decode the request, register_descriptor, begin.
Open(e, decodes) == [op |-> "open", entity |-> e, decodes |-> decodes]
\* getTx on a parent, which must exist.
Parent(e, key) == [op |-> "parent", entity |-> e, key |-> key]
\* createTx: get, which must find nothing, then put.
CreateTx(e, key, document) ==
    << [op |-> "vacant", entity |-> e, key |-> key],
       [op |-> "put", entity |-> e, key |-> key, document |-> document] >>
\* getTx; without a record the transaction is committed and 404 answered.
GetTx(e, key) == [op |-> "get", entity |-> e, key |-> key]
\* The transition check, then updateTx: get, compare the version with that of
\* the record the handler read, put.
UpdateTx(e, key, document, allowed) ==
    << [op |-> "current", entity |-> e, key |-> key, to |-> document["status"],
        allowed |-> allowed],
       [op |-> "put", entity |-> e, key |-> key, document |-> document] >>
\* list_entities_by_indexTx on a prefix of an index.
Query(e, values) == [op |-> "query", entity |-> e, values |-> values]
\* commit, then the answer: the fields of body, and whether a field that the
\* record lacks is an error.
CommitAs(status, body, strict) ==
    [op |-> "commit", status |-> status, body |-> body, strict |-> strict]
\* An answer that involves no transaction.
Respond(decodes, status, body) ==
    [op |-> "respond", decodes |-> decodes, status |-> status, body |-> body]

NoBody == [f \in {} |-> None]

FieldsOf(ir, shape) == IF shape \in DOMAIN ir.shapes THEN ir.shapes[shape].fields ELSE {}

\* The elements of seq at some of its positions, in their order.
Selected(seq, positions) ==
    [n \in 1..Cardinality(positions) |->
        seq[CHOOSE i \in positions : Cardinality(positions \cap 1..i) = n]]

\* select_entity_list_index_for_selector
HasListIndex(entity, selector) ==
    /\ selector # <<>>
    /\ \E index \in entity.indexes :
          Len(selector) <= Len(index) /\ SubSeq(index, 1, Len(selector)) = selector
====
