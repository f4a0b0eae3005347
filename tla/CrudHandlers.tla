---- MODULE CrudHandlers ----
(***************************************************************************)
(* Generated API handlers at work: clients call CRUD operations side by    *)
(* side with the garbage collector of an entity, all on the transactions   *)
(* of Occ. The handlers are those of one binding; a step of a handler is a *)
(* call of the backend with what the handler decides up to it.             *)
(***************************************************************************)
EXTENDS Handlers, Integers, FiniteSets, FiniteSetsExt

CONSTANTS
    Client, Collector,   \* threads: API clients, GC workers
    Languages,           \* the bindings considered
    System,              \* the IrSystem: [entities, shapes, apis (a set)]
    Text,                \* what a key or a plain field can hold
    Requests(_),         \* the requests [body, path] a client may send to an API
    Collected,           \* the entity that is garbage collected
    MaxCalls,            \* bound: Client -> the calls it makes
    BatchLimit,          \* EntityGcWorkerConfig::batch_limit
    Absent

Thread == Client \cup Collector
Entity(e) == System.entities[e]

Value == Text \cup {"now"} \cup UNION {Entity(e).states : e \in DOMAIN System.entities}
Key == UNION {{e} \X [Entity(e).keys -> Text] : e \in DOMAIN System.entities}
Doc == UNION {[Entity(e).fields -> Value] : e \in DOMAIN System.entities}

\* The entities without which one of this kind is not created.
ParentEntities(entity) ==
    {entity.relations[i].target :
        i \in {j \in DOMAIN entity.relations :
                  entity.relations[j].kind = "parent" /\ ~entity.relations[j].optional}}

\* What the validator has accepted (EntityRules), and that no management field
\* is part of a key.
ASSUME SystemAssumption ==
    \A e \in DOMAIN System.entities :
        /\ Entity(e).keys \subseteq Entity(e).fields \ Foundational
        /\ {"status", "updated_at"} \subseteq Entity(e).fields
        /\ Entity(e).initial \in Entity(e).states
        /\ Entity(e).terminal \subseteq Entity(e).states
        /\ Entity(e).transitions \subseteq Entity(e).states \X Entity(e).states
        /\ None \notin Entity(e).states
        /\ Entity(e).relations \in
              Seq([kind : STRING, target : DOMAIN System.entities, optional : BOOLEAN])

ASSUME ThreadAssumption == Client \cap Collector = {}

VARIABLES
    language,
    records,    \* Key -> committed record
    versions,   \* Key -> version
    txs,        \* Thread -> transaction
    calls,      \* Client -> [api, request, rest (of its handler), seen, answer]
    left,       \* Client -> calls it may still make
    batches     \* Collector -> keys listed and not yet erased

vars == <<language, records, versions, txs, calls, left, batches>>
store == <<records, versions>>

O == INSTANCE Occ
Cpp == INSTANCE CppHandlers
Java == INSTANCE JavaHandlers
Go == INSTANCE GoHandlers
Rust == INSTANCE RustHandlers

Handler(binding, api) ==
    CASE binding = "cpp"  -> Cpp!CppHandler(System, api)
      [] binding = "java" -> Java!JavaHandler(System, api)
      [] binding = "go"   -> Go!GoHandler(System, api)
      [] binding = "rust" -> Rust!RustHandler(System, api)

\* What the CRUD contract allows (Generator!CrudContract), with a handler body to
\* be written; the key of a parent is among the fields of its children, as the
\* generated lookup takes it, and the answer of an update has fields of the entity.
Operations == {"create", "get", "list", "update_status", "delete"}
ASSUME ApiAssumption ==
    /\ None \notin Operations
    /\ \A api \in System.apis : api.operation # None =>
          /\ api.operation \in Operations
          /\ Cpp!Handles(System, api, api.operation)
          /\ api.operation # "list" => Entity(api.entity).keys \subseteq api.path
          /\ api.operation = "create" =>
                \A p \in ParentEntities(Entity(api.entity)) :
                    Entity(p).keys \subseteq Entity(api.entity).fields
          /\ api.operation = "update_status" =>
                FieldsOf(System, api.output) \subseteq Entity(api.entity).fields

\* Plain fields and path parameters are texts; a requested status may be anything.
ASSUME RequestAssumption ==
    \A api \in System.apis : \A r \in Requests(api) :
        /\ \A f \in DOMAIN r.body \ Foundational : r.body[f] \in Text
        /\ \A f \in api.path : r.path[f] \in Text

Init ==
    /\ language \in Languages
    /\ \E existing \in SUBSET {k \in Key : k[1] = Collected} :
          /\ \E plain \in Text :
                records = [k \in Key |->
                    IF k \in existing
                    THEN [version  |-> 1,
                          document |-> [f \in Entity(k[1]).fields |->
                              CASE f = "status"              -> Entity(k[1]).initial
                                [] f \in Timestamps          -> "now"
                                [] f \in Entity(k[1]).keys   -> k[2][f]
                                [] OTHER                     -> plain]]
                    ELSE Absent]
          /\ versions = [k \in Key |-> IF k \in existing THEN 1 ELSE 0]
    /\ txs = [t \in Thread |-> O!Closed]
    /\ calls = [c \in Client |-> [rest |-> <<>>, answer |-> 0]]
    /\ left = MaxCalls
    /\ batches = [g \in Collector |-> {}]

----
\* The backend. Its ports to other languages keep the version of the last read
\* of a key, where the C++ one keeps that of the first.

ReadAgain(t, ks) ==
    [t EXCEPT !.reads = [k \in Key |->
        IF k \in ks THEN O!ReadVersion(records, k) ELSE t.reads[k]]]

Reading(t, ks) ==
    IF language = "cpp" THEN O!RecordRead(records, t, ks) ELSE ReadAgain(t, ks)

Get(t, k) == IF O!Staged(t, k) THEN t ELSE Reading(t, {k})
Put(t, k, d) == [Get(t, k) EXCEPT !.puts[k] = d, !.erases = @ \ {k}]
Erase(t, k) == [Get(t, k) EXCEPT !.puts[k] = Absent, !.erases = @ \cup {k}]

\* commit(): all of the transaction takes effect, or it is aborted.
Commits(t) == O!Validates(versions, txs[t])
CommitTx(t) ==
    /\ records' = O!CommitRecords(records, versions, txs[t])
    /\ versions' = O!CommitVersions(versions, txs[t])
    /\ txs' = [txs EXCEPT ![t] = O!Closed]
Abort(t) == txs' = [txs EXCEPT ![t] = O!Closed]

----
\* The handlers.

\* What the source of a value stands for in a call.
Eval(call, source) ==
    CASE source[1] = "request" -> call.request.body[source[2]]
      [] source[1] = "path"    -> call.request.path[source[2]]
      [] source[1] = "record"  -> call.seen.document[source[2]]
      [] OTHER                 -> source[2]
EvalAll(call, sources) == [f \in DOMAIN sources |-> Eval(call, sources[f])]

Busy(c) == calls[c].rest # <<>>
Step(c) == Head(calls[c].rest)
At(c, op) == Busy(c) /\ Step(c).op = op
StepKey(c) == <<Step(c).entity, EvalAll(calls[c], Step(c).key)>>
Decoded(c) == Step(c).decodes \subseteq DOMAIN calls[c].request.body

Advance(c) == calls' = [calls EXCEPT ![c].rest = Tail(@)]
Answer(c, status) == calls' = [calls EXCEPT ![c] = [rest |-> <<>>, answer |-> status]]

\* An exception: the transaction is aborted and the caller answered an error.
Fail(c) == Abort(c) /\ Answer(c, 500)

Receive(c, api, request) ==
    /\ ~Busy(c)
    /\ left[c] > 0
    /\ left' = [left EXCEPT ![c] = @ - 1]
    /\ calls' = [calls EXCEPT ![c] =
          [api |-> api, request |-> request, rest |-> Handler(language, api), seen |-> Absent,
           answer |-> 0]]
    /\ UNCHANGED <<language, store, txs, batches>>

OpenTx(c) ==
    /\ At(c, "open")
    /\ IF Decoded(c)
       THEN txs' = [txs EXCEPT ![c] = O!Begun] /\ Advance(c)
       ELSE Fail(c)
    /\ UNCHANGED <<language, store, left, batches>>

\* The gets a handler goes on from or fails at: a parent must exist, what is
\* created must not, and what is updated must be as it was read.
RequireTx(c, op, holds) ==
    /\ At(c, op)
    /\ IF holds
       THEN txs' = [txs EXCEPT ![c] = Get(@, StepKey(c))] /\ Advance(c)
       ELSE Fail(c)
    /\ UNCHANGED <<language, store, left, batches>>

Exists(c) == O!Visible(records, txs[c], StepKey(c)) # Absent
RequireParent(c) == RequireTx(c, "parent", At(c, "parent") /\ Exists(c))
RequireVacant(c) == RequireTx(c, "vacant", At(c, "vacant") /\ ~Exists(c))
RequireCurrent(c) ==
    RequireTx(c, "current",
        /\ At(c, "current")
        /\ <<calls[c].seen.document["status"], Eval(calls[c], Step(c).to)>> \in Step(c).allowed
        /\ records[StepKey(c)] # Absent
        /\ records[StepKey(c)].version = calls[c].seen.version)

GetRecord(c) ==
    /\ At(c, "get")
    /\ txs' = [txs EXCEPT ![c] = Get(@, StepKey(c))]
    /\ calls' = [calls EXCEPT
          ![c].seen = records[StepKey(c)],
          ![c].rest = IF Exists(c) THEN Tail(@) ELSE <<CommitAs(404, NoBody, TRUE)>>]
    /\ UNCHANGED <<language, store, left, batches>>

PutRecord(c) ==
    /\ At(c, "put")
    /\ txs' = [txs EXCEPT ![c] = Put(@, StepKey(c), EvalAll(calls[c], Step(c).document))]
    /\ Advance(c)
    /\ UNCHANGED <<language, store, left, batches>>

QueryIndex(c) ==
    /\ At(c, "query")
    /\ LET wanted == EvalAll(calls[c], Step(c).values)
           found == {k \in Key : /\ k[1] = Step(c).entity
                                 /\ O!Live(records, k)
                                 /\ \A f \in DOMAIN wanted :
                                       records[k].document[f] = wanted[f]}
       IN  txs' = [txs EXCEPT ![c] = Reading(@, found)]
    /\ Advance(c)
    /\ UNCHANGED <<language, store, left, batches>>

\* The answer is put together after the commit, from the record if it has all
\* the fields that are decoded.
CommitAndAnswer(c) ==
    /\ At(c, "commit")
    /\ IF Commits(c)
       THEN /\ CommitTx(c)
            /\ LET stored == {f \in DOMAIN Step(c).body : Step(c).body[f] = Stored(f)}
                   decodable == \/ ~Step(c).strict
                                \/ stored = {}
                                \/ stored \subseteq DOMAIN calls[c].seen.document
               IN  Answer(c, IF decodable THEN Step(c).status ELSE 500)
       ELSE Fail(c) /\ UNCHANGED store
    /\ UNCHANGED <<language, left, batches>>

RaiseOrRespond(c) ==
    /\ At(c, "raise") \/ At(c, "respond")
    /\ Answer(c, IF At(c, "raise") \/ ~Decoded(c) THEN 500 ELSE Step(c).status)
    /\ UNCHANGED <<language, store, txs, left, batches>>

Handle(c) ==
    \/ OpenTx(c) \/ RequireParent(c) \/ RequireVacant(c) \/ RequireCurrent(c)
    \/ GetRecord(c) \/ PutRecord(c) \/ QueryIndex(c)
    \/ CommitAndAnswer(c) \/ RaiseOrRespond(c)

----
\* The garbage collector: EntityGcWorker::run_once.

Eligible(k) ==
    /\ k[1] = Collected
    /\ O!Live(records, k)
    /\ records[k].document["status"] \in Entity(Collected).terminal

\* Faulty variant of ListEligible: the limit counts what is scanned.
ListScanned(g) ==
    /\ ~txs[g].open
    /\ \E k \in Key : Eligible(k)
    /\ LET stored == {k \in Key : k[1] = Collected /\ O!Live(records, k)}
       IN  /\ \E scanned \in kSubset(Min({BatchLimit, Cardinality(stored)}), stored) :
                 batches' = [batches EXCEPT ![g] = {k \in scanned : Eligible(k)}]
           /\ txs' = [txs EXCEPT ![g] = Reading(O!Begun, stored)]
    /\ UNCHANGED <<language, store, calls, left>>

\* list_gc_eligibleTx queries the whole collection and keeps batch_limit of the
\* eligible records.
ListEligible(g) ==
    /\ ~txs[g].open
    /\ \E batch \in kSubset(Min({BatchLimit, Cardinality({k \in Key : Eligible(k)})}),
                            {k \in Key : Eligible(k)}) :
          /\ batch # {}
          /\ batches' = [batches EXCEPT ![g] = batch]
    /\ txs' = [txs EXCEPT ![g] =
          Reading(O!Begun, {k \in Key : k[1] = Collected /\ O!Live(records, k)})]
    /\ UNCHANGED <<language, store, calls, left>>

FinalizeGc(g) ==
    /\ txs[g].open
    /\ batches[g] # {}
    /\ LET k == CHOOSE k \in batches[g] : TRUE
       IN  /\ txs' = [txs EXCEPT ![g] = Erase(@, k)]
           /\ batches' = [batches EXCEPT ![g] = @ \ {k}]
    /\ UNCHANGED <<language, store, calls, left>>

\* A conflict ends this run; the GC thread catches it and polls again.
CommitGc(g) ==
    /\ txs[g].open
    /\ batches[g] = {}
    /\ IF Commits(g) THEN CommitTx(g) ELSE Abort(g) /\ UNCHANGED store
    /\ UNCHANGED <<language, calls, left, batches>>

Collect(g) == ListEligible(g) \/ FinalizeGc(g) \/ CommitGc(g)

----
Next ==
    \/ \E c \in Client, api \in System.apis : \E r \in Requests(api) : Receive(c, api, r)
    \/ \E c \in Client : Handle(c)
    \/ \E g \in Collector : Collect(g)

Spec == Init /\ [][Next]_vars

\* Threads that handle a call or collect are scheduled; clients need not call.
FairSpec ==
    /\ Spec
    /\ \A c \in Client : WF_vars(Handle(c))
    /\ \A g \in Collector : WF_vars(Collect(g))

----

\* The four generators write the same handler for the API of a call, but for
\* what an answer does about a field its record lacks.
Lenient(program) ==
    [i \in DOMAIN program |-> IF program[i].op = "commit"
                              THEN CommitAs(program[i].status, program[i].body, FALSE)
                              ELSE program[i]]
HandlersAgree ==
    \A c \in Client : Busy(c) =>
        \A b \in {"java", "go", "rust"} :
            Lenient(Handler(b, calls[c].api)) = Lenient(Handler("cpp", calls[c].api))

Status(k) == IF O!Live(records, k) THEN records[k].document["status"] ELSE Absent

\* An entity goes from one status to another only by a declared transition,
\* whichever updates race for it.
DeclaredTransitions ==
    [][\A k \in Key :
         (Status(k) # Absent /\ Status(k)' # Absent /\ Status(k)' # Status(k))
            => <<Status(k), Status(k)'>> \in Entity(k[1]).transitions]_vars

\* An entity in a terminal status disappears, however updates of it and of its
\* neighbours disturb the collector.
TerminalCollected ==
    \A k \in {k \in Key : k[1] = Collected} : Eligible(k) ~> ~O!Live(records, k)

\* What a call asks of the service: a create and an update take the fields of
\* a key from the body or else the path, the others from the path.
AskedKey(e, api, request) ==
    <<e, [f \in Entity(e).keys |->
            IF api.operation \in {"create", "update_status"} /\ f \in FieldsOf(System, api.input)
            THEN request.body[f] ELSE request.path[f]]>>

AskedOf(api, request) ==
    IF api.operation = None THEN [operation |-> "business"]
    ELSE IF api.operation = "list" THEN [operation |-> "list"]
    ELSE [operation |-> api.operation,
          key       |-> AskedKey(api.entity, api, request),
          status    |-> CASE api.operation = "create" -> Entity(api.entity).initial
                          [] api.operation = "delete" -> "Deleted"
                          [] api.operation = "update_status" /\ "status" \in DOMAIN request.body ->
                                request.body["status"]
                          [] OTHER -> None,
          parents   |-> IF api.operation = "create"
                        THEN {AskedKey(e, api, request) : e \in ParentEntities(Entity(api.entity))}
                        ELSE {},
          allowed   |-> Entity(api.entity).transitions
                          \cup {<<s, s>> : s \in Entity(api.entity).states}]

ASSUME MarkerAssumption ==
    /\ Absent \notin Value
    /\ Absent \notin Doc
    /\ Absent \notin [version : Nat, document : Doc]
    /\ \A api \in System.apis : \A r \in Requests(api) : AskedOf(api, r) # Absent

Asked(c) == IF Busy(c) THEN AskedOf(calls[c].api, calls[c].request) ELSE Absent

Service == INSTANCE EntityService WITH
    Nothing  <- Absent,
    entities <- [k \in Key |-> Status(k)],
    asked    <- [c \in Client |-> Asked(c)],
    answered <- [c \in Client |-> calls[c].answer],
    terminal <- [k \in Key |-> Entity(k[1]).terminal]

\* The handlers implement the service.
ImplementsEntityService == Service!Spec
====
