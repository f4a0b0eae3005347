---- MODULE GoHandlers ----
\* The handler bodies generator_go_descriptors.cpp writes. The deferred
\* function aborts the transaction whenever the body returns before its commit.
EXTENDS Handlers

\* <operation>_entity_for_api, and the shapes without which no body is written.
Handles(ir, api, op) ==
    /\ api.operation = op
    /\ api.entity \in DOMAIN ir.entities
    /\ op \in {"create", "update_status"} => api.input \in DOMAIN ir.shapes
    /\ op = "list" => /\ api.output \in DOMAIN ir.shapes
                      /\ ir.shapes[api.output].items = api.entity
    /\ op = "delete" => "Deleted" \in ir.entities[api.entity].terminal

RequiredFieldsGiven(entity, fields, api) ==
    entity.fields \ Foundational \subseteq fields \cup api.path

RequestOrPath(fields, f) == IF f \in fields THEN Body(f) ELSE PathParameter(f)

PathKey(entity) == [f \in entity.keys |-> PathParameter(f)]

DefaultValue(f) ==
    CASE f \in {"workflow_execution_id", "message_id"} -> <<"derived", "id">>
      [] f = "status"   -> Literal("Accepted")
      [] f = "accepted" -> Literal("true")
      [] OTHER          -> Literal("")

CreateAnswer(entity, fields, f) ==
    IF f \in fields THEN Body(f)
    ELSE IF f = "status"
         THEN Literal(IF entity.initial = None THEN "" ELSE entity.initial)
    ELSE DefaultValue(f)

\* Faulty variant of ParentValidation: an optional parent has to exist as well.
ParentValidationOfAll(ir, entity, fields) ==
    LET parents == Selected(entity.relations,
                       {i \in DOMAIN entity.relations :
                           /\ entity.relations[i].kind = "parent"
                           /\ entity.relations[i].target \in DOMAIN ir.entities})
    IN  [i \in DOMAIN parents |->
            Parent(parents[i].target,
                   [f \in ir.entities[parents[i].target].keys |-> RequestOrPath(fields, f)])]

\* Every required parent is looked up under the names of its own key fields.
ParentValidation(ir, entity, fields) ==
    LET required == Selected(entity.relations,
                        {i \in DOMAIN entity.relations :
                            /\ entity.relations[i].kind = "parent"
                            /\ ~entity.relations[i].optional
                            /\ entity.relations[i].target \in DOMAIN ir.entities})
    IN  [i \in DOMAIN required |->
            Parent(required[i].target,
                   [f \in ir.entities[required[i].target].keys |-> RequestOrPath(fields, f)])]

CreateDocument(entity, fields) ==
    [f \in entity.fields |->
        IF f \in Timestamps THEN Timestamp
        ELSE IF f = "status"
             THEN Literal(IF entity.initial = None THEN "Created" ELSE entity.initial)
        ELSE RequestOrPath(fields, f)]

CreateHandler(ir, api) ==
    LET entity == ir.entities[api.entity]
        fields == FieldsOf(ir, api.input)
        document == CreateDocument(entity, fields)
        key == [f \in entity.keys |-> document[f]]
    IN  IF ~RequiredFieldsGiven(entity, fields, api) THEN <<Raise>>
        ELSE <<Open(api.entity, fields)>>
             \o ParentValidation(ir, entity, fields)
             \o CreateTx(api.entity, key, document)
             \o <<CommitAs(201, [f \in FieldsOf(ir, api.output) |->
                                   CreateAnswer(entity, fields, f)], TRUE)>>

RecordAnswer(ir, api) == [f \in FieldsOf(ir, api.output) |-> Stored(f)]

GetHandler(ir, api) ==
    << Open(api.entity, {}), GetTx(api.entity, PathKey(ir.entities[api.entity])),
       CommitAs(200, RecordAnswer(ir, api), TRUE) >>

ListHandler(ir, api) ==
    LET shape == ir.shapes[api.output]
        selected == {api.selector[i] : i \in DOMAIN api.selector}
    IN  IF ~HasListIndex(ir.entities[api.entity], api.selector) THEN <<Raise>>
        ELSE << Open(api.entity, {}),
                Query(api.entity, [f \in selected |-> PathParameter(f)]),
                CommitAs(200, [f \in shape.fields |->
                    IF f = shape.list THEN <<"records", f>> ELSE PathParameter(f)], TRUE) >>

\* What a status change writes over the record that was read.
Moved(entity, status) ==
    [f \in entity.fields \cup {"status", "updated_at"} |->
        CASE f = "status"     -> status
          [] f = "updated_at" -> Timestamp
          [] OTHER            -> Stored(f)]

TransitionsAllowed(entity) ==
    entity.transitions \cup {<<s, s>> : s \in entity.states}

UpdateStatusHandler(ir, api) ==
    LET entity == ir.entities[api.entity]
        fields == FieldsOf(ir, api.input)
        key == [f \in entity.keys |-> RequestOrPath(fields, f)]
    IN  IF "status" \notin fields THEN <<Raise>>
        ELSE << Open(api.entity, fields), GetTx(api.entity, key) >>
             \o UpdateTx(api.entity, key, Moved(entity, Body("status")),
                         TransitionsAllowed(entity))
             \o << CommitAs(200, RecordAnswer(ir, api), TRUE) >>

DeleteHandler(ir, api) ==
    LET entity == ir.entities[api.entity]
    IN  << Open(api.entity, {}), GetTx(api.entity, PathKey(entity)) >>
        \o UpdateTx(api.entity, PathKey(entity), Moved(entity, Literal("Deleted")),
                    TransitionsAllowed(entity))
        \o << CommitAs(204, NoBody, TRUE) >>

\* An API no body is written for is answered by default values.
GoHandler(ir, api) ==
    CASE Handles(ir, api, "create")        -> CreateHandler(ir, api)
      [] Handles(ir, api, "get")           -> GetHandler(ir, api)
      [] Handles(ir, api, "list")          -> ListHandler(ir, api)
      [] Handles(ir, api, "update_status") -> UpdateStatusHandler(ir, api)
      [] Handles(ir, api, "delete")        -> DeleteHandler(ir, api)
      [] OTHER -> << Respond(FieldsOf(ir, api.input),
                             IF api.starts # None \/ api.enqueues # None THEN 202 ELSE 200,
                             [f \in FieldsOf(ir, api.output) |-> DefaultValue(f)]) >>
====
