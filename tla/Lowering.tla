---- MODULE Lowering ----
\* lower_to_ir: what the declarations of an accepted system become. The API
\* block of an entity turns into shapes, APIs and server memberships; an
\* explicit API is taken for a CRUD operation when its names say so.
EXTENDS EntityRules, RuntimeRules, WorkflowRules

\* The lowered system is an IrSystem of Ir, in which an API is
\*   [name, method, path, entity, operation, input, output, starts, enqueues,
\*    selector, fieldPath]
\* and which has besides
\*   fields   shape -> the sequence of its fields
\*   times    lease -> [ttl, renew, max] in seconds

Or(name, default) == IF name = None THEN default ELSE name

ResponseName(entity) == Name(Pascal[entity.name], "Response")
CreateName(entity) == Or(entity.api.create.name, Name("Create", Pascal[entity.name]))
GetName(entity) == Or(entity.api.get.name, Name("Get", Pascal[entity.name]))
ListName(entity, list) == Or(list.name, Name("List", Plural(entity.name)))
UpdateName(entity) ==
    Or(entity.api.update.name, Name(Name("Update", Pascal[entity.name]), "Status"))
DeleteName(entity) == Or(entity.api.delete.name, Name("Delete", Pascal[entity.name]))
Request(name) == Name(name, "Request")
Response(name) == Name(name, "Response")

HasField(entity, f) == f \in Names(entity.fields)

\* append_field for each name: once, with the type it has in the entity.
Picked(entity, names) ==
    LET Type(f) == IF HasField(entity, f)
                   THEN (CHOOSE g \in Elements(entity.fields) : g.name = f).type ELSE "string"
    IN  FoldLeft(LAMBDA fields, f :
                     IF f \in Names(fields) THEN fields
                     ELSE Append(fields, [name |-> f, type |-> Type(f), many |-> FALSE]),
                 <<>>, names)

OwnFields(entity) ==
    SelectSeq([i \in DOMAIN entity.fields |-> entity.fields[i].name],
              LAMBDA f : f \notin FoundationalNames)

\* entity_response_fields
ResponseFields(entity) ==
    Picked(entity, entity.key \o OwnFields(entity)
                     \o SelectSeq(<<"status", "created_at", "updated_at">>,
                                  LAMBDA f : HasField(entity, f)))

\* The key fields the route does not give, and what else a request carries.
RequestFields(entity, others) ==
    Picked(entity, SelectSeq(entity.key, LAMBDA f : f \notin Parameters(entity.api.resource))
                     \o others)

\* list_selector_fields: the name of an index stands for its fields.
SelectorFields(entity, list) ==
    LET named == {i \in DOMAIN entity.indexes : list.by = <<entity.indexes[i].name>>}
    IN  IF named = {} THEN list.by
        ELSE entity.indexes[CHOOSE i \in named : \A j \in named : i <= j].fields

ListFields(entity, list) ==
    Picked(entity, SelectorFields(entity, list))
      \o << [name |-> Plural(entity.name), type |-> ResponseName(entity), many |-> TRUE] >>

\* append_entity_api_shapes
DerivedShapes(entity) ==
    IF entity.api = None THEN <<>>
    ELSE LET api == entity.api
             Shape(name, fields) == [name |-> name, fields |-> fields]
         IN  << Shape(ResponseName(entity), ResponseFields(entity)) >>
             \o (IF api.create = None THEN <<>>
                 ELSE << Shape(Request(CreateName(entity)),
                               RequestFields(entity, api.create.fields)) >>)
             \o (IF api.update = None THEN <<>>
                 ELSE << Shape(Request(UpdateName(entity)), RequestFields(entity, <<"status">>)) >>)
             \o [i \in DOMAIN api.lists |->
                    Shape(Response(ListName(entity, api.lists[i])), ListFields(entity, api.lists[i]))]

\* A shape that exists is kept, so a declared one goes before a derived one.
ShapeTable(system) ==
    LET Derived(i) == DerivedShapes(system.entity[i])
        Owner(name) == CHOOSE i \in DOMAIN system.entity :
                          /\ name \in Names(Derived(i))
                          /\ \A j \in 1..(i - 1) : name \notin Names(Derived(j))
    IN  [name \in Names(system.shape) \cup UNION {Names(Derived(i)) : i \in DOMAIN system.entity} |->
            IF name \in Names(system.shape) THEN FirstNamed(system.shape, name).fields
            ELSE FirstNamed(Derived(Owner(name)), name).fields]

----
\* attach_explicit_crud_metadata

FirstArray(fields) ==
    LET arrays == {i \in DOMAIN fields : fields[i].many}
    IN  IF arrays = {} THEN 0 ELSE CHOOSE i \in arrays : \A j \in arrays : i <= j

Chosen(names) == IF names = {} THEN None ELSE CHOOSE n \in names : TRUE

\* response_entity: the entity <E> of an output <E>Response.
ResponseEntity(system, output) ==
    Chosen({e \in Names(system.entity) : output = Response(e)})
\* list_response_entity: that of the items, E or <E>Response.
ListEntity(system, table, output) ==
    IF output \notin DOMAIN table \/ FirstArray(table[output]) = 0 THEN None
    ELSE LET item == table[output][FirstArray(table[output])].type
         IN  Chosen({e \in Names(system.entity) : item \in {e, Response(e)}})

\* index_backed_path_selector: the first index with the most leading fields in
\* the path.
PathSelector(entity, path) ==
    LET Leading(fields) ==
            CHOOSE n \in 0..Len(fields) :
                /\ \A i \in 1..n : fields[i] \in Parameters(path)
                /\ n < Len(fields) => fields[n + 1] \notin Parameters(path)
        backed == {i \in DOMAIN entity.indexes : Leading(entity.indexes[i].fields) > 0}
        best == CHOOSE i \in backed : \A j \in backed :
                   LET ni == Leading(entity.indexes[i].fields)
                       nj == Leading(entity.indexes[j].fields)
                   IN  ni > nj \/ (ni = nj /\ i <= j)
    IN  IF backed = {} THEN <<>>
        ELSE SubSeq(entity.indexes[best].fields, 1, Leading(entity.indexes[best].fields))

\* list_response_selector: the fields beside the items, when an index backs them.
ResponseSelector(entity, fields) ==
    LET others == SelectSeq([i \in DOMAIN fields |-> i], LAMBDA i : i # FirstArray(fields))
        names == [i \in DOMAIN others |-> fields[others[i]].name]
    IN  IF names # <<>> /\ \E index \in Elements(entity.indexes) : IsPrefix(names, index.fields)
        THEN names ELSE <<>>

InferredSelector(system, table, api, e) ==
    LET entity == EntityNamed(system, e)
        bypath == PathSelector(entity, api.path)
    IN  IF bypath # <<>> THEN bypath ELSE ResponseSelector(entity, table[api.output])

\* [entity, operation] of an explicit API, both None unless inferred.
Inferred(system, table, api) ==
    LET one == ResponseEntity(system, api.output)
        many == ListEntity(system, table, api.output)
        deleted == Chosen({e \in Names(system.entity) : api.name = Name("Delete", e)})
        Crud(e, op) == [entity |-> e, operation |-> IF e = None THEN None ELSE op]
    IN  CASE api.method = "POST" /\ api.input # None  -> Crud(one, "create")
          [] api.method = "GET" /\ many # None        -> Crud(many, "list")
          [] api.method = "GET" /\ many = None        -> Crud(one, "get")
          [] api.method = "PATCH" /\ api.input # None -> Crud(one, "update_status")
          [] api.method = "DELETE"                    -> Crud(deleted, "delete")
          [] OTHER                                    -> Crud(None, None)

\* api_path_uses_entity_constants: a path parameter is a field of the entity.
FieldPath(system, path, e) ==
    e # None /\ Parameters(path) \cap Names(EntityNamed(system, e).fields) # {}

ExplicitApi(system, table, api) ==
    LET crud == Inferred(system, table, api)
    IN  [name |-> api.name, method |-> api.method, path |-> api.path,
         entity |-> crud.entity, operation |-> crud.operation,
         input |-> api.input, output |-> api.output,
         starts |-> api.starts, enqueues |-> api.enqueues,
         selector |-> IF crud.operation = "list"
                      THEN InferredSelector(system, table, api, crud.entity) ELSE <<>>,
         fieldPath |-> FieldPath(system, api.path, crud.entity)]

----
\* append_entity_api_operations

\* status_path
StatusPath(path) == [path EXCEPT !.segments = @ \cup {"status"}]

\* An absent resource is the empty path.
Resource(entity) ==
    IF entity.api.resource = None THEN [segments |-> {}, parameters |-> {}] ELSE entity.api.resource

DerivedApis(system, entity) ==
    LET api == entity.api
        out == ResponseName(entity)
        Api(name, method, path, op, input, output, selector) ==
            [name |-> name, method |-> method, path |-> path, entity |-> entity.name,
             operation |-> op, input |-> input, output |-> output,
             starts |-> None, enqueues |-> None, selector |-> selector,
             fieldPath |-> FieldPath(system, path, entity.name)]
        IfAny(operation, lowered) == IF operation = None THEN <<>> ELSE <<lowered>>
    IN  IF api = None THEN <<>>
        ELSE IfAny(api.create, Api(CreateName(entity), "POST", Resource(entity), "create",
                                   Request(CreateName(entity)), out, <<>>))
             \o IfAny(api.get, Api(GetName(entity), "GET", Resource(entity), "get",
                                   None, out, <<>>))
             \o [i \in DOMAIN api.lists |->
                    Api(ListName(entity, api.lists[i]), "GET", api.lists[i].path, "list",
                        None, Response(ListName(entity, api.lists[i])),
                        SelectorFields(entity, api.lists[i]))]
             \o IfAny(api.update, Api(UpdateName(entity), "PATCH", StatusPath(Resource(entity)),
                                      "update_status", Request(UpdateName(entity)), out, <<>>))
             \o IfAny(api.delete, Api(DeleteName(entity), "DELETE", Resource(entity), "delete",
                                      None, None, <<>>))

EntityApis(system) ==
    FlattenSeq([i \in DOMAIN system.entity |-> DerivedApis(system, system.entity[i])])

\* append_synthetic_api: not in place of an API of that name.
LoweredApis(system) ==
    LET table == ShapeTable(system)
    IN  FoldLeft(LAMBDA apis, api : IF api.name \in Names(apis) THEN apis ELSE Append(apis, api),
                 [i \in DOMAIN system.api |-> ExplicitApi(system, table, system.api[i])],
                 EntityApis(system))

\* append_entity_api_server_memberships: every server serves the entity APIs.
LoweredServers(system) ==
    LET derived == Names(EntityApis(system))
    IN  IF system.server = <<>> /\ derived # {}
        THEN {[name |-> "EntityApi", serves |-> derived]}
        ELSE {[name |-> s.name, serves |-> s.serves \cup derived] : s \in Elements(system.server)}

LeaseTimes(system) ==
    LET Of(name) == CHOOSE l \in Elements(system.lease) : l.name = name
    IN  [l \in Names(system.lease) |->
            [ttl |-> Seconds(Of(l).ttl), renew |-> Seconds(Of(l).renew), max |-> Seconds(Of(l).max)]]

Lowered(system) ==
    LET table == ShapeTable(system)
    IN  [entities  |-> Names(system.entity),
         gc        |-> {e.name : e \in {f \in Elements(system.entity) :
                           \E s \in Elements(f.machine.states) : s.gc}},
         shapes    |-> DOMAIN table,
         fields    |-> table,
         apis      |-> LoweredApis(system),
         servers   |-> LoweredServers(system),
         workers   |-> Elements(system.worker),
         workflows |-> Names(system.workflow),
         queues    |-> Names(system.queue),
         leases    |-> Names(system.lease),
         times     |-> LeaseTimes(system),
         flags     |-> Names(system.flag),
         logs      |-> Names(system.log),
         metrics   |-> Names(system.metric)]

----
\* The part of it the generators of the handlers look at, as Handlers wants it.

HandlerEntity(entity) ==
    [keys |-> Elements(entity.key), fields |-> Names(entity.fields), states |-> States(entity),
     initial |-> entity.machine.initial, terminal |-> entity.machine.terminal,
     transitions |-> entity.machine.transitions, relations |-> entity.relations,
     indexes |-> {index.fields : index \in Elements(entity.indexes)}]

HandlerShape(system, fields) ==
    LET at == FirstArray(fields)
        Item == fields[at].type
    IN  [fields |-> Names(fields), list |-> IF at = 0 THEN None ELSE fields[at].name,
         items |-> IF at = 0 THEN None
                   ELSE Chosen({e \in Names(system.entity) : Item \in {e, Response(e)}})]

HandlerView(system, ir) ==
    [entities |-> [e \in ir.entities |-> HandlerEntity(EntityNamed(system, e))],
     shapes   |-> [s \in ir.shapes |-> HandlerShape(system, ir.fields[s])]]
HandlerApi(api) == [api EXCEPT !.path = Parameters(@)]
====
