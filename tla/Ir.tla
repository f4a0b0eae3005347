---- MODULE Ir ----
\* The lowered system (IrSystem) as far as the binding generators branch on it,
\* and the questions every generator asks of it. A name is a value; what a
\* generator makes of it in a path or identifier is Snake[name] or Pascal[name].
EXTENDS Naturals, Sequences, FiniteSets

CONSTANTS
    Snake,        \* the snake-case identifier a declared name becomes
    Pascal,       \* its Pascal-case identifier
    None          \* an absent optional

\* An IrSystem is a record
\*   apis      sequence of [name, method, path, entity, operation, input, output,
\*                          starts, enqueues, selector, fieldPath]: fieldPath says
\*                          that a parameter of the path is a field of the entity
\*   servers   set of [name, serves]       entities  set of names
\*   workers   set of [name, executes, polls, lease, singleton]
\*   gc        the entities of which a state is garbage collected
\*   shapes, workflows, queues, leases, flags, logs, metrics   sets of names

Elements(seq) == {seq[i] : i \in DOMAIN seq}

Apis(ir) == Elements(ir.apis)

\* The runtime domains a system uses, by declaration or by reference.
Usage(ir) ==
    LET workflows == \/ ir.workflows # {}
                     \/ \E a \in Apis(ir) : a.starts # None
                     \/ \E w \in ir.workers : w.executes # None
        queues == \/ ir.queues # {}
                  \/ \E a \in Apis(ir) : a.enqueues # None
                  \/ \E w \in ir.workers : w.polls # None
        leases == \/ ir.leases # {}
                  \/ \E w \in ir.workers : w.lease # None \/ w.singleton
    IN  {d \in {"feature_flags", "queues", "leases", "workflows", "logs", "metrics"} :
            CASE d = "feature_flags" -> ir.flags # {}
              [] d = "queues"        -> queues
              [] d = "leases"        -> leases
              [] d = "workflows"     -> workflows
              [] d = "logs"          -> ir.logs # {}
              [] d = "metrics"       -> ir.metrics # {}}

UsesObservability(ir) == Usage(ir) \cap {"logs", "metrics"} # {}
UsesEntityGc(ir) == ir.gc # {}

IsCrud(api) == api.entity # None /\ api.operation # None

CrudApis(ir) == {a \in Apis(ir) : IsCrud(a)}

\* crud_api_handler_domains(api_handler_domains(system)): whichever entity an
\* API is first filed under by the words in its names, the CRUD APIs end up
\* grouped by the entity they operate on.
CrudDomains(ir) == {a.entity : a \in CrudApis(ir)}
DomainApis(ir, e) == {a \in CrudApis(ir) : a.entity = e}

Served(server, apis) == {a \in apis : a.name \in server.serves}

Mentions(api) == {api.input, api.output} \ {None}

\* Shapes that are the input or output of an API, and the others.
ContractShapes(ir) == ir.shapes \cap UNION {Mentions(a) : a \in Apis(ir)}
CommonShapes(ir) == ir.shapes \ ContractShapes(ir)

\* The entity of the first CRUD API that mentions the shape.
ShapeOwner(ir, s) ==
    LET crud == {i \in DOMAIN ir.apis : IsCrud(ir.apis[i]) /\ s \in Mentions(ir.apis[i])}
    IN  IF crud = {} THEN None
        ELSE ir.apis[CHOOSE i \in crud : \A j \in crud : i <= j].entity

EntityShapes(ir, e) == {s \in ir.shapes : ShapeOwner(ir, s) = e}
UnownedShapes(ir) == {s \in ContractShapes(ir) : ShapeOwner(ir, s) = None}

----
\* What is common to the four file trees.

\* A generated file: its path below the output directory, its tier, and the
\* paths of the generated files it cannot do without.
File(path, tier, needs) == [path |-> path, tier |-> tier, needs |-> needs]

HasApi(ir) == ir.apis # <<>> \/ ir.servers # {}
HasServer(ir) == ir.servers # {}
HasWorker(ir) == ir.workers # {}
HasWorkerExecution(ir) == HasWorker(ir) \/ "workflows" \in Usage(ir)

Named(names, F(_)) == {F(n) : n \in names}
When(condition, files) == IF condition THEN files ELSE {}

Paths(files) == {f.path : f \in files}
====
