---- MODULE Declarations ----
\* A composed system as the parser hands it to the validator and the lowering:
\* names and the references between them. Required literals that nothing else
\* is compared with (owners, channels, counts) are taken as given, as are
\* expressions, values, enums, policies and external systems.
EXTENDS Ir, SequencesExt

CONSTANTS
    Name(_, _),   \* two identifiers written as one
    Plural(_),    \* plural_pascal_identifier
    IdBase(_)     \* derive_child_workflow_id_bucket_base

\* A SystemDecl is a record of tenant, configured (system_tenant) and, for each
\* kind of declaration, the sequence of its declarations:
\*   entity    [name, key, fields, indexes, machine, relations, children, api]
\*   shape, event   [name, fields]        flag, log, metric   [name]
\*   queue     [name, messages (sequence of [name, payload, idempotency]), deadLetter]
\*   lease     [name, ttl, renew, max]
\*   worker    [name, singleton, lease, polls, executes]
\*   server    [name, serves]
\*   api       [name, method, path, input, output, starts, enqueues]
\*   workflow  [name, start, on, input, state, loads, childSets, childWorkflows, steps]
\* A field is [name, type, many]: many stands for the type type[].
\* A path is [segments, parameters]: its literal segments, its {parameters}.
Kinds == {"entity", "shape", "event", "flag", "log", "metric", "queue", "lease", "worker",
          "server", "api", "workflow"}

Builtin == {"string", "bool", "int", "int32", "int64", "long", "double", "decimal", "json",
            "timestamp", "duration", "uuid", "list", "set", "map", "optional", "ref"}

Names(fields) == {fields[i].name : i \in DOMAIN fields}
Unique(seq) == \A i, j \in DOMAIN seq : seq[i].name = seq[j].name => i = j
Parameters(path) == IF path = None THEN {} ELSE path.parameters

Message(queue, message) == Name(Name(queue, "."), message)
WorkflowStep(workflow, step) == Name(Name(workflow, "."), step)

----
\* build_symbol_table: one name space for all kinds of declarations.
DeclaredSymbols(system) ==
    UNION {{[kind |-> k, name |-> system[k][i].name, at |-> <<i>>] : i \in DOMAIN system[k]} :
           k \in Kinds}
MessageSymbols(system) ==
    UNION {{[kind |-> "message", name |-> Message(system.queue[i].name, system.queue[i].messages[j].name),
             at |-> <<i, j>>] : j \in DOMAIN system.queue[i].messages} : i \in DOMAIN system.queue}
StepSymbols(system) ==
    UNION {{[kind |-> "step", name |-> WorkflowStep(system.workflow[i].name, system.workflow[i].steps[j].name),
             at |-> <<i, j>>] : j \in DOMAIN system.workflow[i].steps} : i \in DOMAIN system.workflow}
Symbols(system) == DeclaredSymbols(system) \cup MessageSymbols(system) \cup StepSymbols(system)

SymbolsUnique(system) == \A s, t \in Symbols(system) : s.name = t.name => s = t

Declared(system, name) == \E s \in Symbols(system) : s.name = name
IsA(system, name, kinds) == \E s \in Symbols(system) : s.name = name /\ s.kind \in kinds
KnownType(system, type) == type \in Builtin \/ Declared(system, type)

\* validate_field_duplicates, validate_field_types
FieldsOk(system, fields) ==
    Unique(fields) /\ \A i \in DOMAIN fields : KnownType(system, fields[i].type)

\* The first of that name.
FirstNamed(seq, name) ==
    seq[CHOOSE i \in DOMAIN seq :
            seq[i].name = name /\ \A j \in 1..(i - 1) : seq[j].name # name]

\* find_entity
EntityNamed(system, name) == FirstNamed(system.entity, name)
IsEntity(system, name) == \E e \in Elements(system.entity) : e.name = name

TenancyOk(system) == system.tenant # None /\ system.configured
====
