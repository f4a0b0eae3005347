---- MODULE RuntimeRules ----
\* The validators of what runs: APIs and their servers, workers, queues,
\* leases, and the dependencies between the runtime domains.
EXTENDS Declarations

CONSTANT LowerCamel(_)   \* lower_camel_field_name

Mutating == {"POST", "PUT", "PATCH"}

ShapesNamed(system, name) == {s \in Elements(system.shape) : s.name = name}

ApiOk(system, api) ==
    /\ api.method # None
    /\ api.path # None
    /\ "tenants" \in api.path.segments
          \/ {system.tenant, LowerCamel(system.tenant)} \cap Parameters(api.path) # {}
    /\ api.method \in Mutating => api.input # None
    /\ api.method # "DELETE" => api.output # None
    /\ \A type \in {api.input, api.output} \ {None} : KnownType(system, type)
    /\ \A s \in ShapesNamed(system, api.input) : system.tenant \in Names(s.fields)
    /\ api.starts = None \/ api.enqueues = None
    /\ \A target \in {api.starts, api.enqueues} \ {None} : Declared(system, target)
ApisOk(system) == \A api \in Elements(system.api) : ApiOk(system, api)

ServersOk(system) ==
    \A server \in Elements(system.server), name \in UNION {s.serves : s \in Elements(system.server)} :
        name \in server.serves => IsA(system, name, {"api"})

WorkersOk(system) ==
    \A w \in Elements(system.worker) :
        /\ w.singleton => w.lease # None
        /\ \A target \in {w.lease, w.polls, w.executes} \ {None} : Declared(system, target)

ShapesOk(system) ==
    \A s \in Elements(system.shape) \cup Elements(system.event) :
        s.fields # <<>> /\ FieldsOk(system, s.fields)

MessageOk(system, message) ==
    /\ message.payload # <<>>
    /\ FieldsOk(system, message.payload)
    /\ {system.tenant, message.idempotency} \subseteq Names(message.payload)
QueuesOk(system) ==
    \A queue \in Elements(system.queue) :
        /\ queue.messages # <<>> /\ Unique(queue.messages)
        /\ \A message \in Elements(queue.messages) : MessageOk(system, message)
        /\ queue.deadLetter # None => Declared(system, queue.deadLetter)

----
\* A duration is the sequence of its designators [unit, n]: n None where no
\* digits precede it, which is so for "T".

Units == {"D", "H", "M", "S"}
IsDuration(d) ==
    /\ \E part \in Elements(d) : part.n # None
    /\ \E part \in Elements(d) : part.unit \in Units
    /\ Cardinality({i \in DOMAIN d : d[i].unit = "T"}) <= 1

\* A day anywhere; hours, minutes and seconds behind the T.
Counts(d, i) == d[i].unit = "D" \/ \E j \in 1..(i - 1) : d[j].unit = "T"

Weight(unit) == CASE unit = "D" -> 86400 [] unit = "H" -> 3600 [] unit = "M" -> 60
                  [] OTHER -> 1

\* ir_runtime's duration_seconds: a designator out of place adds nothing.
Seconds(d) ==
    FoldLeft(LAMBDA total, i :
                 IF d[i].unit \in Units /\ Counts(d, i) /\ d[i].n # None
                 THEN total + d[i].n * Weight(d[i].unit) ELSE total,
             0, [i \in DOMAIN d |-> i])

\* validator_leases' duration_seconds has no value for such a duration, and
\* what has no value is not compared.
Comparable(d) == \A i \in DOMAIN d : d[i].unit = "T" \/ Counts(d, i)

\* Faulty variant of LeasesOk: no value counts as zero seconds.
LeasesOkByZero(system) ==
    \A lease \in Elements(system.lease) :
        /\ \A d \in {lease.ttl, lease.renew, lease.max} : IsDuration(d)
        /\ Seconds(lease.renew) <= Seconds(lease.ttl)
        /\ Seconds(lease.ttl) <= Seconds(lease.max)
LeasesOk(system) ==
    \A lease \in Elements(system.lease) :
        /\ \A d \in {lease.ttl, lease.renew, lease.max} : IsDuration(d)
        /\ Comparable(lease.ttl) /\ Comparable(lease.renew) =>
              Seconds(lease.renew) < Seconds(lease.ttl)
        /\ Comparable(lease.ttl) /\ Comparable(lease.max) =>
              Seconds(lease.ttl) <= Seconds(lease.max)

----
\* validate_runtime_domain_dependencies

\* runtime_domain_for_symbol
Domain(system, name) ==
    CASE IsA(system, name, {"flag"})             -> "feature_flags"
      [] IsA(system, name, {"queue", "message"}) -> "queues"
      [] IsA(system, name, {"lease"})            -> "leases"
      [] IsA(system, name, {"workflow"})         -> "workflows"
      [] IsA(system, name, {"log"})              -> "logs"
      [] IsA(system, name, {"metric"})           -> "metrics"
      [] OTHER                                   -> None

\* Faulty variant of DependencyAllowed: a domain may use what workflows may.
DependencyAllowedToAll(from, to) ==
    from = to \/ to \in {"feature_flags", "queues", "leases", "workflows", "logs", "metrics"}

DependencyAllowed(from, to) ==
    \/ from = to
    \/ from = "workflows" /\ to \in {"feature_flags", "queues", "leases", "logs", "metrics"}

\* Of a step's statements only those at the top level are looked at.
Dependencies(system) ==
    {<<"queues", Domain(system, q.deadLetter)>> : q \in Elements(system.queue)}
    \cup UNION {UNION {{<<"workflows", Domain(system, s.target)>> :
                            s \in {t \in Elements(step.statements) : t.within = 0}} :
                       step \in Elements(w.steps)} : w \in Elements(system.workflow)}

DependenciesOk(system) ==
    \A d \in Dependencies(system) : d[2] # None => DependencyAllowed(d[1], d[2])
====
