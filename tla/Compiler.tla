---- MODULE Compiler ----
(***************************************************************************)
(* statespec generate bindings: the files of a specification are composed, *)
(* the system is validated and lowered, the CRUD contract is checked, and  *)
(* the files of the three tiers are generated. Every phase relies on what  *)
(* the phases before it let through.                                       *)
(***************************************************************************)
EXTENDS Includes, Generator

CONSTANT Jobs    \* the calls considered: [sources, language, tier]

\* What the parser hands over. A declaration stands for its node in the tree, so
\* that no two are the same, however alike they are written.
IsList(s) == s \in Seq(Elements(s))
ParsedPath(path) ==
    path # None => DOMAIN path = {"segments", "parameters"} /\ StatusPath(path) # None
ParsedEntity(entity) ==
    /\ IsList(entity.key) /\ IsList(entity.indexes)
    /\ \A index \in Elements(entity.indexes) : IsList(index.fields)
    /\ entity.api # None =>
          /\ ParsedPath(entity.api.resource)
          /\ IsList(entity.api.lists)
          /\ \A list \in Elements(entity.api.lists) : IsList(list.by)
ParsedSystem(s) ==
    /\ DOMAIN s = Kinds \cup {"tenant", "configured"}
    /\ \A k \in Kinds : IsList(s[k])
    /\ \A entity \in Elements(s.entity) : ParsedEntity(entity)
Parsed(tree) ==
    LET declaring == {p \in DOMAIN tree : tree[p].system # None}
    IN  /\ \A p \in DOMAIN tree : IsList(tree[p].includes)
        /\ \A p \in declaring : ParsedSystem(tree[p].system)
        /\ \A p, q \in declaring : \A k \in Kinds :
              \A i \in DOMAIN tree[p].system[k], j \in DOMAIN tree[q].system[k] :
                 tree[p].system[k][i] = tree[q].system[k][j] => p = q /\ i = j
ASSUME JobsAssumption == \A job \in Jobs : Parsed(job.sources)

vars == <<includeVars, generatorVars>>

LOCAL CppH == INSTANCE CppHandlers
LOCAL JavaH == INSTANCE JavaHandlers
LOCAL GoH == INSTANCE GoHandlers
LOCAL RustH == INSTANCE RustHandlers

\* Validator::validate
Valid ==
    /\ SymbolsUnique(system)
    /\ TenancyOk(system)
    /\ ShapesOk(system)
    /\ EntitiesOk(system)
    /\ QueuesOk(system)
    /\ LeasesOk(system)
    /\ WorkflowsOk(system)
    /\ WorkersOk(system)
    /\ ApisOk(system)
    /\ ServersOk(system)
    /\ DependenciesOk(system)

Init ==
    /\ \E job \in Jobs :
          /\ sources = job.sources
          /\ options = [language |-> job.language, tier |-> job.tier]
    /\ InitIncludes
    /\ ir = None
    /\ phase = "load"
    /\ files = {}

Load ==
    /\ phase = "load"
    /\ NextInclude
    /\ phase' = IF stack' = <<>> THEN "validate" ELSE "load"
    /\ UNCHANGED <<ir, options, files>>

RejectLoad ==
    /\ phase = "load"
    /\ LoadFails
    /\ phase' = "rejected"
    /\ UNCHANGED <<includeVars, ir, options, files>>

Validate ==
    /\ phase = "validate"
    /\ phase' = IF Valid THEN "lower" ELSE "rejected"
    /\ UNCHANGED <<includeVars, ir, options, files>>

Lower ==
    /\ phase = "lower"
    /\ ir' = Lowered(system)
    /\ phase' = "contract"
    /\ UNCHANGED <<includeVars, options, files>>

Generate ==
    /\ \/ CheckContract(system)
       \/ EmitCommon
       \/ EmitApi
       \/ EmitWorker
       \/ Filter
    /\ UNCHANGED includeVars

Next == Load \/ RejectLoad \/ Validate \/ Lower \/ Generate

Spec == Init /\ [][Next]_vars

----

Own(path, kind) ==
    IF Bare(path) THEN <<>> ELSE sources[path].system[kind]
Count(seq, d) == Cardinality({i \in DOMAIN seq : seq[i] = d})
Before(seq, d, e) ==
    \A i, j \in DOMAIN seq : seq[i] = d /\ seq[j] = e => i < j

\* A composed system stems from files that exist and do not include each other
\* in a circle. Every declaration of a file that is reached, by however many
\* ways, is in it once, behind those of the files included by its own.
IncludesSound ==
    phase = "validate" =>
        /\ Reachable \subseteq DOMAIN sources
        /\ \A p \in Reachable : p \notin Reach(IncludesOf(p))
        /\ \A k \in Kinds : \A p \in Reachable : \A d \in Elements(Own(p, k)) :
              /\ Count(system[k], d) = Cardinality({q \in Reachable : d \in Elements(Own(q, k))})
              /\ \A q \in IncludesOf(p) : \A e \in Elements(Own(q, k)) :
                    Before(system[k], e, d)

\* All files that name the tenant field name the same one, whatever the order
\* in which they were met.
TenantsAgree ==
    phase = "validate" =>
        \A p \in Reachable :
            ~Bare(p) => sources[p].system.tenant \in {None, system.tenant}

AtContract == phase = "contract"

\* The APIs an entity's api block became, unless a declared API has the name.
BlockApis(entity) == Elements(DerivedApis(system, entity)) \cap Apis(ir)

\* What the validator accepts of an api block, the contract of the generators
\* accepts: a block whose operations have routes to stand on never fails there.
ContractKept ==
    AtContract =>
        \A e \in Elements(system.entity) : \A a \in BlockApis(e) :
            /\ a.operation = "create" => e.api.resource # None
            /\ a.operation = "list" => Elements(a.selector) \subseteq Parameters(a.path)
            => CrudContract(system, a)

Handler(api) ==
    LET view == HandlerView(system, ir)
    IN  CASE options.language = "cpp"  -> CppH!CppHandler(view, HandlerApi(api))
          [] options.language = "java" -> JavaH!JavaHandler(view, HandlerApi(api))
          [] options.language = "go"   -> GoH!GoHandler(view, HandlerApi(api))
          [] options.language = "rust" -> RustH!RustHandler(view, HandlerApi(api))
\* A create whose request and route give every field of the entity, a list
\* that an index backs.
Supported(entity, api) ==
    /\ {api.input, api.output} \cap Names(system.shape) = {}
    /\ api.operation = "create" =>
          Names(entity.fields) \ FoundationalNames
              \subseteq Names(ir.fields[api.input]) \cup Parameters(api.path)
    /\ api.operation = "list" =>
          \E index \in Elements(entity.indexes) : IsPrefix(api.selector, index.fields)

\* The default handler of such an operation works on the entity: it neither
\* raises "unsupported" nor answers with default values.
OperationsHandled ==
    AtContract =>
        \A e \in Elements(system.entity) : \A a \in BlockApis(e) :
            Supported(e, a) => Handler(a)[1].op \notin {"raise", "respond"}

\* Leases whose durations both parsers understand reach the runtime in order.
LeaseTimesOrdered ==
    AtContract =>
        \A lease \in Elements(system.lease) :
            Comparable(lease.ttl) /\ Comparable(lease.renew) /\ Comparable(lease.max) =>
                LET times == ir.times[lease.name]
                IN  times.renew < times.ttl /\ times.ttl <= times.max

\* Statements at every depth, not only those the rule looks at.
DomainEdges ==
    {e \in Dependencies(system)
           \cup UNION {{<<"workflows", Domain(system, s.target)>> : s \in StepStatements(w)} :
                         w \in Elements(system.workflow)} : e[2] # None /\ e[1] # e[2]}

\* The runtime domains use each other without a circle.
RuntimeDomainsLayered ==
    AtContract =>
        LET Uses(d) == {e[2] : e \in {x \in DomainEdges : x[1] = d}}
            domains == {e[1] : e \in DomainEdges}
        IN  ~\E circle \in SUBSET domains :
                circle # {} /\ \A d \in circle : Uses(d) \cap circle # {}
====
