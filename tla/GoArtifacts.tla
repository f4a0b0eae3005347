---- MODULE GoArtifacts ----
\* The files generated for Go and what each cannot be compiled without: the
\* packages it imports (directories below the module root) and, in its own
\* package, the files that declare the names it uses. A package is its directory.
EXTENDS Ir

Common(p) == <<"common", "backend">> \o p
Api(p) == <<"api", "backend">> \o p
Worker(p) == <<"worker", "backend">> \o p
CommonEntity(e) == <<"common", "entities", Snake[e]>>
ApiEntity(e) == Api(<<"entities", Snake[e]>>)

CommonFile(p, needs) == File(p, "common", needs)
ApiFile(p, needs) == File(p, "api", needs)
WorkerFile(p, needs) == File(p, "worker", needs)

CommonPackage == <<"common", "backend">>
DescriptorTypes == Common(<<"descriptortypes">>)
Runtime == Common(<<"runtime">>)
EntityGc == Common(<<"runtime", "entitygc">>)

Package(path) == SubSeq(path, 1, Len(path) - 1)
Packages(files) == {Package(f.path) : f \in {g \in files : g.path[1] \in {"common", "api", "worker"}}}

----
\* Common tier.

RegistrationModules(ir) ==
    Usage(ir) \cup (IF {"logs", "metrics"} \subseteq Usage(ir) THEN {"observability"} ELSE {})
Registration(d) == Common(<<"runtime_registration_" \o d>>)
Definitions(d) ==
    IF d \in {"logs", "metrics", "observability"} THEN Common(<<"observability_definitions">>)
    ELSE Common(<<"runtime_definitions">>)
RegistrationModule(d) ==
    CommonFile(Registration(d),
        {Definitions(d)}
          \cup (IF d = "observability" THEN {Registration("logs"), Registration("metrics")}
                ELSE {}))

RuntimeFiles(ir) ==
    When(Usage(ir) # {}, {CommonFile(Runtime \o <<"codec">>, {CommonPackage})})
      \cup Named(Usage(ir), LAMBDA d :
               CommonFile(Runtime \o <<"codec_" \o d>>, {CommonPackage, Runtime \o <<"codec">>}))
      \cup Named(Usage(ir), LAMBDA d :
               CommonFile(Runtime \o <<d>>, {CommonPackage, Runtime \o <<"codec_" \o d>>}))
      \cup When(UsesObservability(ir), {CommonFile(Runtime \o <<"codec_observability">>, {})})
      \cup When(UsesEntityGc(ir),
                {CommonFile(EntityGc \o <<"types">>, {}),
                 CommonFile(Runtime \o <<"entity_gc_types">>, {EntityGc})}
                  \cup {CommonFile(Runtime \o <<f>>, {CommonPackage, Runtime \o <<"entity_gc_types">>}) :
                          f \in {"entity_gc_repository", "entity_gc_workers",
                                 "entity_gc_registration"}})

\* common/backend/runtime_definitions.go: imports for the domains in use
RuntimeDefinitions(ir) ==
    When(Usage(ir) \ {"logs", "metrics"} # {},
         {CommonFile(Common(<<"runtime_definitions">>),
                     IF "workflows" \in Usage(ir) THEN {Common(<<"workflows">>)} ELSE {})})
      \cup When(UsesObservability(ir), {CommonFile(Common(<<"observability_definitions">>), {})})

EntityGcFile(e) == CommonFile(CommonEntity(e) \o <<"gc">>, {EntityGc})
\* constants, model, schema and persistence of go_entity_centered_facade_file
EntityConstants(e) == CommonFile(CommonEntity(e) \o <<"constants">>, {})
EntityFacades(e) ==
    LET here(f) == CommonEntity(e) \o <<f>>
    IN  {CommonFile(here("model"), {CommonPackage, here("constants")}),
         CommonFile(here("schema"), {CommonPackage, here("constants"), here("model")}),
         CommonFile(here("persistence"), {CommonPackage, here("constants"), here("schema")})}
EntityFiles(ir) ==
    UNION {{EntityConstants(e)} \cup EntityFacades(e) \cup When(e \in ir.gc, {EntityGcFile(e)})
           : e \in ir.entities}

ShapeDescriptor(s) == Common(<<Snake[s] \o "_shape_descriptors">>)
ShapeFiles(ir) ==
    Named(CommonShapes(ir), LAMBDA s : CommonFile(Common(<<"shapes", Snake[s]>>), {}))
ShapeDescriptors(ir) ==
    When(CommonShapes(ir) # {},
         {CommonFile(Common(<<"shape_descriptors">>), {ShapeDescriptor(s) : s \in CommonShapes(ir)})})
      \cup Named(CommonShapes(ir), LAMBDA s : CommonFile(ShapeDescriptor(s), {}))

WorkflowDescriptors(ir) ==
    When(ir.workflows # {},
         {CommonFile(Common(<<"workflows", "workflows">>), {})}
           \cup Named(ir.workflows, LAMBDA w :
                    CommonFile(Common(<<"workflows", Snake[w]>>),
                               {Common(<<"workflows", "workflows">>)})))

DescriptorModules(ir) ==
    Named({"core", "runtime"} \cup (IF CommonShapes(ir) = {} THEN {} ELSE {"shapes"}),
          LAMBDA m : CommonFile(Common(<<"descriptors", m>>), {}))
      \cup Named({"values_enums_descriptors", "events", "external_systems", "policy_descriptors"},
                 LAMBDA f : CommonFile(Common(<<f>>), {}))
      \cup ShapeDescriptors(ir) \cup RuntimeDefinitions(ir)
      \cup Named(RegistrationModules(ir), LAMBDA d : RegistrationModule(d))

RuntimeContracts == {"json", "backend", "external_system", "feature_flag", "lease", "log",
                     "metric", "queue", "schema_compatibility", "workflow", "entity_repository",
                     "shape_types"}
MemoryBackend == Common(<<"memory">>)

GoCommon(ir) ==
    Named(RuntimeContracts, LAMBDA f : CommonFile(Common(<<f>>), {}))
      \cup {CommonFile(Common(<<"runtime_registration">>),
                       {Registration(d) : d \in RegistrationModules(ir)}),
            CommonFile(DescriptorTypes \o <<"types">>, {CommonPackage}),
            CommonFile(MemoryBackend \o <<"backend">>, {CommonPackage}),
            CommonFile(MemoryBackend \o <<"transaction">>, {CommonPackage}),
            CommonFile(Common(<<"descriptors">>), {Common(<<"descriptors">>)}),
            CommonFile(<<"go.mod">>, {}), CommonFile(<<"Makefile">>, {})}
      \cup RuntimeFiles(ir) \cup DescriptorModules(ir) \cup ShapeFiles(ir) \cup EntityFiles(ir)
      \cup WorkflowDescriptors(ir)

----
\* API tier.

Shapes == Api(<<"shapes">>)
Codecs == Api(<<"codecs">>)
CodecSupport == Api(<<"codecsupport">>)
OwningEntities(ir) == {e \in ir.entities : EntityShapes(ir, e) # {}}
IsLocal(ir, api) == api.entity \in ir.entities

\* api/backend/shapes: a file per unowned shape, aliases of the owned ones
ShapeAliases(ir) ==
    When(OwningEntities(ir) # {},
         {ApiFile(Shapes \o <<"entities">>, {ApiEntity(e) : e \in OwningEntities(ir)})})
ShapeCatalog(ir) ==
    ApiFile(Shapes \o <<"catalog">>,
            {CommonPackage} \cup {Shapes \o <<Snake[s]>> : s \in UnownedShapes(ir)}
              \cup {ApiEntity(ShapeOwner(ir, s)) : s \in ContractShapes(ir) \ UnownedShapes(ir)})
ApiConstants(e) == ApiFile(ApiEntity(e) \o <<"constants">>, {CommonEntity(e)})
ApiShapesFile(e) == ApiFile(ApiEntity(e) \o <<"shapes">>, {CommonPackage, CommonEntity(e)})
ApiShapes(ir) ==
    {ShapeCatalog(ir)} \cup ShapeAliases(ir)
      \cup Named(UnownedShapes(ir), LAMBDA s : ApiFile(Shapes \o <<Snake[s]>>, {CommonPackage}))
      \cup UNION {{ApiConstants(e), ApiShapesFile(e)} : e \in OwningEntities(ir)}

DescriptorPath(ir, api) ==
    IF IsLocal(ir, api) THEN ApiEntity(api.entity) \o <<Snake[api.name] \o "_descriptor">>
    ELSE Api(<<"descriptors", Snake[api.name]>>)
\* The package an API finds a shape in, when it is not its own.
ShapePackage(ir, s) == IF ShapeOwner(ir, s) = None THEN Shapes ELSE ApiEntity(ShapeOwner(ir, s))

DescriptorModule(ir, api) ==
    ApiFile(DescriptorPath(ir, api),
        {DescriptorTypes}
          \cup (IF IsLocal(ir, api) /\ api.fieldPath THEN {CommonEntity(api.entity)} ELSE {})
          \cup {ShapePackage(ir, s) : s \in
                  {t \in Mentions(api) \cap ir.shapes :
                     ~(IsLocal(ir, api) /\ ShapeOwner(ir, t) = api.entity)}})

DescriptorCatalog(ir) ==
    ApiFile(Api(<<"descriptors", "catalog">>),
            {DescriptorTypes} \cup {ApiEntity(e) : e \in CrudDomains(ir)}
              \cup {Api(<<"descriptors", Snake[a.name]>>) : a \in Apis(ir) \ CrudApis(ir)})
ApiDescriptors(ir) ==
    ApiFile(Api(<<"api_descriptors">>),
            {DescriptorTypes, Api(<<"descriptors">>)}
              \cup {Api(<<"servers", Snake[s.name]>>) : s \in ir.servers})

ServedDomains(ir, server) == {e \in CrudDomains(ir) : Served(server, DomainApis(ir, e)) # {}}
ServerPath(server, p) == Api(<<"servers", Snake[server.name]>> \o p)
ServerConstants(server) == ApiFile(ServerPath(server, <<"constants">>), {})
ServerEntityCatalog(server, e) ==
    ApiFile(ServerPath(server, <<"entities", Snake[e], "catalog">>),
            {ApiEntity(e), ApiEntity(e) \o <<"constants">>})
ServerCatalog(ir, server) ==
    ApiFile(ServerPath(server, <<"catalog">>),
            {DescriptorTypes, ServerPath(server, <<"constants">>)}
              \cup {ServerPath(server, <<"entities", Snake[e]>>) : e \in ServedDomains(ir, server)})
ServerFiles(ir) ==
    UNION {{ServerConstants(s), ServerCatalog(ir, s)}
             \cup Named(ServedDomains(ir, s), LAMBDA e : ServerEntityCatalog(s, e))
           : s \in ir.servers}

ShapeCodec(s) ==
    ApiFile(Codecs \o <<Snake[s]>>, {CommonPackage, CodecSupport, Shapes \o <<Snake[s]>>})
EntityCodec(e) ==
    ApiFile(ApiEntity(e) \o <<"codecs">>,
            {CommonPackage, CommonEntity(e), CodecSupport, ApiEntity(e) \o <<"shapes">>})
\* imports of the facade api_codecs.go
CodecImports(ir) ==
    {IF ShapeOwner(ir, s) = None THEN Codecs ELSE ApiEntity(ShapeOwner(ir, s)) : s \in ContractShapes(ir)}
ApiCodecs(ir) ==
    {ApiFile(Api(<<"api_codecs">>),
             {CommonPackage} \cup CodecImports(ir)
               \cup (IF ContractShapes(ir) = {} THEN {} ELSE {Shapes})),
     ApiFile(CodecSupport \o <<"api_codecs">>, {CommonPackage})}
      \cup Named(UnownedShapes(ir), LAMBDA s : ShapeCodec(s))
      \cup Named(OwningEntities(ir), LAMBDA e : EntityCodec(e))

EntityCatalog(ir, e) ==
    ApiFile(ApiEntity(e) \o <<"catalog">>,
        {CommonPackage, DescriptorTypes, ApiEntity(e) \o <<"constants">>,
         ApiEntity(e) \o <<"registry">>}
          \cup (IF e \in OwningEntities(ir) THEN {ApiEntity(e) \o <<"shapes">>} ELSE {})
          \cup {DescriptorPath(ir, a) : a \in DomainApis(ir, e)})
\* The shapes whose codecs the body of a handler calls. The call names no
\* package: it finds only the codecs of the handler's own entity.
HandlerShapes(api) ==
    CASE api.operation \in {"create", "update_status"} -> Mentions(api)
      [] api.operation = "get"                         -> {api.output} \ {None}
      [] OTHER                                         -> {}
HandlerDomain(ir, e) ==
    ApiFile(ApiEntity(e) \o <<"handlers">>,
        {CommonPackage, CodecSupport} \cup {CommonEntity(a.entity) : a \in DomainApis(ir, e)}
          \cup {CommonEntity(f) : f \in
                  {g \in ir.entities : \E a \in DomainApis(ir, e) :
                      a.name \in {o \o Pascal[g] : o \in {"Create", "Get", "Delete", "List"}}}}
          \cup {IF ShapeOwner(ir, s) = e THEN ApiEntity(e) \o <<"codecs">>
                ELSE ApiEntity(e) \o <<"codecs", Snake[s]>> :
                  s \in UNION {HandlerShapes(a) : a \in DomainApis(ir, e)}})
HandlerRegistry(e) ==
    ApiFile(ApiEntity(e) \o <<"registry">>,
            {CommonPackage, DescriptorTypes, ApiEntity(e) \o <<"handlers">>})
Handlers(ir) ==
    Named(CrudDomains(ir) \cap ir.entities, LAMBDA e : EntityCatalog(ir, e))
      \cup Named(CrudDomains(ir), LAMBDA e : HandlerDomain(ir, e))
      \cup Named(CrudDomains(ir), LAMBDA e : HandlerRegistry(e))
      \cup {ApiFile(Api(<<"api_handlers">>), {DescriptorTypes}),
            ApiFile(Api(<<"external_system_operator_metadata_api">>), {DescriptorTypes}),
            ApiFile(Api(<<"api_handler_registry">>),
                    {CommonPackage, DescriptorTypes, Api(<<"api_handlers">>)}
                      \cup {ApiEntity(e) : e \in CrudDomains(ir)})}

\* runtime_store_import and entity_schema_imports of a composed application
Bootstrap(ir) ==
    (IF Usage(ir) = {} THEN {} ELSE {Runtime}) \cup {CommonEntity(e) : e \in ir.entities}
GcCatalog(ir, path, tier) ==
    File(path, tier, {Runtime} \cup {CommonEntity(e) : e \in ir.gc})
MainGc(ir) == IF UsesEntityGc(ir) THEN {Runtime} ELSE {}

ApiComposition(ir) == When(HasServer(ir),
    {ApiFile(Api(<<"api_application">>), {CommonPackage, Api(<<"api_handler_registry">>)} \cup Bootstrap(ir)),
     ApiFile(Api(<<"api_process">>), {CommonPackage, Api(<<"api_application">>)}),
     ApiFile(Api(<<"api_transport">>), {DescriptorTypes, Api(<<"api_server">>)}),
     ApiFile(Api(<<"api_dispatcher">>),
             {CommonPackage, DescriptorTypes, Api(<<"api_routes">>), Api(<<"api_handler_registry">>)}),
     ApiFile(Api(<<"api_server">>), {DescriptorTypes, Api(<<"api_dispatcher">>)}),
     ApiFile(Api(<<"api_routes">>), {DescriptorTypes, Api(<<"descriptors">>)}),
     ApiFile(<<"api", "cmd", "api", "main">>, {<<"api", "backend">>, MemoryBackend} \cup MainGc(ir))}
      \cup When(UsesEntityGc(ir), {GcCatalog(ir, Api(<<"entity_gc_catalog">>), "api")}))

GoApi(ir) == When(HasApi(ir),
    ApiShapes(ir) \cup Named(Apis(ir), LAMBDA a : DescriptorModule(ir, a))
      \cup {DescriptorCatalog(ir), ApiDescriptors(ir)} \cup ServerFiles(ir) \cup ApiCodecs(ir)
      \cup Handlers(ir) \cup ApiComposition(ir))

\* A Go file that imports a package and does not use it is rejected. Handlers
\* import codecsupport; of the bodies, those that read a stored document use it.
ReadsDocument(api) == api.operation \in {"get", "update_status", "delete"}
UnusedImports(ir) ==
    {ApiEntity(e) \o <<"handlers">> : e \in
        {d \in CrudDomains(ir) : \A a \in DomainApis(ir, d) : ~ReadsDocument(a)}}

----
\* Worker tier.

WorkerDescriptors(ir) ==
    LET module(w) == Worker(<<"descriptors", Snake[w.name]>>)
    IN  {WorkerFile(Worker(<<"descriptors", "catalog">>),
                    {DescriptorTypes} \cup {module(w) : w \in ir.workers})}
          \cup {WorkerFile(module(w), {DescriptorTypes}) : w \in ir.workers}

RegistryModule(w) ==
    WorkerFile(Worker(<<"registry", Snake[w.name]>>),
               {DescriptorTypes, Worker(<<"descriptors">>), Worker(<<"descriptors", Snake[w.name]>>)})
WorkflowPackage(w) == Worker(<<"workflows", Snake[w]>>)
RegistryFacade(ir) ==
    WorkerFile(Worker(<<"worker_registry">>),
        {DescriptorTypes}
          \cup (IF ir.workflows = {} THEN {}
                ELSE {CommonPackage, Worker(<<"workflow_step_handlers">>)})
          \cup {Worker(<<"registry">>) : w \in ir.workers}
          \cup {WorkflowPackage(w) : w \in ir.workflows})

WorkerComposition(ir) == When(HasWorker(ir),
    {WorkerFile(Worker(<<"worker_application">>),
                {CommonPackage, DescriptorTypes, Worker(<<"worker_runtime">>)}),
     WorkerFile(Worker(<<"worker_process">>),
                {Worker(<<"worker_runtime">>), Worker(<<"worker_contexts">>)}),
     WorkerFile(Worker(<<"worker_runtime">>),
                {CommonPackage, DescriptorTypes, Worker(<<"workflow_step_handlers">>)} \cup Bootstrap(ir)),
     WorkerFile(<<"worker", "cmd", "worker", "main">>,
                {<<"worker", "backend">>, MemoryBackend} \cup MainGc(ir)
                  \cup {WorkflowPackage(w) : w \in ir.workflows})}
      \cup When(UsesEntityGc(ir), {GcCatalog(ir, Worker(<<"entity_gc_catalog">>), "worker")}))

WorkflowContext == Worker(<<"workflows", "context">>)
WorkflowHandlers(w) ==
    WorkerFile(WorkflowPackage(w) \o <<"handlers">>, {CommonPackage, WorkflowContext})
WorkflowRegistry(w) ==
    WorkerFile(WorkflowPackage(w) \o <<"registry">>,
               {CommonPackage, WorkflowContext, WorkflowPackage(w) \o <<"handlers">>})
\* workflow_step_handlers.go re-exports the package of workflow modules, which
\* is generated for a system that has any.
WorkerExecution(ir) ==
    When(ir.workflows # {},
         {WorkerFile(WorkflowContext \o <<"context">>, {CommonPackage}),
          WorkerFile(Worker(<<"workflows", "workflows">>), {WorkflowContext})})
      \cup Named(ir.workflows, LAMBDA w : WorkflowHandlers(w))
      \cup Named(ir.workflows, LAMBDA w : WorkflowRegistry(w))
      \cup {WorkerFile(Worker(<<"workflow_step_handlers">>), {CommonPackage, Worker(<<"workflows">>)}),
            WorkerFile(Worker(<<"workflow_runner">>),
                       {CommonPackage, Worker(<<"workflow_step_handlers">>)})}

GoWorker(ir) == When(HasWorkerExecution(ir),
    Named({"worker_descriptors", "worker_contexts"}, LAMBDA f :
          WorkerFile(Worker(<<f>>), {DescriptorTypes, Worker(<<"descriptors">>)}))
      \cup WorkerDescriptors(ir) \cup {RegistryFacade(ir)}
      \cup Named(ir.workers, LAMBDA w : RegistryModule(w))
      \cup WorkerComposition(ir) \cup WorkerExecution(ir)
      \cup {WorkerFile(Worker(<<"worker_" \o d>>), {CommonPackage}) :
              d \in Usage(ir) \cap {"queues", "leases", "workflows"}})

----
\* Packages may not import one another in a circle.
Acyclic(files) ==
    LET P       == Packages(files)
        imports == UNION {{<<Package(f.path), q>> : q \in (f.needs \cap P) \ {Package(f.path)}}
                          : f \in files}
        built[n \in 0..Cardinality(P)] ==   \* what can be compiled in n rounds
            IF n = 0 THEN {}
            ELSE LET before == built[n - 1]
                 IN  P \ {i[1] : i \in {j \in imports : j[2] \notin before}}
    IN  built[Cardinality(P)] = P
====
