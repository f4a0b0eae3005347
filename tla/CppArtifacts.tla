---- MODULE CppArtifacts ----
\* The file tree generated for C++ and its #include graph. A path is the
\* sequence of its directories and the parts of its stem; an include is the path
\* it resolves to from the directory of the including file (or, for the runtime
\* headers, through -Icommon).
EXTENDS Ir

Common(p) == <<"common">> \o p
ApiPath(p) == <<"api">> \o p
WorkerPath(p) == <<"worker">> \o p
CommonEntity(e, area) == Common(<<"entities", Snake[e], area>>)
ApiEntity(e, area) == ApiPath(<<"entities", Snake[e], area>>)

CommonFile(p, needs) == File(Common(p), "common", needs)
ApiFile(p, needs) == File(ApiPath(p), "api", needs)
WorkerFile(p, needs) == File(WorkerPath(p), "worker", needs)

DescriptorTypes == Common(<<"descriptors", "types">>)
Descriptors == Common(<<"descriptors">>)
Backend == Common(<<"backend">>)
ShapeTypes == Common(<<"shape_types">>)

----
\* Common tier.

Contracts == {"external_system", "feature_flag", "lease", "log", "metric",
              "queue", "schema_compatibility", "workflow"}
ContractOf == [feature_flags |-> "feature_flag", queues |-> "queue", leases |-> "lease",
               workflows |-> "workflow", logs |-> "log", metrics |-> "metric"]
StoreOf == [feature_flags |-> "feature_flag_store", queues |-> "queue_store",
            leases |-> "lease_store", workflows |-> "workflow_store",
            logs |-> "log_sink", metrics |-> "metric_sink"]

Store(d) == Common(<<"runtime", StoreOf[d]>>)
Codec(d) == Common(<<"runtime", "codec", d>>)
CodecCore == Common(<<"runtime", "codec_core">>)
GcFile(part) == Common(<<"runtime", "entity_gc", part>>)

\* The codecs named by runtime/codec.hpp: logs and metrics stand behind one.
CodecIncludes(ir) ==
    {Codec(d) : d \in Usage(ir) \ {"logs", "metrics"}}
      \cup (IF UsesObservability(ir) THEN {Codec("observability")} ELSE {})

RegistrationModules(ir) ==
    Usage(ir) \cup (IF {"logs", "metrics"} \subseteq Usage(ir) THEN {"observability"} ELSE {})
RegistrationIncludes(ir) ==
    {Common(<<"descriptors", "runtime", m>>) : m \in RegistrationModules(ir)}

\* generated/runtime headers other than those of entities, shapes, descriptors
RuntimeHeaders(ir) ==
    {CommonFile(<<"json">>, {}), CommonFile(<<"backend">>, {Common(<<"json">>)}),
     CommonFile(<<"shape_types">>, {Backend}),
     CommonFile(<<"descriptors", "types">>,
                {Backend} \cup {Common(<<c>>) : c \in
                    {"external_system", "feature_flag", "lease", "log", "metric"}}),
     CommonFile(<<"entity_repository">>, {Backend}),
     CommonFile(<<"runtime_registration">>, {Descriptors} \cup RegistrationIncludes(ir)),
     CommonFile(<<"memory", "transaction">>, {Backend}),
     CommonFile(<<"memory", "backend">>,
                {Common(<<"schema_compatibility">>), Common(<<"memory", "transaction">>)})}
      \cup Named(Contracts, LAMBDA c : CommonFile(<<c>>, {Backend}))

\* Codecs, stores and sinks, each with the domain it serves.
DomainHeaders(ir) ==
    When(Usage(ir) # {},
         {CommonFile(<<"runtime", "codec">>, {CodecCore} \cup CodecIncludes(ir)),
          CommonFile(<<"runtime", "codec_core">>, {Backend})})
      \cup Named(Usage(ir), LAMBDA d : File(Codec(d), "common",
                                            {CodecCore, Common(<<ContractOf[d]>>)}))
      \cup Named(Usage(ir), LAMBDA d : File(Store(d), "common",
                                            {Backend, Common(<<"runtime", "codec">>)}))
      \cup When(UsesObservability(ir),
                {File(Codec("observability"), "common", {Codec("logs"), Codec("metrics")})})

GcHeaders(ir) == When(UsesEntityGc(ir),
    {File(GcFile("types"), "common", {}),
     File(GcFile("repository"), "common", {Backend, GcFile("types")}),
     File(GcFile("workers"), "common", {Backend, GcFile("types"), GcFile("repository")}),
     File(GcFile("registration"), "common",
          {Backend} \cup {GcFile(p) : p \in {"types", "repository", "workers"}})})

CommonShapeHeaders(ir) ==
    LET shape(s) == Common(<<"shapes", Snake[s]>>)
    IN  When(CommonShapes(ir) # {},
             {CommonFile(<<"shapes">>, {shape(s) : s \in CommonShapes(ir)})})
          \cup Named(CommonShapes(ir), LAMBDA s : File(shape(s), "common", {Backend}))

ShapeDescriptorModules(ir) ==
    LET module(s) == Common(<<"descriptors", "shapes", Snake[s]>>)
    IN  When(CommonShapes(ir) # {},
             {CommonFile(<<"descriptors", "shapes">>,
                         {ShapeTypes} \cup {module(s) : s \in CommonShapes(ir)})})
          \cup Named(CommonShapes(ir), LAMBDA s : File(module(s), "common", {ShapeTypes}))

DescriptorModules(ir) ==
    Named({"core", "values_enums", "events", "external_systems", "policies", "runtime"},
          LAMBDA m : CommonFile(<<"descriptors", m>>, {}))
      \cup Named(RegistrationModules(ir),
                 LAMBDA m : CommonFile(<<"descriptors", "runtime", m>>, {}))
      \cup ShapeDescriptorModules(ir)

EntityGcHeader(e) ==
    File(CommonEntity(e, "gc"), "common",
         {CommonEntity(e, "constants"), CommonEntity(e, "schema"), GcFile("types")})

\* model, schema and persistence of cpp_entity_centered_facade_header
EntityFacades(e) ==
    {File(CommonEntity(e, "model"), "common", {CommonEntity(e, "constants"), Backend}),
     File(CommonEntity(e, "schema"), "common", {CommonEntity(e, "model"), Backend}),
     File(CommonEntity(e, "persistence"), "common",
          {CommonEntity(e, "model"), CommonEntity(e, "schema"),
           Common(<<"entity_repository">>)})}

EntityConstants(e) == File(CommonEntity(e, "constants"), "common", {})

EntityHeaders(ir) ==
    UNION {{EntityConstants(e)} \cup EntityFacades(e) \cup
           When(e \in ir.gc, {EntityGcHeader(e)}) : e \in ir.entities}

WorkflowDescriptors(ir) ==
    Named(ir.workflows, LAMBDA w :
        CommonFile(<<"workflows", Snake[w]>>, {Common(<<"workflow">>)}))

\* common/descriptors.hpp
DescriptorsHeader(ir) ==
    CommonFile(<<"descriptors">>,
        {Backend, ShapeTypes, DescriptorTypes, Common(<<"runtime_registration">>)}
          \cup {Common(<<c>>) : c \in Contracts \ {"schema_compatibility"}}
          \cup {Common(<<"descriptors", m>>) : m \in
                   {"core", "values_enums", "events", "external_systems", "policies", "runtime"}}
          \cup (IF CommonShapes(ir) = {} THEN {} ELSE {Common(<<"descriptors", "shapes">>)})
          \cup {CommonEntity(e, "schema") : e \in ir.entities}
          \cup {Common(<<"workflows", Snake[w]>>) : w \in ir.workflows})

\* What the targets of the Makefile compile: it is rendered for the selected
\* tier, unlike every other file.
CheckedCommon(ir) ==
    {Descriptors, Common(<<"memory", "backend">>), Common(<<"schema_compatibility">>)}
      \cup (IF Usage(ir) = {} THEN {} ELSE {Common(<<"runtime", "codec">>)})
      \cup {Store(d) : d \in Usage(ir)}
      \cup (IF UsesEntityGc(ir)
            THEN {GcFile(p) : p \in {"types", "repository", "workers", "registration"}} ELSE {})
CheckedApi(ir) ==
    {ApiPath(<<f>>) : f \in {"api_descriptors", "api_codecs", "api_handler_registry",
                             "api_handlers", "external_system_operator_metadata_api"}}
      \cup (IF HasServer(ir)
            THEN {ApiPath(<<f>>) : f \in {"api_application", "api_dispatcher", "api_process",
                                          "api_routes", "api_server", "api_transport", "main"}}
            ELSE {})
CheckedWorker(ir) ==
    {WorkerPath(<<f>>) : f \in {"worker_contexts", "worker_descriptors", "worker_registry",
                                "workflow_runner", "workflow_step_handlers"}}
      \cup {WorkerPath(<<"worker", d>>) : d \in Usage(ir) \cap {"leases", "queues", "workflows"}}
      \cup (IF HasWorker(ir)
            THEN {WorkerPath(<<f>>) : f \in {"worker_application", "worker_process",
                                             "worker_runtime", "main"}}
            ELSE {})
Makefile(ir, tier) ==
    File(<<"Makefile">>, "common",
         CheckedCommon(ir)
           \cup (IF tier \in {"all", "api"} /\ HasApi(ir) THEN CheckedApi(ir) ELSE {})
           \cup (IF tier \in {"all", "worker"} /\ HasWorkerExecution(ir)
                 THEN CheckedWorker(ir) ELSE {}))

CppCommon(ir, tier) ==
    RuntimeHeaders(ir) \cup DomainHeaders(ir) \cup GcHeaders(ir) \cup CommonShapeHeaders(ir)
      \cup DescriptorModules(ir) \cup EntityHeaders(ir) \cup WorkflowDescriptors(ir)
      \cup {DescriptorsHeader(ir), Makefile(ir, tier)}

----
\* API tier.

ApiShapeHeaders(ir) ==
    LET shape(s) == ApiPath(<<"shapes", Snake[s]>>)
        unowned  == UnownedShapes(ir)
    IN  {ApiFile(<<"shapes">>, {ShapeTypes} \cup {shape(s) : s \in unowned})}
          \cup Named(unowned, LAMBDA s : File(shape(s), "api", {Backend, ShapeTypes}))

\* constants.hpp, shapes.hpp and codecs.hpp of the entities that own a shape.
EntityApiShapes(e) ==
    File(ApiEntity(e, "shapes"), "api", {CommonEntity(e, "constants"), Backend, ShapeTypes})
EntityApiConstants(e) == File(ApiEntity(e, "constants"), "api", {CommonEntity(e, "constants")})
EntityApiCodec(e) ==
    File(ApiEntity(e, "codecs"), "api",
         {ApiPath(<<"api_codec_support">>), CommonEntity(e, "constants"),
          ApiEntity(e, "shapes")})
OwningEntities(ir) == {e \in ir.entities : EntityShapes(ir, e) # {}}

IsLocal(ir, api) == api.entity \in ir.entities

\* Where the descriptor of an API looks for a shape, relative to the parent of
\* its directory: the API of an entity expects an owned shape in its own entity.
ShapeInclude(ir, s, api) ==
    LET owner  == ShapeOwner(ir, s)
        parent == IF IsLocal(ir, api) THEN <<"api", "entities", Snake[api.entity]>>
                  ELSE <<"api">>
    IN  IF owner = None THEN parent \o <<"shapes", Snake[s]>>
        ELSE IF IsLocal(ir, api) THEN parent \o <<"shapes">>
        ELSE ApiEntity(owner, "shapes")

ApiDescriptorPath(ir, api) ==
    IF IsLocal(ir, api) THEN ApiEntity(api.entity, "descriptors") \o <<Snake[api.name]>>
    ELSE ApiPath(<<"descriptors", Snake[api.name]>>)

\* cpp_api_descriptor_module
ApiDescriptorModule(ir, api) ==
    File(ApiDescriptorPath(ir, api), "api",
         {DescriptorTypes}
           \cup (IF IsLocal(ir, api) /\ api.fieldPath
                 THEN {CommonEntity(api.entity, "constants")} ELSE {})
           \cup {ShapeInclude(ir, s, api) : s \in Mentions(api) \cap ir.shapes})

ApiDescriptorCatalog(ir) ==
    ApiFile(<<"descriptors", "catalog">>,
            {DescriptorTypes, ShapeTypes, ApiPath(<<"shapes">>)}
              \cup {ApiEntity(e, "catalog") : e \in CrudDomains(ir)}
              \cup {ApiPath(<<"descriptors", Snake[a.name]>>) : a \in Apis(ir) \ CrudApis(ir)})

\* catalog.hpp, handlers.hpp and registry.hpp of the entities with CRUD APIs
EntityApiCatalog(ir, e) ==
    File(ApiEntity(e, "catalog"), "api",
         {DescriptorTypes, ShapeTypes}
           \cup {ApiEntity(e, area) : area \in
                   {"constants", "shapes", "codecs", "handlers", "registry"}}
           \cup {ApiEntity(e, "descriptors") \o <<Snake[a.name]>> : a \in DomainApis(ir, e)})
HandlerDomain(ir, e) ==
    File(ApiEntity(e, "handlers"), "api",
         {ApiPath(<<"api_codecs">>), ApiPath(<<"api_handler_registry_support">>)}
           \cup {CommonEntity(x, "persistence") : x \in ir.entities})
HandlerRegistry(e) ==
    File(ApiEntity(e, "registry"), "api",
         {ApiPath(<<"api_handler_registry_support">>), ApiEntity(e, "handlers")})
EntityApiHeaders(ir) ==
    Named(CrudDomains(ir) \cap ir.entities, LAMBDA e : EntityApiCatalog(ir, e))
      \cup Named(CrudDomains(ir), LAMBDA e : HandlerDomain(ir, e))
      \cup Named(CrudDomains(ir), LAMBDA e : HandlerRegistry(e))

ServerPath(server, p) == ApiPath(<<"servers", Snake[server.name]>> \o p)
ServedDomains(ir, server) == {e \in CrudDomains(ir) : Served(server, DomainApis(ir, e)) # {}}
ServerConstants(server) == File(ServerPath(server, <<"constants">>), "api", {})
ServerEntityCatalog(server, e) ==
    File(ServerPath(server, <<"entities", Snake[e]>>), "api", {ApiEntity(e, "catalog")})
ServerCatalog(ir, server) ==
    File(ServerPath(server, <<"catalog">>), "api",
         {DescriptorTypes, ServerPath(server, <<"constants">>)}
           \cup {ServerPath(server, <<"entities", Snake[e]>>) : e \in ServedDomains(ir, server)})
ServerHeaders(ir) ==
    UNION {{ServerConstants(s), ServerCatalog(ir, s)}
             \cup Named(ServedDomains(ir, s), LAMBDA e : ServerEntityCatalog(s, e))
           : s \in ir.servers}

ApiDescriptorsHeader(ir) ==
    ApiFile(<<"api_descriptors">>,
            {DescriptorTypes, ApiPath(<<"descriptors", "catalog">>)}
              \cup {ServerPath(s, <<"catalog">>) : s \in ir.servers})

\* api_codecs.hpp, its support header and the codecs of the unowned shapes
CodecHeaders(ir) ==
    LET codec(s) == ApiPath(<<"codecs", Snake[s]>>)
        unowned  == UnownedShapes(ir)
        owners   == {ShapeOwner(ir, s) : s \in ContractShapes(ir)} \ {None}
        support  == ApiPath(<<"api_codec_support">>)
    IN  {ApiFile(<<"api_codecs">>,
                 {support} \cup {codec(s) : s \in unowned}
                           \cup {ApiEntity(e, "codecs") : e \in owners}),
         File(support, "api",
              {DescriptorTypes} \cup (IF ContractShapes(ir) = {} THEN {}
                                      ELSE {ApiPath(<<"shapes">>)}))}
          \cup Named(unowned, LAMBDA s :
                     File(codec(s), "api", {support, ApiPath(<<"shapes", Snake[s]>>)}))

HandlerHeaders(ir) ==
    {ApiFile(<<"api_handlers">>, {DescriptorTypes}),
     ApiFile(<<"external_system_operator_metadata_api">>, {DescriptorTypes}),
     ApiFile(<<"api_handler_registry_support">>, {Backend, ApiPath(<<"api_handlers">>)}),
     ApiFile(<<"api_handler_registry">>,
             {ApiPath(<<"api_handler_registry_support">>)}
               \cup {ApiEntity(e, "registry") : e \in CrudDomains(ir)})}

\* The stores a composed application owns: includes of the runtime header.
BootstrapIncludes(ir) == {Store(d) : d \in Usage(ir)}

GcCatalog(ir, path, tier) ==
    File(path, tier, {GcFile("types")} \cup {CommonEntity(e, "gc") : e \in ir.gc})
MainGcIncludes(ir, catalog) ==
    IF UsesEntityGc(ir) THEN {GcFile("registration"), catalog} ELSE {}

ApiComposition(ir) == When(HasServer(ir),
    LET api(f) == ApiPath(<<f>>)
    IN  {ApiFile(<<"api_application">>,
                 {Common(<<"runtime_registration">>), api("api_handler_registry"),
                  api("api_server")} \cup BootstrapIncludes(ir)),
         ApiFile(<<"api_process">>, {api("api_application"), api("api_transport")}),
         ApiFile(<<"api_dispatcher">>, {api("api_handler_registry"), api("api_routes")}),
         ApiFile(<<"api_server">>, {api("api_descriptors"), api("api_dispatcher")}),
         ApiFile(<<"api_transport">>, {api("api_server")}),
         ApiFile(<<"api_routes">>, {DescriptorTypes, ApiPath(<<"descriptors", "catalog">>)}),
         ApiFile(<<"main">>,
                 {Common(<<"memory", "backend">>), api("api_handler_registry"),
                  api("api_process"), api("api_transport")}
                   \cup MainGcIncludes(ir, api("entity_gc_catalog")))}
          \cup When(UsesEntityGc(ir), {GcCatalog(ir, api("entity_gc_catalog"), "api")}))

CppApi(ir) == When(HasApi(ir),
    ApiShapeHeaders(ir)
      \cup Named(OwningEntities(ir), LAMBDA e : EntityApiConstants(e))
      \cup Named(OwningEntities(ir), LAMBDA e : EntityApiShapes(e))
      \cup Named(OwningEntities(ir), LAMBDA e : EntityApiCodec(e))
      \cup Named(Apis(ir), LAMBDA a : ApiDescriptorModule(ir, a))
      \cup {ApiDescriptorCatalog(ir), ApiDescriptorsHeader(ir)}
      \cup ServerHeaders(ir) \cup CodecHeaders(ir) \cup EntityApiHeaders(ir)
      \cup HandlerHeaders(ir) \cup ApiComposition(ir))

----
\* Worker tier.

WorkerDescriptorModules(ir) ==
    LET module(w) == WorkerPath(<<"descriptors", Snake[w.name]>>)
    IN  {WorkerFile(<<"descriptors", "catalog">>,
                    {DescriptorTypes} \cup {module(w) : w \in ir.workers})}
          \cup {File(module(w), "worker", {DescriptorTypes}) : w \in ir.workers}

WorkerRegistryModule(w) ==
    WorkerFile(<<"registry", Snake[w.name]>>,
               {WorkerPath(<<"worker_contexts">>), WorkerPath(<<"worker_descriptors">>)})

WorkerRegistryFacade(ir) ==
    WorkerFile(<<"worker_registry">>,
               {WorkerPath(<<"registry", Snake[w.name]>>) : w \in ir.workers}
                 \cup (IF ir.workflows = {} THEN {}
                       ELSE {WorkerPath(<<"workflow_step_handlers">>)})
                 \cup {WorkerPath(<<"workflows", Snake[w], "registry">>) : w \in ir.workflows})

WorkflowHandlerModule(w) ==
    WorkerFile(<<"workflows", Snake[w], "handlers">>, {WorkerPath(<<"workflow_step_types">>)})
WorkflowRegistryModule(w) ==
    WorkerFile(<<"workflows", Snake[w], "registry">>,
               {WorkerPath(<<"workflows", Snake[w], "handlers">>),
                WorkerPath(<<"workflow_step_handlers">>)})

\* Includes of worker_runtime.hpp: the worker views of the domains it runs.
WorkerDomainIncludes(ir) ==
    {WorkerPath(<<"worker", d>>) : d \in Usage(ir) \cap {"queues", "leases", "workflows"}}

WorkerComposition(ir) == When(HasWorker(ir),
    LET worker(f) == WorkerPath(<<f>>)
    IN  {WorkerFile(<<"worker_application">>,
                    {worker("worker_registry"), worker("worker_runtime"),
                     worker("workflow_step_handlers")}),
         WorkerFile(<<"worker_process">>,
                    {worker("worker_contexts"), worker("worker_runtime"),
                     worker("workflow_step_handlers")}),
         WorkerFile(<<"worker_runtime">>,
                    {worker("worker_registry"), worker("workflow_runner")}
                      \cup WorkerDomainIncludes(ir) \cup BootstrapIncludes(ir)),
         WorkerFile(<<"main">>,
                    {Common(<<"memory", "backend">>), worker("worker_process"),
                     worker("worker_registry"), worker("worker_runtime"),
                     worker("workflow_step_handlers")}
                      \cup MainGcIncludes(ir, worker("entity_gc_catalog")))}
          \cup When(UsesEntityGc(ir), {GcCatalog(ir, worker("entity_gc_catalog"), "worker")}))

WorkerExecution(ir) ==
    LET types == WorkerPath(<<"workflow_step_types">>)
    IN  {File(types, "worker", {Common(<<"workflow">>)}),
         WorkerFile(<<"workflow_runner">>, {types}),
         WorkerFile(<<"workflow_step_handlers">>,
                    {types} \cup {WorkerPath(<<"workflows", Snake[w], "handlers">>)
                                  : w \in ir.workflows})}
          \cup Named(ir.workflows, LAMBDA w : WorkflowHandlerModule(w))
          \cup Named(ir.workflows, LAMBDA w : WorkflowRegistryModule(w))

CppWorker(ir) == When(HasWorkerExecution(ir),
    Named({"worker_descriptors", "worker_contexts"}, LAMBDA f :
          WorkerFile(<<f>>, {DescriptorTypes, WorkerPath(<<"descriptors", "catalog">>)}))
      \cup WorkerDescriptorModules(ir) \cup {WorkerRegistryFacade(ir)}
      \cup Named(ir.workers, LAMBDA w : WorkerRegistryModule(w))
      \cup WorkerComposition(ir) \cup WorkerExecution(ir)
      \cup {File(p, "worker", {Descriptors}) : p \in WorkerDomainIncludes(ir)})
====
