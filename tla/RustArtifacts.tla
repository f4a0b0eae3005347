---- MODULE RustArtifacts ----
\* The files generated for Rust. One crate: lib.rs declares the modules of the
\* selected tier with #[path], and a module declares those below it. A file is
\* compiled because some file declares it, and a `use crate::m` needs m declared.
EXTENDS Ir

Common(p) == <<"common">> \o p
ApiPath(p) == <<"api">> \o p
WorkerPath(p) == <<"worker">> \o p
CommonFile(p, needs) == File(Common(p), "common", needs)
ApiFile(p, needs) == File(ApiPath(p), "api", needs)
WorkerFile(p, needs) == File(WorkerPath(p), "worker", needs)

Entity(e, f) == Common(<<"entities", Snake[e], f>>)
ApiEntity(e, f) == ApiPath(<<"entities", Snake[e], f>>)
Backend == Common(<<"backend">>)
DescriptorTypes == Common(<<"descriptors", "types">>)
Runtime(m) == Common(<<"runtime", m>>)

----
\* lib.rs

RuntimeModules(ir) ==
    {Common(<<"entity_repository">>), Common(<<"runtime_registration">>)}
      \cup When(CommonShapes(ir) # {}, {Common(<<"shapes">>)})
      \cup When(Usage(ir) # {}, {Runtime("codec")})
      \cup {Runtime(d) : d \in Usage(ir)}
      \cup When(UsesEntityGc(ir), {Runtime("entity_gc_" \o m) :
                                     m \in {"types", "repository", "workers", "registration"}})
      \cup {Entity(e, "mod") : e \in ir.entities}
ApiModules(ir) ==
    {ApiPath(<<m>>) : m \in {"shapes", "api_descriptors", "api_codecs", "api_handler_registry",
                             "api_handlers", "external_system_operator_metadata_api"}}
      \cup When(HasServer(ir),
                {ApiPath(<<m>>) : m \in {"api_application", "api_process", "api_dispatcher",
                                         "api_routes", "api_server", "api_transport", "main"}}
                  \cup When(UsesEntityGc(ir), {ApiPath(<<"entity_gc_catalog">>)}))
WorkerModules(ir) ==
    {WorkerPath(<<m>>) : m \in {"worker_contexts", "worker_descriptors", "worker_registry",
                                "workflow_step_handlers", "workflow_runner"}}
      \cup {WorkerPath(<<"worker", d>>) : d \in Usage(ir) \cap {"queues", "leases", "workflows"}}
      \cup When(HasWorker(ir),
                {WorkerPath(<<m>>) : m \in {"worker_application", "worker_process",
                                            "worker_runtime", "main"}}
                  \cup When(UsesEntityGc(ir), {WorkerPath(<<"entity_gc_catalog">>)}))
      \cup {WorkerPath(<<"workflows", Snake[w], f>>) : w \in ir.workflows, f \in {"handlers", "registry"}}

Contracts == {"backend", "external_system", "feature_flag", "json", "lease", "log", "metric", "queue",
              "schema_compatibility", "shape_types", "workflow"}
Lib(ir, tier) ==
    File(<<"lib">>, "common",
         {Common(<<c>>) : c \in Contracts}
           \cup {Common(<<"memory", "backend">>), Common(<<"memory", "transaction">>),
                 Common(<<"descriptors">>), DescriptorTypes}
           \cup RuntimeModules(ir)
           \cup When(tier \in {"all", "api"} /\ HasApi(ir), ApiModules(ir))
           \cup When(tier \in {"all", "worker"} /\ HasWorkerExecution(ir), WorkerModules(ir)))

----
\* Common tier.

RegistrationModules(ir) ==
    Usage(ir) \cup (IF {"logs", "metrics"} \subseteq Usage(ir) THEN {"observability"} ELSE {})

CodecModules(ir) ==
    {"core"} \cup Usage(ir) \cup (IF UsesObservability(ir) THEN {"observability"} ELSE {})
RuntimeFiles(ir) ==
    When(Usage(ir) # {},
         {CommonFile(<<"runtime", "codec">>, {Common(<<"runtime", "codec", d>>) : d \in CodecModules(ir)}),
          CommonFile(<<"runtime", "codec", "core">>, {Backend})})
      \cup Named(Usage(ir), LAMBDA d :
               CommonFile(<<"runtime", "codec", d>>,
                          {Common(<<"runtime", "codec", "core">>)}
                            \cup (IF d \in {"logs", "metrics"}
                                  THEN {Common(<<"runtime", "codec", "observability">>)} ELSE {})))
      \cup Named(Usage(ir), LAMBDA d : CommonFile(<<"runtime", d>>, {Backend, Runtime("codec")}))
      \cup When(UsesObservability(ir), {CommonFile(<<"runtime", "codec", "observability">>, {Backend})})
      \cup When(UsesEntityGc(ir),
                {CommonFile(<<"runtime", "entity_gc_types">>, {Backend}),
                 CommonFile(<<"runtime", "entity_gc_repository">>, {Runtime("entity_gc_types")}),
                 CommonFile(<<"runtime", "entity_gc_workers">>,
                            {Runtime("entity_gc_types"), Runtime("entity_gc_repository")}),
                 CommonFile(<<"runtime", "entity_gc_registration">>,
                            {Runtime("entity_gc_types"), Runtime("entity_gc_repository"),
                             Runtime("entity_gc_workers")})})

\* common/descriptors.rs and the modules it declares
Areas(ir) == {"core", "events", "external_systems", "policies", "observability", "runtime"}
               \cup (IF CommonShapes(ir) = {} THEN {} ELSE {"shapes"})
DescriptorDeclarations(ir) ==
    {Common(<<"descriptors", m>>) : m \in Areas(ir)}
      \cup {Common(<<"descriptors", "runtime", d>>) : d \in RegistrationModules(ir)}
      \cup {Common(<<"workflows", Snake[w]>>) : w \in ir.workflows}
Descriptors(ir) == CommonFile(<<"descriptors">>, DescriptorDeclarations(ir) \cup {DescriptorTypes})

ShapeDescriptorModule(ir) ==
    When(CommonShapes(ir) # {},
         {CommonFile(<<"descriptors", "shapes">>,
                     {Common(<<"descriptors", "shapes", Snake[s]>>) : s \in CommonShapes(ir)})})
      \cup Named(CommonShapes(ir), LAMBDA s : CommonFile(<<"descriptors", "shapes", Snake[s]>>, {}))
ShapeTypes(ir) ==
    When(CommonShapes(ir) # {},
         {CommonFile(<<"shapes">>, {Common(<<"shapes", Snake[s]>>) : s \in CommonShapes(ir)})})
      \cup Named(CommonShapes(ir), LAMBDA s : CommonFile(<<"shapes", Snake[s]>>, {}))
WorkflowDescriptors(ir) ==
    Named(ir.workflows, LAMBDA w : CommonFile(<<"workflows", Snake[w]>>, {}))

EntityModule(ir, e) ==
    LET parts == {"constants", "model", "persistence", "schema"} \cup (IF e \in ir.gc THEN {"gc"} ELSE {})
    IN  {CommonFile(<<"entities", Snake[e], "mod">>, {Entity(e, p) : p \in parts})}
          \cup {CommonFile(<<"entities", Snake[e], p>>,
                           CASE p = "constants" -> {}
                             [] p = "gc"        -> {Runtime("entity_gc_types")}
                             [] OTHER           -> {Entity(e, "constants"), Backend}) : p \in parts}

DescriptorModules(ir) ==
    {CommonFile(<<"descriptors", m>>, {}) : m \in Areas(ir) \ {"shapes"}}
      \cup {CommonFile(<<"descriptors", "types">>, {})} \cup ShapeDescriptorModule(ir)
      \cup Named(RegistrationModules(ir), LAMBDA d : CommonFile(<<"descriptors", "runtime", d>>, {}))
      \cup UNION {EntityModule(ir, e) : e \in ir.entities}
      \cup {CommonFile(<<"entity_repository">>, {Backend, Common(<<"descriptors">>)}),
            CommonFile(<<"runtime_registration">>, {Backend, Common(<<"descriptors">>)})}

Package == {File(<<f>>, "common", {}) : f \in {"Cargo.toml", "Makefile"}}

RustCommon(ir, tier) ==
    {Lib(ir, tier)} \cup Package \cup {CommonFile(<<c>>, {}) : c \in Contracts}
      \cup {CommonFile(<<"memory", f>>, {Backend}) : f \in {"backend", "transaction"}}
      \cup RuntimeFiles(ir) \cup {Descriptors(ir)} \cup DescriptorModules(ir) \cup ShapeTypes(ir)
      \cup WorkflowDescriptors(ir)

----
\* API tier.

OwningEntities(ir) == {e \in ir.entities : EntityShapes(ir, e) # {}}

ApiConstants(e) == ApiFile(<<"entities", Snake[e], "constants">>, {})
EntityApiShapes(e) == ApiFile(<<"entities", Snake[e], "shapes">>, {Entity(e, "constants")})
\* api/shapes.rs declares the shapes and the catalog of every entity with shapes
ApiShapes(ir) ==
    {ApiFile(<<"shapes">>,
             {ApiPath(<<"shapes", Snake[s]>>) : s \in UnownedShapes(ir)}
               \cup {ApiEntity(e, f) : e \in OwningEntities(ir), f \in {"shapes", "catalog"}})}
      \cup Named(UnownedShapes(ir), LAMBDA s : ApiFile(<<"shapes", Snake[s]>>, {Backend}))
      \cup UNION {{ApiConstants(e), EntityApiShapes(e)} : e \in OwningEntities(ir)}

DescriptorPath(ir, api) ==
    IF api.entity \in ir.entities
    THEN <<"entities", Snake[api.entity], "descriptors", Snake[api.name]>>
    ELSE <<"descriptors", Snake[api.name]>>
ApiDescriptorModule(ir, api) ==
    ApiFile(DescriptorPath(ir, api),
            {DescriptorTypes}
              \cup (IF api.entity \in ir.entities /\ api.fieldPath
                    THEN {Entity(api.entity, "constants")} ELSE {}))
ApiDescriptorCatalog(ir) ==
    ApiFile(<<"descriptors", "catalog">>,
            {ApiPath(<<"shapes">>), DescriptorTypes}
              \cup {ApiEntity(e, "catalog") : e \in CrudDomains(ir)}
              \cup {ApiPath(<<"descriptors", Snake[a.name]>>) : a \in Apis(ir) \ CrudApis(ir)})
ApiDescriptors(ir) ==
    ApiFile(<<"api_descriptors">>,
            {ApiPath(<<"descriptors", "catalog">>)}
              \cup {ApiPath(<<"servers", Snake[s.name], "catalog">>) : s \in ir.servers})

ServedDomains(ir, server) == {e \in CrudDomains(ir) : Served(server, DomainApis(ir, e)) # {}}
ServerCatalog(ir, server) ==
    ApiFile(<<"servers", Snake[server.name], "catalog">>,
            {ApiPath(<<"servers", Snake[server.name], "constants">>)}
              \cup {ApiPath(<<"servers", Snake[server.name], "entities", Snake[e]>>) :
                      e \in ServedDomains(ir, server)})
ServerEntityCatalog(server, e) ==
    ApiFile(<<"servers", Snake[server.name], "entities", Snake[e]>>, {ApiEntity(e, "catalog")})
ServerFiles(ir) ==
    UNION {{ApiFile(<<"servers", Snake[s.name], "constants">>, {}), ServerCatalog(ir, s)}
             \cup Named(ServedDomains(ir, s), LAMBDA e : ServerEntityCatalog(s, e)) : s \in ir.servers}

CodecModule(ir, s) ==
    IF ShapeOwner(ir, s) = None THEN ApiPath(<<"codecs", Snake[s]>>)
    ELSE ApiEntity(ShapeOwner(ir, s), "codecs")
ShapeCodec(s) == ApiFile(<<"codecs", Snake[s]>>, {ApiPath(<<"shapes">>)})
EntityCodec(e) ==
    ApiFile(<<"entities", Snake[e], "codecs">>,
            {ApiEntity(e, "shapes"), ApiPath(<<"api_codecs">>), Entity(e, "constants")})
ApiCodecs(ir) ==
    {ApiFile(<<"api_codecs">>, {Common(<<"descriptors">>)} \cup {CodecModule(ir, s) : s \in ContractShapes(ir)})}
      \cup Named(UnownedShapes(ir), LAMBDA s : ShapeCodec(s))
      \cup Named(OwningEntities(ir), LAMBDA e : EntityCodec(e))

\* It is the parent of the entity's constants, codecs, handlers and registry.
EntityApiCatalog(ir, e) ==
    ApiFile(<<"entities", Snake[e], "catalog">>,
            {ApiEntity(e, f) : f \in {"shapes", "constants", "codecs", "handlers", "registry"}}
              \cup {ApiPath(<<m>>) : m \in {"api_codecs", "api_handler_registry", "api_handlers"}}
              \cup {Common(<<"entity_repository">>)}
              \cup {ApiPath(DescriptorPath(ir, a)) : a \in DomainApis(ir, e)})
HandlerRegistry(e) ==
    ApiFile(<<"entities", Snake[e], "registry">>,
            {ApiEntity(e, "handlers"), ApiPath(<<"api_dispatcher">>)})
Handlers(ir) ==
    Named(CrudDomains(ir) \cap ir.entities, LAMBDA e : EntityApiCatalog(ir, e))
      \cup Named(CrudDomains(ir), LAMBDA e : ApiFile(<<"entities", Snake[e], "handlers">>, {Backend}))
      \cup Named(CrudDomains(ir), LAMBDA e : HandlerRegistry(e))
      \cup {ApiFile(<<"api_handlers">>, {DescriptorTypes}),
            ApiFile(<<"external_system_operator_metadata_api">>, {Common(<<"descriptors">>)}),
            ApiFile(<<"api_handler_registry">>,
                    {ApiPath(<<"api_dispatcher">>), ApiPath(<<"api_handlers">>)}
                      \cup {ApiEntity(e, "catalog") : e \in CrudDomains(ir)})}

\* The stores an application owns, and the registration of its collectors.
Bootstrap(ir) == {Runtime(d) : d \in Usage(ir)}
GcCatalog(ir) == {Entity(e, "gc") : e \in ir.gc} \cup {Runtime("entity_gc_types")}
MainGc(ir, catalog) == When(UsesEntityGc(ir), {catalog, Runtime("entity_gc_registration")})

ApiComposition(ir) == When(HasServer(ir),
    {ApiFile(<<"api_application">>, {ApiPath(<<"api_handler_registry">>), ApiPath(<<"api_server">>)} \cup Bootstrap(ir)),
     ApiFile(<<"api_process">>, {ApiPath(<<"api_application">>), ApiPath(<<"api_transport">>),
                                 ApiPath(<<"api_descriptors">>)}),
     ApiFile(<<"api_dispatcher">>, {ApiPath(<<"api_handler_registry">>), ApiPath(<<"api_routes">>)}),
     ApiFile(<<"api_server">>, {ApiPath(<<"api_dispatcher">>), ApiPath(<<"api_descriptors">>)}),
     ApiFile(<<"api_transport">>, {ApiPath(<<"api_server">>)}),
     ApiFile(<<"api_routes">>, {ApiPath(<<"api_descriptors">>)}),
     ApiFile(<<"main">>, {ApiPath(<<"api_process">>), ApiPath(<<"api_transport">>)}
                           \cup MainGc(ir, ApiPath(<<"entity_gc_catalog">>)))}
      \cup When(UsesEntityGc(ir), {ApiFile(<<"entity_gc_catalog">>, GcCatalog(ir))}))

RustApi(ir) == When(HasApi(ir),
    ApiShapes(ir) \cup Named(Apis(ir), LAMBDA a : ApiDescriptorModule(ir, a))
      \cup {ApiDescriptorCatalog(ir), ApiDescriptors(ir)} \cup ServerFiles(ir) \cup ApiCodecs(ir)
      \cup Handlers(ir) \cup ApiComposition(ir))

----
\* Worker tier.

WorkerDescriptors(ir) ==
    LET module(w) == <<"descriptors", Snake[w.name]>>
    IN  {WorkerFile(<<"descriptors", "catalog">>, {WorkerPath(module(w)) : w \in ir.workers})}
          \cup {WorkerFile(module(w), {}) : w \in ir.workers}
          \cup {WorkerFile(<<f>>, {WorkerPath(<<"descriptors", "catalog">>)}) :
                  f \in {"worker_descriptors", "worker_contexts"}}
RegistryModule(w) ==
    WorkerFile(<<"registry", Snake[w.name]>>,
               {WorkerPath(<<"worker_contexts">>), WorkerPath(<<"worker_descriptors">>)})
RegistryFacade(ir) ==
    WorkerFile(<<"worker_registry">>,
               {WorkerPath(<<"registry", Snake[w.name]>>) : w \in ir.workers}
                 \cup (IF ir.workflows = {} THEN {} ELSE {WorkerPath(<<"workflow_step_handlers">>)}))

WorkflowHandlers(w) ==
    WorkerFile(<<"workflows", Snake[w], "handlers">>, {WorkerPath(<<"workflow_step_handlers">>)})
WorkflowRegistry(w) ==
    WorkerFile(<<"workflows", Snake[w], "registry">>,
               {WorkerPath(<<"workflow_step_handlers">>), WorkerPath(<<"workflows", Snake[w], "handlers">>)})
WorkerMain(ir) ==
    WorkerFile(<<"main">>,
               {WorkerPath(<<"worker_process">>), WorkerPath(<<"worker_runtime">>)}
                 \cup {WorkerPath(<<"workflows", Snake[w], f>>) : w \in ir.workflows, f \in {"handlers", "registry"}}
                 \cup MainGc(ir, WorkerPath(<<"entity_gc_catalog">>)))
WorkerComposition(ir) == When(HasWorker(ir),
    {WorkerFile(<<"worker_application">>, {WorkerPath(<<"worker_contexts">>), WorkerPath(<<"worker_runtime">>)}),
     WorkerFile(<<"worker_process">>, {WorkerPath(<<"worker_contexts">>), WorkerPath(<<"worker_runtime">>)}),
     WorkerFile(<<"worker_runtime">>,
                Bootstrap(ir) \cup {WorkerPath(<<"workflow_step_handlers">>), WorkerPath(<<"worker_contexts">>)}
                  \cup (IF "workflows" \in Usage(ir) THEN {WorkerPath(<<"workflow_runner">>)} ELSE {})),
     WorkerMain(ir)}
      \cup When(UsesEntityGc(ir), {WorkerFile(<<"entity_gc_catalog">>, GcCatalog(ir))}))

RustWorker(ir) == When(HasWorkerExecution(ir),
    WorkerDescriptors(ir) \cup {RegistryFacade(ir)} \cup Named(ir.workers, LAMBDA w : RegistryModule(w))
      \cup WorkerComposition(ir)
      \cup Named(ir.workflows, LAMBDA w : WorkflowHandlers(w))
      \cup Named(ir.workflows, LAMBDA w : WorkflowRegistry(w))
      \cup {WorkerFile(<<"workflow_step_handlers">>, {Backend}),
            WorkerFile(<<"workflow_runner">>, {Backend, WorkerPath(<<"workflow_step_handlers">>)})}
      \cup {WorkerFile(<<"worker", d>>, {Common(<<"descriptors">>)}) :
              d \in Usage(ir) \cap {"queues", "leases", "workflows"}})

----
\* Generated sources that no file declares as a module: never compiled.
Orphans(files) ==
    Paths(files) \ ((UNION {f.needs : f \in files}) \cup Paths(Package) \cup {<<"lib">>})
====
