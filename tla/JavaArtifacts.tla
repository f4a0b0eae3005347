---- MODULE JavaArtifacts ----
\* The classes generated for Java and the classes each names. The path of a
\* file is its package and class below the source root of its tier; a reference
\* is an import, a qualified name, or a name of the same package. Every class of
\* common, and of one other tier, is compiled together, so that paths leave the
\* tier out.
EXTENDS Ir

Backend(class) == <<"backend", class>>
Runtime(class) == <<"backend", "runtime", class>>
Generated(p) == <<"generated">> \o p
Class(class) == Generated(<<class>>)
EntityClass(e, class) == Generated(<<"entities", Snake[e], class>>)
Descriptor(area) == Generated(<<"descriptors", area>>)

CommonClass(p, needs) == File(p, "common", needs)
ApiClass(p, needs) == File(p, "api", needs)
WorkerClass(p, needs) == File(p, "worker", needs)

TypeClasses == Generated(<<"descriptors", "types">>)   \* the records of descriptors/types/
EntityRuntime == Generated(<<"entities", "EntityRepository">>)  \* and the eight files beside it
ExternalMetadata == Generated(<<"external", "metadata">>)  \* the files of external/metadata/

----
\* Common tier.

Contracts == {"FeatureFlag", "Lease", "Log", "Metric", "Queue", "Workflow"}
ContractOf == [feature_flags |-> "FeatureFlag", queues |-> "Queue", leases |-> "Lease",
               workflows |-> "Workflow", logs |-> "Log", metrics |-> "Metric"]
StoreOf == [feature_flags |-> "FeatureFlagStore", queues |-> "QueueStore",
            leases |-> "LeaseStore", workflows |-> "WorkflowStore",
            logs |-> "LogSink", metrics |-> "MetricSink"]
CodecClass(d) == <<"backend", "runtime", ContractOf[d], "Codec">>
ContractClasses == {Backend(c) : c \in Contracts}

BackendClasses ==
    {CommonClass(Backend("Json"), {}), CommonClass(Backend("Backend"), {Backend("Json")}),
     CommonClass(<<"backend", "memory", "InMemoryBackend">>,
                 {Backend("Backend"), Backend("SchemaCompatibility"),
                  <<"backend", "memory", "InMemoryTransaction">>}),
     CommonClass(<<"backend", "memory", "InMemoryTransaction">>, {Backend("Backend")})}
      \cup Named(Contracts \cup {"ExternalSystem", "SchemaCompatibility"},
                 LAMBDA c : CommonClass(Backend(c), {Backend("Backend")}))

DomainClasses(ir) ==
    When(Usage(ir) # {}, {CommonClass(Runtime("Codec"), {Backend("Json")})})
      \cup When(UsesObservability(ir),
                {CommonClass(Runtime("ObservabilityCodec"),
                             {Backend("Backend"), Runtime("Codec")})})
      \cup Named(Usage(ir), LAMBDA d :
               CommonClass(CodecClass(d),
                   {Runtime("Codec"), Backend(ContractOf[d])}
                     \cup (IF d \in {"logs", "metrics"} THEN {Runtime("ObservabilityCodec")}
                           ELSE {})))
      \cup Named(Usage(ir), LAMBDA d :
               CommonClass(Runtime(StoreOf[d]), {Backend(ContractOf[d]), CodecClass(d)}))

GcClass(part) == <<"backend", "runtime", "EntityGc", part>>
GcClasses(ir) == When(UsesEntityGc(ir),
    {CommonClass(GcClass("Types"), {}),
     CommonClass(GcClass("Repository"), {Backend("Backend"), GcClass("Types")}),
     CommonClass(GcClass("Workers"), {GcClass("Types"), GcClass("Repository")}),
     CommonClass(GcClass("Registration"),
                 {GcClass("Types"), GcClass("Repository"), GcClass("Workers")})})

\* DescriptorModule.java.tmpl imports every contract.
DescriptorModule(area, needs) ==
    CommonClass(Generated(<<"descriptors", area, "DescriptorModule">>),
                ContractClasses \cup {TypeClasses} \cup needs)

ShapeModules(ir) ==
    LET module(s) == Generated(<<"descriptors", "shapes", Pascal[s], "DescriptorModule">>)
    IN  When(CommonShapes(ir) # {},
             {DescriptorModule("Shape", {module(s) : s \in CommonShapes(ir)})})
          \cup Named(CommonShapes(ir), LAMBDA s : CommonClass(module(s), {TypeClasses}))

RegistrationModule(d) == Generated(<<"descriptors", "Runtime", d, "RegistrationModule">>)
RegistrationDomains(ir) ==
    Usage(ir) \cup (IF {"logs", "metrics"} \subseteq Usage(ir) THEN {"observability"} ELSE {})
RegistrationModules(ir) ==
    Named(RegistrationDomains(ir), LAMBDA d :
        CommonClass(RegistrationModule(d),
            ContractClasses \cup {TypeClasses, Class("Descriptors")}
              \cup (IF d = "observability"
                    THEN {RegistrationModule("logs"), RegistrationModule("metrics")} ELSE {})))

RuntimeRegistration(ir) ==
    CommonClass(Generated(<<"runtime", "RuntimeRegistration">>),
        ContractClasses \cup {TypeClasses, Class("Descriptors")}
          \cup {RegistrationModule(d) : d \in RegistrationDomains(ir)}
          \cup {EntityClass(e, "Schema") : e \in ir.entities})

EntityConstants(e) == CommonClass(EntityClass(e, "Constants"), {})
EntityFacades(e) ==
    {CommonClass(EntityClass(e, "Model"), {EntityClass(e, "Constants"), Backend("Backend")}),
     CommonClass(EntityClass(e, "Schema"),
                 {EntityClass(e, "Model"), TypeClasses, EntityRuntime}),
     CommonClass(EntityClass(e, "Persistence"), {EntityClass(e, "Schema"), EntityRuntime})}
EntityGc(e) == CommonClass(EntityClass(e, "Gc"), {EntityClass(e, "Constants"), GcClass("Types")})
EntityClasses(ir) ==
    UNION {{EntityConstants(e)} \cup EntityFacades(e) \cup When(e \in ir.gc, {EntityGc(e)})
           : e \in ir.entities}

DescriptorModules(ir) ==
    {CommonClass(TypeClasses, {Backend("Json")}),
     CommonClass(EntityRuntime, {Backend("Backend"), TypeClasses}),
     CommonClass(Class("ApiRequestContext"), {Backend("Json")}),
     CommonClass(Class("ApiResponse"), {Backend("Json")}),
     CommonClass(ExternalMetadata, {Backend("ExternalSystem"), Class("ApiResponse"),
         Generated(<<"descriptors", "ExternalSystem", "DescriptorModule">>)})}
      \cup {DescriptorModule(area, {}) : area \in
               {"Core", "Event", "ExternalSystem", "Policy", "Runtime", "Observability"}}
      \cup ShapeModules(ir) \cup {RuntimeRegistration(ir)} \cup RegistrationModules(ir)
      \cup EntityClasses(ir)

WorkflowModule(w) == Generated(<<"workflows", Pascal[w], "DescriptorModule">>)
ShapeTypes(ir) ==
    Named(CommonShapes(ir), LAMBDA s :
        CommonClass(Generated(<<"shapes", Pascal[s]>>), {Backend("Backend"), TypeClasses}))
WorkflowDescriptors(ir) ==
    Named(ir.workflows, LAMBDA w : CommonClass(WorkflowModule(w), {Backend("Workflow")}))

\* Descriptors.java
Descriptors(ir) ==
    CommonClass(Class("Descriptors"),
        ContractClasses \cup {TypeClasses}
          \cup {Generated(<<"descriptors", area, "DescriptorModule">>) : area \in
                  {"Core", "Event", "ExternalSystem", "Observability", "Policy", "Runtime"}
                    \cup (IF CommonShapes(ir) = {} THEN {} ELSE {"Shape"})}
          \cup {WorkflowModule(w) : w \in ir.workflows})

\* The Makefile compiles whatever it finds below the directories.
JavaCommon(ir) ==
    BackendClasses \cup DomainClasses(ir) \cup GcClasses(ir) \cup DescriptorModules(ir)
      \cup ShapeTypes(ir) \cup WorkflowDescriptors(ir)
      \cup {Descriptors(ir), File(<<"Makefile">>, "common", {})}

----
\* API tier.

OwningEntities(ir) == {e \in ir.entities : EntityShapes(ir, e) # {}}
Shape(s) == Generated(<<"shapes", Pascal[s]>>)

ShapeCatalog(ir) ==
    ApiClass(Generated(<<"shapes", "ShapeCatalog">>),
        {TypeClasses} \cup {Shape(s) : s \in UnownedShapes(ir)}
          \cup {EntityClass(ShapeOwner(ir, s), "Catalog") :
                  s \in ContractShapes(ir) \ UnownedShapes(ir)})
ApiShapes(ir) ==
    {ShapeCatalog(ir)}
      \cup Named(UnownedShapes(ir), LAMBDA s : ApiClass(Shape(s), {Backend("Backend"), TypeClasses}))
      \cup Named(OwningEntities(ir), LAMBDA e :
               ApiClass(EntityClass(e, "Shapes"), {EntityClass(e, "Constants"), TypeClasses}))

\* java_api_shape_import
ShapeImports(ir) == {EntityClass(e, "Shapes") : e \in OwningEntities(ir)}

IsLocal(ir, api) == api.entity \in ir.entities
ApiDescriptorPath(ir, api) ==
    (IF IsLocal(ir, api) THEN Generated(<<"entities", Snake[api.entity], "descriptors">>)
     ELSE Generated(<<"descriptors">>)) \o <<Pascal[api.name], "DescriptorModule">>

ApiDescriptorModule(ir, api) ==
    ApiClass(ApiDescriptorPath(ir, api),
        {TypeClasses}
          \cup (IF IsLocal(ir, api) /\ api.fieldPath THEN {EntityClass(api.entity, "Constants")}
                ELSE {})
          \cup {IF ShapeOwner(ir, s) = None THEN Shape(s)
                ELSE EntityClass(ShapeOwner(ir, s), "Shapes") : s \in Mentions(api) \cap ir.shapes})

ApiDescriptorCatalog(ir) ==
    ApiClass(Descriptor("Catalog"),
        {TypeClasses, Generated(<<"shapes", "ShapeCatalog">>)}
          \cup {EntityClass(e, "Catalog") : e \in CrudDomains(ir)}
          \cup {Generated(<<"descriptors", Pascal[a.name], "DescriptorModule">>) :
                  a \in Apis(ir) \ CrudApis(ir)})

ServerClass(server, p) == Generated(<<"servers", Snake[server.name]>> \o p)
ServedDomains(ir, server) == {e \in CrudDomains(ir) : Served(server, DomainApis(ir, e)) # {}}
ServerConstants(server) == ApiClass(ServerClass(server, <<"Constants">>), {})
ServerEntityCatalog(server, e) ==
    ApiClass(ServerClass(server, <<"entities", Snake[e], "Catalog">>),
             {EntityClass(e, "ApiConstants")})
ServerCatalog(ir, server) ==
    ApiClass(ServerClass(server, <<"Catalog">>),
        {TypeClasses, ServerClass(server, <<"Constants">>)}
          \cup {ServerClass(server, <<"entities", Snake[e], "Catalog">>) :
                  e \in ServedDomains(ir, server)})
ServerClasses(ir) ==
    UNION {{ServerConstants(s), ServerCatalog(ir, s)}
             \cup Named(ServedDomains(ir, s), LAMBDA e : ServerEntityCatalog(s, e))
           : s \in ir.servers}

ApiDescriptors(ir) ==
    ApiClass(Class("ApiDescriptors"),
        {TypeClasses, Descriptor("Catalog")} \cup {ServerClass(s, <<"Catalog">>) : s \in ir.servers})

Envelope == {Class("ApiRequestContext"), Class("ApiResponse")}
ShapeCodec(s) == Generated(<<"codecs", "ApiCodecs", Pascal[s]>>)
ApiCodecs(ir) ==
    ApiClass(Class("ApiCodecs"),
        Envelope \cup ShapeImports(ir) \cup {ShapeCodec(s) : s \in UnownedShapes(ir)}
          \cup {EntityClass(e, "Codecs") : e \in {ShapeOwner(ir, s) :
                  s \in ContractShapes(ir) \ UnownedShapes(ir)}})
CodecClasses(ir) ==
    {ApiCodecs(ir)}
      \cup Named(UnownedShapes(ir), LAMBDA s :
               ApiClass(ShapeCodec(s), Envelope \cup {Class("ApiCodecs"), Shape(s)}))
EntityApiConstants(e) == ApiClass(EntityClass(e, "ApiConstants"), {EntityClass(e, "Constants")})
EntityApiCodec(e) ==
    ApiClass(EntityClass(e, "Codecs"),
             Envelope \cup {Class("ApiCodecs"), EntityClass(e, "Shapes"), EntityClass(e, "Constants")})

EntityApiCatalog(ir, e) ==
    ApiClass(EntityClass(e, "Catalog"),
        Envelope \cup {TypeClasses}
          \cup {EntityClass(e, class) : class \in {"Shapes", "ApiConstants", "Registry"}}
          \cup {ApiDescriptorPath(ir, a) : a \in DomainApis(ir, e)})
\* The shapes a handler imports are those of the system reduced to its APIs.
HandlerDomain(ir, e) ==
    ApiClass(EntityClass(e, "Handlers"),
        Envelope \cup {Class("ApiHandlerRegistry"), Class("ApiCodecs")}
          \cup ShapeImports([ir EXCEPT !.apis = SelectSeq(@, LAMBDA a : a \in DomainApis(ir, e))])
          \cup {EntityClass(e, "Persistence")})
HandlerRegistry(e) ==
    ApiClass(EntityClass(e, "Registry"),
             Envelope \cup {Class("ApiDispatcher"), EntityClass(e, "Handlers")})
EntityApiClasses(ir) ==
    Named(CrudDomains(ir) \cap ir.entities, LAMBDA e : EntityApiCatalog(ir, e))
      \cup Named(CrudDomains(ir), LAMBDA e : HandlerDomain(ir, e))
      \cup Named(CrudDomains(ir), LAMBDA e : HandlerRegistry(e))

HandlerClasses(ir) ==
    {ApiClass(Class("ApiHandlers"), Envelope),
     ApiClass(Class("ApiHandlerRegistry"),
              {Class("ApiHandlers"), Class("ApiDispatcher")}
                \cup {EntityClass(e, "Registry") : e \in CrudDomains(ir)}),
     ApiClass(Class("ExternalSystemOperatorMetadataApi"), {ExternalMetadata})}

GcCatalog(ir, class, tier) ==
    File(Class(class), tier, {GcClass("Types")} \cup {EntityClass(e, "Gc") : e \in ir.gc})
MainGc(ir, class) ==
    IF UsesEntityGc(ir) THEN {GcClass("Registration"), Class(class)} ELSE {}
\* runtime_store_imports of java_runtime_bootstrap_values
BootstrapImports(ir) ==
    {Generated(<<"runtime", "RuntimeRegistration">>)} \cup {Runtime(StoreOf[d]) : d \in Usage(ir)}

ApiComposition(ir) == When(HasServer(ir),
    LET classes(names) == {Class(c) : c \in names}
    IN  {ApiClass(Class("ApiApplication"),
                  classes({"ApiHandlerRegistry", "ApiServer"}) \cup BootstrapImports(ir)),
         ApiClass(Class("ApiProcess"),
                  classes({"ApiApplication", "ApiDescriptors", "ApiHandlerRegistry", "ApiTransport"})),
         ApiClass(Class("ApiDispatcher"),
                  Envelope \cup classes({"ApiHandlerRegistry", "ApiHandlers", "ApiRoutes"})),
         ApiClass(Class("ApiServer"),
                  Envelope \cup classes({"ApiDescriptors", "ApiDispatcher", "ApiHandlerRegistry"})),
         ApiClass(Class("ApiTransport"), Envelope \cup classes({"ApiServer"})),
         ApiClass(Class("ApiRoutes"), {TypeClasses} \cup classes({"ApiDescriptors"})),
         ApiClass(Class("ApiMain"),
                  classes({"ApiHandlerRegistry", "ApiProcess", "ApiTransport"})
                    \cup MainGc(ir, "EntityGcCatalog"))}
          \cup When(UsesEntityGc(ir), {GcCatalog(ir, "EntityGcCatalog", "api")}))

JavaApi(ir) == When(HasApi(ir),
    ApiShapes(ir) \cup Named(Apis(ir), LAMBDA a : ApiDescriptorModule(ir, a))
      \cup {ApiDescriptorCatalog(ir), ApiDescriptors(ir)} \cup ServerClasses(ir)
      \cup CodecClasses(ir) \cup HandlerClasses(ir) \cup EntityApiClasses(ir)
      \cup Named(OwningEntities(ir), LAMBDA e : EntityApiConstants(e))
      \cup Named(OwningEntities(ir), LAMBDA e : EntityApiCodec(e))
      \cup ApiComposition(ir))

----
\* Worker tier.

WorkerDescriptor(w) ==
    Generated(<<"worker", "descriptors", Pascal[w.name], "DescriptorModule">>)
WorkerDescriptorCatalog(ir) ==
    WorkerClass(Generated(<<"worker", "descriptors", "Catalog">>),
                {TypeClasses} \cup {WorkerDescriptor(w) : w \in ir.workers})
WorkerRegistryModule(w) ==
    WorkerClass(Generated(<<"registry", Pascal[w.name], "Registry">>),
                {TypeClasses, WorkerDescriptor(w)})
WorkflowClass(w, class) == Generated(<<"workflows", Snake[w], class>>)
WorkerRegistryFacade(ir) ==
    WorkerClass(Class("WorkerRegistry"),
        {TypeClasses} \cup {Generated(<<"registry", Pascal[w.name], "Registry">>) : w \in ir.workers}
          \cup (IF ir.workflows = {} THEN {} ELSE {Class("WorkflowStepHandlers")})
          \cup {WorkflowClass(w, c) : w \in ir.workflows, c \in {"Handlers", "Registry"}})

\* worker_runtime_run_once: only with workflows does a Worker name the runner.
WorkerRuntime(ir) ==
    WorkerClass(Class("WorkerRuntime"),
        BootstrapImports(ir) \cup {Class("WorkflowStepHandlers")}
          \cup (IF "workflows" \in Usage(ir) THEN {Class("WorkflowRunner"), Backend("Workflow")}
                ELSE {}))
WorkerMain(ir) ==
    WorkerClass(Class("WorkerMain"),
        {Class(c) : c \in {"WorkerProcess", "WorkerRuntime", "WorkflowStepHandlers"}}
          \cup (IF ir.workflows = {} THEN {} ELSE {Class("WorkerRegistry")})
          \cup {WorkflowClass(w, "Handlers") : w \in ir.workflows}
          \cup MainGc(ir, "WorkerEntityGcCatalog"))
WorkerComposition(ir) == When(HasWorker(ir),
    {WorkerClass(Class("WorkerApplication"),
                 {Class("WorkerRuntime"), Class("WorkflowStepHandlers")}),
     WorkerClass(Class("WorkerProcess"),
                 {Class("WorkerContexts"), Class("WorkerRuntime"), Class("WorkflowStepHandlers")}),
     WorkerRuntime(ir), WorkerMain(ir)}
      \cup When(UsesEntityGc(ir), {GcCatalog(ir, "WorkerEntityGcCatalog", "worker")}))

WorkflowHandlerModule(w) == WorkerClass(WorkflowClass(w, "Handlers"), {Class("WorkflowStepHandlers")})
WorkflowRegistryModule(w) ==
    WorkerClass(WorkflowClass(w, "Registry"),
                {Class("WorkflowStepHandlers"), WorkflowClass(w, "Handlers")})
WorkerExecution(ir) ==
    {WorkerClass(Class("WorkflowStepHandlers"), {Backend("Backend")}),
     WorkerClass(Class("WorkflowRunner"), {Backend("Workflow"), Class("WorkflowStepHandlers")})}
      \cup Named(ir.workflows, LAMBDA w : WorkflowHandlerModule(w))
      \cup Named(ir.workflows, LAMBDA w : WorkflowRegistryModule(w))

\* WorkerQueues, WorkerLeases, WorkerWorkflows
WorkerDomains(ir) ==
    {WorkerClass(Generated(<<"Worker", d>>),
                 {Class("Descriptors"), Generated(<<"runtime", "RuntimeRegistration">>)})
     : d \in Usage(ir) \cap {"queues", "leases", "workflows"}}

JavaWorker(ir) == When(HasWorkerExecution(ir),
    Named({"WorkerDescriptors", "WorkerContexts"}, LAMBDA c :
          WorkerClass(Class(c), {TypeClasses, Generated(<<"worker", "descriptors", "Catalog">>)}))
      \cup {WorkerDescriptorCatalog(ir), WorkerRegistryFacade(ir)}
      \cup {WorkerClass(WorkerDescriptor(w), {TypeClasses}) : w \in ir.workers}
      \cup Named(ir.workers, LAMBDA w : WorkerRegistryModule(w))
      \cup WorkerComposition(ir) \cup WorkerExecution(ir) \cup WorkerDomains(ir))
====
