---- MODULE Generator ----
\* generate_bindings after the lowering: the contract of the CRUD APIs, the
\* three tiers in order, and the filter by the selected tier. The result is a
\* set of files; what is checked of it is that it can be compiled.
EXTENDS Lowering

VARIABLES
    ir,           \* the system being generated
    options,      \* BindingGeneratorOptions: [language, tier]
    phase,        \* what is done next
    files         \* GenerationResult.files

generatorVars == <<ir, options, phase, files>>

Cpp == INSTANCE CppArtifacts
Java == INSTANCE JavaArtifacts
Go == INSTANCE GoArtifacts
Rust == INSTANCE RustArtifacts

Languages == {"cpp", "java", "go", "rust"}
Tiers == {"all", "common", "api", "worker"}

CommonFiles == CASE options.language = "cpp"  -> Cpp!CppCommon(ir, options.tier)
                 [] options.language = "java" -> Java!JavaCommon(ir)
                 [] options.language = "go"   -> Go!GoCommon(ir)
                 [] options.language = "rust" -> Rust!RustCommon(ir, options.tier)
ApiFiles == CASE options.language = "cpp"  -> Cpp!CppApi(ir)
              [] options.language = "java" -> Java!JavaApi(ir)
              [] options.language = "go"   -> Go!GoApi(ir)
              [] options.language = "rust" -> Rust!RustApi(ir)
WorkerFiles == CASE options.language = "cpp"  -> Cpp!CppWorker(ir)
                 [] options.language = "java" -> Java!JavaWorker(ir)
                 [] options.language = "go"   -> Go!GoWorker(ir)
                 [] options.language = "rust" -> Rust!RustWorker(ir)

\* validate_crud_api

Method(op) == CASE op = "create" -> "POST" [] op \in {"get", "list"} -> "GET"
                [] op = "update_status" -> "PATCH" [] op = "delete" -> "DELETE"
NeedsInput(op) == op \in {"create", "update_status"}
NeedsOutput(op) == op # "delete"

\* validate_key_route
KeyRoute(entity, api) == api.path # None /\ Elements(entity.key) \subseteq Parameters(api.path)

\* validate_list_selector
ListRoute(entity, api) ==
    /\ api.selector # <<>>
    /\ Elements(api.selector) \subseteq Names(entity.fields) \cap Parameters(api.path)
    /\ \/ IsPrefix(api.selector, entity.key)
       \/ \E index \in Elements(entity.indexes) :
             api.selector = <<index.name>> \/ IsPrefix(api.selector, index.fields)

CrudContract(system, api) ==
    \/ api.entity = None /\ api.operation = None
    \/ /\ IsEntity(system, api.entity)
       /\ api.method = Method(api.operation)
       /\ NeedsInput(api.operation) => api.input \in ir.shapes
       /\ NeedsOutput(api.operation) => api.output \in ir.shapes
       /\ IF api.operation = "list" THEN ListRoute(EntityNamed(system, api.entity), api)
          ELSE KeyRoute(EntityNamed(system, api.entity), api)

\* Faulty variant of Selected: the tier alone, without what it is built upon.
SelectedAlone(file) == options.tier = "all" \/ file.tier = options.tier
Selected(file) ==
    \/ options.tier = "all"
    \/ file.tier = "common"
    \/ file.tier = options.tier

\* validate_crud_handler_inputs
CheckContract(system) ==
    /\ phase = "contract"
    /\ phase' = IF \A a \in Apis(ir) : CrudContract(system, a) THEN "common" ELSE "rejected"
    /\ UNCHANGED <<ir, options, files>>

Emit(from, to, emitted) ==
    /\ phase = from
    /\ phase' = to
    /\ files' = files \cup emitted
    /\ UNCHANGED <<ir, options>>

EmitCommon == Emit("common", "api", CommonFiles)
EmitApi == Emit("api", "worker", ApiFiles)
EmitWorker == Emit("worker", "filter", WorkerFiles)

Filter ==
    /\ phase = "filter"
    /\ phase' = "done"
    /\ files' = {f \in files : Selected(f)}
    /\ UNCHANGED <<ir, options>>

----

\* Every file a generated file includes or compiles is in the selected output.
Provided ==
    Paths(files) \cup (IF options.language = "go" THEN Go!Packages(files) ELSE {})
NeedsResolve ==
    phase = "done" => \A f \in files : f.needs \subseteq Provided

\* No two declarations are generated into one file.
PathsDistinct ==
    \A f, g \in files : f.path = g.path => f = g

\* Go rejects a file with an import it does not use, and a circle of imports.
GoImportsUsed ==
    phase = "done" /\ options.language = "go" => Go!UnusedImports(ir) \cap Paths(files) = {}
GoImportsAcyclic ==
    phase = "done" /\ options.language = "go" => Go!Acyclic(files)

\* Every generated Rust source is declared as a module by another.
RustSourcesDeclared ==
    phase = "done" /\ options.language = "rust" => Rust!Orphans(files) = {}

\* What generate_bindings returns compiles, whatever is declared, in every
\* language and for every tier.
OutputCompiles ==
    /\ NeedsResolve
    /\ PathsDistinct
    /\ GoImportsUsed
    /\ GoImportsAcyclic
    /\ RustSourcesDeclared
====
