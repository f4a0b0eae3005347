---- MODULE WorkflowRules ----
\* validate_workflows.
EXTENDS Declarations

\* loads          sequence of [name (the binding), entity, keyField]
\* childSets      sequence of [name, entity, parentField]
\* childWorkflows sequence of [name, entity, workflow, idField, idType,
\*                             parentRef, assigned (the fields create sets)]
\* steps          sequence of [name, statements]
\* A statement is [kind, target, within], in the order of the text: within is
\* the position of the atomic, for_each or when statement whose block it is in,
\* or 0. Statements that name nothing are left out.

StepNames(workflow) == Names(workflow.steps)
StepStatements(workflow) == UNION {Elements(step.statements) : step \in Elements(workflow.steps)}

\* derive_child_workflow_names
Buckets(c) == {Name(b, IdBase(c.idField)) : b \in {"pending_", "creating_", "succeeded_", "failed_"}}
GenerateIds(c) == Name("generate_", IdBase(c.idField))
CreateChildren(c) == Name("create_", c.name)
WaitChildren(c) == Name("wait_for_", c.name)
DerivedSteps(c) == {GenerateIds(c), CreateChildren(c), WaitChildren(c)}

LoadOk(system, load) ==
    /\ IsEntity(system, load.entity)
    /\ load.keyField \in Elements(EntityNamed(system, load.entity).key)

ChildSetOk(system, set) ==
    /\ IsEntity(system, set.entity)
    /\ set.parentField # None =>
          set.parentField \in Names(EntityNamed(system, set.entity).fields)

ChildWorkflowOk(system, c) ==
    /\ IsA(system, c.workflow, {"workflow"})
    /\ IsEntity(system, c.entity)
    /\ LET child == EntityNamed(system, c.entity)
       IN  /\ \E f \in Elements(child.fields) : f.name = c.idField /\ f.type = c.idType
           /\ c.parentRef \in Names(child.fields)
           /\ \E r \in Elements(child.relations) : r.name = c.parentRef /\ r.kind = "parent"
           /\ Elements(c.assigned) \subseteq Names(child.fields)
    /\ Cardinality(Elements(c.assigned)) = Len(c.assigned)
    /\ {c.idField, c.parentRef} \subseteq Elements(c.assigned)

\* Derived steps are not declared ones, derived buckets are no others'.
DerivedNamesFree(workflow) ==
    LET cs == workflow.childWorkflows
    IN  \A i \in DOMAIN cs :
           /\ DerivedSteps(cs[i]) \cap StepNames(workflow) = {}
           /\ \A j \in 1..(i - 1) : Buckets(cs[i]) \cap Buckets(cs[j]) = {}

Targets(system, workflow, kind) ==
    CASE kind \in {"create_child", "observe_child"} -> Names(system.entity)
      [] kind = "transition_to" -> StepNames(workflow)
      [] kind \in {"reserve_child_set", "materialize_child_set", "reconcile_child_set"} ->
            Names(workflow.childSets)
      [] OTHER ->
            LET kinds == CASE kind = "emit" -> {"event", "log"}
                           [] kind = "enqueue" -> {"message"}
                           [] kind \in {"acquire_lease", "renew_lease", "release_lease"} -> {"lease"}
                           [] kind = "start_workflow" -> {"workflow"}
            IN  {s.name : s \in {t \in Symbols(system) : t.kind \in kinds}}

Blocks == {"atomic", "for_each", "when"}
\* A block is not empty; what any other statement names is declared.
StatementsOk(system, workflow, statements) ==
    \A i \in DOMAIN statements :
        LET s == statements[i]
        IN  IF s.kind \in Blocks THEN \E j \in DOMAIN statements : statements[j].within = i
            ELSE s.target \in Targets(system, workflow, s.kind)

WorkflowOk(system, workflow) ==
    /\ workflow.steps # <<>> /\ Unique(workflow.steps)
    /\ workflow.start \in StepNames(workflow)
    /\ workflow.on # None => IsA(system, workflow.on, {"api", "event", "message"})
    /\ \A type \in {workflow.input, workflow.state} \ {None} : KnownType(system, type)
    /\ Unique(workflow.loads) /\ \A l \in Elements(workflow.loads) : LoadOk(system, l)
    /\ Unique(workflow.childSets) /\ \A c \in Elements(workflow.childSets) : ChildSetOk(system, c)
    /\ Unique(workflow.childWorkflows)
    /\ \A c \in Elements(workflow.childWorkflows) : ChildWorkflowOk(system, c)
    /\ DerivedNamesFree(workflow)
    /\ \A step \in Elements(workflow.steps) : StatementsOk(system, workflow, step.statements)

WorkflowsOk(system) == \A w \in Elements(system.workflow) : WorkflowOk(system, w)
====
