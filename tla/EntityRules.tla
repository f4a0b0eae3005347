---- MODULE EntityRules ----
\* validate_entities. A rule is a conjunct; which diagnostic a broken rule
\* produces is left out, and so is the order of members, which only warns.
EXTENDS Declarations

\* machine   [states (sequence of [name, terminal, gc]), initial, terminal, transitions]
\* indexes   sequence of [name, fields]
\* relations sequence of [name, kind, target, optional, onDelete, unique, states]
\* children  sequence of [name, target, relation]
\* api       None, or [resource, create, get, lists, update, delete]: operations
\*           are None or [name, ...], create has fields, a list path and by.

Foundational == << [name |-> "created_at", type |-> "timestamp", many |-> FALSE],
                   [name |-> "updated_at", type |-> "timestamp", many |-> FALSE],
                   [name |-> "status", type |-> "string", many |-> FALSE] >>
FoundationalNames == Names(Foundational)

States(entity) == {s.name : s \in Elements(entity.machine.states)}

\* Terminal states are flagged and listed, have a collection policy, no others
\* do, and no transition leaves them.
StateMachineOk(entity) ==
    LET machine == entity.machine
        flagged == {s.name : s \in {t \in Elements(machine.states) : t.terminal}}
        collected == {s.name : s \in {t \in Elements(machine.states) : t.terminal /\ t.gc}}
    IN  /\ machine.states # <<>>
        /\ Unique(machine.states)
        /\ machine.initial \in States(entity)
        /\ machine.terminal = flagged
        /\ \A s \in Elements(machine.states) : (s.name \in flagged) = s.gc
        /\ \A t \in machine.transitions :
              t[1] \in States(entity) \ collected /\ t[2] \in States(entity)

ManagementFieldsOk(entity) ==
    Len(entity.fields) >= 3 /\ SubSeq(entity.fields, 1, 3) = Foundational

TenantOk(system, entity) ==
    system.tenant \in Names(entity.fields) /\ system.tenant \in Elements(entity.key)

IndexesOk(entity) ==
    /\ Unique(entity.indexes)
    /\ \A index \in Elements(entity.indexes) :
          /\ index.fields # <<>>
          /\ Elements(index.fields) \subseteq Names(entity.fields)
          /\ Cardinality(Elements(index.fields)) = Len(index.fields)

----
\* The api block.

HasAllKeyFields(path, entity) == Elements(entity.key) \subseteq Parameters(path)
ParametersAreFields(path, entity) == Parameters(path) \subseteq Names(entity.fields)

ResourceOk(entity, api) ==
    /\ ParametersAreFields(api.resource, entity)
    /\ IF api.resource = None
       THEN api.get = None /\ api.update = None /\ api.delete = None
       ELSE HasAllKeyFields(api.resource, entity)

CreateOk(entity, create) ==
    Elements(create.fields) \subseteq Names(entity.fields) \ FoundationalNames

\* Faulty variant of ListSelectorAllowed: the fields in any order.
ListSelectorUnordered(entity, by) ==
    \/ Elements(by) \subseteq Elements(entity.key)
    \/ \E index \in Elements(entity.indexes) :
          by = <<index.name>> \/ Elements(by) \subseteq Elements(index.fields)

ListSelectorAllowed(entity, by) ==
    \/ IsPrefix(by, entity.key)
    \/ \E index \in Elements(entity.indexes) : by = <<index.name>> \/ IsPrefix(by, index.fields)

ListOk(entity, list) ==
    /\ ParametersAreFields(list.path, entity)
    /\ list.by # <<>>
    /\ ListSelectorAllowed(entity, list.by)

\* Faulty variant of HasDeletedState: any terminal state will do.
HasTerminalState(entity) == \E s \in Elements(entity.machine.states) : s.terminal /\ s.gc

HasDeletedState(entity) ==
    \E s \in Elements(entity.machine.states) : s.name = "Deleted" /\ s.terminal /\ s.gc

EntityApiOk(entity) ==
    entity.api # None =>
        /\ ResourceOk(entity, entity.api)
        /\ entity.api.create # None => CreateOk(entity, entity.api.create)
        /\ \A list \in Elements(entity.api.lists) : ListOk(entity, list)
        /\ entity.api.delete # None => HasDeletedState(entity)

----
\* Relations between entities.

RelationsOk(system, entity) ==
    /\ Unique(entity.relations)
    /\ \A r \in Elements(entity.relations) :
          /\ r.name \in Names(entity.fields)
          /\ IsEntity(system, r.target)
          /\ r.onDelete = "detach" => r.optional
          /\ r.unique \subseteq Names(entity.fields)
          /\ r.states \subseteq States(EntityNamed(system, r.target))

\* A child collection names the parent relation that leads back.
ChildrenOk(system, entity) ==
    /\ Unique(entity.children)
    /\ \A c \in Elements(entity.children) :
          /\ IsEntity(system, c.target)
          /\ LET parents == {r \in Elements(EntityNamed(system, c.target).relations) :
                                r.kind = "parent" /\ r.name = c.relation}
             IN  parents # {} /\ \A r \in parents : r.target = entity.name

EntitiesOk(system) ==
    \A entity \in Elements(system.entity) :
        /\ entity.key # <<>>
        /\ Elements(entity.key) \subseteq Names(entity.fields)
        /\ FieldsOk(system, entity.fields)
        /\ ManagementFieldsOk(entity)
        /\ TenantOk(system, entity)
        /\ RelationsOk(system, entity)
        /\ ChildrenOk(system, entity)
        /\ IndexesOk(entity)
        /\ EntityApiOk(entity)
        /\ StateMachineOk(entity)
====
