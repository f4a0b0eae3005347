---- MODULE EntityService ----
(***************************************************************************)
(* What the generated API promises its callers: every call takes effect at *)
(* once, or is refused and has none. An entity is its status here.         *)
(***************************************************************************)
CONSTANTS Client, Nothing

VARIABLES
    entities,   \* key -> status, or Nothing
    asked,      \* Client -> [operation, key, status, parents, allowed], or Nothing
    answered,   \* Client -> HTTP status of the last call
    terminal    \* key -> the statuses it may be collected in

vars == <<entities, asked, answered, terminal>>

Init == asked = [c \in Client |-> Nothing]

Ask(c) ==
    /\ asked[c] = Nothing
    /\ \A d \in Client \ {c} : asked'[d] = asked[d] /\ answered'[d] = answered[d]
    /\ UNCHANGED <<entities, terminal>>

Answered(c, status) ==
    /\ asked[c] # Nothing
    /\ asked' = [asked EXCEPT ![c] = Nothing]
    /\ answered' = [answered EXCEPT ![c] = status]
    /\ UNCHANGED terminal

Present(k) == entities[k] # Nothing

Refuse(c) == Answered(c, 500) /\ UNCHANGED entities

\* A new entity, below parents that exist at this moment.
Create(c) ==
    /\ Answered(c, 201)
    /\ asked[c].operation = "create"
    /\ ~Present(asked[c].key)
    /\ \A p \in asked[c].parents : Present(p)
    /\ entities' = [entities EXCEPT ![asked[c].key] = asked[c].status]

\* A change of status the entity allows from the one it has at this moment.
Change(c, operation, status) ==
    /\ Answered(c, status)
    /\ asked[c].operation = operation
    /\ Present(asked[c].key)
    /\ <<entities[asked[c].key], asked[c].status>> \in asked[c].allowed
    /\ entities' = [entities EXCEPT ![asked[c].key] = asked[c].status]

Read(c) ==
    /\ Answered(c, 200)
    /\ asked[c].operation = "get" => Present(asked[c].key)
    /\ asked[c].operation \in {"get", "list", "business"}
    /\ UNCHANGED entities

Miss(c) ==
    /\ Answered(c, 404)
    /\ asked[c].operation \in {"get", "update_status", "delete"}
    /\ ~Present(asked[c].key)
    /\ UNCHANGED entities

\* An operation of the application, to be continued by a workflow or a queue.
Accept(c) ==
    /\ Answered(c, 202)
    /\ asked[c].operation = "business"
    /\ UNCHANGED entities

\* The collector takes away entities in a terminal status, and no others.
Collect ==
    /\ \A k \in DOMAIN entities :
          entities'[k] # entities[k] => /\ entities'[k] = Nothing
                                        /\ entities[k] \in terminal[k]
    /\ UNCHANGED <<asked, answered, terminal>>

Next ==
    \/ Collect
    \/ \E c \in Client :
          \/ Ask(c) \/ Refuse(c) \/ Create(c) \/ Read(c) \/ Miss(c) \/ Accept(c)
          \/ Change(c, "update_status", 200) \/ Change(c, "delete", 204)

Spec == Init /\ [][Next]_vars
====
