---- MODULE MCCrudHandlers ----
EXTENDS CrudHandlers, TLC

CONSTANTS c1, c2, g1

\* An account that is closed or deleted, never both, and orders below it.
MCSystem ==
    [entities |->
        [Account |->
            [keys |-> {"account"}, fields |-> {"account", "status", "updated_at"},
             states |-> {"Active", "Closed", "Deleted"}, initial |-> "Active",
             terminal |-> {"Deleted"},
             transitions |-> {<<"Active", "Closed">>, <<"Active", "Deleted">>},
             relations |-> <<>>, indexes |-> {}],
         Order |->
            [keys |-> {"order"}, fields |-> {"order", "account", "status", "updated_at"},
             states |-> {"Active"}, initial |-> "Active", terminal |-> {}, transitions |-> {},
             relations |-> << [kind |-> "parent", target |-> "Account", optional |-> FALSE],
                              [kind |-> "parent", target |-> "Order", optional |-> TRUE] >>,
             indexes |-> {<<"account", "status">>}]],
     shapes |->
        [Change |-> [fields |-> {"status"}, list |-> None, items |-> None],
         New    |-> [fields |-> {"account"}, list |-> None, items |-> None],
         View   |-> [fields |-> {"status", "updated_at"}, list |-> None, items |-> None],
         Orders |-> [fields |-> {"account", "orders"}, list |-> "orders", items |-> "Order"]],
     apis |-> {}]

Api(e, op, in, out, path, selector) ==
    [entity |-> e, operation |-> op, input |-> in, output |-> out, path |-> path,
     selector |-> selector, starts |-> None, enqueues |-> None]

CloseAccount  == Api("Account", "update_status", "Change", "View", {"account"}, <<>>)
DeleteAccount == Api("Account", "delete", None, None, {"account"}, <<>>)
GetAccount    == Api("Account", "get", None, "View", {"account"}, <<>>)
CreateAccount == Api("Account", "create", "New", "View", {"account"}, <<>>)
CreateOrder   == Api("Order", "create", "New", "View", {"order"}, <<>>)
ListOrders    == Api("Order", "list", None, "Orders", {"account"}, <<"account">>)
ListByKey     == Api("Order", "list", None, "Orders", {"order"}, <<"order">>)
StartAudit    == [Api(None, None, "New", "View", {}, <<>>) EXCEPT !.starts = "Audit"]
MCFullSystem ==
    [MCSystem EXCEPT !.apis = {CloseAccount, DeleteAccount, GetAccount, CreateAccount, CreateOrder,
                               ListOrders, ListByKey, StartAudit}]

Statuses(api) == IF api.operation = "update_status" THEN {"Active", "Closed"} ELSE Text
BodyFields(api) == IF api.input = None THEN {} ELSE MCSystem.shapes[api.input].fields
MCRequests(api) ==
    {[body |-> b, path |-> p] :
        b \in [BodyFields(api) -> Statuses(api)], p \in [api.path -> Text]}

MCMaxCalls == (c1 :> 2) @@ (c2 :> 1)
====
