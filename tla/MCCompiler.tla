---- MODULE MCCompiler ----
EXTENDS Compiler

----
\* Names are strings; the derived ones are put together as in the code.
MCName(a, b) == a \o b
MCPlural(n) == n \o "s"
MCLowerCamel(n) == IF n = "t_id" THEN "tId" ELSE n
MCIdBase(f) == CASE f = "id" -> "ids" [] f \in {"b", "b_id"} -> "b_ids" [] OTHER -> f \o "_ids"

Declared0 == {"A", "B", "In", "Out", "Plain", "MakeA", "Post", "GetIt", "Fetch", "Lists", "Patch",
              "Srv", "Q", "L", "W", "K", "N", "F", "O", "M", "V"}
DerivedOf(e) == {e \o "Response", "Create" \o e, "Create" \o e \o "Request", "Get" \o e,
                 "List" \o e \o "s", "List" \o e \o "sResponse", "Update" \o e \o "Status",
                 "Update" \o e \o "StatusRequest", "Delete" \o e}
MCNames == Declared0 \cup DerivedOf("A") \cup DerivedOf("B") \cup {"EntityApi"}
\* The worker and the workflow differ, as "orderSync" and "OrderSync" do, but
\* become the same identifiers.
Identifier == [n \in MCNames |-> IF n = "K" THEN "W" ELSE n]
MCSnake == Identifier
MCPascal == Identifier

----
\* Declarations.
Empty == [tenant |-> "t", configured |-> TRUE] @@ [k \in Kinds |-> <<>>]
Plain(n) == [name |-> n]
Field(n) == [name |-> n, type |-> "string", many |-> FALSE]
Many(n, type) == [name |-> n, type |-> type, many |-> TRUE]
Shape(n, fields) == [name |-> n, fields |-> <<Field("t")>> \o fields]
Path(parameters) == [segments |-> {"tenants"}, parameters |-> parameters]

State(n) == [name |-> n, terminal |-> FALSE, gc |-> FALSE]
End(n) == [name |-> n, terminal |-> TRUE, gc |-> TRUE]
Machine(last, transitions) ==
    [states |-> IF last = None THEN <<State("Active")>> ELSE <<State("Active"), End(last)>>,
     initial |-> "Active", terminal |-> {last} \ {None}, transitions |-> transitions]
Live == Machine(None, {<<"Active", "Active">>})
Deletable == Machine("Deleted", {<<"Active", "Deleted">>})
Retired == Machine("Retired", {<<"Active", "Retired">>})
Revived == Machine("Deleted", {<<"Active", "Deleted">>, <<"Deleted", "Active">>})

\* The entity's key is the tenant and a field named after it.
Entity(n, key, machine, api) ==
    [name |-> n, key |-> <<"t", key>>,
     fields |-> Foundational \o <<Field("t"), Field(key), Field("x")>>,
     indexes |-> << [name |-> "byX", fields |-> <<"t", "x">>] >>,
     machine |-> machine, relations |-> <<>>, children |-> <<>>, api |-> api]
EntityA(machine, api) == Entity("A", "a", machine, api)
EntityB(machine, api) == Entity("B", "b", machine, api)

Op == [name |-> None]
Create(fields) == [name |-> None, fields |-> fields]
ListBy(by, parameters) == [name |-> None, path |-> Path(parameters), by |-> by]
Block(resource, create, get, lists, update, delete) ==
    [resource |-> resource, create |-> create, get |-> get, lists |-> lists, update |-> update,
     delete |-> delete]
ByX == ListBy(<<"t", "x">>, {"t", "x"})
FullBlock(key) == Block(Path({"t", key}), Create(<<"x">>), Op, <<ByX>>, Op, Op)
ReadBlock(key) == Block(Path({"t", key}), None, Op, <<>>, Op, None)

Api(n, method, key, in, out) ==
    [name |-> n, method |-> method, path |-> Path({"t"} \cup key), input |-> in, output |-> out,
     starts |-> None, enqueues |-> None]
ServerOf(names) == << [name |-> "Srv", serves |-> names] >>

Queue(dead) ==
    << [name |-> "Q", deadLetter |-> dead,
        messages |-> << [name |-> "M", payload |-> <<Field("t")>>, idempotency |-> "t"] >>] >>
Part(n, unit) == [n |-> n, unit |-> unit]
Seconds3 == <<Part(None, "T"), Part(3, "S")>>
Minutes1 == <<Part(None, "T"), Part(1, "M")>>
Month1 == <<Part(1, "M")>>
Days(n) == <<Part(n, "D")>>
Lease(ttl, renew, max) == << [name |-> "L", ttl |-> ttl, renew |-> renew, max |-> max] >>
Workflow(statements, loads, cs) ==
    << [name |-> "W", start |-> "run", on |-> None, input |-> None, state |-> None,
        loads |-> loads, childSets |-> <<>>, childWorkflows |-> cs,
        steps |-> << [name |-> "run", statements |-> statements],
                     [name |-> "generate_x_ids", statements |-> <<>>] >>] >>
Statement(kind, target) == [kind |-> kind, target |-> target, within |-> 0]
Atomic == Statement("atomic", None)
Inner(kind, target) == [Statement(kind, target) EXCEPT !.within = 1]
Worker(lease, singleton) ==
    << [name |-> "K", singleton |-> singleton, lease |-> lease, polls |-> None, executes |-> None] >>

File0(s) == [version |-> None, includes |-> <<>>, system |-> s]
Single(s) == [p \in {"main"} |-> File0(s)]
JobsOf(systems, languages, tiers) ==
    {[sources |-> Single(s), language |-> l, tier |-> t] : s \in systems, l \in languages, t \in tiers}

----
\* Runtime declarations in all combinations. C++: logs and metrics together.
\* Go: workers only with workflows.
Runtimes(flags, workflows) ==
    {[Empty EXCEPT !.flag = f, !.queue = q, !.lease = Lease(Minutes1, Seconds3, Days(1)),
                   !.workflow = w, !.log = o, !.metric = m, !.worker = k, !.server = v,
                   !.entity = <<EntityA(Live, None)>>] :
     f \in flags, q \in {<<>>, Queue(None)}, w \in workflows, o \in {<<>>, <<Plain("O")>>},
     m \in {<<>>, <<Plain("N")>>}, k \in {<<>>, Worker(None, FALSE), Worker("L", TRUE)},
     v \in {<<>>, ServerOf({})}}
Flags == {<<>>, <<Plain("F")>>}
Flows == {<<>>, Workflow(<<>>, <<>>, <<>>)}
NoLease(systems) ==
    {[s EXCEPT !.lease = <<>>] : s \in {r \in systems : \A w \in Elements(r.worker) : w.lease = None}}
All == LET r == Runtimes(Flags, Flows) IN r \cup NoLease(r)
RuntimeJobs ==
    JobsOf({s \in All : Names(s.log) = {} <=> Names(s.metric) = {}}, {"cpp"}, Tiers)
    \cup JobsOf({s \in All : s.worker = <<>> \/ s.workflow # <<>>}, {"go"}, Tiers)
    \cup JobsOf(All, {"java", "rust"}, {"all", "api", "worker"})

\* Explicit APIs, inferred to be operations or not.
ExplicitSystem(apis, server) ==
    [Empty EXCEPT
        !.entity = <<EntityA(Deletable, None), EntityB(Live, None)>>,
        !.shape = <<Shape("In", <<Field("x")>>), Shape("Out", <<Field("x")>>),
                    Shape("AResponse", <<Field("a"), Field("x")>>),
                    Shape("BResponse", <<Field("b"), Many("more", "A")>>),
                    Shape("Plain", <<Field("x"), Many("items", "AResponse")>>)>>,
        !.api = apis, !.workflow = Workflow(<<>>, <<>>, <<>>),
        !.server = IF server THEN ServerOf({apis[1].name}) ELSE <<>>]
MakeA == Api("MakeA", "POST", {"a"}, "In", "AResponse")
DeleteA == Api("DeleteA", "DELETE", {"a"}, None, None)
PatchA == Api("Patch", "PATCH", {"a"}, "AResponse", "AResponse")
FetchA == Api("Fetch", "GET", {"a"}, None, "AResponse")
ListA == Api("Lists", "GET", {"x"}, None, "Plain")
\* A list answers with the shape that is owned by the other entity.
MakeB == Api("MakeA", "POST", {"b"}, "In", "BResponse")
PatchB == Api("Patch", "PATCH", {"b"}, "In", "BResponse")
ListOther == Api("GetIt", "GET", {"x"}, None, "BResponse")
Posts == [Api("Post", "POST", {}, "In", "Out") EXCEPT !.starts = "W"]
ExplicitApis == {<<MakeA, DeleteA>>, <<PatchA, ListA>>, <<FetchA, ListA, Posts>>, <<Posts>>}
ExplicitJobs ==
    JobsOf({ExplicitSystem(s, TRUE) : s \in ExplicitApis}, Languages, Tiers)
    \cup JobsOf({ExplicitSystem(s, FALSE) : s \in ExplicitApis}, {"cpp", "go"}, {"all"})
    \cup JobsOf({ExplicitSystem(<<MakeB, PatchB, ListOther, FetchA>>, TRUE)}, {"cpp", "go", "rust"}, {"all"})
    \cup JobsOf({ExplicitSystem(<<[MakeA EXCEPT !.path.parameters = {"t"}]>>, TRUE),
                 ExplicitSystem(<<[ListA EXCEPT !.path.parameters = {"t"}, !.output = "BResponse"]>>, TRUE)},
                {"cpp"}, {"all"})

\* An entity with an api block, allowed or not.
Blocks0 ==
    {Block(r, c, IF r = None THEN None ELSE Op, l, u, d) :
        r \in {Path({"t", "a"}), Path({"a"}), None},
        c \in {None, Create(<<"x">>), Create(<<>>), Create(<<"status">>)},
        l \in {<<>>, <<ByX, ByX>>, <<ListBy(<<"byX">>, {"t", "x"})>>, <<ListBy(<<"x", "t">>, {"t", "x"})>>,
               <<ListBy(<<"t">>, {"t"})>>, <<ListBy(<<"t", "a">>, {"t"})>>},
        u \in {None, Op}, d \in {None, Op}}
BlockSystems(blocks) ==
    {[Empty EXCEPT !.entity = <<EntityA(m, b)>>] : m \in {Deletable, Retired}, b \in blocks}
\* Go: no entity of which nothing but creation and lists is exposed.
BlockJobs ==
    JobsOf(BlockSystems(Blocks0), Languages \ {"go"}, {"all"})
    \cup JobsOf(BlockSystems({b \in Blocks0 : b.get # None}), {"go"}, {"all"})
    \cup JobsOf({[Empty EXCEPT !.entity = <<EntityA(m, FullBlock("a")), EntityB(Live, ReadBlock("b"))>>,
                               !.server = v] : m \in {Deletable, Revived}, v \in {<<>>, ServerOf({})}},
                Languages, Tiers)

\* Leases, workflows and the references between runtime declarations.
Durations == {Seconds3, Minutes1, Month1, Days(1)}
Child(n, field) ==
    [name |-> n, entity |-> "B", workflow |-> "W", idField |-> field, idType |-> "string",
     parentRef |-> "x", assigned |-> <<field, "x">>]
EntityC ==
    [EntityB(Live, None) EXCEPT
        !.fields = @ \o <<Field("b_id")>>,
        !.relations = << [name |-> "x", kind |-> "parent", target |-> "A", optional |-> FALSE,
                          onDelete |-> "restrict", unique |-> {}, states |-> {"Active"}] >>]
LeaseSystems == {[Empty EXCEPT !.lease = Lease(t, r, m)] :
                    t \in Durations, r \in Durations, m \in Durations}
FlowSystems ==
    {[Empty EXCEPT !.entity = <<EntityA(Live, None), EntityC>>, !.queue = Queue(d),
                   !.workflow = Workflow(s, <<>>, cs)] :
        d \in {None, "W", "Q", "A"},
        s \in {<<>>, <<Atomic, Inner("enqueue", "Q.M")>>, <<Atomic>>, <<Statement("transition_to", "gone")>>,
               <<Statement("enqueue", "Q.M"), Statement("start_workflow", "W")>>},
        cs \in {<<>>, <<Child("c", "b"), Child("d", "b_id")>>, <<Child("c", "b"), Child("c", "x")>>,
                <<Child("c", "b")>>, <<Child("c", "x")>>}}
RuleJobs == JobsOf(LeaseSystems \cup FlowSystems, {"rust"}, {"common"})

----
\* Include graphs. The tenant of their systems is not configured, which the
\* validator rejects: what they are about is over by then.
Owned(n, tenant) == [Empty EXCEPT !.tenant = tenant, !.configured = FALSE, !.flag = <<Plain(n)>>]
Includes0 ==
    {[main |-> m, a |-> a, b |-> b, c |-> c] :
        m \in {<<"a">>, <<"a", "b">>, <<"b", "a">>, <<"a", "a">>},
        a \in {<<>>, <<"b">>, <<"c">>, <<"b", "c">>, <<"main">>, <<"gone">>},
        b \in {<<>>, <<"c">>, <<"a">>}, c \in {<<>>, <<"a">>}}
Graph(g, tenants, bare, versions) ==
    [p \in {"main", "a", "b", "c"} |->
        [version |-> versions[p], includes |-> g[p],
         system |-> IF p = bare THEN None ELSE Owned(p, tenants[p])]]
OneTenant == [main |-> "t", a |-> None, b |-> None, c |-> "t"]
Tenants == {OneTenant, [OneTenant EXCEPT !.main = None, !.b = "u"], [OneTenant EXCEPT !.a = "u"],
            [OneTenant EXCEPT !.main = None, !.a = "u", !.c = "u"]}
NoVersion == [p \in {"main", "a", "b", "c"} |-> None]
Versions == {NoVersion, [NoVersion EXCEPT !["main"] = 1, !["c"] = 2],
             [NoVersion EXCEPT !["a"] = 1, !["c"] = 2]}
IncludeJobs ==
    {[sources |-> s, language |-> "cpp", tier |-> "all"] :
        s \in {Graph(g, t, None, NoVersion) : g \in Includes0, t \in Tenants}
              \cup {Graph(g, OneTenant, n, v) : g \in Includes0, n \in {None, "a", "main"}, v \in Versions}
              \cup {[p \in {"gone"} |-> File0(Empty)]}}

MCJobs == RuntimeJobs \cup ExplicitJobs \cup BlockJobs \cup RuleJobs \cup IncludeJobs
====
