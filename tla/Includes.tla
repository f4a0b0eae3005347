---- MODULE Includes ----
\* load_composed_spec: the files a specification includes are read depth first
\* and their declarations put before its own. The first error ends the model's
\* run; the code goes on to collect more, and accepts the result no more than
\* the model does.
EXTENDS Declarations

\* A source file is [version, includes (sequence of paths), system (or None)].

VARIABLES
    sources,   \* the files that exist: path -> source file
    stack,     \* include_stack, a frame for each file that is being composed
    loaded,    \* loaded_paths
    system     \* the composed system once the root is done

includeVars == <<sources, stack, loaded, system>>

Root == "main"

\* A file without a system declaration.
Bare(path) == sources[path].system = None

\* A frame: the file, the next of its includes, what is composed so far.
\* The includes of a bare file are not looked at.
Opened(path) ==
    LET own == sources[path].system
    IN  [path |-> path, next |-> 1,
         includes |-> IF Bare(path) THEN <<>> ELSE sources[path].includes,
         composed |-> IF Bare(path) THEN None
                      ELSE [k \in DOMAIN own |-> IF k \in Kinds THEN <<>> ELSE own[k]]]

\* append_system_members
AppendMembers(target, source) ==
    [k \in DOMAIN target |-> IF k \in Kinds THEN target[k] \o source[k] ELSE target[k]]

\* merge_system_level_declarations, which tells apart the fields of the tenant.
TenantConflict(target, source) ==
    source.tenant # None /\ target.tenant # None /\ target.tenant # source.tenant
MergeLevel(target, source) ==
    [target EXCEPT !.tenant = IF @ = None THEN source.tenant ELSE @,
                   !.configured = @ \/ source.configured]

InitIncludes == stack = <<>> /\ loaded = {} /\ system = None

Top == stack[Len(stack)]
Reading == stack # <<>> /\ Top.next <= Len(Top.includes)
Included == Top.includes[Top.next]
OnStack(path) == \E i \in DOMAIN stack : stack[i].path = path

Advanced == [stack EXCEPT ![Len(stack)].next = @ + 1]

\* Faulty variant of Unreadable: a circle is left to loaded_paths.
Missing(path) == path \notin DOMAIN sources
\* An include that is missing, or being composed at the moment.
Unreadable(path) == path \notin DOMAIN sources \/ OnStack(path)

OpenRoot ==
    /\ stack = <<>> /\ loaded = {} /\ Root \in DOMAIN sources
    /\ stack' = <<Opened(Root)>>
    /\ loaded' = {Root}
    /\ UNCHANGED <<sources, system>>

OpenInclude ==
    /\ Reading /\ ~Unreadable(Included)
    /\ Included \notin loaded
    /\ stack' = Append(stack, Opened(Included))
    /\ loaded' = loaded \cup {Included}
    /\ UNCHANGED <<sources, system>>

\* Already loaded: an empty specification takes its place.
SkipInclude ==
    /\ Reading /\ ~Unreadable(Included)
    /\ Included \in loaded
    /\ stack' = Advanced
    /\ UNCHANGED <<sources, loaded, system>>

\* The file at the top has no includes left: its own members come last.
Composed == AppendMembers(Top.composed, sources[Top.path].system)

Parent == stack[Len(stack) - 1]
VersionConflict ==
    LET above == sources[Parent.path].version
        below == sources[Top.path].version
    IN  above # None /\ below # None /\ above # below
Closing == stack # <<>> /\ ~Reading

\* Faulty variant of Mergeable: the tenants are not compared.
MergeableAnyTenant == ~VersionConflict
Mergeable ==
    /\ ~VersionConflict
    /\ ~Bare(Top.path) => ~TenantConflict(Parent.composed, Composed)

\* The frame of the file that includes it, after the merge.
Merged(frame) ==
    [frame EXCEPT !.next = @ + 1,
                  !.composed = IF Bare(Top.path) THEN @
                               ELSE AppendMembers(MergeLevel(@, Composed), Composed)]

CloseInclude ==
    /\ Closing /\ Len(stack) > 1 /\ Mergeable
    /\ stack' = [SubSeq(stack, 1, Len(stack) - 1) EXCEPT ![Len(stack) - 1] = Merged(Parent)]
    /\ UNCHANGED <<sources, loaded, system>>

CloseRoot ==
    /\ Closing /\ Len(stack) = 1 /\ ~Bare(Top.path)
    /\ system' = Composed
    /\ stack' = <<>>
    /\ UNCHANGED <<sources, loaded>>

NextInclude == OpenRoot \/ OpenInclude \/ SkipInclude \/ CloseInclude \/ CloseRoot

\* What ends in a diagnostic; a root without a system is refused by the validator.
LoadFails ==
    \/ stack = <<>> /\ loaded = {} /\ Root \notin DOMAIN sources
    \/ Reading /\ Unreadable(Included)
    \/ Closing /\ Len(stack) > 1 /\ ~Mergeable
    \/ Closing /\ Len(stack) = 1 /\ Bare(Top.path)

----
\* The include graph, for the properties.

IncludesOf(path) == IF path \in DOMAIN sources THEN Elements(Opened(path).includes) ELSE {}
NamedPaths == {Root} \cup DOMAIN sources \cup UNION {IncludesOf(p) : p \in DOMAIN sources}

\* The least set that has these paths and, with a file, those it includes.
Reach(paths) ==
    {p \in NamedPaths : \A closed \in SUBSET NamedPaths :
        paths \subseteq closed /\ UNION {IncludesOf(q) : q \in closed} \subseteq closed
            => p \in closed}
Reachable == Reach({Root})
====
