---------------------------- MODULE MCSchemaRegistry ---------------------------
(***************************************************************************)
(* Instances of the collection registry for TLC.                           *)
(***************************************************************************)
EXTENDS SchemaRegistry

Field(name, required) == [name |-> name, type |-> "string", required |-> required]
On(name, field, unique) == [name |-> name, fields |-> <<field>>, unique |-> unique]

Descriptors(version, more, on) ==
    [name |-> "orders", version |-> version, key |-> <<"id">>,
     fields |-> <<Field("id", TRUE)>> \o more, indexes |-> on]

Note == Field("note", FALSE)
ByNote == On("by_note", "note", FALSE)

\* Releases of one application: each may follow the one before.
Orders1 == Descriptors(1, <<Field("note", TRUE)>>, <<ByNote>>)
Orders2 == Descriptors(2, <<Note, Field("tag", FALSE)>>, <<ByNote>>)
Orders3 == Descriptors(3, <<Note, Field("tag", FALSE)>>, <<ByNote, On("by_tag", "tag", FALSE)>>)

\* Releases that must not follow: a field that becomes required, an index that
\* changes, a unique index, a changed type, another version of the same number.
Bad == {Descriptors(4, <<Note, Field("tag", TRUE)>>, <<ByNote, On("by_tag", "tag", FALSE)>>),
        Descriptors(4, <<Note, Field("tag", FALSE)>>, <<On("by_note", "tag", FALSE)>>),
        Descriptors(4, <<Note, Field("tag", FALSE)>>, <<ByNote, On("by_all", "tag", TRUE)>>),
        Descriptors(4, <<[Note EXCEPT !.type = "json"], Field("tag", FALSE)>>, <<ByNote>>),
        Descriptors(3, <<Note, Field("tag", FALSE), Field("more", FALSE)>>, <<ByNote>>)}

Labels(version, extra) ==
    [name |-> "labels", version |-> version, key |-> <<"id">>,
     fields |-> <<Field("id", TRUE), Field("code", FALSE)>> \o extra,
     indexes |-> <<On("by_code", "code", TRUE)>>]
Labels1 == Labels(1, <<>>)
Labels2 == Labels(2, <<Field("hint", FALSE)>>)

MCBatches ==
    {<<Orders1, Labels1>>, <<Orders2, Labels1>>, <<Orders3, Labels2>>, <<Orders1, Orders3>>,
     <<Labels2>>}
    \cup {<<Labels2, d>> : d \in Bad}

================================================================================
