---- MODULE CrudHandlersProofs ----
(***************************************************************************)
(* Proofs about CrudHandlers: the four generators write the same handlers, *)
(* and the C++ handlers implement EntityService.                           *)
(***************************************************************************)
EXTENDS CrudHandlers, FiniteSetTheorems, SequenceTheorems, TLAPS

----
(***************************************************************************)
(* The programs of the four generators.                                    *)
(***************************************************************************)

\* The Java generator writes what the C++ one writes (generator_java_descriptors.cpp).
LEMMA JavaSame ==
    ASSUME NEW api
    PROVE  Java!JavaHandler(System, api) = Cpp!CppHandler(System, api)
<1>1. \A op : Java!Handles(System, api, op) <=> Cpp!Handles(System, api, op)
  BY DEF Java!Handles, Cpp!Handles
<1>2. Java!CreateHandler(System, api) = Cpp!CreateHandler(System, api)
  <2>1. \A fields : Java!RequiredFieldsGiven(Entity(api.entity), fields, api)
                  <=> Cpp!RequiredFieldsGiven(Entity(api.entity), fields, api)
    BY DEF Java!RequiredFieldsGiven, Cpp!RequiredFieldsGiven, Java!Foundational,
           Cpp!Foundational, Java!Timestamps, Cpp!Timestamps
  <2>2. \A entity, fields : Java!ParentValidation(System, entity, fields)
                          = Cpp!ParentValidation(System, entity, fields)
    <3>1. \A seq, positions : Java!Selected(seq, positions) = Cpp!Selected(seq, positions)
      BY DEF Java!Selected, Cpp!Selected, Java!Cardinality, Cpp!Cardinality
    <3>2. \A fields, f : Java!RequestOrPath(fields, f) = Cpp!RequestOrPath(fields, f)
      BY DEF Java!RequestOrPath, Cpp!RequestOrPath, Java!Body, Cpp!Body,
             Java!PathParameter, Cpp!PathParameter
    <3>3. \A e, key : Java!Parent(e, key) = Cpp!Parent(e, key)
      BY DEF Java!Parent, Cpp!Parent
    <3> TAKE entity, fields
    <3> DEFINE required == Cpp!Selected(entity.relations,
                               {i \in DOMAIN entity.relations :
                                   /\ entity.relations[i].kind = "parent"
                                   /\ ~entity.relations[i].optional
                                   /\ entity.relations[i].target \in DOMAIN System.entities})
    <3>4. Java!ParentValidation(System, entity, fields) =
            [i \in DOMAIN required |->
                Java!Parent(required[i].target,
                    [f \in System.entities[required[i].target].keys |->
                        Java!RequestOrPath(fields, f)])]
      BY <3>1 DEF Java!ParentValidation
    <3>5. Cpp!ParentValidation(System, entity, fields) =
            [i \in DOMAIN required |->
                Cpp!Parent(required[i].target,
                    [f \in System.entities[required[i].target].keys |->
                        Cpp!RequestOrPath(fields, f)])]
      BY DEF Cpp!ParentValidation
    <3> HIDE DEF required
    <3> QED BY <3>2, <3>3, <3>4, <3>5
  <2>3. \A entity, fields : Java!CreateDocument(entity, fields) = Cpp!CreateDocument(entity, fields)
    BY DEF Java!CreateDocument, Cpp!CreateDocument, Java!Timestamps, Cpp!Timestamps,
           Java!Timestamp, Cpp!Timestamp, Java!Literal, Cpp!Literal,
           Java!RequestOrPath, Cpp!RequestOrPath, Java!Body, Cpp!Body,
           Java!PathParameter, Cpp!PathParameter
  <2>4. \A entity, key, document : Java!CreateTx(entity, key, document)
                                 = Cpp!CreateTx(entity, key, document)
    BY DEF Java!CreateTx, Cpp!CreateTx
  <2>5. \A f : Java!DefaultValue(f) = Cpp!DefaultValue(f)
    BY DEF Java!DefaultValue, Cpp!DefaultValue, Java!Literal, Cpp!Literal
  <2>6. \A entity, fields, f : Java!CreateAnswer(entity, fields, f)
                             = Cpp!CreateAnswer(entity, fields, f)
    BY <2>5 DEF Java!CreateAnswer, Cpp!CreateAnswer, Java!Body, Cpp!Body,
                Java!Literal, Cpp!Literal
  <2>7. \A shape : Java!FieldsOf(System, shape) = Cpp!FieldsOf(System, shape)
    BY DEF Java!FieldsOf, Cpp!FieldsOf
  <2>8. /\ \A e, decodes : Java!Open(e, decodes) = Cpp!Open(e, decodes)
        /\ \A status, body, strict : Java!CommitAs(status, body, strict)
                                   = Cpp!CommitAs(status, body, strict)
        /\ Java!Raise = Cpp!Raise
    BY DEF Java!Open, Cpp!Open, Java!CommitAs, Cpp!CommitAs, Java!Raise, Cpp!Raise
  <2>9. [f \in Cpp!FieldsOf(System, api.output) |->
            Java!CreateAnswer(Entity(api.entity), Cpp!FieldsOf(System, api.input), f)]
        = [f \in Cpp!FieldsOf(System, api.output) |->
            Cpp!CreateAnswer(Entity(api.entity), Cpp!FieldsOf(System, api.input), f)]
    BY <2>6
  <2> DEFINE entity == Entity(api.entity)
             fields == Cpp!FieldsOf(System, api.input)
             document == Cpp!CreateDocument(entity, fields)
             key == [f \in entity.keys |-> document[f]]
  <2>10. Java!CreateHandler(System, api) =
           IF ~Java!RequiredFieldsGiven(entity, fields, api) THEN <<Java!Raise>>
           ELSE <<Java!Open(api.entity, fields)>>
                \o Java!ParentValidation(System, entity, fields)
                \o Java!CreateTx(api.entity, key, document)
                \o <<Java!CommitAs(201, [f \in Cpp!FieldsOf(System, api.output) |->
                                           Java!CreateAnswer(entity, fields, f)], TRUE)>>
    <3> DEFINE javaFields == Java!FieldsOf(System, api.input)
               javaDocument == Java!CreateDocument(Entity(api.entity), javaFields)
               javaKey == [f \in Entity(api.entity).keys |-> javaDocument[f]]
    <3>1. javaFields = fields /\ Java!FieldsOf(System, api.output) = Cpp!FieldsOf(System, api.output)
      BY <2>7
    <3>2. javaDocument = document
      BY <3>1, <2>3
    <3>3. javaKey = key
      BY <3>2
    <3>4. Java!CreateHandler(System, api) =
           IF ~Java!RequiredFieldsGiven(Entity(api.entity), javaFields, api) THEN <<Java!Raise>>
           ELSE <<Java!Open(api.entity, javaFields)>>
                \o Java!ParentValidation(System, Entity(api.entity), javaFields)
                \o Java!CreateTx(api.entity, javaKey, javaDocument)
                \o <<Java!CommitAs(201, [f \in Java!FieldsOf(System, api.output) |->
                             Java!CreateAnswer(Entity(api.entity), javaFields, f)], TRUE)>>
      BY DEF Java!CreateHandler, Entity
    <3> HIDE DEF javaFields, javaDocument, javaKey, fields, document, key
    <3> QED BY <3>1, <3>2, <3>3, <3>4
  <2>11. Cpp!CreateHandler(System, api) =
           IF ~Cpp!RequiredFieldsGiven(entity, fields, api) THEN <<Cpp!Raise>>
           ELSE <<Cpp!Open(api.entity, fields)>>
                \o Cpp!ParentValidation(System, entity, fields)
                \o Cpp!CreateTx(api.entity, key, document)
                \o <<Cpp!CommitAs(201, [f \in Cpp!FieldsOf(System, api.output) |->
                                          Cpp!CreateAnswer(entity, fields, f)], TRUE)>>
    BY DEF Cpp!CreateHandler, Entity
  <2> HIDE DEF entity, fields, document, key
  <2> QED
    BY <2>1, <2>2, <2>4, <2>8, <2>9, <2>10, <2>11 DEF entity, fields
<1>3. Java!GetHandler(System, api) = Cpp!GetHandler(System, api)
  BY DEF Java!GetHandler, Cpp!GetHandler, Java!Open, Cpp!Open, Java!GetTx, Cpp!GetTx,
         Java!PathKey, Cpp!PathKey, Java!PathParameter, Cpp!PathParameter,
         Java!CommitAs, Cpp!CommitAs, Java!RecordAnswer, Cpp!RecordAnswer,
         Java!FieldsOf, Cpp!FieldsOf, Java!Stored, Cpp!Stored
<1>4. Java!ListHandler(System, api) = Cpp!ListHandler(System, api)
  BY DEF Java!ListHandler, Cpp!ListHandler, Java!HasListIndex, Cpp!HasListIndex,
         Java!Raise, Cpp!Raise, Java!Open, Cpp!Open, Java!Query, Cpp!Query,
         Java!PathParameter, Cpp!PathParameter, Java!CommitAs, Cpp!CommitAs
<1>5. Java!UpdateStatusHandler(System, api) = Cpp!UpdateStatusHandler(System, api)
  BY DEF Java!UpdateStatusHandler, Cpp!UpdateStatusHandler, Java!FieldsOf, Cpp!FieldsOf,
         Java!RequestOrPath, Cpp!RequestOrPath, Java!Body, Cpp!Body,
         Java!PathParameter, Cpp!PathParameter, Java!Raise, Cpp!Raise, Java!Open, Cpp!Open,
         Java!GetTx, Cpp!GetTx, Java!UpdateTx, Cpp!UpdateTx, Java!Moved, Cpp!Moved,
         Java!Timestamp, Cpp!Timestamp, Java!Stored, Cpp!Stored,
         Java!TransitionsAllowed, Cpp!TransitionsAllowed, Java!CommitAs, Cpp!CommitAs,
         Java!RecordAnswer, Cpp!RecordAnswer
<1>6. Java!DeleteHandler(System, api) = Cpp!DeleteHandler(System, api)
  BY DEF Java!DeleteHandler, Cpp!DeleteHandler, Java!Open, Cpp!Open,
         Java!PathKey, Cpp!PathKey, Java!PathParameter, Cpp!PathParameter,
         Java!GetTx, Cpp!GetTx, Java!UpdateTx, Cpp!UpdateTx, Java!Moved, Cpp!Moved,
         Java!Literal, Cpp!Literal, Java!Timestamp, Cpp!Timestamp, Java!Stored, Cpp!Stored,
         Java!TransitionsAllowed, Cpp!TransitionsAllowed, Java!CommitAs, Cpp!CommitAs,
         Java!NoBody, Cpp!NoBody
<1> DEFINE JavaAnswer == << Java!Respond(Java!FieldsOf(System, api.input),
                            IF api.starts # None \/ api.enqueues # None THEN 202 ELSE 200,
                            [f \in Java!FieldsOf(System, api.output) |-> Java!DefaultValue(f)]) >>
           CppAnswer == << Cpp!Respond(Cpp!FieldsOf(System, api.input),
                           IF api.starts # None \/ api.enqueues # None THEN 202 ELSE 200,
                           [f \in Cpp!FieldsOf(System, api.output) |-> Cpp!DefaultValue(f)]) >>
<1>7. JavaAnswer = CppAnswer
  BY DEF Java!Respond, Cpp!Respond, Java!FieldsOf, Cpp!FieldsOf, Java!DefaultValue,
         Cpp!DefaultValue, Java!Literal, Cpp!Literal
<1>8. Java!JavaHandler(System, api) =
        CASE Java!Handles(System, api, "create")        -> Java!CreateHandler(System, api)
          [] Java!Handles(System, api, "get")           -> Java!GetHandler(System, api)
          [] Java!Handles(System, api, "list")          -> Java!ListHandler(System, api)
          [] Java!Handles(System, api, "update_status") -> Java!UpdateStatusHandler(System, api)
          [] Java!Handles(System, api, "delete")        -> Java!DeleteHandler(System, api)
          [] OTHER -> JavaAnswer
  BY DEF Java!JavaHandler
<1>9. Cpp!CppHandler(System, api) =
        CASE Cpp!Handles(System, api, "create")        -> Cpp!CreateHandler(System, api)
          [] Cpp!Handles(System, api, "get")           -> Cpp!GetHandler(System, api)
          [] Cpp!Handles(System, api, "list")          -> Cpp!ListHandler(System, api)
          [] Cpp!Handles(System, api, "update_status") -> Cpp!UpdateStatusHandler(System, api)
          [] Cpp!Handles(System, api, "delete")        -> Cpp!DeleteHandler(System, api)
          [] OTHER -> CppAnswer
  BY DEF Cpp!CppHandler
<1> HIDE DEF JavaAnswer, CppAnswer
<1> QED BY <1>1, <1>2, <1>3, <1>4, <1>5, <1>6, <1>7, <1>8, <1>9

\* The Go generator writes what the C++ one writes (generator_go_descriptors.cpp).
LEMMA GoSame ==
    ASSUME NEW api
    PROVE  Go!GoHandler(System, api) = Cpp!CppHandler(System, api)
<1>1. \A op : Go!Handles(System, api, op) <=> Cpp!Handles(System, api, op)
  BY DEF Go!Handles, Cpp!Handles
<1>2. Go!CreateHandler(System, api) = Cpp!CreateHandler(System, api)
  <2>1. \A fields : Go!RequiredFieldsGiven(Entity(api.entity), fields, api)
                  <=> Cpp!RequiredFieldsGiven(Entity(api.entity), fields, api)
    BY DEF Go!RequiredFieldsGiven, Cpp!RequiredFieldsGiven, Go!Foundational,
           Cpp!Foundational, Go!Timestamps, Cpp!Timestamps
  <2>2. \A entity, fields : Go!ParentValidation(System, entity, fields)
                          = Cpp!ParentValidation(System, entity, fields)
    <3>1. \A seq, positions : Go!Selected(seq, positions) = Cpp!Selected(seq, positions)
      BY DEF Go!Selected, Cpp!Selected, Go!Cardinality, Cpp!Cardinality
    <3>2. \A fields, f : Go!RequestOrPath(fields, f) = Cpp!RequestOrPath(fields, f)
      BY DEF Go!RequestOrPath, Cpp!RequestOrPath, Go!Body, Cpp!Body,
             Go!PathParameter, Cpp!PathParameter
    <3>3. \A e, key : Go!Parent(e, key) = Cpp!Parent(e, key)
      BY DEF Go!Parent, Cpp!Parent
    <3> TAKE entity, fields
    <3> DEFINE required == Cpp!Selected(entity.relations,
                               {i \in DOMAIN entity.relations :
                                   /\ entity.relations[i].kind = "parent"
                                   /\ ~entity.relations[i].optional
                                   /\ entity.relations[i].target \in DOMAIN System.entities})
    <3>4. Go!ParentValidation(System, entity, fields) =
            [i \in DOMAIN required |->
                Go!Parent(required[i].target,
                    [f \in System.entities[required[i].target].keys |->
                        Go!RequestOrPath(fields, f)])]
      BY <3>1 DEF Go!ParentValidation
    <3>5. Cpp!ParentValidation(System, entity, fields) =
            [i \in DOMAIN required |->
                Cpp!Parent(required[i].target,
                    [f \in System.entities[required[i].target].keys |->
                        Cpp!RequestOrPath(fields, f)])]
      BY DEF Cpp!ParentValidation
    <3> HIDE DEF required
    <3> QED BY <3>2, <3>3, <3>4, <3>5
  <2>3. \A entity, fields : Go!CreateDocument(entity, fields) = Cpp!CreateDocument(entity, fields)
    BY DEF Go!CreateDocument, Cpp!CreateDocument, Go!Timestamps, Cpp!Timestamps,
           Go!Timestamp, Cpp!Timestamp, Go!Literal, Cpp!Literal,
           Go!RequestOrPath, Cpp!RequestOrPath, Go!Body, Cpp!Body,
           Go!PathParameter, Cpp!PathParameter
  <2>4. \A entity, key, document : Go!CreateTx(entity, key, document)
                                 = Cpp!CreateTx(entity, key, document)
    BY DEF Go!CreateTx, Cpp!CreateTx
  <2>5. \A f : Go!DefaultValue(f) = Cpp!DefaultValue(f)
    BY DEF Go!DefaultValue, Cpp!DefaultValue, Go!Literal, Cpp!Literal
  <2>6. \A entity, fields, f : Go!CreateAnswer(entity, fields, f)
                             = Cpp!CreateAnswer(entity, fields, f)
    BY <2>5 DEF Go!CreateAnswer, Cpp!CreateAnswer, Go!Body, Cpp!Body,
                Go!Literal, Cpp!Literal
  <2>7. \A shape : Go!FieldsOf(System, shape) = Cpp!FieldsOf(System, shape)
    BY DEF Go!FieldsOf, Cpp!FieldsOf
  <2>8. /\ \A e, decodes : Go!Open(e, decodes) = Cpp!Open(e, decodes)
        /\ \A status, body, strict : Go!CommitAs(status, body, strict)
                                   = Cpp!CommitAs(status, body, strict)
        /\ Go!Raise = Cpp!Raise
    BY DEF Go!Open, Cpp!Open, Go!CommitAs, Cpp!CommitAs, Go!Raise, Cpp!Raise
  <2>9. [f \in Cpp!FieldsOf(System, api.output) |->
            Go!CreateAnswer(Entity(api.entity), Cpp!FieldsOf(System, api.input), f)]
        = [f \in Cpp!FieldsOf(System, api.output) |->
            Cpp!CreateAnswer(Entity(api.entity), Cpp!FieldsOf(System, api.input), f)]
    BY <2>6
  <2> DEFINE entity == Entity(api.entity)
             fields == Cpp!FieldsOf(System, api.input)
             document == Cpp!CreateDocument(entity, fields)
             key == [f \in entity.keys |-> document[f]]
  <2>10. Go!CreateHandler(System, api) =
           IF ~Go!RequiredFieldsGiven(entity, fields, api) THEN <<Go!Raise>>
           ELSE <<Go!Open(api.entity, fields)>>
                \o Go!ParentValidation(System, entity, fields)
                \o Go!CreateTx(api.entity, key, document)
                \o <<Go!CommitAs(201, [f \in Cpp!FieldsOf(System, api.output) |->
                                           Go!CreateAnswer(entity, fields, f)], TRUE)>>
    <3> DEFINE goFields == Go!FieldsOf(System, api.input)
               goDocument == Go!CreateDocument(Entity(api.entity), goFields)
               goKey == [f \in Entity(api.entity).keys |-> goDocument[f]]
    <3>1. goFields = fields /\ Go!FieldsOf(System, api.output) = Cpp!FieldsOf(System, api.output)
      BY <2>7
    <3>2. goDocument = document
      BY <3>1, <2>3
    <3>3. goKey = key
      BY <3>2
    <3>4. Go!CreateHandler(System, api) =
           IF ~Go!RequiredFieldsGiven(Entity(api.entity), goFields, api) THEN <<Go!Raise>>
           ELSE <<Go!Open(api.entity, goFields)>>
                \o Go!ParentValidation(System, Entity(api.entity), goFields)
                \o Go!CreateTx(api.entity, goKey, goDocument)
                \o <<Go!CommitAs(201, [f \in Go!FieldsOf(System, api.output) |->
                             Go!CreateAnswer(Entity(api.entity), goFields, f)], TRUE)>>
      BY DEF Go!CreateHandler, Entity
    <3> HIDE DEF goFields, goDocument, goKey, fields, document, key
    <3> QED BY <3>1, <3>2, <3>3, <3>4
  <2>11. Cpp!CreateHandler(System, api) =
           IF ~Cpp!RequiredFieldsGiven(entity, fields, api) THEN <<Cpp!Raise>>
           ELSE <<Cpp!Open(api.entity, fields)>>
                \o Cpp!ParentValidation(System, entity, fields)
                \o Cpp!CreateTx(api.entity, key, document)
                \o <<Cpp!CommitAs(201, [f \in Cpp!FieldsOf(System, api.output) |->
                                          Cpp!CreateAnswer(entity, fields, f)], TRUE)>>
    BY DEF Cpp!CreateHandler, Entity
  <2> HIDE DEF entity, fields, document, key
  <2> QED
    BY <2>1, <2>2, <2>4, <2>8, <2>9, <2>10, <2>11 DEF entity, fields
<1>3. Go!GetHandler(System, api) = Cpp!GetHandler(System, api)
  BY DEF Go!GetHandler, Cpp!GetHandler, Go!Open, Cpp!Open, Go!GetTx, Cpp!GetTx,
         Go!PathKey, Cpp!PathKey, Go!PathParameter, Cpp!PathParameter,
         Go!CommitAs, Cpp!CommitAs, Go!RecordAnswer, Cpp!RecordAnswer,
         Go!FieldsOf, Cpp!FieldsOf, Go!Stored, Cpp!Stored
<1>4. Go!ListHandler(System, api) = Cpp!ListHandler(System, api)
  BY DEF Go!ListHandler, Cpp!ListHandler, Go!HasListIndex, Cpp!HasListIndex,
         Go!Raise, Cpp!Raise, Go!Open, Cpp!Open, Go!Query, Cpp!Query,
         Go!PathParameter, Cpp!PathParameter, Go!CommitAs, Cpp!CommitAs
<1>5. Go!UpdateStatusHandler(System, api) = Cpp!UpdateStatusHandler(System, api)
  BY DEF Go!UpdateStatusHandler, Cpp!UpdateStatusHandler, Go!FieldsOf, Cpp!FieldsOf,
         Go!RequestOrPath, Cpp!RequestOrPath, Go!Body, Cpp!Body,
         Go!PathParameter, Cpp!PathParameter, Go!Raise, Cpp!Raise, Go!Open, Cpp!Open,
         Go!GetTx, Cpp!GetTx, Go!UpdateTx, Cpp!UpdateTx, Go!Moved, Cpp!Moved,
         Go!Timestamp, Cpp!Timestamp, Go!Stored, Cpp!Stored,
         Go!TransitionsAllowed, Cpp!TransitionsAllowed, Go!CommitAs, Cpp!CommitAs,
         Go!RecordAnswer, Cpp!RecordAnswer
<1>6. Go!DeleteHandler(System, api) = Cpp!DeleteHandler(System, api)
  BY DEF Go!DeleteHandler, Cpp!DeleteHandler, Go!Open, Cpp!Open,
         Go!PathKey, Cpp!PathKey, Go!PathParameter, Cpp!PathParameter,
         Go!GetTx, Cpp!GetTx, Go!UpdateTx, Cpp!UpdateTx, Go!Moved, Cpp!Moved,
         Go!Literal, Cpp!Literal, Go!Timestamp, Cpp!Timestamp, Go!Stored, Cpp!Stored,
         Go!TransitionsAllowed, Cpp!TransitionsAllowed, Go!CommitAs, Cpp!CommitAs,
         Go!NoBody, Cpp!NoBody
<1> DEFINE GoAnswer == << Go!Respond(Go!FieldsOf(System, api.input),
                            IF api.starts # None \/ api.enqueues # None THEN 202 ELSE 200,
                            [f \in Go!FieldsOf(System, api.output) |-> Go!DefaultValue(f)]) >>
           CppAnswer == << Cpp!Respond(Cpp!FieldsOf(System, api.input),
                           IF api.starts # None \/ api.enqueues # None THEN 202 ELSE 200,
                           [f \in Cpp!FieldsOf(System, api.output) |-> Cpp!DefaultValue(f)]) >>
<1>7. GoAnswer = CppAnswer
  BY DEF Go!Respond, Cpp!Respond, Go!FieldsOf, Cpp!FieldsOf, Go!DefaultValue,
         Cpp!DefaultValue, Go!Literal, Cpp!Literal
<1>8. Go!GoHandler(System, api) =
        CASE Go!Handles(System, api, "create")        -> Go!CreateHandler(System, api)
          [] Go!Handles(System, api, "get")           -> Go!GetHandler(System, api)
          [] Go!Handles(System, api, "list")          -> Go!ListHandler(System, api)
          [] Go!Handles(System, api, "update_status") -> Go!UpdateStatusHandler(System, api)
          [] Go!Handles(System, api, "delete")        -> Go!DeleteHandler(System, api)
          [] OTHER -> GoAnswer
  BY DEF Go!GoHandler
<1>9. Cpp!CppHandler(System, api) =
        CASE Cpp!Handles(System, api, "create")        -> Cpp!CreateHandler(System, api)
          [] Cpp!Handles(System, api, "get")           -> Cpp!GetHandler(System, api)
          [] Cpp!Handles(System, api, "list")          -> Cpp!ListHandler(System, api)
          [] Cpp!Handles(System, api, "update_status") -> Cpp!UpdateStatusHandler(System, api)
          [] Cpp!Handles(System, api, "delete")        -> Cpp!DeleteHandler(System, api)
          [] OTHER -> CppAnswer
  BY DEF Cpp!CppHandler
<1> HIDE DEF GoAnswer, CppAnswer
<1> QED BY <1>1, <1>2, <1>3, <1>4, <1>5, <1>6, <1>7, <1>8, <1>9

\* A program of three steps is two steps and a last one.
LEMMA ThreeSteps ==
    ASSUME NEW a, NEW b, NEW x
    PROVE  <<a, b>> \o <<x>> = <<a, b, x>>
<1> DEFINE S == {a, b, x}
<1>1. <<a, b>> \in Seq(S) /\ <<x>> \in Seq(S) /\ <<a, b, x>> \in Seq(S)
  OBVIOUS
<1>2. Len(<<a, b>>) = 2 /\ Len(<<x>>) = 1 /\ Len(<<a, b, x>>) = 3
  OBVIOUS
<1>3. Len(<<a, b>> \o <<x>>) = 3 /\ <<a, b>> \o <<x>> \in Seq(S)
  BY <1>1, <1>2
<1>4. \A i \in 1..3 : (<<a, b>> \o <<x>>)[i] = <<a, b, x>>[i]
  BY <1>1, <1>2
<1> HIDE DEF S
<1> QED BY <1>1, <1>2, <1>3, <1>4, SeqEqual

\* Two programs that differ in how strict the answer at their end is.
EndAlike(begin, status, body) ==
    Lenient(begin \o <<CommitAs(status, body, FALSE)>>)
    = Lenient(begin \o <<CommitAs(status, body, TRUE)>>)

\* Whether an answer is strict is all that Lenient takes away.
LEMMA LenientLast ==
    ASSUME NEW S, NEW begin \in Seq(S), NEW status, NEW body
    PROVE  EndAlike(begin, status, body)
<1> DEFINE loose == CommitAs(status, body, FALSE)
           strict == CommitAs(status, body, TRUE)
<1>1. /\ loose.op = "commit" /\ loose.status = status /\ loose.body = body
      /\ strict.op = "commit" /\ strict.status = status /\ strict.body = body
  BY DEF CommitAs
<1> HIDE DEF loose, strict
<1>2. /\ DOMAIN (begin \o <<loose>>) = 1..(Len(begin) + 1)
      /\ DOMAIN (begin \o <<strict>>) = 1..(Len(begin) + 1)
  OBVIOUS
<1>3. ASSUME NEW i \in 1..(Len(begin) + 1)
      PROVE  \/ i # Len(begin) + 1 /\ (begin \o <<loose>>)[i] = (begin \o <<strict>>)[i]
             \/ /\ i = Len(begin) + 1
                /\ (begin \o <<loose>>)[i] = loose /\ (begin \o <<strict>>)[i] = strict
  OBVIOUS
<1> DEFINE mild(x) == IF x.op = "commit" THEN CommitAs(x.status, x.body, FALSE) ELSE x
<1>4. ASSUME NEW i \in 1..(Len(begin) + 1)
      PROVE  mild((begin \o <<loose>>)[i]) = mild((begin \o <<strict>>)[i])
  BY <1>1, <1>3
<1>5. /\ Lenient(begin \o <<loose>>)
         = [i \in 1..(Len(begin) + 1) |-> mild((begin \o <<loose>>)[i])]
      /\ Lenient(begin \o <<strict>>)
         = [i \in 1..(Len(begin) + 1) |-> mild((begin \o <<strict>>)[i])]
  BY <1>2 DEF Lenient
<1> HIDE DEF mild
<1> QED BY <1>4, <1>5 DEF loose, strict, EndAlike

\* The Rust generator writes what the C++ one writes, but for the answers of get and
\* update, which leave out what the record lacks (generator_rust_descriptors.cpp).
LEMMA RustSame ==
    ASSUME NEW api
    PROVE  Lenient(Rust!RustHandler(System, api)) = Lenient(Cpp!CppHandler(System, api))
<1>1. \A op : Rust!Handles(System, api, op) <=> Cpp!Handles(System, api, op)
  BY DEF Rust!Handles, Cpp!Handles
<1>2. Rust!CreateHandler(System, api) = Cpp!CreateHandler(System, api)
  <2>1. \A fields : Rust!RequiredFieldsGiven(Entity(api.entity), fields, api)
                  <=> Cpp!RequiredFieldsGiven(Entity(api.entity), fields, api)
    BY DEF Rust!RequiredFieldsGiven, Cpp!RequiredFieldsGiven, Rust!Foundational,
           Cpp!Foundational, Rust!Timestamps, Cpp!Timestamps
  <2>2. \A entity, fields : Rust!ParentValidation(System, entity, fields)
                          = Cpp!ParentValidation(System, entity, fields)
    <3>1. \A seq, positions : Rust!Selected(seq, positions) = Cpp!Selected(seq, positions)
      BY DEF Rust!Selected, Cpp!Selected, Rust!Cardinality, Cpp!Cardinality
    <3>2. \A fields, f : Rust!RequestOrPath(fields, f) = Cpp!RequestOrPath(fields, f)
      BY DEF Rust!RequestOrPath, Cpp!RequestOrPath, Rust!Body, Cpp!Body,
             Rust!PathParameter, Cpp!PathParameter
    <3>3. \A e, key : Rust!Parent(e, key) = Cpp!Parent(e, key)
      BY DEF Rust!Parent, Cpp!Parent
    <3> TAKE entity, fields
    <3> DEFINE required == Cpp!Selected(entity.relations,
                               {i \in DOMAIN entity.relations :
                                   /\ entity.relations[i].kind = "parent"
                                   /\ ~entity.relations[i].optional
                                   /\ entity.relations[i].target \in DOMAIN System.entities})
    <3>4. Rust!ParentValidation(System, entity, fields) =
            [i \in DOMAIN required |->
                Rust!Parent(required[i].target,
                    [f \in System.entities[required[i].target].keys |->
                        Rust!RequestOrPath(fields, f)])]
      BY <3>1 DEF Rust!ParentValidation
    <3>5. Cpp!ParentValidation(System, entity, fields) =
            [i \in DOMAIN required |->
                Cpp!Parent(required[i].target,
                    [f \in System.entities[required[i].target].keys |->
                        Cpp!RequestOrPath(fields, f)])]
      BY DEF Cpp!ParentValidation
    <3> HIDE DEF required
    <3> QED BY <3>2, <3>3, <3>4, <3>5
  <2>3. \A entity, fields : Rust!CreateDocument(entity, fields) = Cpp!CreateDocument(entity, fields)
    BY DEF Rust!CreateDocument, Cpp!CreateDocument, Rust!Timestamps, Cpp!Timestamps,
           Rust!Timestamp, Cpp!Timestamp, Rust!Literal, Cpp!Literal,
           Rust!RequestOrPath, Cpp!RequestOrPath, Rust!Body, Cpp!Body,
           Rust!PathParameter, Cpp!PathParameter
  <2>4. \A entity, key, document : Rust!CreateTx(entity, key, document)
                                 = Cpp!CreateTx(entity, key, document)
    BY DEF Rust!CreateTx, Cpp!CreateTx
  <2>5. \A f : Rust!DefaultValue(f) = Cpp!DefaultValue(f)
    BY DEF Rust!DefaultValue, Cpp!DefaultValue, Rust!Literal, Cpp!Literal
  <2>6. \A entity, fields, f : Rust!CreateAnswer(entity, fields, f)
                             = Cpp!CreateAnswer(entity, fields, f)
    BY <2>5 DEF Rust!CreateAnswer, Cpp!CreateAnswer, Rust!Body, Cpp!Body,
                Rust!Literal, Cpp!Literal
  <2>7. \A shape : Rust!FieldsOf(System, shape) = Cpp!FieldsOf(System, shape)
    BY DEF Rust!FieldsOf, Cpp!FieldsOf
  <2>8. /\ \A e, decodes : Rust!Open(e, decodes) = Cpp!Open(e, decodes)
        /\ \A status, body, strict : Rust!CommitAs(status, body, strict)
                                   = Cpp!CommitAs(status, body, strict)
        /\ Rust!Raise = Cpp!Raise
    BY DEF Rust!Open, Cpp!Open, Rust!CommitAs, Cpp!CommitAs, Rust!Raise, Cpp!Raise
  <2>9. [f \in Cpp!FieldsOf(System, api.output) |->
            Rust!CreateAnswer(Entity(api.entity), Cpp!FieldsOf(System, api.input), f)]
        = [f \in Cpp!FieldsOf(System, api.output) |->
            Cpp!CreateAnswer(Entity(api.entity), Cpp!FieldsOf(System, api.input), f)]
    BY <2>6
  <2> DEFINE entity == Entity(api.entity)
             fields == Cpp!FieldsOf(System, api.input)
             document == Cpp!CreateDocument(entity, fields)
             key == [f \in entity.keys |-> document[f]]
  <2>10. Rust!CreateHandler(System, api) =
           IF ~Rust!RequiredFieldsGiven(entity, fields, api) THEN <<Rust!Raise>>
           ELSE <<Rust!Open(api.entity, fields)>>
                \o Rust!ParentValidation(System, entity, fields)
                \o Rust!CreateTx(api.entity, key, document)
                \o <<Rust!CommitAs(201, [f \in Cpp!FieldsOf(System, api.output) |->
                                           Rust!CreateAnswer(entity, fields, f)], TRUE)>>
    <3> DEFINE rustFields == Rust!FieldsOf(System, api.input)
               rustDocument == Rust!CreateDocument(Entity(api.entity), rustFields)
               rustKey == [f \in Entity(api.entity).keys |-> rustDocument[f]]
    <3>1. rustFields = fields /\ Rust!FieldsOf(System, api.output) = Cpp!FieldsOf(System, api.output)
      BY <2>7
    <3>2. rustDocument = document
      BY <3>1, <2>3
    <3>3. rustKey = key
      BY <3>2
    <3>4. Rust!CreateHandler(System, api) =
           IF ~Rust!RequiredFieldsGiven(Entity(api.entity), rustFields, api) THEN <<Rust!Raise>>
           ELSE <<Rust!Open(api.entity, rustFields)>>
                \o Rust!ParentValidation(System, Entity(api.entity), rustFields)
                \o Rust!CreateTx(api.entity, rustKey, rustDocument)
                \o <<Rust!CommitAs(201, [f \in Rust!FieldsOf(System, api.output) |->
                             Rust!CreateAnswer(Entity(api.entity), rustFields, f)], TRUE)>>
      BY DEF Rust!CreateHandler, Entity
    <3> HIDE DEF rustFields, rustDocument, rustKey, fields, document, key
    <3> QED BY <3>1, <3>2, <3>3, <3>4
  <2>11. Cpp!CreateHandler(System, api) =
           IF ~Cpp!RequiredFieldsGiven(entity, fields, api) THEN <<Cpp!Raise>>
           ELSE <<Cpp!Open(api.entity, fields)>>
                \o Cpp!ParentValidation(System, entity, fields)
                \o Cpp!CreateTx(api.entity, key, document)
                \o <<Cpp!CommitAs(201, [f \in Cpp!FieldsOf(System, api.output) |->
                                          Cpp!CreateAnswer(entity, fields, f)], TRUE)>>
    BY DEF Cpp!CreateHandler, Entity
  <2> HIDE DEF entity, fields, document, key
  <2> QED
    BY <2>1, <2>2, <2>4, <2>8, <2>9, <2>10, <2>11 DEF entity, fields
<1>3. Lenient(Rust!GetHandler(System, api)) = Lenient(Cpp!GetHandler(System, api))
  <2> DEFINE begin == << Open(api.entity, {}),
                         GetTx(api.entity, [f \in Entity(api.entity).keys |-> PathParameter(f)]) >>
             answer == [f \in FieldsOf(System, api.output) |-> Stored(f)]
             S == {begin[1], begin[2]}
  <2>1. Rust!GetHandler(System, api) = << begin[1], begin[2], CommitAs(200, answer, FALSE) >>
    BY DEF Rust!GetHandler, Rust!Open, Open, Rust!GetTx, GetTx, Rust!PathKey,
           Rust!PathParameter, PathParameter, Rust!CommitAs, CommitAs, Rust!RecordAnswer,
           Rust!FieldsOf, FieldsOf, Rust!Stored, Stored, Entity
  <2>2. Cpp!GetHandler(System, api) = << begin[1], begin[2], CommitAs(200, answer, TRUE) >>
    BY DEF Cpp!GetHandler, Cpp!Open, Open, Cpp!GetTx, GetTx, Cpp!PathKey,
           Cpp!PathParameter, PathParameter, Cpp!CommitAs, CommitAs, Cpp!RecordAnswer,
           Cpp!FieldsOf, FieldsOf, Cpp!Stored, Stored, Entity
  <2>3. /\ begin = << begin[1], begin[2] >>
        /\ begin \in Seq(S)
    OBVIOUS
  <2> HIDE DEF begin, answer, S
  <2>4. \A x : begin \o <<x>> = << begin[1], begin[2], x >>
    <3> TAKE x
    <3>1. << begin[1], begin[2] >> \o <<x>> = << begin[1], begin[2], x >>
      BY ThreeSteps
    <3> QED BY <2>3, <3>1
  <2>5. Lenient(begin \o <<CommitAs(200, answer, FALSE)>>)
        = Lenient(begin \o <<CommitAs(200, answer, TRUE)>>)
    <3>1. EndAlike(begin, 200, answer)
      BY <2>3, LenientLast
    <3> QED BY <3>1 DEF EndAlike
  <2>6. Rust!GetHandler(System, api) = begin \o <<CommitAs(200, answer, FALSE)>>
    BY <2>1, <2>4
  <2>7. Cpp!GetHandler(System, api) = begin \o <<CommitAs(200, answer, TRUE)>>
    BY <2>2, <2>4
  <2> QED BY <2>5, <2>6, <2>7
<1>4. Rust!ListHandler(System, api) = Cpp!ListHandler(System, api)
  BY DEF Rust!ListHandler, Cpp!ListHandler, Rust!HasListIndex, Cpp!HasListIndex,
         Rust!Raise, Cpp!Raise, Rust!Open, Cpp!Open, Rust!Query, Cpp!Query,
         Rust!PathParameter, Cpp!PathParameter, Rust!CommitAs, Cpp!CommitAs
<1>5. Lenient(Rust!UpdateStatusHandler(System, api))
      = Lenient(Cpp!UpdateStatusHandler(System, api))
  <2> DEFINE fields == FieldsOf(System, api.input)
             entity == Entity(api.entity)
             key == [f \in entity.keys |-> IF f \in fields THEN Body(f) ELSE PathParameter(f)]
             document == [f \in entity.fields \cup {"status", "updated_at"} |->
                            CASE f = "status"     -> Body("status")
                              [] f = "updated_at" -> Timestamp
                              [] OTHER            -> Stored(f)]
             begin == << Open(api.entity, fields), GetTx(api.entity, key) >>
             change == UpdateTx(api.entity, key, document,
                                entity.transitions \cup {<<s, s>> : s \in entity.states})
             answer == [f \in FieldsOf(System, api.output) |-> Stored(f)]
  <2>1. Rust!UpdateStatusHandler(System, api) =
          IF "status" \notin fields THEN <<Raise>>
          ELSE begin \o change \o <<CommitAs(200, answer, FALSE)>>
    BY DEF Rust!UpdateStatusHandler, Rust!Open, Open, Rust!GetTx, GetTx, Rust!UpdateTx, UpdateTx,
           Rust!RequestOrPath, Rust!Body, Body, Rust!PathParameter, PathParameter,
           Rust!CommitAs, CommitAs, Rust!RecordAnswer, Rust!FieldsOf, FieldsOf,
           Rust!Stored, Stored, Rust!Moved, Rust!Timestamp, Timestamp,
           Rust!TransitionsAllowed, Rust!Raise, Raise, Entity
  <2>2. Cpp!UpdateStatusHandler(System, api) =
          IF "status" \notin fields THEN <<Raise>>
          ELSE begin \o change \o <<CommitAs(200, answer, TRUE)>>
    BY DEF Cpp!UpdateStatusHandler, Cpp!Open, Open, Cpp!GetTx, GetTx, Cpp!UpdateTx, UpdateTx,
           Cpp!RequestOrPath, Cpp!Body, Body, Cpp!PathParameter, PathParameter,
           Cpp!CommitAs, CommitAs, Cpp!RecordAnswer, Cpp!FieldsOf, FieldsOf,
           Cpp!Stored, Stored, Cpp!Moved, Cpp!Timestamp, Timestamp,
           Cpp!TransitionsAllowed, Cpp!Raise, Raise, Entity
  <2>3. begin \o change \in Seq({begin[1], begin[2], change[1], change[2]})
    BY DEF UpdateTx
  <2> HIDE DEF begin, change, answer, fields
  <2>4. Lenient(begin \o change \o <<CommitAs(200, answer, FALSE)>>)
        = Lenient(begin \o change \o <<CommitAs(200, answer, TRUE)>>)
    <3> DEFINE first == begin \o change
               S == {begin[1], begin[2], change[1], change[2]}
    <3>1. first \in Seq(S)
      BY <2>3
    <3> HIDE DEF first, S
    <3>2. EndAlike(first, 200, answer)
      BY <3>1, LenientLast
    <3> QED BY <3>2 DEF EndAlike, first
  <2>5. CASE "status" \in fields
    BY <2>1, <2>2, <2>4, <2>5
  <2>6. CASE "status" \notin fields
    BY <2>1, <2>2, <2>6
  <2> QED BY <2>5, <2>6
<1>6. Rust!DeleteHandler(System, api) = Cpp!DeleteHandler(System, api)
  BY DEF Rust!DeleteHandler, Cpp!DeleteHandler, Rust!Open, Cpp!Open,
         Rust!PathKey, Cpp!PathKey, Rust!PathParameter, Cpp!PathParameter,
         Rust!GetTx, Cpp!GetTx, Rust!UpdateTx, Cpp!UpdateTx, Rust!Moved, Cpp!Moved,
         Rust!Literal, Cpp!Literal, Rust!Timestamp, Cpp!Timestamp, Rust!Stored, Cpp!Stored,
         Rust!TransitionsAllowed, Cpp!TransitionsAllowed, Rust!CommitAs, Cpp!CommitAs,
         Rust!NoBody, Cpp!NoBody
<1> DEFINE RustAnswer == << Rust!Respond(Rust!FieldsOf(System, api.input),
                            IF api.starts # None \/ api.enqueues # None THEN 202 ELSE 200,
                            [f \in Rust!FieldsOf(System, api.output) |-> Rust!DefaultValue(f)]) >>
           CppAnswer == << Cpp!Respond(Cpp!FieldsOf(System, api.input),
                           IF api.starts # None \/ api.enqueues # None THEN 202 ELSE 200,
                           [f \in Cpp!FieldsOf(System, api.output) |-> Cpp!DefaultValue(f)]) >>
<1>7. RustAnswer = CppAnswer
  BY DEF Rust!Respond, Cpp!Respond, Rust!FieldsOf, Cpp!FieldsOf, Rust!DefaultValue,
         Cpp!DefaultValue, Rust!Literal, Cpp!Literal
<1>8. Rust!RustHandler(System, api) =
        CASE Rust!Handles(System, api, "create")        -> Rust!CreateHandler(System, api)
          [] Rust!Handles(System, api, "get")           -> Rust!GetHandler(System, api)
          [] Rust!Handles(System, api, "list")          -> Rust!ListHandler(System, api)
          [] Rust!Handles(System, api, "update_status") -> Rust!UpdateStatusHandler(System, api)
          [] Rust!Handles(System, api, "delete")        -> Rust!DeleteHandler(System, api)
          [] OTHER -> RustAnswer
  BY DEF Rust!RustHandler
<1>9. Cpp!CppHandler(System, api) =
        CASE Cpp!Handles(System, api, "create")        -> Cpp!CreateHandler(System, api)
          [] Cpp!Handles(System, api, "get")           -> Cpp!GetHandler(System, api)
          [] Cpp!Handles(System, api, "list")          -> Cpp!ListHandler(System, api)
          [] Cpp!Handles(System, api, "update_status") -> Cpp!UpdateStatusHandler(System, api)
          [] Cpp!Handles(System, api, "delete")        -> Cpp!DeleteHandler(System, api)
          [] OTHER -> CppAnswer
  BY DEF Cpp!CppHandler
<1> HIDE DEF RustAnswer, CppAnswer
<1> QED BY <1>1, <1>2, <1>3, <1>4, <1>5, <1>6, <1>7, <1>8, <1>9

\* For every system the four generators write the same handler for every API, but
\* for what an answer does about a field its record lacks (HandlersAgree).
THEOREM CrudHandlersAgree == Spec => []HandlersAgree
<1>1. \A api : Lenient(Handler("java", api)) = Lenient(Handler("cpp", api))
  BY JavaSame DEF Handler
<1>2. \A api : Lenient(Handler("go", api)) = Lenient(Handler("cpp", api))
  BY GoSame DEF Handler
<1>3. \A api : Lenient(Handler("rust", api)) = Lenient(Handler("cpp", api))
  BY RustSame DEF Handler
<1>4. HandlersAgree
  BY <1>1, <1>2, <1>3 DEF HandlersAgree
<1> QED BY <1>4, PTL

----
(***************************************************************************)
(* The inductive invariant. It is about the C++ handlers, whose backend    *)
(* keeps the version of the first read of a key.                           *)
(***************************************************************************)

Rank == [get |-> 1, parent |-> 2, vacant |-> 3, query |-> 3, current |-> 4, put |-> 5, commit |-> 6]

Awaits(rest, op) == \E i \in 1..Len(rest) : rest[i].op = op
AwaitsParent(rest, e) == \E i \in 1..Len(rest) : rest[i].op = "parent" /\ rest[i].entity = e
Final(rest) == rest[Len(rest)]

\* What the sources of a handler of an API are.
KeySources(api, e) ==
    [f \in Entity(e).keys |->
        IF api.operation \in {"create", "update_status"} /\ f \in FieldsOf(System, api.input)
        THEN Body(f) ELSE PathParameter(f)]
StatusSource(api) ==
    IF api.operation = "update_status" THEN Body("status") ELSE Literal("Deleted")
DocumentSources(api) ==
    IF api.operation = "create"
    THEN Cpp!CreateDocument(Entity(api.entity), FieldsOf(System, api.input))
    ELSE Cpp!Moved(Entity(api.entity), StatusSource(api))

\* A step that the handler of an API can have after it opened its transaction.
Suits(api, s) ==
    /\ s.op \in DOMAIN Rank
    /\ s.op = "get" => /\ api.operation \in {"get", "update_status", "delete"}
                       /\ s.entity = api.entity /\ s.key = KeySources(api, api.entity)
    /\ s.op = "parent" => /\ api.operation = "create"
                          /\ s.entity \in ParentEntities(Entity(api.entity))
                          /\ s.key = KeySources(api, s.entity)
    /\ s.op = "vacant" => /\ api.operation = "create"
                          /\ s.entity = api.entity /\ s.key = KeySources(api, api.entity)
    /\ s.op = "query" => api.operation = "list"
    /\ s.op = "current" =>
          /\ api.operation \in {"update_status", "delete"}
          /\ s.entity = api.entity /\ s.key = KeySources(api, api.entity)
          /\ s.to = StatusSource(api)
          /\ s.allowed = Cpp!TransitionsAllowed(Entity(api.entity))
    /\ s.op = "put" =>
          /\ api.operation \in {"create", "update_status", "delete"}
          /\ s.entity = api.entity /\ s.key = KeySources(api, api.entity)
          /\ s.document = DocumentSources(api)
    /\ s.op = "commit" =>
          /\ s.status = 404 => api.operation \in {"get", "update_status", "delete"}
          /\ s.status # 404 =>
                s.status = (CASE api.operation = "create" -> 201
                              [] api.operation = "delete" -> 204
                              [] OTHER -> 200)
          /\ api.operation \in {"create", "update_status", "delete"} =>
                {f \in DOMAIN s.body : s.body[f] = Stored(f)} \subseteq
                    (IF api.operation = "update_status" /\ s.status # 404
                     THEN Entity(api.entity).fields ELSE {})

\* What is left of a handler: its steps in their order, up to the commit.
Remainder(api, rest) ==
    /\ \E S : rest \in Seq(S)
    /\ Len(rest) > 0
    /\ \A i, j \in 1..Len(rest) :
          i < j => \/ Rank[rest[i].op] < Rank[rest[j].op]
                   \/ rest[i].op = "parent" /\ rest[j].op = "parent"
    /\ Final(rest).op = "commit"
    /\ Len(rest) > 1 =>
          /\ Final(rest).status # 404
          /\ api.operation \in {"create", "update_status", "delete"} =>
                rest[Len(rest) - 1].op = "put"
    /\ Len(rest) > 2 =>
          /\ api.operation = "create" => rest[Len(rest) - 2].op = "vacant"
          /\ api.operation \in {"update_status", "delete"} => rest[Len(rest) - 2].op = "current"
    /\ \A i \in 1..Len(rest) : Suits(api, rest[i])

RecordOf(k) == [version : Nat \ {0}, document : [Entity(k[1]).fields -> Value]]

StoreInv(recs, vers) ==
    \A k \in Key :
        /\ vers[k] \in Nat
        /\ recs[k] # Absent => /\ recs[k] \in RecordOf(k)
                               /\ recs[k].version = vers[k]

\* Records are as they were, or have another version.
Forward(recs, vers, recs2, vers2) ==
    \A k \in Key : \/ recs2[k] = recs[k] /\ vers2[k] = vers[k]
                   \/ vers2[k] = vers[k] + 1

\* A transaction, and what its reads say of the store: a version that is still
\* current is that of the record, and 0 where there never was one.
TxInv(recs, vers, tx) ==
    /\ tx = [open |-> tx.open, reads |-> tx.reads, puts |-> tx.puts, erases |-> tx.erases]
    /\ tx.reads \in [Key -> Int]
    /\ tx.puts = [k \in Key |-> tx.puts[k]]
    /\ \A k \in Key :
          /\ tx.reads[k] >= O!Unread
          /\ tx.reads[k] <= vers[k]
          /\ tx.reads[k] = vers[k] /\ vers[k] > 0 => recs[k] # Absent

IsCall(call) ==
    /\ call = [api |-> call.api, request |-> call.request, rest |-> call.rest,
               seen |-> call.seen, answer |-> call.answer]
    /\ call.api \in System.apis
    /\ call.request \in Requests(call.api)

\* A call that was received, or that has no handler body with a transaction.
Fresh(call) == call.rest = Cpp!CppHandler(System, call.api)

\* What the generators and the decoding of the request have made sure of.
Given(api, request) ==
    /\ api.operation \in Operations
    /\ api.operation \in {"create", "update_status"} =>
          FieldsOf(System, api.input) \subseteq DOMAIN request.body
    /\ api.operation = "create" =>
          Entity(api.entity).fields \ Foundational \subseteq FieldsOf(System, api.input) \cup api.path
    /\ api.operation = "update_status" => "status" \in FieldsOf(System, api.input)

\* What a create has read: parents that were there, and no entity of its own key,
\* unless what it read is no longer current.
CreateReads(vers, call, tx) ==
    LET key == AskedKey(call.api.entity, call.api, call.request)
    IN  call.api.operation = "create" =>
            /\ \A p \in ParentEntities(Entity(call.api.entity)) :
                  \/ AwaitsParent(call.rest, p)
                  \/ tx.reads[AskedKey(p, call.api, call.request)] > 0
            /\ IF Awaits(call.rest, "vacant")
               THEN \A k \in Key : tx.reads[k] # 0
               ELSE /\ tx.reads[key] # O!Unread
                    /\ tx.reads[key] = vers[key] => vers[key] = 0

\* What a get, an update or a delete knows of the record it has read.
RecordSeen(recs, vers, call, tx) ==
    LET key == AskedKey(call.api.entity, call.api, call.request)
    IN  call.api.operation \in {"get", "update_status", "delete"} =>
            IF Awaits(call.rest, "get") THEN \A k \in Key : tx.reads[k] = O!Unread
            ELSE IF call.seen = Absent THEN tx.reads[key] = 0 /\ Final(call.rest).status = 404
            ELSE /\ Final(call.rest).status # 404
                 /\ call.seen \in RecordOf(key)
                 /\ tx.reads[key] = call.seen.version
                 /\ vers[key] = call.seen.version => recs[key] = call.seen

\* What an update or a delete has checked.
Checked(call) ==
    LET asked == AskedOf(call.api, call.request)
    IN  (/\ call.api.operation \in {"update_status", "delete"}
         /\ ~Awaits(call.rest, "current")
         /\ Final(call.rest).status # 404)
            => <<call.seen.document["status"], asked.status>> \in asked.allowed

\* What is staged: nothing, or what the call is to write.
StagedInv(call, tx) ==
    LET asked == AskedOf(call.api, call.request)
    IN  /\ tx.erases = {}
        /\ \A k \in Key : tx.puts[k] # Absent =>
              /\ call.api.operation \in {"create", "update_status", "delete"}
              /\ ~Awaits(call.rest, "put")
              /\ Final(call.rest).status # 404
              /\ k = asked.key
              /\ tx.puts[k] \in [Entity(k[1]).fields -> Value]
              /\ tx.puts[k]["status"] = asked.status
        /\ (/\ call.api.operation \in {"create", "update_status", "delete"}
            /\ ~Awaits(call.rest, "put")
            /\ Final(call.rest).status # 404) => tx.puts[asked.key] # Absent

UnderWay(recs, vers, call, tx) ==
    /\ Given(call.api, call.request)
    /\ Remainder(call.api, call.rest)
    /\ TxInv(recs, vers, tx)
    /\ CreateReads(vers, call, tx)
    /\ RecordSeen(recs, vers, call, tx)
    /\ Checked(call)
    /\ StagedInv(call, tx)

CallInv(recs, vers, call, tx) ==
    call.rest # <<>> => IsCall(call) /\ (Fresh(call) \/ UnderWay(recs, vers, call, tx))

\* What the collector is about to erase was in a terminal status when it was read.
BatchInv(recs, vers, tx, batch) ==
    tx.open =>
        /\ TxInv(recs, vers, tx)
        /\ \A k \in Key : tx.puts[k] = Absent
        /\ \A k \in batch \cup tx.erases :
              /\ k \in Key
              /\ k[1] = Collected
              /\ tx.reads[k] > 0
              /\ tx.reads[k] = vers[k] =>
                    recs[k].document["status"] \in Entity(Collected).terminal

CrudInv ==
    /\ language = "cpp"
    /\ StoreInv(records, versions)
    /\ calls = [c \in Client |-> calls[c]]
    /\ txs = [t \in Thread |-> txs[t]]
    /\ batches = [g \in Collector |-> batches[g]]
    /\ \A c \in Client : CallInv(records, versions, calls[c], txs[c])
    /\ \A g \in Collector : BatchInv(records, versions, txs[g], batches[g])

----
(***************************************************************************)
(* Keys, sources and what a call asks.                                     *)
(***************************************************************************)

\* The kind of entity of a key is declared, and no document or record is the marker.
LEMMA KeyFacts ==
    ASSUME NEW k \in Key
    PROVE  /\ k[1] \in DOMAIN System.entities
           /\ Absent \notin RecordOf(k)
           /\ Absent \notin [Entity(k[1]).fields -> Value]
           /\ "status" \in Entity(k[1]).fields
<1>1. PICK e \in DOMAIN System.entities : k \in {e} \X [Entity(e).keys -> Text]
  BY DEF Key
<1>2. k[1] = e
  BY <1>1
<1>3. [Entity(e).fields -> Value] \subseteq Doc
  BY DEF Doc
<1>4. RecordOf(k) \subseteq [version : Nat, document : Doc]
  BY <1>2, <1>3 DEF RecordOf
<1> QED BY <1>2, <1>3, <1>4, SystemAssumption, MarkerAssumption

\* What a handler takes a value from (the expressions of generator_cpp_descriptors.cpp).
LEMMA EvalSources ==
    ASSUME NEW call, NEW f
    PROVE  /\ Eval(call, Body(f)) = call.request.body[f]
           /\ Eval(call, PathParameter(f)) = call.request.path[f]
           /\ Eval(call, Stored(f)) = call.seen.document[f]
           /\ Eval(call, Literal(f)) = f
           /\ Eval(call, Timestamp) = "now"
<1>1. Eval(call, Body(f)) = call.request.body[f]
  BY DEF Eval, Body
<1>2. Eval(call, PathParameter(f)) = call.request.path[f]
  BY DEF Eval, PathParameter
<1>3. Eval(call, Stored(f)) = call.seen.document[f]
  BY DEF Eval, Stored
<1>4. Eval(call, Literal(f)) = f
  BY DEF Eval, Literal
<1>5. Eval(call, Timestamp) = "now"
  BY DEF Eval, Timestamp
<1> QED BY <1>1, <1>2, <1>3, <1>4, <1>5

\* A handler looks a record up under the key its call asks for.
LEMMA KeyEval ==
    ASSUME NEW call, NEW e
    PROVE  <<e, EvalAll(call, KeySources(call.api, e))>> = AskedKey(e, call.api, call.request)
<1> DEFINE sources == KeySources(call.api, e)
           given(f) == /\ call.api.operation \in {"create", "update_status"}
                       /\ f \in FieldsOf(System, call.api.input)
<1>1. EvalAll(call, sources) = [f \in Entity(e).keys |-> Eval(call, sources[f])]
  BY DEF EvalAll, KeySources
<1>2. ASSUME NEW f \in Entity(e).keys
      PROVE  Eval(call, sources[f]) = IF given(f) THEN call.request.body[f] ELSE call.request.path[f]
  <2>1. sources[f] = IF given(f) THEN Body(f) ELSE PathParameter(f)
    BY DEF KeySources
  <2> HIDE DEF given, sources
  <2> QED BY <2>1, EvalSources
<1> HIDE DEF sources
<1> QED BY <1>1, <1>2 DEF AskedKey, sources

\* A parent is an entity that is declared.
LEMMA ParentDeclared ==
    ASSUME NEW e \in DOMAIN System.entities, NEW p \in ParentEntities(Entity(e))
    PROVE  p \in DOMAIN System.entities
<1> DEFINE relations == Entity(e).relations
           Relation == [kind : STRING, target : DOMAIN System.entities, optional : BOOLEAN]
<1>1. relations \in Seq(Relation)
  BY SystemAssumption
<1>2. PICK i \in DOMAIN relations : p = relations[i].target
  BY DEF ParentEntities
<1>3. relations[i] \in Relation
  <2> HIDE DEF relations, Relation
  <2> QED BY <1>1, <1>2
<1> QED BY <1>2, <1>3

\* The keys a call asks for are keys of the store: the route names every key field
\* (generator_crud_contract.cpp), and a create has every field of its entity.
LEMMA AskedKeys ==
    ASSUME NEW api \in System.apis, NEW request \in Requests(api), Given(api, request),
           api.operation # "list"
    PROVE  /\ api.entity \in DOMAIN System.entities
           /\ AskedKey(api.entity, api, request) \in Key
           /\ AskedKey(api.entity, api, request)[1] = api.entity
           /\ api.operation = "create" =>
                 \A p \in ParentEntities(Entity(api.entity)) : AskedKey(p, api, request) \in Key
<1> DEFINE given == FieldsOf(System, api.input)
           field(f) == IF api.operation \in {"create", "update_status"} /\ f \in given
                       THEN request.body[f] ELSE request.path[f]
<1>1. api.operation # None /\ api.operation \in Operations
  BY ApiAssumption DEF Given
<1>2. api.entity \in DOMAIN System.entities /\ Entity(api.entity).keys \subseteq api.path
  BY <1>1, ApiAssumption DEF Cpp!Handles
<1>3. ASSUME NEW e \in DOMAIN System.entities,
             \A f \in Entity(e).keys :
                f \in api.path \/ (api.operation \in {"create", "update_status"} /\ f \in given)
      PROVE  AskedKey(e, api, request) \in Key
  <2>1. ASSUME NEW f \in Entity(e).keys
        PROVE  field(f) \in Text
    <3>1. f \notin Foundational
      BY SystemAssumption
    <3>2. CASE api.operation \in {"create", "update_status"} /\ f \in given
      <4>1. f \in DOMAIN request.body
        BY <3>2 DEF Given
      <4> QED BY <3>1, <3>2, <4>1, RequestAssumption
    <3>3. CASE ~(api.operation \in {"create", "update_status"} /\ f \in given)
      <4>1. f \in api.path
        BY <1>3, <3>3
      <4> QED BY <3>3, <4>1, RequestAssumption
    <3> QED BY <3>2, <3>3
  <2>2. [f \in Entity(e).keys |-> field(f)] \in [Entity(e).keys -> Text]
    BY <2>1
  <2>3. AskedKey(e, api, request) = <<e, [f \in Entity(e).keys |-> field(f)]>>
    BY DEF AskedKey
  <2> HIDE DEF field
  <2> QED BY <2>2, <2>3 DEF Key
<1>4. ASSUME api.operation = "create", NEW p \in ParentEntities(Entity(api.entity))
      PROVE  AskedKey(p, api, request) \in Key
  <2>1. p \in DOMAIN System.entities
    BY <1>2, ParentDeclared
  <2>2. Entity(p).keys \subseteq Entity(api.entity).fields
    BY <1>1, <1>4, ApiAssumption
  <2>3. Entity(p).keys \cap Foundational = {}
    BY <2>1, SystemAssumption
  <2>4. Entity(api.entity).fields \ Foundational \subseteq given \cup api.path
    BY <1>4 DEF Given
  <2> QED BY <1>3, <1>4, <2>1, <2>2, <2>3, <2>4
<1>5. AskedKey(api.entity, api, request)[1] = api.entity
  BY DEF AskedKey
<1> QED BY <1>2, <1>3, <1>4, <1>5

\* What the calls of the CRUD operations ask.
LEMMA AskedFields ==
    ASSUME NEW api, NEW request, api.operation # None, api.operation # "list"
    PROVE  LET asked == AskedOf(api, request)
           IN  /\ asked.operation = api.operation
               /\ asked.key = AskedKey(api.entity, api, request)
               /\ asked.allowed = Cpp!TransitionsAllowed(Entity(api.entity))
               /\ api.operation = "create" =>
                     /\ asked.status = Entity(api.entity).initial
                     /\ asked.parents = {AskedKey(e, api, request) :
                                            e \in ParentEntities(Entity(api.entity))}
               /\ api.operation = "delete" => asked.status = "Deleted"
               /\ api.operation = "update_status" /\ "status" \in DOMAIN request.body =>
                     asked.status = request.body["status"]
<1> DEFINE status == CASE api.operation = "create" -> Entity(api.entity).initial
                       [] api.operation = "delete" -> "Deleted"
                       [] api.operation = "update_status" /\ "status" \in DOMAIN request.body ->
                             request.body["status"]
                       [] OTHER -> None
           parents == IF api.operation = "create"
                      THEN {AskedKey(e, api, request) : e \in ParentEntities(Entity(api.entity))}
                      ELSE {}
           allowed == Entity(api.entity).transitions
                        \cup {<<s, s>> : s \in Entity(api.entity).states}
<1>1. AskedOf(api, request) = [operation |-> api.operation,
                               key       |-> AskedKey(api.entity, api, request),
                               status    |-> status,
                               parents   |-> parents,
                               allowed   |-> allowed]
  BY DEF AskedOf
<1>2. allowed = Cpp!TransitionsAllowed(Entity(api.entity))
  BY DEF Cpp!TransitionsAllowed
<1>3. api.operation = "create" => status = Entity(api.entity).initial
  OBVIOUS
<1>4. api.operation = "delete" => status = "Deleted"
  OBVIOUS
<1>5. api.operation = "update_status" /\ "status" \in DOMAIN request.body =>
        status = request.body["status"]
  OBVIOUS
<1> HIDE DEF status, allowed
<1> QED BY <1>1, <1>2, <1>3, <1>4, <1>5

----
(***************************************************************************)
(* The C++ programs.                                                       *)
(***************************************************************************)

\* Picking the elements at some positions of a sequence takes these and no others.
LEMMA SelectedAll ==
    ASSUME NEW n \in Nat, NEW positions \in SUBSET (1..n), NEW seq, NEW at
    PROVE  LET m == Cardinality(positions)
           IN  /\ m \in Nat
               /\ DOMAIN Cpp!Selected(seq, positions) = 1..m
               /\ \A i \in positions :
                     \E j \in 1..m : Cpp!Selected(seq, positions)[j] = seq[i]
               /\ at \in 1..m => Cpp!Selected(seq, positions)[at] \in {seq[i] : i \in positions}
<1>1. \A S : Cpp!Cardinality(S) = Cardinality(S)
  BY DEF Cpp!Cardinality, Cardinality
<1> DEFINE upto(i) == positions \cap 1..i
           nth(k) == CHOOSE i \in positions : Cpp!Cardinality(upto(i)) = k
           m == Cardinality(positions)
<1>0. \A i \in positions : i \in Int
  OBVIOUS
<1>2. IsFiniteSet(1..n)
  BY FS_Interval
<1>3. IsFiniteSet(positions) /\ m \in Nat
  BY <1>2, FS_Subset, FS_CardinalityType
<1>4. ASSUME NEW i \in positions
      PROVE  /\ IsFiniteSet(upto(i)) /\ Cardinality(upto(i)) \in Nat
             /\ Cardinality(upto(i)) \in 1..m
  <2>1. upto(i) \subseteq positions /\ upto(i) # {}
    BY <1>4
  <2>2. IsFiniteSet(upto(i)) /\ Cardinality(upto(i)) \in Nat /\ Cardinality(upto(i)) <= m
    BY <2>1, <1>3, FS_Subset, FS_CardinalityType
  <2>3. Cardinality(upto(i)) # 0
    BY <2>1, <2>2, FS_EmptySet
  <2> HIDE DEF upto, m
  <2> QED BY <2>2, <2>3, <1>3
<1>5. ASSUME NEW i \in positions, NEW j \in positions, i < j
      PROVE  Cardinality(upto(i)) # Cardinality(upto(j))
  <2>1. upto(i) \subseteq upto(j) /\ j \in upto(j) /\ j \notin upto(i)
    BY <1>5
  <2> QED BY <2>1, <1>4, FS_Subset
<1>6. ASSUME NEW i \in positions
      PROVE  nth(Cardinality(upto(i))) = i
  <2> DEFINE k == Cardinality(upto(i))
  <2>1. Cpp!Cardinality(upto(i)) = k
    BY <1>1
  <2>2. nth(k) \in positions /\ Cpp!Cardinality(upto(nth(k))) = k
    <3> HIDE DEF upto, k
    <3> QED BY <2>1
  <2>3. Cardinality(upto(nth(k))) = k
    BY <2>2, <1>1
  <2> HIDE DEF nth, upto, k
  <2>4. i \in Int /\ nth(k) \in Int
    BY <2>2, <1>0
  <2>5. ~(i < nth(k)) /\ ~(nth(k) < i)
    BY <2>2, <2>3, <1>5 DEF k
  <2>6. nth(k) = i
    BY <2>4, <2>5
  <2> QED BY <2>6 DEF k
<1>7. Cpp!Selected(seq, positions) = [k \in 1..m |-> seq[nth(k)]]
  <2>1. Cpp!Selected(seq, positions) = [k \in 1..Cpp!Cardinality(positions) |-> seq[nth(k)]]
    BY DEF Cpp!Selected
  <2> QED BY <2>1, <1>1
<1> HIDE DEF upto, nth, m
<1>8. ASSUME NEW i \in positions
      PROVE  \E j \in 1..m : Cpp!Selected(seq, positions)[j] = seq[i]
  BY <1>4, <1>6, <1>7
<1>9. ASSUME at \in 1..m
      PROVE  Cpp!Selected(seq, positions)[at] \in {seq[i] : i \in positions}
  <2> DEFINE rank == [i \in positions |-> Cardinality(upto(i))]
  <2>1. rank \in Injection(positions, 1..m)
    <3>1. rank \in [positions -> 1..m]
      BY <1>4
    <3>2. ASSUME NEW i1 \in positions, NEW i2 \in positions, rank[i1] = rank[i2]
          PROVE  i1 = i2
      BY <1>6, <3>2
    <3> HIDE DEF rank
    <3>3. IsInjective(rank)
      BY <3>1, <3>2 DEF IsInjective
    <3> QED BY <3>1, <3>3 DEF Injection
  <2>2. IsFiniteSet(1..m) /\ Cardinality(1..m) = m
    BY <1>3, FS_Interval
  <2>3. rank \in Surjection(positions, 1..m)
    <3>1. Cardinality(positions) = Cardinality(1..m)
      BY <2>2 DEF m
    <3> HIDE DEF rank
    <3> QED BY <2>1, <2>2, <3>1, FS_Injection
  <2>4. PICK i \in positions : rank[i] = at
    BY <1>9, <2>3 DEF Surjection
  <2>5. Cardinality(upto(i)) = at
    BY <2>4
  <2> HIDE DEF rank
  <2> QED BY <1>6, <1>7, <1>9, <2>5
<1> QED BY <1>3, <1>7, <1>8, <1>9 DEF m

\* A program that begins, has some steps, two more and a last one.
Joined(o, steps, v, p, z) == <<o>> \o steps \o <<v, p>> \o <<z>>

\* What such a program has at which position.
LEMMA LongProgram ==
    ASSUME NEW n \in Nat, NEW steps, steps = [i \in 1..n |-> steps[i]],
           NEW o, NEW v, NEW p, NEW z
    PROVE  LET program == Joined(o, steps, v, p, z)
               rest == Tail(program)
           IN  /\ program # <<>> /\ Head(program) = o
               /\ Len(rest) = n + 3
               /\ \A i \in 1..n : rest[i] = steps[i]
               /\ rest[n + 1] = v /\ rest[n + 2] = p /\ rest[n + 3] = z
<1> DEFINE S == {o, v, p, z} \cup {steps[i] : i \in 1..n}
           one == <<o>> \o steps
           two == one \o <<v, p>>
           whole == two \o <<z>>
           remaining == Tail(whole)
<1>1. steps \in Seq(S) /\ Len(steps) = n
  <2>1. steps \in [1..n -> S]
    OBVIOUS
  <2> HIDE DEF S
  <2> QED BY <2>1
<1>2. <<o>> \in Seq(S) /\ <<v, p>> \in Seq(S) /\ <<z>> \in Seq(S)
  OBVIOUS
<1> HIDE DEF S
<1>3. /\ one \in Seq(S) /\ Len(one) = n + 1 /\ one[1] = o
      /\ \A i \in 1..n : one[i + 1] = steps[i]
  <2>1. \A i \in 1..(n + 1) : one[i] = IF i <= 1 THEN <<o>>[i] ELSE steps[i - 1]
    BY <1>1, <1>2
  <2>2. one \in Seq(S) /\ Len(one) = n + 1
    BY <1>1, <1>2
  <2> HIDE DEF one
  <2>3. one[1] = o
    BY <2>1
  <2>4. ASSUME NEW i \in 1..n
        PROVE  one[i + 1] = steps[i]
    <3>1. i + 1 \in 1..(n + 1) /\ ~(i + 1 <= 1) /\ (i + 1) - 1 = i
      OBVIOUS
    <3> QED BY <2>1, <3>1
  <2> QED BY <2>2, <2>3, <2>4
<1> HIDE DEF one
<1>4. /\ two \in Seq(S) /\ Len(two) = n + 3
      /\ \A i \in 1..(n + 1) : two[i] = one[i]
      /\ two[n + 2] = v /\ two[n + 3] = p
  <2>1. \A i \in 1..(n + 3) : two[i] = IF i <= n + 1 THEN one[i] ELSE <<v, p>>[i - (n + 1)]
    BY <1>2, <1>3
  <2>2. two \in Seq(S) /\ Len(two) = n + 3
    BY <1>2, <1>3
  <2> HIDE DEF two, one
  <2>3. ASSUME NEW i \in 1..(n + 1)
        PROVE  two[i] = one[i]
    <3>1. i \in 1..(n + 3) /\ i <= n + 1
      OBVIOUS
    <3> QED BY <2>1, <3>1
  <2>4. two[n + 2] = v
    <3>1. n + 2 \in 1..(n + 3) /\ ~(n + 2 <= n + 1) /\ (n + 2) - (n + 1) = 1
      OBVIOUS
    <3> QED BY <2>1, <3>1
  <2>5. two[n + 3] = p
    <3>1. n + 3 \in 1..(n + 3) /\ ~(n + 3 <= n + 1) /\ (n + 3) - (n + 1) = 2
      OBVIOUS
    <3> QED BY <2>1, <3>1
  <2> QED BY <2>2, <2>3, <2>4, <2>5
<1> HIDE DEF two
<1>5. /\ whole \in Seq(S) /\ Len(whole) = n + 4
      /\ \A i \in 1..(n + 3) : whole[i] = two[i]
      /\ whole[n + 4] = z
  <2>1. \A i \in 1..(n + 4) : whole[i] = IF i <= n + 3 THEN two[i] ELSE <<z>>[i - (n + 3)]
    BY <1>2, <1>4
  <2>2. whole \in Seq(S) /\ Len(whole) = n + 4
    BY <1>2, <1>4
  <2> HIDE DEF whole
  <2> QED BY <2>1, <2>2
<1> HIDE DEF whole
<1>6. /\ whole # <<>> /\ Head(whole) = whole[1]
      /\ remaining \in Seq(S) /\ Len(remaining) = n + 3
      /\ \A i \in 1..(n + 3) : remaining[i] = whole[i + 1]
  BY <1>5
<1> HIDE DEF remaining
<1>7. \A i \in 1..n : remaining[i] = steps[i]
  <2> TAKE i \in 1..n
  <2>a. i \in 1..(n + 3) /\ i + 1 \in 1..(n + 3) /\ i + 1 \in 1..(n + 1)
    OBVIOUS
  <2>1. remaining[i] = two[i + 1] /\ two[i + 1] = one[i + 1]
    BY <2>a, <1>4, <1>5, <1>6
  <2> QED BY <2>1, <1>3
<1>8. remaining[n + 1] = v /\ remaining[n + 2] = p /\ remaining[n + 3] = z /\ whole[1] = o
  <2>1. /\ remaining[n + 1] = whole[n + 2] /\ remaining[n + 2] = whole[n + 3]
        /\ remaining[n + 3] = whole[n + 4]
    BY <1>6
  <2>2. whole[n + 2] = two[n + 2] /\ whole[n + 3] = two[n + 3] /\ whole[1] = two[1]
    BY <1>5
  <2>3. two[1] = one[1]
    BY <1>4
  <2> QED BY <2>1, <2>2, <2>3, <1>3, <1>4, <1>5
<1>9. whole = Joined(o, steps, v, p, z)
  BY DEF whole, two, one, Joined
<1>10. remaining = Tail(Joined(o, steps, v, p, z))
  BY <1>9 DEF remaining
<1> QED BY <1>5, <1>6, <1>7, <1>8, <1>9, <1>10

\* Such a program is a sequence.
LEMMA LongSequence ==
    ASSUME NEW n \in Nat, NEW steps, steps = [i \in 1..n |-> steps[i]],
           NEW o, NEW v, NEW p, NEW z
    PROVE  \E S : Tail(Joined(o, steps, v, p, z)) \in Seq(S)
<1> DEFINE S == {o, v, p, z} \cup {steps[i] : i \in 1..n}
           program == Joined(o, steps, v, p, z)
<1>1. steps \in [1..n -> S]
  OBVIOUS
<1>2. /\ steps \in Seq(S) /\ <<o>> \in Seq(S) /\ <<v, p>> \in Seq(S) /\ <<z>> \in Seq(S)
  <2>1. o \in S /\ v \in S /\ p \in S /\ z \in S
    OBVIOUS
  <2> HIDE DEF S
  <2> QED BY <1>1, <2>1
<1> HIDE DEF S
<1>3. program \in Seq(S)
  BY <1>2 DEF Joined
<1>4. program # <<>>
  BY LongProgram
<1> HIDE DEF program
<1>5. Tail(program) \in Seq(S)
  BY <1>3, <1>4
<1> QED BY <1>5 DEF program

\* The programs of an update and a delete.
LEMMA FiveSteps ==
    ASSUME NEW a, NEW b, NEW c, NEW d, NEW e
    PROVE  <<a, b>> \o <<c, d>> \o <<e>> = <<a, b, c, d, e>>
<1> DEFINE S == {a, b, c, d, e}
           left4 == <<a, b>> \o <<c, d>>
           last == <<e>>
           left5 == left4 \o last
<1>1. /\ <<a, b>> \in Seq(S) /\ <<c, d>> \in Seq(S) /\ <<e>> \in Seq(S)
      /\ <<a, b, c, d, e>> \in Seq(S)
  OBVIOUS
<1> HIDE DEF S
<1>2. /\ left4 \in Seq(S) /\ Len(left4) = 4
      /\ left4[1] = a /\ left4[2] = b /\ left4[3] = c /\ left4[4] = d
  BY <1>1
<1> HIDE DEF left4
<1>a. last \in Seq(S)
  BY <1>1
<1>b. Len(last) = 1 /\ last[1] = e
  OBVIOUS
<1> HIDE DEF last
<1>c. left4 \in Seq(S)
  BY <1>2
<1>d. /\ left5 \in Seq(S)
      /\ Len(left5) = Len(left4) + Len(last)
      /\ \A i \in 1..Len(left4) + Len(last) :
            left5[i] = IF i <= Len(left4) THEN left4[i] ELSE last[i - Len(left4)]
  BY <1>a, <1>c, ConcatProperties
<1> HIDE DEF left5
<1>3. left5 \in Seq(S) /\ Len(left5) = 5
  BY <1>b, <1>d, <1>2
<1>e. \A i \in 1..5 : left5[i] = IF i <= 4 THEN left4[i] ELSE last[i - 4]
  BY <1>b, <1>d, <1>2
<1>4. /\ left5[1] = left4[1] /\ left5[2] = left4[2] /\ left5[3] = left4[3]
      /\ left5[4] = left4[4] /\ left5[5] = e
  BY <1>b, <1>e
<1>5. \A i \in 1..5 : left5[i] = <<a, b, c, d, e>>[i]
  BY <1>2, <1>4
<1>6. left5 = <<a, b, c, d, e>>
  BY <1>1, <1>3, <1>5, SeqEqual
<1> QED BY <1>6 DEF left5, left4, last

\* The handler of an API that opens a transaction, and what is then ahead of it.
Opens(api, program) ==
    /\ program # <<>>
    /\ Head(program).op = "open"
    /\ api.operation \in Operations
    /\ Head(program).decodes = IF api.operation \in {"create", "update_status"}
                               THEN FieldsOf(System, api.input) ELSE {}
    /\ Remainder(api, Tail(program))
    /\ api.operation = "create" =>
          /\ Entity(api.entity).fields \ Foundational
                \subseteq FieldsOf(System, api.input) \cup api.path
          /\ Awaits(Tail(program), "vacant")
          /\ \A p \in ParentEntities(Entity(api.entity)) : AwaitsParent(Tail(program), p)
    /\ api.operation = "update_status" => "status" \in FieldsOf(System, api.input)
    /\ api.operation \in {"get", "update_status", "delete"} => Awaits(Tail(program), "get")
    /\ api.operation \in {"update_status", "delete"} => Awaits(Tail(program), "current")
    /\ api.operation \in {"create", "update_status", "delete"} => Awaits(Tail(program), "put")

\* A handler that has only its commit left.
LEMMA RemainderOf1 ==
    ASSUME NEW api, NEW s, NEW rest, rest = <<s>>, s.op = "commit", Suits(api, s)
    PROVE  /\ Remainder(api, rest)
           /\ Final(rest) = s
           /\ \A op : Awaits(rest, op) => op = "commit"
<1>1. rest \in Seq({s}) /\ Len(rest) = 1
  OBVIOUS
<1>2. rest[1] = s /\ \A i \in 1..Len(rest) : i = 1
  OBVIOUS
<1>3. Final(rest) = s
  BY <1>1, <1>2 DEF Final
<1>4. \A op : Awaits(rest, op) => op = "commit"
  BY <1>2 DEF Awaits
<1>5. \A i, j \in 1..Len(rest) : ~(i < j)
  BY <1>1
<1>6. \A i \in 1..Len(rest) : Suits(api, rest[i])
  BY <1>2
<1>7. \E S : rest \in Seq(S)
  BY <1>1
<1>8. Len(rest) > 0 /\ ~(Len(rest) > 1) /\ ~(Len(rest) > 2)
  BY <1>1
<1>9. Remainder(api, rest)
  BY <1>3, <1>5, <1>6, <1>7, <1>8 DEF Remainder
<1> QED BY <1>3, <1>4, <1>9

\* One record is read, or some are, and the transaction is committed.
LEMMA RemainderOf2 ==
    ASSUME NEW api, NEW S, NEW rest \in Seq(S), Len(rest) = 2,
           rest[1].op \in {"get", "query"}, rest[2].op = "commit", rest[2].status # 404,
           api.operation \in {"get", "list"}, Suits(api, rest[1]), Suits(api, rest[2])
    PROVE  Remainder(api, rest)
<1>1. \A i, j \in 1..Len(rest) : i < j => Rank[rest[i].op] < Rank[rest[j].op]
  <2>1. \A i, j \in 1..Len(rest) : i < j => i = 1 /\ j = 2
    OBVIOUS
  <2>2. Rank[rest[1].op] < Rank[rest[2].op]
    BY DEF Rank
  <2> QED BY <2>1, <2>2
<1>2. \A i \in 1..Len(rest) : Suits(api, rest[i])
  <2>1. \A i \in 1..Len(rest) : i = 1 \/ i = 2
    OBVIOUS
  <2> QED BY <2>1
<1> QED BY <1>1, <1>2 DEF Remainder, Final

\* A record is read, checked and written.
LEMMA RemainderOf4 ==
    ASSUME NEW api, NEW S, NEW rest \in Seq(S), Len(rest) = 4,
           rest[1].op = "get", rest[2].op = "current", rest[3].op = "put",
           rest[4].op = "commit", rest[4].status # 404,
           api.operation \in {"update_status", "delete"},
           Suits(api, rest[1]), Suits(api, rest[2]), Suits(api, rest[3]), Suits(api, rest[4])
    PROVE  /\ Remainder(api, rest)
           /\ Awaits(rest, "get") /\ Awaits(rest, "current") /\ Awaits(rest, "put")
<1>a. \A i \in 1..Len(rest) : i = 1 \/ i = 2 \/ i = 3 \/ i = 4
  OBVIOUS
<1>1. \A i, j \in 1..Len(rest) : i < j => Rank[rest[i].op] < Rank[rest[j].op]
  <2>1. /\ Rank[rest[1].op] = 1 /\ Rank[rest[2].op] = 4
        /\ Rank[rest[3].op] = 5 /\ Rank[rest[4].op] = 6
    BY DEF Rank
  <2> QED BY <1>a, <2>1
<1>2. \A i \in 1..Len(rest) : Suits(api, rest[i])
  BY <1>a
<1>3. Remainder(api, rest)
  BY <1>1, <1>2 DEF Remainder, Final
<1>4. 1 \in 1..Len(rest) /\ 2 \in 1..Len(rest) /\ 3 \in 1..Len(rest)
  OBVIOUS
<1> QED BY <1>3, <1>4 DEF Awaits

\* The handler of a get, after write_cpp_get_handler_body.
LEMMA GetOpens ==
    ASSUME NEW api, api.operation = "get"
    PROVE  Opens(api, Cpp!GetHandler(System, api))
<1> DEFINE o == Open(api.entity, {})
           g == GetTx(api.entity, KeySources(api, api.entity))
           z == CommitAs(200, [f \in FieldsOf(System, api.output) |-> Stored(f)], TRUE)
           program == <<o, g, z>>
           rest == Tail(program)
<1>1. Cpp!PathKey(Entity(api.entity)) = KeySources(api, api.entity)
  BY DEF Cpp!PathKey, KeySources, Cpp!PathParameter, PathParameter
<1>2. Cpp!GetHandler(System, api) = program
  BY <1>1 DEF Cpp!GetHandler, Cpp!Open, Open, Cpp!GetTx, GetTx, Cpp!CommitAs, CommitAs,
              Cpp!RecordAnswer, Cpp!FieldsOf, FieldsOf, Cpp!Stored, Stored, Entity
<1>3. o.op = "open" /\ o.decodes = {}
  BY DEF Open
<1>4. g.op = "get" /\ g.entity = api.entity /\ g.key = KeySources(api, api.entity)
  BY DEF GetTx
<1>5. z.op = "commit" /\ z.status = 200
  BY DEF CommitAs
<1> HIDE DEF o, g, z
<1>6. program # <<>> /\ Head(program) = o /\ rest = <<g, z>>
  OBVIOUS
<1>7. rest \in Seq({g, z}) /\ Len(rest) = 2 /\ rest[1] = g /\ rest[2] = z
  BY <1>6
<1>8. Suits(api, g)
  BY <1>4 DEF Suits, Rank
<1>9. Suits(api, z)
  BY <1>5 DEF Suits, Rank
<1> HIDE DEF program, rest
<1>10. Remainder(api, rest)
  BY <1>4, <1>5, <1>7, <1>8, <1>9, RemainderOf2
<1>11. Awaits(rest, "get")
  BY <1>4, <1>7 DEF Awaits
<1>12. Opens(api, program)
  BY <1>3, <1>6, <1>10, <1>11 DEF Opens, Operations, rest
<1> QED BY <1>2, <1>12

\* The handler of a list with an index, after write_cpp_list_handler_body.
LEMMA ListOpens ==
    ASSUME NEW api, api.operation = "list"
    PROVE  \/ Cpp!ListHandler(System, api) = <<Raise>>
           \/ Opens(api, Cpp!ListHandler(System, api))
<1> DEFINE values == [f \in {api.selector[i] : i \in DOMAIN api.selector} |-> PathParameter(f)]
           shape == System.shapes[api.output]
           o == Open(api.entity, {})
           q == Query(api.entity, values)
           z == CommitAs(200, [f \in shape.fields |->
                    IF f = shape.list THEN <<"records", f>> ELSE PathParameter(f)], TRUE)
           program == <<o, q, z>>
           rest == Tail(program)
<1>1. Cpp!ListHandler(System, api) = <<Raise>> \/ Cpp!ListHandler(System, api) = program
  BY DEF Cpp!ListHandler, Cpp!Raise, Raise, Cpp!Open, Open, Cpp!Query, Query,
         Cpp!CommitAs, CommitAs, Cpp!PathParameter, PathParameter
<1>3. o.op = "open" /\ o.decodes = {}
  BY DEF Open
<1>4. q.op = "query"
  BY DEF Query
<1>5. z.op = "commit" /\ z.status = 200
  BY DEF CommitAs
<1> HIDE DEF o, q, z
<1>6. program # <<>> /\ Head(program) = o /\ rest = <<q, z>>
  OBVIOUS
<1>7. rest \in Seq({q, z}) /\ Len(rest) = 2 /\ rest[1] = q /\ rest[2] = z
  BY <1>6
<1>8. Suits(api, q)
  BY <1>4 DEF Suits, Rank
<1>9. Suits(api, z)
  BY <1>5 DEF Suits, Rank
<1> HIDE DEF program, rest
<1>10. Remainder(api, rest)
  BY <1>4, <1>5, <1>7, <1>8, <1>9, RemainderOf2
<1>11. Opens(api, program)
  BY <1>3, <1>6, <1>10 DEF Opens, Operations, rest
<1> QED BY <1>1, <1>11

\* The handler of a status update, after write_cpp_update_status_handler_body.
LEMMA UpdateOpens ==
    ASSUME NEW api \in System.apis, api.operation = "update_status"
    PROVE  \/ Cpp!UpdateStatusHandler(System, api) = <<Raise>>
           \/ Opens(api, Cpp!UpdateStatusHandler(System, api))
<1> DEFINE fields == FieldsOf(System, api.input)
           key == KeySources(api, api.entity)
           document == Cpp!Moved(Entity(api.entity), Body("status"))
           o == Open(api.entity, fields)
           g == GetTx(api.entity, key)
           c == [op |-> "current", entity |-> api.entity, key |-> key, to |-> Body("status"),
                 allowed |-> Cpp!TransitionsAllowed(Entity(api.entity))]
           p == [op |-> "put", entity |-> api.entity, key |-> key, document |-> document]
           z == CommitAs(200, [f \in FieldsOf(System, api.output) |-> Stored(f)], TRUE)
           program == <<o, g, c, p, z>>
           rest == Tail(program)
<1>1. [f \in Entity(api.entity).keys |-> Cpp!RequestOrPath(fields, f)] = key
  BY DEF KeySources, Cpp!RequestOrPath, Cpp!Body, Body, Cpp!PathParameter, PathParameter
<1>2. document["status"] = Body("status")
  BY DEF Cpp!Moved
<1>3. Cpp!UpdateTx(api.entity, key, document, Cpp!TransitionsAllowed(Entity(api.entity))) = <<c, p>>
  <2> HIDE DEF document, key
  <2> QED BY <1>2 DEF Cpp!UpdateTx
<1>4. Cpp!UpdateStatusHandler(System, api) =
        IF "status" \notin fields THEN <<Raise>>
        ELSE <<o, g>> \o <<c, p>> \o <<z>>
  <2>1. Cpp!Body("status") = Body("status") /\ Cpp!FieldsOf(System, api.input) = fields
    BY DEF Cpp!Body, Body, Cpp!FieldsOf, FieldsOf
  <2>2. Cpp!UpdateStatusHandler(System, api) =
          IF "status" \notin Cpp!FieldsOf(System, api.input) THEN <<Cpp!Raise>>
          ELSE << Cpp!Open(api.entity, Cpp!FieldsOf(System, api.input)),
                  Cpp!GetTx(api.entity, [f \in Entity(api.entity).keys |->
                      Cpp!RequestOrPath(Cpp!FieldsOf(System, api.input), f)]) >>
               \o Cpp!UpdateTx(api.entity,
                     [f \in Entity(api.entity).keys |->
                         Cpp!RequestOrPath(Cpp!FieldsOf(System, api.input), f)],
                     Cpp!Moved(Entity(api.entity), Cpp!Body("status")),
                     Cpp!TransitionsAllowed(Entity(api.entity)))
               \o << Cpp!CommitAs(200, Cpp!RecordAnswer(System, api), TRUE) >>
    BY DEF Cpp!UpdateStatusHandler, Entity
  <2>3. Cpp!CommitAs(200, Cpp!RecordAnswer(System, api), TRUE) = z
    BY DEF Cpp!CommitAs, CommitAs, Cpp!RecordAnswer, Cpp!FieldsOf, FieldsOf, Cpp!Stored, Stored
  <2>4. Cpp!Raise = Raise /\ Cpp!Open(api.entity, fields) = o /\ Cpp!GetTx(api.entity, key) = g
    BY DEF Cpp!Raise, Raise, Cpp!Open, Open, Cpp!GetTx, GetTx
  <2> HIDE DEF fields, key, o, g, c, p, z
  <2> QED BY <1>1, <1>3, <2>1, <2>2, <2>3, <2>4
<1>5. o.op = "open" /\ o.decodes = fields
  BY DEF Open
<1>6. g.op = "get" /\ Suits(api, g)
  BY DEF GetTx, Suits, Rank
<1>7. c.op = "current" /\ Suits(api, c)
  <2> HIDE DEF key
  <2> QED BY DEF Suits, Rank, StatusSource, key
<1>8. p.op = "put" /\ Suits(api, p)
  <2> HIDE DEF key, document
  <2> QED BY DEF Suits, Rank, DocumentSources, StatusSource, key, document
<1>9. z.op = "commit" /\ z.status = 200 /\ Suits(api, z)
  <2>1. z.op = "commit" /\ z.status = 200 /\ DOMAIN z.body = FieldsOf(System, api.output)
    BY DEF CommitAs
  <2>2. FieldsOf(System, api.output) \subseteq Entity(api.entity).fields
    <3>1. api.operation # None
      BY ApiAssumption DEF Operations
    <3> QED BY <3>1, ApiAssumption
  <2> HIDE DEF z
  <2> QED BY <2>1, <2>2 DEF Suits, Rank
<1> HIDE DEF o, g, c, p, z
<1>10. program # <<>> /\ Head(program) = o /\ rest = <<g, c, p, z>>
  OBVIOUS
<1>11. /\ rest \in Seq({g, c, p, z}) /\ Len(rest) = 4
       /\ rest[1] = g /\ rest[2] = c /\ rest[3] = p /\ rest[4] = z
  BY <1>10
<1>12. <<o, g>> \o <<c, p>> \o <<z>> = program
  BY FiveSteps
<1> HIDE DEF program, rest
<1>13. /\ Remainder(api, rest)
       /\ Awaits(rest, "get") /\ Awaits(rest, "current") /\ Awaits(rest, "put")
  <2>1. z.status # 404
    BY <1>9
  <2>2. /\ rest[1].op = "get" /\ rest[2].op = "current" /\ rest[3].op = "put"
        /\ rest[4].op = "commit" /\ rest[4].status # 404
    BY <1>6, <1>7, <1>8, <1>9, <1>11, <2>1
  <2>3. Suits(api, rest[1]) /\ Suits(api, rest[2]) /\ Suits(api, rest[3]) /\ Suits(api, rest[4])
    BY <1>6, <1>7, <1>8, <1>9, <1>11
  <2>4. api.operation \in {"update_status", "delete"}
    OBVIOUS
  <2> QED BY <1>11, <2>2, <2>3, <2>4, RemainderOf4
<1>14. ASSUME "status" \in fields
       PROVE  Opens(api, program)
  <2> HIDE DEF key
  <2> QED BY <1>5, <1>10, <1>13, <1>14 DEF Opens, Operations, rest
<1> QED BY <1>4, <1>12, <1>14

\* The handler of a delete, after write_cpp_delete_handler_body.
LEMMA DeleteOpens ==
    ASSUME NEW api, api.operation = "delete"
    PROVE  Opens(api, Cpp!DeleteHandler(System, api))
<1> DEFINE key == KeySources(api, api.entity)
           document == Cpp!Moved(Entity(api.entity), Literal("Deleted"))
           o == Open(api.entity, {})
           g == GetTx(api.entity, key)
           c == [op |-> "current", entity |-> api.entity, key |-> key, to |-> Literal("Deleted"),
                 allowed |-> Cpp!TransitionsAllowed(Entity(api.entity))]
           p == [op |-> "put", entity |-> api.entity, key |-> key, document |-> document]
           z == CommitAs(204, NoBody, TRUE)
           program == <<o, g, c, p, z>>
           rest == Tail(program)
<1>1. Cpp!PathKey(Entity(api.entity)) = key
  BY DEF Cpp!PathKey, KeySources, Cpp!PathParameter, PathParameter
<1>2. document["status"] = Literal("Deleted")
  BY DEF Cpp!Moved
<1>3. Cpp!UpdateTx(api.entity, key, document, Cpp!TransitionsAllowed(Entity(api.entity))) = <<c, p>>
  <2> HIDE DEF document, key
  <2> QED BY <1>2 DEF Cpp!UpdateTx
<1>4. Cpp!DeleteHandler(System, api) = <<o, g>> \o <<c, p>> \o <<z>>
  <2>1. Cpp!Literal("Deleted") = Literal("Deleted") /\ Cpp!CommitAs(204, Cpp!NoBody, TRUE) = z
    BY DEF Cpp!Literal, Literal, Cpp!CommitAs, CommitAs, Cpp!NoBody, NoBody
  <2>2. Cpp!DeleteHandler(System, api) =
          << Cpp!Open(api.entity, {}), Cpp!GetTx(api.entity, Cpp!PathKey(Entity(api.entity))) >>
          \o Cpp!UpdateTx(api.entity, Cpp!PathKey(Entity(api.entity)),
                Cpp!Moved(Entity(api.entity), Cpp!Literal("Deleted")),
                Cpp!TransitionsAllowed(Entity(api.entity)))
          \o << Cpp!CommitAs(204, Cpp!NoBody, TRUE) >>
    BY DEF Cpp!DeleteHandler, Entity
  <2>3. Cpp!Open(api.entity, {}) = o /\ Cpp!GetTx(api.entity, key) = g
    BY DEF Cpp!Open, Open, Cpp!GetTx, GetTx
  <2> HIDE DEF key, o, g, c, p, z
  <2> QED BY <1>1, <1>3, <2>1, <2>2, <2>3
<1>5. o.op = "open" /\ o.decodes = {}
  BY DEF Open
<1>6. g.op = "get" /\ Suits(api, g)
  BY DEF GetTx, Suits, Rank
<1>7. c.op = "current" /\ Suits(api, c)
  <2> HIDE DEF key
  <2> QED BY DEF Suits, Rank, StatusSource, key
<1>8. p.op = "put" /\ Suits(api, p)
  <2> HIDE DEF key, document
  <2> QED BY DEF Suits, Rank, DocumentSources, StatusSource, key, document
<1>9. z.op = "commit" /\ z.status = 204 /\ Suits(api, z)
  <2>1. z.op = "commit" /\ z.status = 204 /\ DOMAIN z.body = {}
    BY DEF CommitAs, NoBody
  <2> HIDE DEF z
  <2> QED BY <2>1 DEF Suits, Rank
<1> HIDE DEF o, g, c, p, z
<1>10. program # <<>> /\ Head(program) = o /\ rest = <<g, c, p, z>>
  OBVIOUS
<1>11. /\ rest \in Seq({g, c, p, z}) /\ Len(rest) = 4
       /\ rest[1] = g /\ rest[2] = c /\ rest[3] = p /\ rest[4] = z
  BY <1>10
<1>12. <<o, g>> \o <<c, p>> \o <<z>> = program
  BY FiveSteps
<1> HIDE DEF program, rest
<1>13. /\ Remainder(api, rest)
       /\ Awaits(rest, "get") /\ Awaits(rest, "current") /\ Awaits(rest, "put")
  <2>1. z.status # 404
    BY <1>9
  <2>2. /\ rest[1].op = "get" /\ rest[2].op = "current" /\ rest[3].op = "put"
        /\ rest[4].op = "commit" /\ rest[4].status # 404
    BY <1>6, <1>7, <1>8, <1>9, <1>11, <2>1
  <2>3. Suits(api, rest[1]) /\ Suits(api, rest[2]) /\ Suits(api, rest[3]) /\ Suits(api, rest[4])
    BY <1>6, <1>7, <1>8, <1>9, <1>11
  <2>4. api.operation \in {"update_status", "delete"}
    OBVIOUS
  <2> QED BY <1>11, <2>2, <2>3, <2>4, RemainderOf4
<1>14. Opens(api, program)
  <2> HIDE DEF key
  <2> QED BY <1>5, <1>10, <1>13 DEF Opens, Operations, rest
<1> QED BY <1>4, <1>12, <1>14

\* The lookups of a create are of the required parents, all of them.
LEMMA ParentSteps ==
    ASSUME NEW api \in System.apis, api.operation = "create"
    PROVE  LET steps == Cpp!ParentValidation(System, Entity(api.entity),
                                             FieldsOf(System, api.input))
           IN  \E n \in Nat :
                  /\ steps = [i \in 1..n |-> steps[i]]
                  /\ \A i \in 1..n : /\ steps[i].op = "parent"
                                     /\ steps[i].entity \in ParentEntities(Entity(api.entity))
                                     /\ steps[i].key = KeySources(api, steps[i].entity)
                  /\ \A p \in ParentEntities(Entity(api.entity)) :
                        \E i \in 1..n : steps[i].entity = p
<1> DEFINE entity == Entity(api.entity)
           fields == FieldsOf(System, api.input)
           relations == entity.relations
           wanted(i) == relations[i].kind = "parent" /\ ~relations[i].optional
           positions == {i \in DOMAIN relations :
                            /\ relations[i].kind = "parent"
                            /\ ~relations[i].optional
                            /\ relations[i].target \in DOMAIN System.entities}
           required == Cpp!Selected(relations, positions)
           step(e) == Cpp!Parent(e, [f \in Entity(e).keys |-> Cpp!RequestOrPath(fields, f)])
           steps == Cpp!ParentValidation(System, entity, fields)
<1>1. api.entity \in DOMAIN System.entities
  BY ApiAssumption DEF Cpp!Handles, Operations
<1>2. relations \in Seq([kind : STRING, target : DOMAIN System.entities, optional : BOOLEAN])
  BY <1>1, SystemAssumption
<1>3. Len(relations) \in Nat /\ DOMAIN relations = 1..Len(relations)
  <2> HIDE DEF relations
  <2> QED BY <1>2
<1> DEFINE n == Cardinality(positions)
<1>4. /\ n \in Nat /\ DOMAIN required = 1..n
      /\ \A i \in positions : \E j \in 1..n : required[j] = relations[i]
      /\ \A j \in 1..n : \E i \in positions : required[j] = relations[i]
  <2>1. positions \in SUBSET (1..Len(relations))
    BY <1>3
  <2> HIDE DEF positions, relations
  <2>2. n \in Nat /\ DOMAIN required = 1..n
    BY <1>3, <2>1, SelectedAll
  <2>3. \A i \in positions : \E j \in 1..n : required[j] = relations[i]
    <3> TAKE i \in positions
    <3>1. \E j \in 1..Cardinality(positions) : Cpp!Selected(relations, positions)[j] = relations[i]
      <4> HIDE DEF n, required
      <4> QED BY <1>3, <2>1, SelectedAll
    <3> QED BY <3>1
  <2>4. \A j \in 1..n : \E i \in positions : required[j] = relations[i]
    <3> TAKE j \in 1..n
    <3>1. j \in 1..Cardinality(positions)
      OBVIOUS
    <3>2. Cpp!Selected(relations, positions)[j] \in {relations[i] : i \in positions}
      <4> HIDE DEF n, required
      <4> QED BY <1>3, <2>1, <3>1, SelectedAll
    <3> QED BY <3>2
  <2> QED BY <2>2, <2>3, <2>4
<1> HIDE DEF n
<1>5. steps = [i \in 1..n |-> step(required[i].target)]
  <2>1. steps = [i \in DOMAIN required |-> step(required[i].target)]
    BY DEF Cpp!ParentValidation, Entity
  <2> QED BY <1>4, <2>1
<1>6. \A e : step(e).op = "parent" /\ step(e).entity = e /\ step(e).key = KeySources(api, e)
  BY DEF Cpp!Parent, KeySources, Cpp!RequestOrPath, Cpp!Body, Body,
         Cpp!PathParameter, PathParameter
<1>7. ASSUME NEW p \in ParentEntities(entity)
      PROVE  \E i \in positions : relations[i].target = p
  <2>1. p \in DOMAIN System.entities
    BY <1>1, <1>7, ParentDeclared
  <2> QED BY <1>7, <2>1 DEF ParentEntities
<1> HIDE DEF positions, relations, required, step, steps, entity, fields
<1>8. /\ steps = [i \in 1..n |-> steps[i]]
      /\ \A i \in 1..n : steps[i] = step(required[i].target)
  BY <1>5
<1>a. \A i \in positions : relations[i].target \in ParentEntities(entity)
  BY DEF positions, relations, ParentEntities
<1>9. \A i \in 1..n : /\ steps[i].op = "parent"
                      /\ steps[i].entity \in ParentEntities(entity)
                      /\ steps[i].key = KeySources(api, steps[i].entity)
  BY <1>4, <1>6, <1>8, <1>a
<1>10. \A p \in ParentEntities(entity) : \E i \in 1..n : steps[i].entity = p
  BY <1>4, <1>6, <1>7, <1>8
<1> QED BY <1>4, <1>8, <1>9, <1>10 DEF steps, entity, fields

\* The handler of a create, after write_cpp_create_handler_body.
LEMMA CreateOpens ==
    ASSUME NEW api \in System.apis, api.operation = "create"
    PROVE  \/ Cpp!CreateHandler(System, api) = <<Raise>>
           \/ Opens(api, Cpp!CreateHandler(System, api))
<1> DEFINE fields == FieldsOf(System, api.input)
           key == KeySources(api, api.entity)
           document == Cpp!CreateDocument(Entity(api.entity), fields)
           answer == [f \in FieldsOf(System, api.output) |->
                        Cpp!CreateAnswer(Entity(api.entity), fields, f)]
           steps == Cpp!ParentValidation(System, Entity(api.entity), fields)
           o == Open(api.entity, fields)
           v == [op |-> "vacant", entity |-> api.entity, key |-> key]
           p == [op |-> "put", entity |-> api.entity, key |-> key, document |-> document]
           z == CommitAs(201, answer, TRUE)
           program == Joined(o, steps, v, p, z)
           rest == Tail(program)
           given == Entity(api.entity).fields \ Foundational \subseteq fields \cup api.path
<1>1. api.entity \in DOMAIN System.entities
  BY ApiAssumption DEF Cpp!Handles, Operations
<1>2. [f \in Entity(api.entity).keys |-> document[f]] = key
  <2>1. ASSUME NEW f \in Entity(api.entity).keys
        PROVE  document[f] = IF f \in fields THEN Body(f) ELSE PathParameter(f)
    <3>1. f \in Entity(api.entity).fields /\ f \notin Foundational
      BY <1>1, SystemAssumption
    <3>2. f \notin Cpp!Timestamps /\ f # "status"
      BY <3>1 DEF Foundational, Timestamps, Cpp!Timestamps
    <3>3. document[f] = Cpp!RequestOrPath(fields, f)
      BY <3>1, <3>2 DEF Cpp!CreateDocument
    <3> QED BY <3>3 DEF Cpp!RequestOrPath, Cpp!Body, Body, Cpp!PathParameter, PathParameter
  <2> HIDE DEF document, fields
  <2> QED BY <2>1 DEF KeySources, fields
<1>3. Cpp!RequiredFieldsGiven(Entity(api.entity), fields, api) <=> given
  BY DEF Cpp!RequiredFieldsGiven, Cpp!Foundational, Foundational, Cpp!Timestamps, Timestamps
<1>4. Cpp!CreateHandler(System, api) = IF ~given THEN <<Raise>> ELSE program
  <2>1. Cpp!FieldsOf(System, api.input) = fields
        /\ Cpp!FieldsOf(System, api.output) = FieldsOf(System, api.output)
    BY DEF Cpp!FieldsOf, FieldsOf
  <2>2. Cpp!CreateHandler(System, api) =
          IF ~Cpp!RequiredFieldsGiven(Entity(api.entity), Cpp!FieldsOf(System, api.input), api)
          THEN <<Cpp!Raise>>
          ELSE <<Cpp!Open(api.entity, Cpp!FieldsOf(System, api.input))>>
               \o Cpp!ParentValidation(System, Entity(api.entity), Cpp!FieldsOf(System, api.input))
               \o Cpp!CreateTx(api.entity,
                     [f \in Entity(api.entity).keys |->
                        Cpp!CreateDocument(Entity(api.entity), Cpp!FieldsOf(System, api.input))[f]],
                     Cpp!CreateDocument(Entity(api.entity), Cpp!FieldsOf(System, api.input)))
               \o <<Cpp!CommitAs(201, [f \in Cpp!FieldsOf(System, api.output) |->
                       Cpp!CreateAnswer(Entity(api.entity), Cpp!FieldsOf(System, api.input), f)],
                       TRUE)>>
    BY DEF Cpp!CreateHandler, Entity
  <2>3. Cpp!CommitAs(201, answer, TRUE) = z /\ Cpp!Open(api.entity, fields) = o
        /\ Cpp!Raise = Raise /\ Cpp!CreateTx(api.entity, key, document) = <<v, p>>
    <3> HIDE DEF answer, fields, key, document
    <3> QED BY DEF Cpp!CommitAs, CommitAs, Cpp!Open, Open, Cpp!Raise, Raise, Cpp!CreateTx
  <2>4. answer = [f \in Cpp!FieldsOf(System, api.output) |->
                       Cpp!CreateAnswer(Entity(api.entity), Cpp!FieldsOf(System, api.input), f)]
    BY <2>1
  <2>5. /\ Cpp!CreateDocument(Entity(api.entity), Cpp!FieldsOf(System, api.input)) = document
        /\ Cpp!ParentValidation(System, Entity(api.entity), Cpp!FieldsOf(System, api.input)) = steps
    BY <2>1
  <2> HIDE DEF fields, key, document, answer, steps, o, v, p, z, given
  <2> QED BY <1>2, <1>3, <2>1, <2>2, <2>3, <2>4, <2>5 DEF Joined
<1>5. o.op = "open" /\ o.decodes = fields
  BY DEF Open
<1>6. v.op = "vacant" /\ Suits(api, v)
  <2> HIDE DEF key
  <2> QED BY DEF Suits, Rank, key
<1>7. p.op = "put" /\ Suits(api, p)
  <2> HIDE DEF key, document
  <2> QED BY DEF Suits, Rank, DocumentSources, key, document
<1>8. z.op = "commit" /\ z.status = 201 /\ Suits(api, z)
  <2>1. z.op = "commit" /\ z.status = 201 /\ z.body = answer
    BY DEF CommitAs
  <2>2. \A f \in DOMAIN answer : answer[f] # Stored(f)
    BY DEF Cpp!CreateAnswer, Cpp!Body, Cpp!Literal, Cpp!DefaultValue, Stored
  <2> HIDE DEF z, answer
  <2>3. {f \in DOMAIN z.body : z.body[f] = Stored(f)} = {}
    BY <2>1, <2>2
  <2> QED BY <2>1, <2>3 DEF Suits, Rank
<1>9. PICK n \in Nat :
          /\ steps = [i \in 1..n |-> steps[i]]
          /\ \A i \in 1..n : /\ steps[i].op = "parent"
                             /\ steps[i].entity \in ParentEntities(Entity(api.entity))
                             /\ steps[i].key = KeySources(api, steps[i].entity)
          /\ \A e \in ParentEntities(Entity(api.entity)) : \E i \in 1..n : steps[i].entity = e
  BY ParentSteps
<1> HIDE DEF o, v, p, z, steps
<1>10. /\ program # <<>> /\ Head(program) = o
       /\ \E S : rest \in Seq(S)
       /\ Len(rest) = n + 3
       /\ \A i \in 1..n : rest[i] = steps[i]
       /\ rest[n + 1] = v /\ rest[n + 2] = p /\ rest[n + 3] = z
  <2>1. n \in Nat /\ steps = [i \in 1..n |-> steps[i]]
    BY <1>9
  <2>2. program # <<>> /\ Head(program) = o
    BY <2>1, LongProgram
  <2>3. \E S : rest \in Seq(S)
    BY <2>1, LongSequence
  <2>4. Len(rest) = n + 3
    BY <2>1, LongProgram
  <2>5. \A i \in 1..n : rest[i] = steps[i]
    BY <2>1, LongProgram
  <2>6. rest[n + 1] = v /\ rest[n + 2] = p /\ rest[n + 3] = z
    BY <2>1, LongProgram
  <2> HIDE DEF program, rest
  <2> QED BY <2>2, <2>3, <2>4, <2>5, <2>6
<1> HIDE DEF program, rest
<1>a. \A i \in 1..n : /\ rest[i].op = "parent"
                      /\ rest[i].entity \in ParentEntities(Entity(api.entity))
                      /\ rest[i].key = KeySources(api, rest[i].entity)
  BY <1>9, <1>10
<1>b. \A e \in ParentEntities(Entity(api.entity)) : \E i \in 1..n : rest[i].entity = e
  BY <1>9, <1>10
<1>c. /\ rest[n + 1].op = "vacant" /\ rest[n + 2].op = "put" /\ rest[n + 3].op = "commit"
      /\ rest[n + 3].status = 201
  BY <1>6, <1>7, <1>8, <1>10
<1>12. \A i \in 1..Len(rest) : i \in 1..n \/ i = n + 1 \/ i = n + 2 \/ i = n + 3
  BY <1>10
<1>13. \A i \in 1..Len(rest) : Suits(api, rest[i])
  <2>1. ASSUME NEW i \in 1..n
        PROVE  Suits(api, rest[i])
    BY <1>a, <2>1 DEF Suits, Rank
  <2> QED BY <1>6, <1>7, <1>8, <1>10, <1>12, <2>1
<1>14. \A i, j \in 1..Len(rest) : i < j => \/ Rank[rest[i].op] < Rank[rest[j].op]
                                           \/ rest[i].op = "parent" /\ rest[j].op = "parent"
  <2>1. /\ \A i \in 1..n : Rank[rest[i].op] = 2 /\ rest[i].op = "parent"
        /\ Rank[rest[n + 1].op] = 3 /\ Rank[rest[n + 2].op] = 5 /\ Rank[rest[n + 3].op] = 6
    BY <1>a, <1>c DEF Rank
  <2> TAKE i, j \in 1..Len(rest)
  <2> HAVE i < j
  <2>2. i \in Int /\ j \in Int
    BY <1>10
  <2>3. CASE i \in 1..n
    <3>1. Rank[rest[i].op] = 2 /\ rest[i].op = "parent"
      BY <2>1, <2>3
    <3>2. \/ j \in 1..n /\ rest[j].op = "parent"
          \/ Rank[rest[j].op] \in {3, 5, 6}
      BY <1>12, <2>1
    <3> QED BY <3>1, <3>2
  <2>4. CASE i = n + 1
    <3>1. j = n + 2 \/ j = n + 3
      BY <1>12, <2>2, <2>4
    <3> QED BY <2>1, <2>4, <3>1
  <2>5. CASE i = n + 2
    <3>1. j = n + 3
      BY <1>12, <2>2, <2>5
    <3> QED BY <2>1, <2>5, <3>1
  <2>6. i # n + 3
    BY <1>10, <2>2
  <2> QED BY <1>12, <2>3, <2>4, <2>5, <2>6
<1>15. Remainder(api, rest)
  <2>1. /\ Len(rest) > 0 /\ Final(rest) = rest[n + 3]
        /\ rest[Len(rest) - 1] = rest[n + 2] /\ rest[Len(rest) - 2] = rest[n + 1]
    BY <1>10 DEF Final
  <2> QED BY <1>10, <1>c, <1>13, <1>14, <2>1 DEF Remainder
<1>16. /\ Awaits(rest, "vacant") /\ Awaits(rest, "put")
       /\ \A e \in ParentEntities(Entity(api.entity)) : AwaitsParent(rest, e)
  <2>1. n + 1 \in 1..Len(rest) /\ n + 2 \in 1..Len(rest) /\ \A i \in 1..n : i \in 1..Len(rest)
    BY <1>10
  <2>2. Awaits(rest, "vacant") /\ Awaits(rest, "put")
    BY <1>c, <2>1 DEF Awaits
  <2>3. ASSUME NEW e \in ParentEntities(Entity(api.entity))
        PROVE  AwaitsParent(rest, e)
    <3>1. PICK i \in 1..n : rest[i].entity = e
      BY <1>b
    <3>2. rest[i].op = "parent" /\ i \in 1..Len(rest)
      BY <1>a, <2>1
    <3> QED BY <3>1, <3>2 DEF AwaitsParent
  <2> QED BY <2>2, <2>3
<1>17. ASSUME given
       PROVE  Opens(api, program)
  BY <1>5, <1>10, <1>15, <1>16, <1>17 DEF Opens, Operations, rest
<1> HIDE DEF given
<1> QED BY <1>4, <1>17 DEF program

\* What the C++ handler of an API is: for an operation of the application an answer
\* by default values, for the others a program that opens a transaction, if the
\* generator could write it.
LEMMA HandlerShape ==
    ASSUME NEW api \in System.apis
    PROVE  /\ api.operation = None =>
                \E status \in {200, 202} : \E body :
                   Cpp!CppHandler(System, api)
                      = <<Respond(FieldsOf(System, api.input), status, body)>>
           /\ api.operation # None =>
                \/ Cpp!CppHandler(System, api) = <<Raise>>
                \/ Opens(api, Cpp!CppHandler(System, api))
<1> DEFINE status == IF api.starts # None \/ api.enqueues # None THEN 202 ELSE 200
           body == [f \in FieldsOf(System, api.output) |-> Cpp!DefaultValue(f)]
           answer == <<Respond(FieldsOf(System, api.input), status, body)>>
<1>1. Cpp!CppHandler(System, api) =
        CASE Cpp!Handles(System, api, "create")        -> Cpp!CreateHandler(System, api)
          [] Cpp!Handles(System, api, "get")           -> Cpp!GetHandler(System, api)
          [] Cpp!Handles(System, api, "list")          -> Cpp!ListHandler(System, api)
          [] Cpp!Handles(System, api, "update_status") -> Cpp!UpdateStatusHandler(System, api)
          [] Cpp!Handles(System, api, "delete")        -> Cpp!DeleteHandler(System, api)
          [] OTHER -> answer
  BY DEF Cpp!CppHandler, Cpp!Respond, Respond, Cpp!FieldsOf, FieldsOf
<1>2. \A op : Cpp!Handles(System, api, op) => api.operation = op
  BY DEF Cpp!Handles
<1>3. CASE api.operation = None
  <2>1. \A op \in Operations : ~Cpp!Handles(System, api, op)
    BY <1>2, <1>3, ApiAssumption
  <2>2. Cpp!CppHandler(System, api) = answer
    <3> HIDE DEF answer
    <3> QED BY <1>1, <2>1 DEF Operations
  <2>3. status \in {200, 202}
    OBVIOUS
  <2> HIDE DEF status, body
  <2> QED BY <1>3, <2>2, <2>3
<1>4. CASE api.operation # None
  <2>1. api.operation \in Operations /\ Cpp!Handles(System, api, api.operation)
    BY <1>4, ApiAssumption
  <2> HIDE DEF answer
  <2>2. CASE api.operation = "create"
    <3>1. Cpp!CppHandler(System, api) = Cpp!CreateHandler(System, api)
      BY <1>1, <1>2, <2>1, <2>2
    <3> QED BY <1>4, <2>2, <3>1, CreateOpens
  <2>3. CASE api.operation = "get"
    <3>1. Cpp!CppHandler(System, api) = Cpp!GetHandler(System, api)
      BY <1>1, <1>2, <2>1, <2>3
    <3> QED BY <1>4, <2>3, <3>1, GetOpens
  <2>4. CASE api.operation = "list"
    <3>1. Cpp!CppHandler(System, api) = Cpp!ListHandler(System, api)
      BY <1>1, <1>2, <2>1, <2>4
    <3> QED BY <1>4, <2>4, <3>1, ListOpens
  <2>5. CASE api.operation = "update_status"
    <3>1. Cpp!CppHandler(System, api) = Cpp!UpdateStatusHandler(System, api)
      BY <1>1, <1>2, <2>1, <2>5
    <3> QED BY <1>4, <2>5, <3>1, UpdateOpens
  <2>6. CASE api.operation = "delete"
    <3>1. Cpp!CppHandler(System, api) = Cpp!DeleteHandler(System, api)
      BY <1>1, <1>2, <2>1, <2>6
    <3> QED BY <1>4, <2>6, <3>1, DeleteOpens
  <2> QED BY <2>1, <2>2, <2>3, <2>4, <2>5, <2>6 DEF Operations
<1> QED BY <1>3, <1>4

\* What the next step of a handler says of those behind it.
LEMMA RemainderHead ==
    ASSUME NEW api, NEW rest, Remainder(api, rest)
    PROVE  /\ rest # <<>> /\ Len(rest) \in Nat /\ Head(rest) = rest[1]
           /\ Suits(api, Head(rest)) /\ Head(rest).op \in DOMAIN Rank
           /\ Awaits(rest, Head(rest).op)
           /\ \A op \in DOMAIN Rank : Rank[op] < Rank[Head(rest).op] => ~Awaits(rest, op)
           /\ Head(rest).op = "commit" <=> Len(rest) = 1
           /\ Head(rest).op = "commit" => /\ Final(rest) = Head(rest)
                                          /\ \A op : Awaits(rest, op) => op = "commit"
           /\ Head(rest).op # "commit" =>
                 /\ Final(rest).status # 404
                 /\ api.operation \in {"create", "update_status", "delete"} => Awaits(rest, "put")
           /\ Head(rest).op = "parent" => Awaits(rest, "vacant")
           /\ Head(rest).op = "get" /\ api.operation \in {"update_status", "delete"} =>
                 Awaits(rest, "current")
<1>1. PICK S : rest \in Seq(S)
  BY DEF Remainder
<1>2. Len(rest) \in Nat /\ Len(rest) > 0 /\ rest # <<>> /\ Head(rest) = rest[1]
  BY <1>1 DEF Remainder
<1>a. \A n \in Nat : n > 0 /\ n # 1 => n > 1 /\ n - 1 \in 1..n
  OBVIOUS
<1>b. \A n \in Nat : n - 1 \in 1..n /\ n # 1 /\ n - 1 # 1 => n > 2 /\ n - 2 \in 1..n
  OBVIOUS
<1>3. 1 \in 1..Len(rest) /\ Len(rest) \in 1..Len(rest)
  BY <1>2
<1>4. Suits(api, Head(rest)) /\ Head(rest).op \in DOMAIN Rank
  BY <1>2, <1>3 DEF Remainder, Suits
<1>5. Awaits(rest, Head(rest).op)
  BY <1>2, <1>3 DEF Awaits
<1>6. \A i \in 2..Len(rest) : \/ Rank[rest[1].op] < Rank[rest[i].op]
                              \/ rest[1].op = "parent" /\ rest[i].op = "parent"
  BY <1>2, <1>3 DEF Remainder
<1>7. \A op \in DOMAIN Rank : Rank[op] \in Nat
  BY DEF Rank
<1>8. ASSUME NEW op \in DOMAIN Rank, Rank[op] < Rank[Head(rest).op], Awaits(rest, op)
      PROVE  FALSE
  <2>1. PICK i \in 1..Len(rest) : rest[i].op = op
    BY <1>8 DEF Awaits
  <2>2. i = 1 \/ i \in 2..Len(rest)
    BY <1>2
  <2> QED BY <1>2, <1>4, <1>6, <1>7, <1>8, <2>1, <2>2
<1>9. Head(rest).op = "commit" <=> Len(rest) = 1
  <2>1. ASSUME Len(rest) = 1
        PROVE  Head(rest).op = "commit"
    BY <1>2, <2>1 DEF Remainder, Final
  <2>2. ASSUME Head(rest).op = "commit", Len(rest) # 1
        PROVE  FALSE
    <3>1. Len(rest) \in 2..Len(rest)
      BY <1>2, <2>2
    <3>2. rest[Len(rest)].op = "commit"
      BY DEF Remainder, Final
    <3>3. rest[1].op = "commit"
      BY <1>2, <2>2
    <3> QED BY <1>6, <3>1, <3>2, <3>3 DEF Rank
  <2> QED BY <2>1, <2>2, Zenon
<1>10. ASSUME Head(rest).op = "commit"
       PROVE  Final(rest) = Head(rest) /\ \A op : Awaits(rest, op) => op = "commit"
  <2>1. Len(rest) = 1
    BY <1>9, <1>10, Zenon
  <2>2. \A i \in 1..Len(rest) : i = 1
    BY <2>1
  <2> QED BY <1>2, <1>10, <2>1, <2>2 DEF Final, Awaits
<1>11. ASSUME Head(rest).op # "commit"
       PROVE  /\ Final(rest).status # 404
              /\ api.operation \in {"create", "update_status", "delete"} =>
                    /\ Awaits(rest, "put")
                    /\ Len(rest) - 1 \in 1..Len(rest) /\ rest[Len(rest) - 1].op = "put"
  <2>0. Len(rest) # 1
    BY <1>9, <1>11, Zenon
  <2>1. Len(rest) > 1 /\ Len(rest) - 1 \in 1..Len(rest)
    BY <1>2, <1>a, <2>0, Zenon
  <2> QED BY <2>1 DEF Remainder, Awaits
<1>12. ASSUME Head(rest).op \notin {"commit", "put"},
              api.operation \in {"create", "update_status", "delete"}
       PROVE  Awaits(rest, IF api.operation = "create" THEN "vacant" ELSE "current")
  <2>a. Len(rest) # 1
    BY <1>9, <1>12, Zenon
  <2>b. Len(rest) - 1 \in 1..Len(rest) /\ rest[Len(rest) - 1].op = "put"
    BY <1>11, <1>12
  <2>c. Len(rest) - 1 # 1
    BY <1>2, <1>12, <2>b
  <2>1. Len(rest) > 2 /\ Len(rest) - 2 \in 1..Len(rest)
    BY <1>2, <1>b, <2>a, <2>b, <2>c, Zenon
  <2>2. rest[Len(rest) - 2].op = IF api.operation = "create" THEN "vacant" ELSE "current"
    BY <1>12, <2>1 DEF Remainder
  <2> QED BY <2>1, <2>2 DEF Awaits
<1>13. Head(rest).op = "parent" => Awaits(rest, "vacant")
  BY <1>4, <1>12 DEF Suits
<1>14. Head(rest).op = "get" /\ api.operation \in {"update_status", "delete"} =>
          Awaits(rest, "current")
  BY <1>12
<1> QED BY <1>2, <1>4, <1>5, <1>8, <1>9, <1>10, <1>11, <1>13, <1>14

\* A handler that took a step before its commit has the others left.
LEMMA RemainderTail ==
    ASSUME NEW api, NEW rest, Remainder(api, rest), Head(rest).op # "commit", NEW op, NEW e
    PROVE  /\ Remainder(api, Tail(rest))
           /\ Final(Tail(rest)) = Final(rest)
           /\ Awaits(rest, op) => Head(rest).op = op \/ Awaits(Tail(rest), op)
           /\ Awaits(Tail(rest), op) => Awaits(rest, op)
           /\ Head(rest).op # "parent" => ~Awaits(Tail(rest), Head(rest).op)
           /\ AwaitsParent(rest, e) =>
                 \/ Head(rest).op = "parent" /\ Head(rest).entity = e
                 \/ AwaitsParent(Tail(rest), e)
<1> DEFINE tail == Tail(rest)
<1>1. PICK S : rest \in Seq(S)
  BY DEF Remainder
<1>2. Len(rest) \in Nat /\ Len(rest) > 1 /\ Head(rest) = rest[1]
  <2>1. rest # <<>> /\ Len(rest) \in Nat /\ Head(rest) = rest[1] /\ Len(rest) # 1
    BY RemainderHead
  <2> QED BY <1>1, <2>1
<1>3. /\ tail \in Seq(S) /\ Len(tail) = Len(rest) - 1
      /\ \A i \in 1..Len(tail) : tail[i] = rest[i + 1]
  BY <1>1, <1>2
<1> HIDE DEF tail
<1>4. \A i \in 1..Len(rest) : i = 1 \/ (i - 1 \in 1..Len(tail) /\ (i - 1) + 1 = i)
  BY <1>2, <1>3
<1>5. \A i \in 1..Len(tail) : i + 1 \in 1..Len(rest) /\ i + 1 # 1
  BY <1>2, <1>3
<1>6. Final(tail) = Final(rest)
  <2>1. Len(tail) \in 1..Len(tail) /\ Len(tail) + 1 = Len(rest)
    BY <1>2, <1>3
  <2> QED BY <1>3, <2>1 DEF Final
<1>7. Remainder(api, tail)
  <2>1. \A i, j \in 1..Len(tail) :
           i < j => \/ Rank[tail[i].op] < Rank[tail[j].op]
                    \/ tail[i].op = "parent" /\ tail[j].op = "parent"
    <3> TAKE i, j \in 1..Len(tail)
    <3> HAVE i < j
    <3>1. i + 1 \in 1..Len(rest) /\ j + 1 \in 1..Len(rest) /\ i + 1 < j + 1
      BY <1>2, <1>3
    <3>2. \/ Rank[rest[i + 1].op] < Rank[rest[j + 1].op]
          \/ rest[i + 1].op = "parent" /\ rest[j + 1].op = "parent"
      BY <3>1 DEF Remainder
    <3>3. tail[i] = rest[i + 1] /\ tail[j] = rest[j + 1]
      BY <1>3
    <3> QED BY <3>2, <3>3
  <2>2. \A i \in 1..Len(tail) : Suits(api, tail[i])
    BY <1>3, <1>5 DEF Remainder
  <2>3. Len(tail) > 0
    BY <1>2, <1>3
  <2>4. ASSUME Len(tail) > 1
        PROVE  /\ Final(tail).status # 404
               /\ tail[Len(tail) - 1] = rest[Len(rest) - 1]
    <3>1. Len(tail) - 1 \in 1..Len(tail) /\ (Len(tail) - 1) + 1 = Len(rest) - 1
      BY <1>2, <1>3, <2>4
    <3>2. Final(rest).status # 404
      BY <1>2 DEF Remainder
    <3> QED BY <1>3, <1>6, <3>1, <3>2
  <2>5. ASSUME Len(tail) > 2
        PROVE  tail[Len(tail) - 2] = rest[Len(rest) - 2] /\ Len(rest) > 2
    <3>1. /\ Len(tail) - 2 \in 1..Len(tail) /\ (Len(tail) - 2) + 1 = Len(rest) - 2
          /\ Len(rest) > 2
      BY <1>2, <1>3, <2>5
    <3> QED BY <1>3, <3>1
  <2>6. Final(tail).op = "commit"
    BY <1>6 DEF Remainder
  <2>7. Len(tail) > 1 /\ api.operation \in {"create", "update_status", "delete"} =>
          tail[Len(tail) - 1].op = "put"
    BY <1>2, <2>4 DEF Remainder
  <2>8. Len(tail) > 2 =>
          /\ api.operation = "create" => tail[Len(tail) - 2].op = "vacant"
          /\ api.operation \in {"update_status", "delete"} => tail[Len(tail) - 2].op = "current"
    BY <2>5 DEF Remainder
  <2> QED BY <1>3, <2>1, <2>2, <2>3, <2>4, <2>6, <2>7, <2>8 DEF Remainder
<1>8. ASSUME Awaits(rest, op)
      PROVE  Head(rest).op = op \/ Awaits(tail, op)
  <2>1. PICK i \in 1..Len(rest) : rest[i].op = op
    BY <1>8 DEF Awaits
  <2>2. CASE i = 1
    BY <1>2, <2>1, <2>2
  <2>3. CASE i - 1 \in 1..Len(tail) /\ (i - 1) + 1 = i
    <3>1. tail[i - 1] = rest[i]
      BY <1>3, <2>3
    <3> QED BY <2>1, <2>3, <3>1 DEF Awaits
  <2> QED BY <1>4, <2>2, <2>3
<1>b. Awaits(tail, op) => Awaits(rest, op)
  BY <1>3, <1>5 DEF Awaits
<1>9. Head(rest).op # "parent" => ~Awaits(tail, Head(rest).op)
  <2>1. ASSUME Head(rest).op # "parent", NEW i \in 1..Len(tail), tail[i].op = Head(rest).op
        PROVE  FALSE
    <3>1. i + 1 \in 1..Len(rest) /\ 1 < i + 1 /\ 1 \in 1..Len(rest)
      BY <1>2, <1>3
    <3>2. rest[i + 1].op = rest[1].op
      BY <1>2, <1>3, <2>1
    <3>3. Rank[rest[1].op] < Rank[rest[i + 1].op]
      BY <1>2, <2>1, <3>1 DEF Remainder
    <3>4. rest[1].op \in DOMAIN Rank
      BY <1>2, RemainderHead
    <3>5. Rank[rest[1].op] \in Nat
      BY <3>4 DEF Rank
    <3> QED BY <3>2, <3>3, <3>5
  <2> QED BY <2>1 DEF Awaits
<1>10. ASSUME AwaitsParent(rest, e)
       PROVE  (Head(rest).op = "parent" /\ Head(rest).entity = e) \/ AwaitsParent(tail, e)
  <2>0. PICK i \in 1..Len(rest) : rest[i].op = "parent" /\ rest[i].entity = e
    BY <1>10 DEF AwaitsParent
  <2>1. CASE i = 1
    BY <1>2, <2>0, <2>1
  <2>2. CASE i - 1 \in 1..Len(tail) /\ (i - 1) + 1 = i
    <3>1. tail[i - 1] = rest[i]
      BY <1>3, <2>2
    <3> QED BY <2>0, <2>2, <3>1 DEF AwaitsParent
  <2> QED BY <1>4, <2>1, <2>2
<1> QED BY <1>6, <1>7, <1>8, <1>b, <1>9, <1>10 DEF tail

----
(***************************************************************************)
(* Transactions.                                                           *)
(***************************************************************************)

\* A read of records keeps the version of the first read of each (record_read of
\* transaction.hpp), and what is known of the reads.
LEMMA ReadFacts ==
    ASSUME language = "cpp", StoreInv(records, versions),
           NEW tx, TxInv(records, versions, tx), NEW ks,
           NEW after, after = Reading(tx, ks)
    PROVE  /\ TxInv(records, versions, after)
           /\ after.puts = tx.puts /\ after.erases = tx.erases
           /\ \A k \in Key :
                 after.reads[k] = IF k \in ks /\ tx.reads[k] = O!Unread
                                  THEN IF records[k] # Absent THEN versions[k] ELSE 0
                                  ELSE tx.reads[k]
<1> DEFINE reads == [k \in Key |-> IF k \in ks /\ tx.reads[k] = O!Unread
                                   THEN O!ReadVersion(records, k) ELSE tx.reads[k]]
<1>1. after = [tx EXCEPT !.reads = reads]
  BY DEF Reading, O!RecordRead
<1>2. tx = [open |-> tx.open, reads |-> tx.reads, puts |-> tx.puts, erases |-> tx.erases]
  BY DEF TxInv
<1> HIDE DEF reads
<1>3. after = [open |-> tx.open, reads |-> reads, puts |-> tx.puts, erases |-> tx.erases]
  BY <1>1, <1>2
<1>4. after.reads = reads /\ after.puts = tx.puts /\ after.erases = tx.erases
  BY <1>3
<1>5. \A k \in Key : /\ versions[k] \in Nat
                     /\ records[k] # Absent => versions[k] > 0 /\ records[k].version = versions[k]
  BY DEF StoreInv, RecordOf
<1>6. \A k \in Key :
         reads[k] = IF k \in ks /\ tx.reads[k] = O!Unread
                    THEN IF records[k] # Absent THEN versions[k] ELSE 0
                    ELSE tx.reads[k]
  BY <1>5 DEF reads, O!ReadVersion, O!Live
<1>7. \A k \in Key : /\ tx.reads[k] \in Int /\ tx.reads[k] >= O!Unread
                     /\ tx.reads[k] <= versions[k]
                     /\ tx.reads[k] = versions[k] /\ versions[k] > 0 => records[k] # Absent
  BY DEF TxInv
<1>8. \A k \in Key : /\ reads[k] \in Int /\ reads[k] >= O!Unread
                     /\ reads[k] <= versions[k]
                     /\ reads[k] = versions[k] /\ versions[k] > 0 => records[k] # Absent
  <2> TAKE k \in Key
  <2>1. CASE k \in ks /\ tx.reads[k] = O!Unread
    BY <1>5, <1>6, <2>1 DEF O!Unread
  <2>2. CASE ~(k \in ks /\ tx.reads[k] = O!Unread)
    BY <1>6, <1>7, <2>2
  <2> QED BY <2>1, <2>2
<1>9. reads \in [Key -> Int]
  BY <1>8 DEF reads
<1>10. after.puts = [k \in Key |-> after.puts[k]]
  BY <1>4 DEF TxInv
<1>11. after = [open |-> after.open, reads |-> after.reads, puts |-> after.puts, erases |-> after.erases]
  BY <1>3, <1>4
<1>12. TxInv(records, versions, after)
  BY <1>4, <1>8, <1>9, <1>10, <1>11 DEF TxInv
<1> QED BY <1>4, <1>6, <1>12

\* A get of a key of which nothing is staged, in a transaction that stages none.
LEMMA GetFacts ==
    ASSUME language = "cpp", StoreInv(records, versions),
           NEW tx, TxInv(records, versions, tx), NEW key \in Key,
           tx.puts[key] = Absent, key \notin tx.erases,
           NEW after, after = Get(tx, key)
    PROVE  /\ TxInv(records, versions, after)
           /\ after.puts = tx.puts /\ after.erases = tx.erases
           /\ \A k \in Key :
                 after.reads[k] = IF k = key /\ tx.reads[k] = O!Unread
                                  THEN IF records[k] # Absent THEN versions[k] ELSE 0
                                  ELSE tx.reads[k]
           /\ O!Visible(records, tx, key) # Absent <=> records[key] # Absent
<1>1. ~O!Staged(tx, key)
  BY DEF O!Staged, O!Putting
<1>2. after = Reading(tx, {key})
  BY <1>1 DEF Get
<1>3. O!Visible(records, tx, key) = IF records[key] # Absent THEN records[key].document ELSE Absent
  BY DEF O!Visible, O!Putting, O!Live
<1>4. records[key] # Absent => records[key].document # Absent
  <2> SUFFICES ASSUME records[key] # Absent
               PROVE  records[key].document # Absent
    OBVIOUS
  <2>1. records[key] \in RecordOf(key)
    BY DEF StoreInv
  <2>2. records[key].document \in [Entity(key[1]).fields -> Value]
    BY <2>1 DEF RecordOf
  <2> QED BY <2>2, KeyFacts
<1>5. O!Visible(records, tx, key) # Absent <=> records[key] # Absent
  BY <1>3, <1>4
<1>6. \A k : k \in {key} <=> k = key
  OBVIOUS
<1>7. /\ TxInv(records, versions, after)
      /\ after.puts = tx.puts /\ after.erases = tx.erases
      /\ \A k \in Key :
            after.reads[k] = IF k \in {key} /\ tx.reads[k] = O!Unread
                             THEN IF records[k] # Absent THEN versions[k] ELSE 0
                             ELSE tx.reads[k]
  BY <1>2, ReadFacts
<1> QED BY <1>5, <1>6, <1>7

\* A put over a key that was read.
LEMMA PutFacts ==
    ASSUME NEW tx, TxInv(records, versions, tx), NEW key \in Key, NEW document,
           language = "cpp", StoreInv(records, versions),
           tx.puts[key] = Absent, tx.erases = {}, tx.reads[key] # O!Unread,
           NEW after, after = Put(tx, key, document)
    PROVE  /\ TxInv(records, versions, after)
           /\ after.reads = tx.reads /\ after.erases = {}
           /\ \A k \in Key : after.puts[k] = IF k = key THEN document ELSE tx.puts[k]
<1> DEFINE got == Get(tx, key)
<1>1. /\ TxInv(records, versions, got)
      /\ got.puts = tx.puts /\ got.erases = {}
      /\ \A k \in Key : got.reads[k] = tx.reads[k]
  BY GetFacts
<1>2. got.reads = tx.reads
  BY <1>1 DEF TxInv
<1>3. PICK open : got = [open |-> open, reads |-> tx.reads, puts |-> tx.puts, erases |-> {}]
  BY <1>1, <1>2 DEF TxInv
<1> HIDE DEF got
<1>4. tx.puts = [k \in Key |-> tx.puts[k]]
  BY DEF TxInv
<1> DEFINE puts == [tx.puts EXCEPT ![key] = document]
<1>5. after = [got EXCEPT !.puts[key] = document, !.erases = @ \ {key}]
  BY DEF Put, got
<1>6. after = [open |-> open, reads |-> tx.reads, puts |-> puts, erases |-> {} \ {key}]
  BY <1>3, <1>5
<1>7. /\ puts = [k \in Key |-> puts[k]]
      /\ \A k \in Key : puts[k] = IF k = key THEN document ELSE tx.puts[k]
  BY <1>4
<1> HIDE DEF puts
<1>8. after.reads = tx.reads /\ after.puts = puts /\ after.erases = {}
  BY <1>6
<1>9. after = [open |-> after.open, reads |-> after.reads, puts |-> after.puts, erases |-> after.erases]
  BY <1>6
<1>10. TxInv(records, versions, after)
  BY <1>7, <1>8, <1>9 DEF TxInv
<1> QED BY <1>7, <1>8, <1>10

\* An erase of a key that was read.
LEMMA EraseFacts ==
    ASSUME NEW tx, TxInv(records, versions, tx), NEW key \in Key,
           language = "cpp", StoreInv(records, versions),
           tx.puts[key] = Absent, tx.reads[key] # O!Unread,
           NEW after, after = Erase(tx, key)
    PROVE  /\ TxInv(records, versions, after)
           /\ after.reads = tx.reads
           /\ after.erases = tx.erases \cup {key}
           /\ \A k \in Key : after.puts[k] = tx.puts[k]
<1> DEFINE got == Get(tx, key)
<1>1. /\ TxInv(records, versions, got)
      /\ got.puts = tx.puts /\ got.erases = tx.erases
      /\ got.reads = tx.reads
  <2>1. CASE O!Staged(tx, key)
    BY <2>1 DEF Get
  <2>2. CASE ~O!Staged(tx, key)
    <3>1. got = Reading(tx, {key})
      BY <2>2 DEF Get
    <3>2. /\ TxInv(records, versions, got)
          /\ got.puts = tx.puts /\ got.erases = tx.erases
          /\ \A k \in Key :
                got.reads[k] = IF k \in {key} /\ tx.reads[k] = O!Unread
                               THEN IF records[k] # Absent THEN versions[k] ELSE 0
                               ELSE tx.reads[k]
      <4> HIDE DEF got
      <4> QED BY <3>1, ReadFacts
    <3>3. \A k \in Key : got.reads[k] = tx.reads[k]
      <4> HIDE DEF got
      <4> QED BY <3>2
    <3>4. got.reads \in [Key -> Int] /\ tx.reads \in [Key -> Int]
      <4> HIDE DEF got
      <4> QED BY <3>2 DEF TxInv
    <3> HIDE DEF got
    <3> QED BY <3>2, <3>3, <3>4
  <2> QED BY <2>1, <2>2
<1>2. PICK open : got = [open |-> open, reads |-> tx.reads, puts |-> tx.puts, erases |-> tx.erases]
  <2> HIDE DEF got
  <2> QED BY <1>1 DEF TxInv
<1> HIDE DEF got
<1>3. tx.puts = [k \in Key |-> tx.puts[k]]
  BY DEF TxInv
<1> DEFINE puts == [tx.puts EXCEPT ![key] = Absent]
<1>4. after = [got EXCEPT !.puts[key] = Absent, !.erases = @ \cup {key}]
  BY DEF Erase, got
<1>5. after = [open |-> open, reads |-> tx.reads, puts |-> puts, erases |-> tx.erases \cup {key}]
  BY <1>2, <1>4
<1>6. /\ puts = [k \in Key |-> puts[k]]
      /\ \A k \in Key : puts[k] = tx.puts[k]
  BY <1>3
<1> HIDE DEF puts
<1>7. after.reads = tx.reads /\ after.puts = puts /\ after.erases = tx.erases \cup {key}
  BY <1>5
<1>8. after = [open |-> after.open, reads |-> after.reads, puts |-> after.puts, erases |-> after.erases]
  BY <1>5, <1>7
<1>9. TxInv(records, versions, after)
  BY <1>6, <1>7, <1>8 DEF TxInv
<1> QED BY <1>6, <1>7, <1>9

\* A new transaction has read and staged nothing.
LEMMA BegunFacts ==
    ASSUME StoreInv(records, versions)
    PROVE  /\ TxInv(records, versions, O!Begun)
           /\ \A k \in Key : O!Begun.reads[k] = O!Unread /\ O!Begun.puts[k] = Absent
           /\ O!Begun.erases = {}
<1> DEFINE tx == O!Begun
<1>1. tx = [O!Closed EXCEPT !.open = TRUE]
  BY DEF O!Begun
<1>2. O!Closed = [open |-> O!Closed.open, reads |-> [k \in Key |-> O!Unread],
                  puts |-> [k \in Key |-> Absent], erases |-> {}]
  BY DEF O!Closed
<1> HIDE DEF tx
<1>3. tx = [open |-> tx.open, reads |-> tx.reads, puts |-> tx.puts, erases |-> tx.erases]
  BY <1>1, <1>2
<1>4. tx.reads = [k \in Key |-> O!Unread] /\ tx.puts = [k \in Key |-> Absent] /\ tx.erases = {}
  BY <1>1, <1>2
<1>5. \A k \in Key : versions[k] \in Nat
  BY DEF StoreInv
<1>6. tx.reads \in [Key -> Int] /\ tx.puts = [k \in Key |-> tx.puts[k]]
  BY <1>4 DEF O!Unread
<1>7. \A k \in Key : /\ tx.reads[k] >= O!Unread
                     /\ tx.reads[k] <= versions[k]
                     /\ tx.reads[k] = versions[k] /\ versions[k] > 0 => records[k] # Absent
  BY <1>4, <1>5 DEF O!Unread
<1>8. TxInv(records, versions, tx)
  BY <1>3, <1>6, <1>7 DEF TxInv
<1> QED BY <1>4, <1>8 DEF tx

\* What a commit does to the store (commit() of transaction.hpp).
LEMMA CommitFacts ==
    ASSUME StoreInv(records, versions), NEW tx,
           \A k \in Key : tx.puts[k] # Absent => tx.puts[k] \in [Entity(k[1]).fields -> Value],
           NEW recs, recs = O!CommitRecords(records, versions, tx),
           NEW vers, vers = O!CommitVersions(versions, tx)
    PROVE  /\ StoreInv(recs, vers)
           /\ Forward(records, versions, recs, vers)
           /\ \A k \in Key :
                 recs[k] = IF k \in tx.erases THEN Absent
                           ELSE IF tx.puts[k] # Absent
                                THEN [version |-> versions[k] + 1, document |-> tx.puts[k]]
                           ELSE records[k]
<1>1. \A k \in Key :
         recs[k] = IF k \in tx.erases THEN Absent
                   ELSE IF tx.puts[k] # Absent
                        THEN [version |-> versions[k] + 1, document |-> tx.puts[k]]
                   ELSE records[k]
  BY DEF O!CommitRecords, O!Putting
<1>2. \A k \in Key :
         vers[k] = IF k \in tx.erases \/ tx.puts[k] # Absent THEN versions[k] + 1 ELSE versions[k]
  BY DEF O!CommitVersions, O!Staged, O!Putting
<1>3. StoreInv(recs, vers)
  <2> SUFFICES ASSUME NEW k \in Key
               PROVE  /\ vers[k] \in Nat
                      /\ recs[k] # Absent => recs[k] \in RecordOf(k) /\ recs[k].version = vers[k]
    BY DEF StoreInv
  <2>1. versions[k] \in Nat /\ (records[k] # Absent => /\ records[k] \in RecordOf(k)
                                                       /\ records[k].version = versions[k])
    BY DEF StoreInv
  <2>2. CASE k \in tx.erases
    <3>1. recs[k] = Absent /\ vers[k] = versions[k] + 1
      BY <1>1, <1>2, <2>2
    <3> QED BY <2>1, <3>1
  <2>3. CASE k \notin tx.erases /\ tx.puts[k] # Absent
    <3>1. recs[k] = [version |-> versions[k] + 1, document |-> tx.puts[k]]
      BY <1>1, <2>3
    <3>2. vers[k] = versions[k] + 1 /\ versions[k] + 1 \in Nat \ {0}
      BY <1>2, <2>1, <2>3
    <3>3. tx.puts[k] \in [Entity(k[1]).fields -> Value]
      BY <2>3
    <3> QED BY <3>1, <3>2, <3>3 DEF RecordOf
  <2>4. CASE k \notin tx.erases /\ ~(tx.puts[k] # Absent)
    BY <1>1, <1>2, <2>1, <2>4
  <2> QED BY <2>2, <2>3, <2>4
<1>4. Forward(records, versions, recs, vers)
  BY <1>1, <1>2 DEF Forward
<1> QED BY <1>1, <1>3, <1>4

\* What was read and is still current when others have committed is unchanged.
LEMMA ForwardReads ==
    ASSUME NEW recs, NEW vers, NEW recs2, NEW vers2,
           StoreInv(recs, vers), Forward(recs, vers, recs2, vers2),
           NEW tx, TxInv(recs, vers, tx)
    PROVE  /\ TxInv(recs2, vers2, tx)
           /\ \A k \in Key : tx.reads[k] = vers2[k] => vers2[k] = vers[k] /\ recs2[k] = recs[k]
<1>1. \A k \in Key : /\ vers[k] \in Nat /\ tx.reads[k] \in Int /\ tx.reads[k] >= O!Unread
                     /\ tx.reads[k] <= vers[k]
                     /\ tx.reads[k] = vers[k] /\ vers[k] > 0 => recs[k] # Absent
  BY DEF StoreInv, TxInv
<1>2. \A k \in Key : (recs2[k] = recs[k] /\ vers2[k] = vers[k]) \/ vers2[k] = vers[k] + 1
  BY DEF Forward
<1>3. \A k \in Key : tx.reads[k] = vers2[k] => vers2[k] = vers[k] /\ recs2[k] = recs[k]
  BY <1>1, <1>2
<1>4. \A k \in Key : /\ tx.reads[k] >= O!Unread
                     /\ tx.reads[k] <= vers2[k]
                     /\ tx.reads[k] = vers2[k] /\ vers2[k] > 0 => recs2[k] # Absent
  BY <1>1, <1>2
<1> QED BY <1>3, <1>4 DEF TxInv

\* Commits of others leave what is known of a call.
LEMMA ForwardCall ==
    ASSUME NEW recs, NEW vers, NEW recs2, NEW vers2,
           StoreInv(recs, vers), Forward(recs, vers, recs2, vers2),
           NEW call, NEW tx, CallInv(recs, vers, call, tx)
    PROVE  CallInv(recs2, vers2, call, tx)
<1> SUFFICES ASSUME call.rest # <<>>, ~Fresh(call)
             PROVE  UnderWay(recs2, vers2, call, tx)
  BY DEF CallInv
<1>1. IsCall(call) /\ UnderWay(recs, vers, call, tx)
  BY DEF CallInv
<1> DEFINE api == call.api
           key == AskedKey(api.entity, api, call.request)
<1>2. api \in System.apis /\ call.request \in Requests(api) /\ Given(api, call.request)
  BY <1>1 DEF IsCall, UnderWay
<1>3. api.operation # "list" => key \in Key
  BY <1>2, AskedKeys
<1>4. TxInv(recs, vers, tx)
  BY <1>1 DEF UnderWay
<1>5. /\ TxInv(recs2, vers2, tx)
      /\ \A k \in Key : tx.reads[k] = vers2[k] => vers2[k] = vers[k] /\ recs2[k] = recs[k]
  BY <1>4, ForwardReads
<1> HIDE DEF key
<1>6. CreateReads(vers2, call, tx)
  <2>1. CreateReads(vers, call, tx)
    BY <1>1 DEF UnderWay
  <2> SUFFICES ASSUME api.operation = "create"
               PROVE  CreateReads(vers2, call, tx)
    BY DEF CreateReads
  <2>2. key \in Key
    BY <1>3
  <2>3. tx.reads[key] = vers2[key] => vers2[key] = vers[key]
    BY <1>5, <2>2
  <2> QED BY <2>1, <2>3 DEF CreateReads, key
<1>7. RecordSeen(recs2, vers2, call, tx)
  <2>1. RecordSeen(recs, vers, call, tx)
    BY <1>1 DEF UnderWay
  <2> SUFFICES ASSUME api.operation \in {"get", "update_status", "delete"}
               PROVE  RecordSeen(recs2, vers2, call, tx)
    BY DEF RecordSeen
  <2>2. key \in Key
    BY <1>3
  <2>3. tx.reads[key] = vers2[key] => vers2[key] = vers[key] /\ recs2[key] = recs[key]
    BY <1>5, <2>2
  <2> QED BY <2>1, <2>3 DEF RecordSeen, key
<1> QED BY <1>1, <1>5, <1>6, <1>7 DEF UnderWay

\* Commits of others leave what is known of a collection.
LEMMA ForwardBatch ==
    ASSUME NEW recs, NEW vers, NEW recs2, NEW vers2,
           StoreInv(recs, vers), Forward(recs, vers, recs2, vers2),
           NEW tx, NEW batch, BatchInv(recs, vers, tx, batch)
    PROVE  BatchInv(recs2, vers2, tx, batch)
<1> SUFFICES ASSUME tx.open
             PROVE  BatchInv(recs2, vers2, tx, batch)
  BY DEF BatchInv
<1>1. TxInv(recs, vers, tx)
  BY DEF BatchInv
<1>2. /\ TxInv(recs2, vers2, tx)
      /\ \A k \in Key : tx.reads[k] = vers2[k] => vers2[k] = vers[k] /\ recs2[k] = recs[k]
  BY <1>1, ForwardReads
<1> QED BY <1>2 DEF BatchInv

----
(***************************************************************************)
(* The steps of a handler under way.                                       *)
(***************************************************************************)

\* The status an update or a delete asks for is the one its handler checks.
LEMMA StatusEval ==
    ASSUME NEW call, Given(call.api, call.request),
           call.api.operation \in {"update_status", "delete"}
    PROVE  Eval(call, StatusSource(call.api)) = AskedOf(call.api, call.request).status
<1>1. call.api.operation # None
  BY ApiAssumption DEF Operations
<1>2. CASE call.api.operation = "update_status"
  <2>1. "status" \in DOMAIN call.request.body
    BY <1>2 DEF Given
  <2>2. StatusSource(call.api) = Body("status")
    BY <1>2 DEF StatusSource
  <2> QED BY <1>1, <1>2, <2>1, <2>2, EvalSources, AskedFields
<1>3. CASE call.api.operation = "delete"
  <2>1. StatusSource(call.api) = Literal("Deleted")
    BY <1>3 DEF StatusSource
  <2> QED BY <1>1, <1>3, <2>1, EvalSources, AskedFields
<1> QED BY <1>2, <1>3

\* What is allowed leads to a status of the entity.
LEMMA AllowedStates ==
    ASSUME NEW e \in DOMAIN System.entities, NEW from, NEW to,
           <<from, to>> \in Cpp!TransitionsAllowed(Entity(e))
    PROVE  /\ to \in Value
           /\ from # to => <<from, to>> \in Entity(e).transitions
<1>1. <<from, to>> \in Entity(e).transitions \/ \E s \in Entity(e).states : <<from, to>> = <<s, s>>
  BY DEF Cpp!TransitionsAllowed
<1>2. Entity(e).transitions \subseteq Entity(e).states \X Entity(e).states
  BY SystemAssumption
<1>3. to \in Entity(e).states
  <2>1. CASE <<from, to>> \in Entity(e).transitions
    BY <1>2, <2>1
  <2>2. CASE \E s \in Entity(e).states : <<from, to>> = <<s, s>>
    BY <2>2
  <2> QED BY <1>1, <2>1, <2>2
<1>4. from # to => <<from, to>> \in Entity(e).transitions
  BY <1>1
<1> QED BY <1>3, <1>4 DEF Value

\* What a create, an update or a delete writes is a document of the entity, in the
\* status the call asks for.
LEMMA DocumentEval ==
    ASSUME NEW call, IsCall(call), Given(call.api, call.request),
           call.api.operation \in {"create", "update_status", "delete"},
           call.api.operation \in {"update_status", "delete"} =>
              /\ call.seen.document \in [Entity(call.api.entity).fields -> Value]
              /\ <<call.seen.document["status"], AskedOf(call.api, call.request).status>>
                    \in AskedOf(call.api, call.request).allowed
    PROVE  LET document == EvalAll(call, DocumentSources(call.api))
           IN  /\ document \in [Entity(call.api.entity).fields -> Value]
               /\ document["status"] = AskedOf(call.api, call.request).status
<1> DEFINE api == call.api
           request == call.request
           entity == Entity(api.entity)
           asked == AskedOf(api, request)
           sources == DocumentSources(api)
           document == EvalAll(call, sources)
<1>1. /\ api \in System.apis /\ request \in Requests(api)
      /\ api.operation # None /\ api.operation # "list"
  BY ApiAssumption DEF IsCall, Operations
<1>2. api.entity \in DOMAIN System.entities
  BY <1>1, AskedKeys
<1>3. {"status", "updated_at"} \subseteq entity.fields /\ entity.initial \in entity.states
      /\ None \notin entity.states
  BY <1>2, SystemAssumption
<1>4. "now" \in Value /\ Text \subseteq Value /\ entity.states \subseteq Value
  BY <1>2 DEF Value
<1>5. document = [f \in DOMAIN sources |-> Eval(call, sources[f])]
  BY DEF EvalAll
<1>6. CASE api.operation = "create"
  <2> DEFINE fields == FieldsOf(System, api.input)
  <2>1. sources = Cpp!CreateDocument(entity, fields)
    BY <1>6 DEF DocumentSources
  <2>2. DOMAIN sources = entity.fields
    BY <2>1 DEF Cpp!CreateDocument
  <2>3. sources["status"] = Literal(entity.initial)
    BY <1>3, <2>1 DEF Cpp!CreateDocument, Cpp!Timestamps, Cpp!Literal, Literal
  <2>4. \A f \in entity.fields \cap Timestamps : sources[f] = Timestamp
    BY <2>1 DEF Cpp!CreateDocument, Cpp!Timestamps, Timestamps, Cpp!Timestamp, Timestamp
  <2>5. \A f \in entity.fields \ Foundational :
            sources[f] = IF f \in fields THEN Body(f) ELSE PathParameter(f)
    BY <2>1 DEF Cpp!CreateDocument, Cpp!Timestamps, Timestamps, Foundational, Cpp!RequestOrPath,
                Cpp!Body, Body, Cpp!PathParameter, PathParameter
  <2> HIDE DEF sources
  <2>6. Eval(call, sources["status"]) = asked.status
    BY <1>1, <1>6, <2>3, EvalSources, AskedFields
  <2>7. asked.status \in Value
    BY <1>1, <1>3, <1>4, <1>6, AskedFields
  <2>8. ASSUME NEW f \in entity.fields
        PROVE  Eval(call, sources[f]) \in Value
    <3>1. CASE f = "status"
      BY <2>6, <2>7, <3>1
    <3>2. CASE f \in Timestamps
      <4>1. sources[f] = Timestamp
        BY <2>4, <3>2
      <4> QED BY <1>4, <4>1, EvalSources
    <3>3. CASE f \notin Foundational /\ f \in fields
      <4>1. sources[f] = Body(f)
        BY <2>5, <3>3
      <4>2. f \in DOMAIN request.body
        BY <1>6, <3>3 DEF Given
      <4>3. request.body[f] \in Text
        BY <1>1, <3>3, <4>2, RequestAssumption
      <4> QED BY <1>4, <4>1, <4>3, EvalSources
    <3>4. CASE f \notin Foundational /\ f \notin fields
      <4>1. sources[f] = PathParameter(f)
        BY <2>5, <3>4
      <4>2. f \in api.path
        BY <1>6, <3>4 DEF Given
      <4>3. request.path[f] \in Text
        BY <1>1, <4>2, RequestAssumption
      <4> QED BY <1>4, <4>1, <4>3, EvalSources
    <3> QED BY <3>1, <3>2, <3>3, <3>4 DEF Foundational
  <2> HIDE DEF document, entity, asked
  <2> QED BY <1>3, <1>5, <2>2, <2>6, <2>8 DEF document, entity, asked, sources
<1>7. CASE api.operation \in {"update_status", "delete"}
  <2>1. sources = Cpp!Moved(entity, StatusSource(api))
    BY <1>7 DEF DocumentSources
  <2>2. DOMAIN sources = entity.fields
    BY <1>3, <2>1 DEF Cpp!Moved
  <2>3. sources["status"] = StatusSource(api)
    BY <2>1 DEF Cpp!Moved
  <2>4. sources["updated_at"] = Timestamp
    BY <2>1 DEF Cpp!Moved, Cpp!Timestamp, Timestamp
  <2>5. \A f \in entity.fields \ {"status", "updated_at"} : sources[f] = Stored(f)
    BY <2>1 DEF Cpp!Moved, Cpp!Stored, Stored
  <2> HIDE DEF sources
  <2>6. Eval(call, sources["status"]) = asked.status
    BY <1>7, <2>3, StatusEval
  <2>7. asked.status \in Value
    <3>1. asked.allowed = Cpp!TransitionsAllowed(Entity(api.entity))
      BY <1>1, AskedFields
    <3>2. <<call.seen.document["status"], asked.status>> \in Cpp!TransitionsAllowed(Entity(api.entity))
      BY <1>7, <3>1
    <3> HIDE DEF asked
    <3> QED BY <1>2, <3>2, AllowedStates
  <2>8. ASSUME NEW f \in entity.fields
        PROVE  Eval(call, sources[f]) \in Value
    <3>1. CASE f = "status"
      BY <2>6, <2>7, <3>1
    <3>2. CASE f = "updated_at"
      BY <1>4, <2>4, <3>2, EvalSources
    <3>3. CASE f \notin {"status", "updated_at"}
      <4>1. sources[f] = Stored(f)
        BY <2>5, <3>3
      <4>2. call.seen.document[f] \in Value
        BY <1>7
      <4> QED BY <4>1, <4>2, EvalSources
    <3> QED BY <3>1, <3>2, <3>3
  <2> HIDE DEF document, entity, asked
  <2> QED BY <1>3, <1>5, <2>2, <2>6, <2>8 DEF document, entity, asked, sources
<1> QED BY <1>6, <1>7

\* The key a step takes is a key of the store, the one its call asks for or that of
\* a parent.
LEMMA StepKeys ==
    ASSUME NEW call, IsCall(call), Given(call.api, call.request), NEW step,
           Suits(call.api, step),
           NEW key, key = <<step.entity, EvalAll(call, step.key)>>
    PROVE  /\ step.op = "parent" =>
                 key = AskedKey(step.entity, call.api, call.request) /\ key \in Key
           /\ step.op \in {"get", "vacant", "current", "put"} =>
                 /\ key = AskedKey(call.api.entity, call.api, call.request) /\ key \in Key
                 /\ key[1] = call.api.entity
<1> DEFINE api == call.api
<1>1. api \in System.apis /\ call.request \in Requests(api)
  BY DEF IsCall
<1>2. step.op \in {"parent", "get", "vacant", "current", "put"} =>
        /\ step.key = KeySources(api, step.entity) /\ api.operation # "list"
        /\ step.op # "parent" => step.entity = api.entity
        /\ step.op = "parent" => /\ api.operation = "create"
                                 /\ step.entity \in ParentEntities(Entity(api.entity))
  BY DEF Suits
<1>3. step.op \in {"parent", "get", "vacant", "current", "put"} =>
        key = AskedKey(step.entity, api, call.request)
  BY <1>2, KeyEval
<1>4. step.op = "parent" => key \in Key
  BY <1>1, <1>2, <1>3, AskedKeys
<1>5. step.op \in {"get", "vacant", "current", "put"} => key \in Key /\ key[1] = api.entity
  BY <1>1, <1>2, <1>3, AskedKeys
<1> QED BY <1>2, <1>3, <1>4, <1>5

\* A call after a step of its handler.
LEMMA Advanced ==
    ASSUME NEW call, IsCall(call), NEW next, next = [call EXCEPT !.rest = Tail(@)]
    PROVE  /\ IsCall(next)
           /\ next.api = call.api /\ next.request = call.request
           /\ next.seen = call.seen /\ next.answer = call.answer
           /\ next.rest = Tail(call.rest)
<1>1. call = [api |-> call.api, request |-> call.request, rest |-> call.rest,
              seen |-> call.seen, answer |-> call.answer]
  BY DEF IsCall
<1>2. next = [api |-> call.api, request |-> call.request, rest |-> Tail(call.rest),
              seen |-> call.seen, answer |-> call.answer]
  BY <1>1
<1> QED BY <1>2 DEF IsCall

\* What is ahead of a call after a step of its handler.
LEMMA Proceeds ==
    ASSUME NEW call, IsCall(call), Remainder(call.api, call.rest), Head(call.rest).op # "commit",
           NEW next, next = [call EXCEPT !.rest = Tail(@)]
    PROVE  /\ Remainder(call.api, next.rest)
           /\ Final(next.rest) = Final(call.rest)
<1>1. next.rest = Tail(call.rest)
  BY Advanced
<1>2. Remainder(call.api, Tail(call.rest))
  BY RemainderTail
<1>3. Final(Tail(call.rest)) = Final(call.rest)
  BY RemainderTail
<1> QED BY <1>1, <1>2, <1>3

\* Of the operations it awaits then no others, and all but the one of the step.
AwaitsNext(rest, tail, op) ==
    /\ Awaits(rest, op) => Head(rest).op = op \/ Awaits(tail, op)
    /\ Awaits(tail, op) => Awaits(rest, op)
    /\ Head(rest).op # "parent" => ~Awaits(tail, Head(rest).op)

\* A step that goes on awaits what is left of the program.
LEMMA ProceedsAwaiting ==
    ASSUME NEW call, IsCall(call), Remainder(call.api, call.rest), Head(call.rest).op # "commit",
           NEW next, next = [call EXCEPT !.rest = Tail(@)], NEW op
    PROVE  AwaitsNext(call.rest, next.rest, op)
<1>1. next.rest = Tail(call.rest)
  BY Advanced
<1>2. Awaits(call.rest, op) => Head(call.rest).op = op \/ Awaits(Tail(call.rest), op)
  BY RemainderTail
<1>3. Awaits(Tail(call.rest), op) => Awaits(call.rest, op)
  BY RemainderTail
<1>4. Head(call.rest).op # "parent" => ~Awaits(Tail(call.rest), Head(call.rest).op)
  BY RemainderTail
<1> QED BY <1>1, <1>2, <1>3, <1>4 DEF AwaitsNext

\* The parents it has not looked up yet are those but the one of the step.
LEMMA ProceedsParents ==
    ASSUME NEW call, IsCall(call), Remainder(call.api, call.rest), Head(call.rest).op # "commit",
           NEW next, next = [call EXCEPT !.rest = Tail(@)], NEW e
    PROVE  AwaitsParent(call.rest, e) =>
               \/ Head(call.rest).op = "parent" /\ Head(call.rest).entity = e
               \/ AwaitsParent(next.rest, e)
<1>1. next.rest = Tail(call.rest)
  BY Advanced
<1>2. AwaitsParent(call.rest, e) =>
        \/ Head(call.rest).op = "parent" /\ Head(call.rest).entity = e
        \/ AwaitsParent(Tail(call.rest), e)
  BY RemainderTail
<1> QED BY <1>1, <1>2

\* Nothing is staged while a write is ahead, or there is none.
LEMMA NothingStaged ==
    ASSUME NEW call, NEW tx, Remainder(call.api, call.rest), StagedInv(call, tx),
           Head(call.rest).op # "commit"
    PROVE  tx.erases = {} /\ \A k \in Key : tx.puts[k] = Absent
<1>1. call.api.operation \in {"create", "update_status", "delete"} => Awaits(call.rest, "put")
  BY RemainderHead
<1> QED BY <1>1 DEF StagedInv

\* A step that stages nothing leaves what is staged as it was.
LEMMA StagedKept ==
    ASSUME NEW call, IsCall(call), NEW tx, Remainder(call.api, call.rest), StagedInv(call, tx),
           Head(call.rest).op \notin {"put", "commit"},
           NEW next, next = [call EXCEPT !.rest = Tail(@)],
           NEW after, after.puts = tx.puts, after.erases = tx.erases
    PROVE  StagedInv(next, after)
<1>1. next.api = call.api /\ next.request = call.request /\ next.rest = Tail(call.rest)
  BY Advanced
<1>2. Final(next.rest) = Final(call.rest)
  BY Proceeds
<1>3. Awaits(next.rest, "put") <=> Awaits(call.rest, "put")
  <2>1. Head(call.rest).op # "commit" /\ Head(call.rest).op # "put"
    OBVIOUS
  <2>2. AwaitsNext(call.rest, next.rest, "put")
    BY <2>1, ProceedsAwaiting
  <2> QED BY <2>1, <2>2 DEF AwaitsNext
<1> QED BY <1>1, <1>2, <1>3 DEF StagedInv

\* A parent that must exist is looked up (write_cpp_parent_validation).
LEMMA ParentStep ==
    ASSUME language = "cpp", StoreInv(records, versions),
           NEW call, IsCall(call), NEW tx, UnderWay(records, versions, call, tx),
           Head(call.rest).op = "parent",
           NEW key, key = <<Head(call.rest).entity, EvalAll(call, Head(call.rest).key)>>,
           O!Visible(records, tx, key) # Absent,
           NEW next, next = [call EXCEPT !.rest = Tail(@)],
           NEW after, after = Get(tx, key)
    PROVE  UnderWay(records, versions, next, after)
<1> DEFINE api == call.api
           step == Head(call.rest)
           own == AskedKey(api.entity, api, call.request)
<1>1. Remainder(api, call.rest) /\ TxInv(records, versions, tx) /\ StagedInv(call, tx)
      /\ Given(api, call.request)
  BY DEF UnderWay
<1>2. /\ next.api = api /\ next.request = call.request /\ next.rest = Tail(call.rest)
      /\ IsCall(next)
  BY Advanced
<1>3. Suits(api, step) /\ Awaits(call.rest, "vacant")
  BY <1>1, RemainderHead
<1>4. api.operation = "create" /\ step.key = KeySources(api, step.entity)
  BY <1>3 DEF Suits
<1>5. key = AskedKey(step.entity, api, call.request)
  BY <1>1, <1>3, StepKeys
<1>e. key \in Key
  BY <1>1, <1>3, StepKeys
<1>6. Remainder(api, next.rest)
  BY <1>1, Proceeds
<1>a. Awaits(next.rest, "vacant")
  <2>1. AwaitsNext(call.rest, next.rest, "vacant")
    BY <1>1, <1>3, ProceedsAwaiting
  <2> QED BY <1>1, <1>3, <2>1 DEF AwaitsNext
<1>b. \A e : AwaitsParent(call.rest, e) => step.entity = e \/ AwaitsParent(next.rest, e)
  <2> TAKE e
  <2>1. step.op # "commit"
    OBVIOUS
  <2>2. AwaitsParent(call.rest, e) =>
           \/ Head(call.rest).op = "parent" /\ Head(call.rest).entity = e
           \/ AwaitsParent(next.rest, e)
    BY <1>1, <2>1, ProceedsParents
  <2> QED BY <2>2
<1>7. tx.erases = {} /\ \A k \in Key : tx.puts[k] = Absent
  BY <1>1, NothingStaged
<1>c. tx.puts[key] = Absent /\ key \notin tx.erases
  BY <1>7, <1>e
<1>8. /\ TxInv(records, versions, after)
      /\ after.puts = tx.puts /\ after.erases = tx.erases
      /\ \A k \in Key :
            after.reads[k] = IF k = key /\ tx.reads[k] = O!Unread
                             THEN IF records[k] # Absent THEN versions[k] ELSE 0
                             ELSE tx.reads[k]
      /\ O!Visible(records, tx, key) # Absent <=> records[key] # Absent
  BY <1>1, <1>c, <1>e, GetFacts
<1>d. records[key] # Absent
  BY <1>8
<1>9. versions[key] > 0
  BY <1>d, <1>e DEF StoreInv, RecordOf
<1>11. CreateReads(versions, call, tx)
  BY DEF UnderWay
<1>12. \A k \in Key : tx.reads[k] # 0
  BY <1>3, <1>4, <1>11 DEF CreateReads
<1>13. ASSUME NEW k \in Key
       PROVE  after.reads[k] # 0
  <2>1. CASE k = key /\ tx.reads[k] = O!Unread
    BY <1>8, <1>d, <1>9, <2>1
  <2>2. CASE ~(k = key /\ tx.reads[k] = O!Unread)
    BY <1>8, <1>12, <2>2
  <2> QED BY <2>1, <2>2
<1>14. after.reads[key] > 0
  <2>1. after.reads[key] \in Int /\ tx.reads[key] \in Int /\ tx.reads[key] >= -1
    BY <1>1, <1>8, <1>e DEF TxInv, O!Unread
  <2> QED BY <1>8, <1>d, <1>9, <1>12, <1>e, <2>1 DEF O!Unread
<1>15. ASSUME NEW p \in ParentEntities(Entity(api.entity))
       PROVE  \/ AwaitsParent(next.rest, p)
              \/ after.reads[AskedKey(p, api, call.request)] > 0
  <2>1. CASE AwaitsParent(call.rest, p)
    BY <1>5, <1>b, <1>14, <2>1
  <2>2. CASE tx.reads[AskedKey(p, api, call.request)] > 0
    <3>1. AskedKey(p, api, call.request) \in Key
      BY <1>1, <1>4, <1>15, AskedKeys DEF IsCall
    <3>2. tx.reads[AskedKey(p, api, call.request)] # O!Unread
      BY <2>2 DEF O!Unread
    <3>3. after.reads[AskedKey(p, api, call.request)] = tx.reads[AskedKey(p, api, call.request)]
      BY <1>8, <3>1, <3>2
    <3> QED BY <2>2, <3>3
  <2> QED BY <1>4, <1>11, <2>1, <2>2 DEF CreateReads
<1>16. CreateReads(versions, next, after)
  BY <1>2, <1>a, <1>13, <1>15 DEF CreateReads
<1>17. RecordSeen(records, versions, next, after)
  BY <1>2, <1>4 DEF RecordSeen
<1>18. Checked(next)
  BY <1>2, <1>4 DEF Checked
<1>19. StagedInv(next, after)
  BY <1>1, <1>8, StagedKept
<1> QED BY <1>1, <1>2, <1>6, <1>8, <1>16, <1>17, <1>18, <1>19 DEF UnderWay

\* What is to be created must not exist (createTx of generator_cpp_artifacts.cpp).
LEMMA VacantStep ==
    ASSUME language = "cpp", StoreInv(records, versions),
           NEW call, IsCall(call), NEW tx, UnderWay(records, versions, call, tx),
           Head(call.rest).op = "vacant",
           NEW key, key = <<Head(call.rest).entity, EvalAll(call, Head(call.rest).key)>>,
           O!Visible(records, tx, key) = Absent,
           NEW next, next = [call EXCEPT !.rest = Tail(@)],
           NEW after, after = Get(tx, key)
    PROVE  UnderWay(records, versions, next, after)
<1> DEFINE api == call.api
           step == Head(call.rest)
<1>1. Remainder(api, call.rest) /\ TxInv(records, versions, tx) /\ StagedInv(call, tx)
      /\ Given(api, call.request)
  BY DEF UnderWay
<1>2. /\ next.api = api /\ next.request = call.request /\ next.rest = Tail(call.rest)
      /\ IsCall(next)
  BY Advanced
<1>3. Suits(api, step)
  BY <1>1, RemainderHead
<1>4. api.operation = "create"
  BY <1>3 DEF Suits
<1>5. key = AskedKey(api.entity, api, call.request)
  BY <1>1, <1>3, StepKeys
<1>6. key \in Key
  BY <1>1, <1>3, StepKeys
<1>7. Remainder(api, next.rest)
  BY <1>1, Proceeds
<1>8. ~Awaits(next.rest, "vacant")
  <2>1. ~Awaits(next.rest, Head(call.rest).op)
    <3>1. AwaitsNext(call.rest, next.rest, Head(call.rest).op)
      BY <1>1, ProceedsAwaiting
    <3> QED BY <1>1, <3>1 DEF AwaitsNext
  <2> QED BY <2>1
<1>9. \A e : AwaitsParent(call.rest, e) => AwaitsParent(next.rest, e)
  BY <1>1, ProceedsParents
<1>10. tx.erases = {} /\ \A k \in Key : tx.puts[k] = Absent
  BY <1>1, NothingStaged
<1>11. tx.puts[key] = Absent /\ key \notin tx.erases
  BY <1>6, <1>10
<1>12. /\ TxInv(records, versions, after)
       /\ after.puts = tx.puts /\ after.erases = tx.erases
       /\ \A k \in Key :
             after.reads[k] = IF k = key /\ tx.reads[k] = O!Unread
                              THEN IF records[k] # Absent THEN versions[k] ELSE 0
                              ELSE tx.reads[k]
       /\ O!Visible(records, tx, key) # Absent <=> records[key] # Absent
  BY <1>1, <1>6, <1>11, GetFacts
<1>13. records[key] = Absent
  BY <1>12
<1>14. after.reads[key] # O!Unread
  BY <1>6, <1>12, <1>13 DEF O!Unread
<1>15. after.reads[key] = versions[key] => versions[key] = 0
  <2>1. versions[key] \in Nat
    BY <1>6 DEF StoreInv
  <2>2. after.reads[key] = versions[key] /\ versions[key] > 0 => records[key] # Absent
    BY <1>6, <1>12 DEF TxInv
  <2> QED BY <1>13, <2>1, <2>2
<1>16. CreateReads(versions, call, tx)
  BY DEF UnderWay
<1>17. ASSUME NEW p \in ParentEntities(Entity(api.entity))
       PROVE  AwaitsParent(next.rest, p) \/ after.reads[AskedKey(p, api, call.request)] > 0
  <2>1. CASE AwaitsParent(call.rest, p)
    BY <1>9, <2>1
  <2>2. CASE tx.reads[AskedKey(p, api, call.request)] > 0
    <3>1. AskedKey(p, api, call.request) \in Key
      BY <1>1, <1>4, <1>17, AskedKeys DEF IsCall
    <3> QED BY <1>12, <2>2, <3>1 DEF O!Unread
  <2> QED BY <1>4, <1>16, <2>1, <2>2 DEF CreateReads
<1>18. CreateReads(versions, next, after)
  BY <1>2, <1>5, <1>8, <1>14, <1>15, <1>17 DEF CreateReads
<1>19. RecordSeen(records, versions, next, after)
  BY <1>2, <1>4 DEF RecordSeen
<1>20. Checked(next)
  BY <1>2, <1>4 DEF Checked
<1>21. StagedInv(next, after)
  BY <1>1, <1>12, StagedKept
<1> QED BY <1>1, <1>2, <1>7, <1>12, <1>18, <1>19, <1>20, <1>21 DEF UnderWay

\* The transition is checked and the record must be as it was read
\* (write_cpp_status_transition_check, updateTx).
LEMMA CurrentStep ==
    ASSUME language = "cpp", StoreInv(records, versions),
           NEW call, IsCall(call), NEW tx, UnderWay(records, versions, call, tx),
           Head(call.rest).op = "current",
           NEW key, key = <<Head(call.rest).entity, EvalAll(call, Head(call.rest).key)>>,
           <<call.seen.document["status"], Eval(call, Head(call.rest).to)>>
              \in Head(call.rest).allowed,
           NEW next, next = [call EXCEPT !.rest = Tail(@)],
           NEW after, after = Get(tx, key)
    PROVE  UnderWay(records, versions, next, after)
<1> DEFINE api == call.api
           step == Head(call.rest)
           asked == AskedOf(api, call.request)
<1>1. Remainder(api, call.rest) /\ TxInv(records, versions, tx) /\ StagedInv(call, tx)
      /\ Given(api, call.request)
  BY DEF UnderWay
<1>2. /\ next.api = api /\ next.request = call.request /\ next.rest = Tail(call.rest)
      /\ IsCall(next) /\ next.seen = call.seen
  BY Advanced
<1>3. Suits(api, step)
  BY <1>1, RemainderHead
<1>a. Final(call.rest).status # 404
  BY <1>1, RemainderHead
<1>b. ~Awaits(call.rest, "get")
  BY <1>1, RemainderHead DEF Rank
<1>4. /\ api.operation \in {"update_status", "delete"}
      /\ step.to = StatusSource(api)
      /\ step.allowed = Cpp!TransitionsAllowed(Entity(api.entity))
  BY <1>3 DEF Suits
<1>5. key = AskedKey(api.entity, api, call.request)
  BY <1>1, <1>3, StepKeys
<1>6. key \in Key
  BY <1>1, <1>3, StepKeys
<1>7. Remainder(api, next.rest)
  BY <1>1, Proceeds
<1>8. ~Awaits(next.rest, "get")
  <2>1. AwaitsNext(call.rest, next.rest, "get")
    BY <1>1, <1>b, ProceedsAwaiting
  <2> QED BY <1>1, <1>b, <2>1 DEF AwaitsNext
<1>9. Final(next.rest) = Final(call.rest)
  BY <1>1, Proceeds
<1>10. tx.erases = {} /\ \A k \in Key : tx.puts[k] = Absent
  BY <1>1, NothingStaged
<1>11. tx.puts[key] = Absent /\ key \notin tx.erases
  BY <1>6, <1>10
<1>12. /\ TxInv(records, versions, after)
       /\ after.puts = tx.puts /\ after.erases = tx.erases
       /\ \A k \in Key :
             after.reads[k] = IF k = key /\ tx.reads[k] = O!Unread
                              THEN IF records[k] # Absent THEN versions[k] ELSE 0
                              ELSE tx.reads[k]
  BY <1>1, <1>6, <1>11, GetFacts
<1>13. /\ call.seen # Absent /\ call.seen \in RecordOf(key)
       /\ tx.reads[key] = call.seen.version
       /\ versions[key] = call.seen.version => records[key] = call.seen
  <2>1. RecordSeen(records, versions, call, tx)
    BY DEF UnderWay
  <2> QED BY <1>4, <1>5, <1>a, <1>b, <2>1 DEF RecordSeen
<1>14. after.reads[key] = call.seen.version
  <2>1. call.seen.version \in Nat
    BY <1>13 DEF RecordOf
  <2> QED BY <1>6, <1>12, <1>13, <2>1 DEF O!Unread
<1>15. RecordSeen(records, versions, next, after)
  BY <1>2, <1>5, <1>8, <1>9, <1>a, <1>13, <1>14 DEF RecordSeen
<1>16. Checked(next)
  <2>1. asked.allowed = Cpp!TransitionsAllowed(Entity(api.entity))
    <3>1. api.operation # None /\ api.operation # "list"
      BY <1>4, ApiAssumption DEF Operations
    <3> QED BY <3>1, AskedFields
  <2>2. Eval(call, step.to) = asked.status
    BY <1>1, <1>4, StatusEval
  <2>3. <<call.seen.document["status"], asked.status>> \in asked.allowed
    BY <1>4, <2>1, <2>2
  <2> QED BY <1>2, <2>3 DEF Checked
<1>17. CreateReads(versions, next, after)
  BY <1>2, <1>4 DEF CreateReads
<1>18. StagedInv(next, after)
  BY <1>1, <1>12, StagedKept
<1> QED BY <1>1, <1>2, <1>7, <1>12, <1>15, <1>16, <1>17, <1>18 DEF UnderWay

\* What a call has ahead of it once it has looked for its record.
GetRest(tx, key, rest) ==
    IF O!Visible(records, tx, key) # Absent THEN Tail(rest) ELSE <<CommitAs(404, NoBody, TRUE)>>

\* The record of a get, an update or a delete is read (getTx).
LEMMA GetStep ==
    ASSUME language = "cpp", StoreInv(records, versions),
           NEW call, IsCall(call), NEW tx, UnderWay(records, versions, call, tx),
           Head(call.rest).op = "get",
           NEW key, key = <<Head(call.rest).entity, EvalAll(call, Head(call.rest).key)>>,
           NEW next, IsCall(next), next.api = call.api, next.request = call.request,
           next.seen = records[key], next.rest = GetRest(tx, key, call.rest),
           NEW after, after = Get(tx, key)
    PROVE  UnderWay(records, versions, next, after)
<1> DEFINE api == call.api
           step == Head(call.rest)
           miss == CommitAs(404, NoBody, TRUE)
<1>1. Remainder(api, call.rest) /\ TxInv(records, versions, tx) /\ StagedInv(call, tx)
      /\ Given(api, call.request)
  BY DEF UnderWay
<1>3. Suits(api, step)
  BY <1>1, RemainderHead
<1>a. Final(call.rest).status # 404
  BY <1>1, RemainderHead
<1>b. Awaits(call.rest, "get")
  BY <1>1, RemainderHead
<1>4. api.operation \in {"get", "update_status", "delete"}
  BY <1>3 DEF Suits
<1>5. key = AskedKey(api.entity, api, call.request)
  BY <1>1, <1>3, StepKeys
<1>6. key \in Key
  BY <1>1, <1>3, StepKeys
<1>10. tx.erases = {} /\ \A k \in Key : tx.puts[k] = Absent
  BY <1>1, NothingStaged
<1>11. tx.puts[key] = Absent /\ key \notin tx.erases
  BY <1>6, <1>10
<1>12. /\ TxInv(records, versions, after)
       /\ after.puts = tx.puts /\ after.erases = tx.erases
       /\ \A k \in Key :
             after.reads[k] = IF k = key /\ tx.reads[k] = O!Unread
                              THEN IF records[k] # Absent THEN versions[k] ELSE 0
                              ELSE tx.reads[k]
       /\ O!Visible(records, tx, key) # Absent <=> records[key] # Absent
  BY <1>1, <1>6, <1>11, GetFacts
<1>13. tx.reads[key] = O!Unread
  <2>1. RecordSeen(records, versions, call, tx)
    BY DEF UnderWay
  <2> QED BY <1>4, <1>6, <1>b, <2>1 DEF RecordSeen
<1>14. after.reads[key] = IF records[key] # Absent THEN versions[key] ELSE 0
  BY <1>6, <1>12, <1>13
<1>15. CreateReads(versions, next, after)
  BY <1>4 DEF CreateReads
<1>16. CASE records[key] # Absent
  <2>1. next.rest = Tail(call.rest)
    BY <1>12, <1>16 DEF GetRest
  <2>2. Remainder(api, next.rest)
    BY <1>1, <2>1, RemainderTail
  <2>3. ~Awaits(next.rest, "get")
    BY <1>1, <2>1, RemainderTail
  <2>4. Final(next.rest) = Final(call.rest)
    BY <1>1, <2>1, RemainderTail
  <2>5. records[key] \in RecordOf(key) /\ records[key].version = versions[key]
    BY <1>6, <1>16 DEF StoreInv
  <2>6. RecordSeen(records, versions, next, after)
    BY <1>5, <1>a, <1>14, <1>16, <2>3, <2>4, <2>5 DEF RecordSeen
  <2>7. Checked(next)
    <3>1. ASSUME api.operation \in {"update_status", "delete"}
          PROVE  Awaits(next.rest, "current")
      <4>1. Awaits(call.rest, "current")
        BY <1>1, <3>1, RemainderHead
      <4> QED BY <1>1, <2>1, <4>1, RemainderTail
    <3> QED BY <3>1 DEF Checked
  <2>8. StagedInv(next, after)
    <3>1. api.operation \in {"update_status", "delete"} => Awaits(call.rest, "put")
      BY <1>1, RemainderHead
    <3>2. Awaits(call.rest, "put") => Awaits(next.rest, "put")
      BY <1>1, <2>1, RemainderTail
    <3> QED BY <1>4, <1>10, <1>12, <3>1, <3>2 DEF StagedInv
  <2> QED BY <1>1, <1>12, <1>15, <2>2, <2>6, <2>7, <2>8 DEF UnderWay
<1>17. CASE records[key] = Absent
  <2>1. next.rest = <<miss>>
    BY <1>12, <1>17 DEF GetRest
  <2>2. miss.op = "commit" /\ miss.status = 404 /\ DOMAIN miss.body = {}
    BY DEF CommitAs, NoBody
  <2> HIDE DEF miss
  <2>3. Suits(api, miss)
    <3>1. miss.op \in DOMAIN Rank
      BY <2>2 DEF Rank
    <3> QED BY <1>4, <2>2, <3>1 DEF Suits
  <2>4. Remainder(api, next.rest)
    BY <2>1, <2>2, <2>3, RemainderOf1
  <2>5. Final(next.rest) = miss
    BY <2>1, <2>2, <2>3, RemainderOf1
  <2>6. \A op : Awaits(next.rest, op) => op = "commit"
    BY <2>1, <2>2, <2>3, RemainderOf1
  <2>7. RecordSeen(records, versions, next, after)
    <3>1. ~Awaits(next.rest, "get")
      BY <2>6
    <3>2. next.seen = Absent /\ after.reads[key] = 0
      BY <1>14, <1>17
    <3> QED BY <1>5, <2>2, <2>5, <3>1, <3>2 DEF RecordSeen
  <2>8. Checked(next)
    BY <2>2, <2>5 DEF Checked
  <2>9. StagedInv(next, after)
    <3>1. after.erases = {} /\ \A k \in Key : after.puts[k] = Absent
      BY <1>10, <1>12
    <3>2. Final(next.rest).status = 404
      BY <2>2, <2>5
    <3> QED BY <3>1, <3>2 DEF StagedInv
  <2> QED BY <1>1, <1>12, <1>15, <2>4, <2>7, <2>8, <2>9 DEF UnderWay
<1> QED BY <1>16, <1>17

\* The document is staged under the key of the call (putTx).
LEMMA PutStep ==
    ASSUME language = "cpp", StoreInv(records, versions),
           NEW call, IsCall(call), NEW tx, UnderWay(records, versions, call, tx),
           Head(call.rest).op = "put",
           NEW key, key = <<Head(call.rest).entity, EvalAll(call, Head(call.rest).key)>>,
           NEW next, next = [call EXCEPT !.rest = Tail(@)],
           NEW after, after = Put(tx, key, EvalAll(call, Head(call.rest).document))
    PROVE  UnderWay(records, versions, next, after)
<1> DEFINE api == call.api
           step == Head(call.rest)
           asked == AskedOf(api, call.request)
           document == EvalAll(call, step.document)
<1>1. Remainder(api, call.rest) /\ TxInv(records, versions, tx) /\ StagedInv(call, tx)
      /\ Given(api, call.request)
  BY DEF UnderWay
<1>2. /\ next.api = api /\ next.request = call.request /\ next.rest = Tail(call.rest)
      /\ IsCall(next) /\ next.seen = call.seen
  BY Advanced
<1>3. Suits(api, step)
  BY <1>1, RemainderHead
<1>4. api.operation \in {"create", "update_status", "delete"} /\ step.document = DocumentSources(api)
  BY <1>3 DEF Suits
<1>5. key = AskedKey(api.entity, api, call.request)
  BY <1>1, <1>3, StepKeys
<1>6. key \in Key /\ key[1] = api.entity
  BY <1>1, <1>3, StepKeys
<1>7. asked.key = key
  <2>1. api.operation # None /\ api.operation # "list"
    BY <1>4, ApiAssumption DEF Operations
  <2> QED BY <1>5, <2>1, AskedFields
<1> HIDE DEF asked
<1>8. Remainder(api, next.rest)
  BY <1>1, Proceeds
<1>9. Final(next.rest) = Final(call.rest)
  BY <1>1, Proceeds
<1>10. Final(call.rest).status # 404
  BY <1>1, RemainderHead
<1>11. ASSUME NEW op \in {"get", "vacant", "current"}
       PROVE  ~Awaits(call.rest, op) /\ ~Awaits(next.rest, op)
  <2>1. ~Awaits(call.rest, op)
    <3>1. op \in DOMAIN Rank /\ Rank[op] < Rank[step.op]
      BY <1>11 DEF Rank
    <3> QED BY <1>1, <3>1, RemainderHead
  <2>2. AwaitsNext(call.rest, next.rest, op)
    BY <1>1, ProceedsAwaiting
  <2> QED BY <2>1, <2>2 DEF AwaitsNext
<1>12. ~Awaits(next.rest, "put")
  <2>1. ~Awaits(next.rest, Head(call.rest).op)
    <3>1. AwaitsNext(call.rest, next.rest, Head(call.rest).op)
      BY <1>1, ProceedsAwaiting
    <3> QED BY <1>1, <3>1 DEF AwaitsNext
  <2> QED BY <2>1
<1>13. tx.erases = {} /\ \A k \in Key : tx.puts[k] = Absent
  BY <1>1, NothingStaged
<1>14. ASSUME api.operation = "create"
       PROVE  /\ \A p \in ParentEntities(Entity(api.entity)) :
                    \/ AwaitsParent(call.rest, p)
                    \/ tx.reads[AskedKey(p, api, call.request)] > 0
              /\ tx.reads[key] # O!Unread
              /\ tx.reads[key] = versions[key] => versions[key] = 0
  <2>1. CreateReads(versions, call, tx)
    BY DEF UnderWay
  <2> QED BY <1>5, <1>11, <1>14, <2>1 DEF CreateReads
<1>15. ASSUME api.operation \in {"update_status", "delete"}
       PROVE  /\ call.seen # Absent /\ call.seen \in RecordOf(key)
              /\ tx.reads[key] = call.seen.version
              /\ versions[key] = call.seen.version => records[key] = call.seen
              /\ <<call.seen.document["status"], asked.status>> \in asked.allowed
  <2>1. RecordSeen(records, versions, call, tx) /\ Checked(call)
    BY DEF UnderWay
  <2>2. <<call.seen.document["status"], asked.status>> \in asked.allowed
    BY <1>10, <1>11, <1>15, <2>1 DEF Checked, asked
  <2> QED BY <1>5, <1>10, <1>11, <1>15, <2>1, <2>2 DEF RecordSeen
<1>16. tx.reads[key] # O!Unread
  <2>1. CASE api.operation = "create"
    BY <1>14, <2>1
  <2>2. CASE api.operation \in {"update_status", "delete"}
    <3>1. call.seen.version \in Nat
      BY <1>15, <2>2 DEF RecordOf
    <3> QED BY <1>15, <2>2, <3>1 DEF O!Unread
  <2> QED BY <1>4, <2>1, <2>2
<1>17. document \in [Entity(key[1]).fields -> Value] /\ document["status"] = asked.status
  <2>1. api.operation \in {"update_status", "delete"} =>
           /\ call.seen.document \in [Entity(api.entity).fields -> Value]
           /\ <<call.seen.document["status"], asked.status>> \in asked.allowed
    BY <1>6, <1>15 DEF RecordOf
  <2>2. EvalAll(call, DocumentSources(api)) \in [Entity(api.entity).fields -> Value]
    BY <1>1, <1>4, <2>1, DocumentEval DEF asked
  <2>3. EvalAll(call, DocumentSources(api))["status"] = asked.status
    BY <1>1, <1>4, <2>1, DocumentEval DEF asked
  <2> QED BY <1>4, <1>6, <2>2, <2>3
<1> HIDE DEF document
<1>18. document # Absent
  BY <1>6, <1>17, KeyFacts
<1>19. /\ TxInv(records, versions, after)
       /\ after.reads = tx.reads /\ after.erases = {}
       /\ \A k \in Key : after.puts[k] = IF k = key THEN document ELSE tx.puts[k]
  <2>1. tx.puts[key] = Absent
    BY <1>6, <1>13
  <2> QED BY <1>1, <1>6, <1>13, <1>16, <2>1, PutFacts DEF document
<1>20. CreateReads(versions, next, after)
  <2> SUFFICES ASSUME api.operation = "create"
               PROVE  CreateReads(versions, next, after)
    BY <1>2 DEF CreateReads
  <2>1. ASSUME NEW p \in ParentEntities(Entity(api.entity))
        PROVE  AwaitsParent(next.rest, p) \/ after.reads[AskedKey(p, api, call.request)] > 0
    <3>1. AwaitsParent(call.rest, p) => AwaitsParent(next.rest, p)
      BY <1>1, ProceedsParents
    <3> QED BY <1>14, <1>19, <3>1
  <2>2. ~Awaits(next.rest, "vacant")
    BY <1>11
  <2> QED BY <1>2, <1>5, <1>14, <1>19, <2>1, <2>2 DEF CreateReads
<1>21. RecordSeen(records, versions, next, after)
  <2>1. api.operation # "get"
    BY <1>4
  <2>2. ~Awaits(next.rest, "get")
    BY <1>11
  <2> SUFFICES ASSUME api.operation \in {"update_status", "delete"}
               PROVE  RecordSeen(records, versions, next, after)
    BY <1>2, <2>1 DEF RecordSeen
  <2>3. /\ next.seen # Absent /\ next.seen \in RecordOf(key)
        /\ after.reads[key] = next.seen.version
        /\ versions[key] = next.seen.version => records[key] = next.seen
    BY <1>2, <1>15, <1>19
  <2>4. Final(next.rest).status # 404
    BY <1>9, <1>10
  <2>5. key = AskedKey(next.api.entity, next.api, next.request)
    BY <1>2, <1>5
  <2> HIDE DEF api
  <2> QED BY <2>2, <2>3, <2>4, <2>5 DEF RecordSeen
<1>22. Checked(next)
  BY <1>2, <1>15 DEF Checked, asked
<1>23. StagedInv(next, after)
  <2>1. \A k \in Key : after.puts[k] # Absent => k = key
    BY <1>13, <1>19
  <2>2. after.puts[key] = document /\ after.erases = {}
    BY <1>6, <1>19
  <2>3. Final(next.rest).status # 404
    BY <1>9, <1>10
  <2>4. asked = AskedOf(next.api, next.request)
    BY <1>2 DEF asked
  <2>5. next.api.operation \in {"create", "update_status", "delete"}
    BY <1>2, <1>4
  <2>6. ASSUME NEW k \in Key, after.puts[k] # Absent
        PROVE  /\ k = asked.key
               /\ after.puts[k] \in [Entity(k[1]).fields -> Value]
               /\ after.puts[k]["status"] = asked.status
    BY <1>7, <1>17, <2>1, <2>2, <2>6
  <2>7. after.puts[asked.key] # Absent
    BY <1>7, <1>18, <2>2
  <2>8. ASSUME NEW k \in Key, after.puts[k] # Absent
        PROVE  /\ k = AskedOf(next.api, next.request).key
               /\ after.puts[k] \in [Entity(k[1]).fields -> Value]
               /\ after.puts[k]["status"] = AskedOf(next.api, next.request).status
    BY <2>4, <2>6, <2>8
  <2>9. after.puts[AskedOf(next.api, next.request).key] # Absent
    BY <2>4, <2>7
  <2>10. after.erases = {}
    BY <2>2
  <2> QED BY <1>12, <2>3, <2>5, <2>8, <2>9, <2>10 DEF StagedInv
<1> QED BY <1>1, <1>2, <1>8, <1>19, <1>20, <1>21, <1>22, <1>23 DEF UnderWay

\* A list reads the records it finds under its index (list_entities_by_indexTx).
LEMMA QueryStep ==
    ASSUME language = "cpp", StoreInv(records, versions),
           NEW call, IsCall(call), NEW tx, UnderWay(records, versions, call, tx),
           Head(call.rest).op = "query", NEW found,
           NEW next, next = [call EXCEPT !.rest = Tail(@)],
           NEW after, after = Reading(tx, found)
    PROVE  UnderWay(records, versions, next, after)
<1>1. Remainder(call.api, call.rest) /\ TxInv(records, versions, tx) /\ StagedInv(call, tx)
      /\ Given(call.api, call.request)
  BY DEF UnderWay
<1>2. next.api = call.api /\ next.request = call.request
  BY Advanced
<1>3. Suits(call.api, Head(call.rest))
  BY <1>1, RemainderHead
<1>4. call.api.operation = "list"
  BY <1>3 DEF Suits
<1>5. Remainder(call.api, next.rest)
  BY <1>1, Proceeds
<1>6. TxInv(records, versions, after) /\ after.puts = tx.puts /\ after.erases = tx.erases
  BY <1>1, ReadFacts
<1>7. StagedInv(next, after)
  BY <1>1, <1>6, StagedKept
<1>8. CreateReads(versions, next, after) /\ RecordSeen(records, versions, next, after)
  BY <1>2, <1>4 DEF CreateReads, RecordSeen
<1>9. Checked(next)
  BY <1>2, <1>4 DEF Checked
<1> QED BY <1>1, <1>2, <1>5, <1>6, <1>7, <1>8, <1>9 DEF UnderWay

\* A call that has just been received runs a handler of an operation of the
\* application, one that only fails, or one that opens a transaction.
LEMMA FreshHead ==
    ASSUME NEW call, IsCall(call), Fresh(call)
    PROVE  /\ Head(call.rest).op \in {"respond", "raise", "open"}
           /\ Head(call.rest).op = "respond" =>
                 call.api.operation = None /\ Head(call.rest).status \in {200, 202}
           /\ Head(call.rest).op = "open" => Opens(call.api, call.rest)
<1>1. call.api \in System.apis /\ call.rest = Cpp!CppHandler(System, call.api)
  BY DEF IsCall, Fresh
<1>2. CASE call.api.operation = None
  <2>0. PICK status \in {200, 202} : \E body :
           call.rest = <<Respond(FieldsOf(System, call.api.input), status, body)>>
    BY <1>1, <1>2, HandlerShape
  <2>1. PICK body : call.rest = <<Respond(FieldsOf(System, call.api.input), status, body)>>
    BY <2>0
  <2>2. Head(call.rest) = Respond(FieldsOf(System, call.api.input), status, body)
    BY <2>1
  <2> QED BY <1>2, <2>2 DEF Respond
<1>3. CASE call.api.operation # None
  <2>1. CASE call.rest = <<Raise>>
    <3>1. Head(call.rest) = Raise
      BY <2>1
    <3> QED BY <3>1 DEF Raise
  <2>2. CASE Opens(call.api, call.rest)
    BY <2>2 DEF Opens
  <2>3. call.rest = <<Raise>> \/ Opens(call.api, call.rest)
    BY <1>1, <1>3, HandlerShape
  <2> QED BY <2>1, <2>2, <2>3
<1> QED BY <1>2, <1>3

\* A call whose next step works on its transaction is under way, any other was
\* just received.
LEMMA CallPhases ==
    ASSUME NEW recs, NEW vers, NEW call, NEW tx, CallInv(recs, vers, call, tx),
           call.rest # <<>>
    PROVE  /\ IsCall(call)
           /\ Head(call.rest).op \in DOMAIN Rank => UnderWay(recs, vers, call, tx)
           /\ Head(call.rest).op \in {"respond", "raise", "open"} => Fresh(call)
<1>1. IsCall(call) /\ (Fresh(call) \/ UnderWay(recs, vers, call, tx))
  BY DEF CallInv
<1>2. Fresh(call) => Head(call.rest).op \in {"respond", "raise", "open"}
  BY <1>1, FreshHead
<1>3. UnderWay(recs, vers, call, tx) => Head(call.rest).op \in DOMAIN Rank
  <2>1. ASSUME UnderWay(recs, vers, call, tx)
        PROVE  Remainder(call.api, call.rest)
    BY <2>1 DEF UnderWay
  <2> QED BY <2>1, RemainderHead
<1>4. DOMAIN Rank \cap {"respond", "raise", "open"} = {}
  BY DEF Rank
<1> QED BY <1>1, <1>2, <1>3, <1>4

\* The request is decoded and the transaction begins.
LEMMA OpenStep ==
    ASSUME StoreInv(records, versions), NEW call, IsCall(call), Fresh(call),
           Head(call.rest).op = "open",
           Head(call.rest).decodes \subseteq DOMAIN call.request.body,
           NEW next, next = [call EXCEPT !.rest = Tail(@)]
    PROVE  UnderWay(records, versions, next, O!Begun)
<1> DEFINE api == call.api
           request == call.request
           tx == O!Begun
<1>1. /\ next.api = api /\ next.request = request /\ next.rest = Tail(call.rest)
  BY Advanced
<1>2. Opens(api, call.rest)
  BY FreshHead
<1>3. TxInv(records, versions, tx)
  BY BegunFacts
<1>4. \A k \in Key : tx.reads[k] = O!Unread
  BY BegunFacts
<1>5. tx.erases = {} /\ \A k \in Key : tx.puts[k] = Absent
  BY BegunFacts
<1> HIDE DEF tx
<1>6. api.operation \in Operations /\ Remainder(api, next.rest)
  BY <1>1, <1>2 DEF Opens
<1>7. Given(api, request)
  BY <1>2 DEF Opens, Given
<1>8. CreateReads(versions, next, tx)
  <2>1. ASSUME api.operation = "create"
        PROVE  /\ Awaits(next.rest, "vacant")
               /\ \A p \in ParentEntities(Entity(api.entity)) : AwaitsParent(next.rest, p)
    BY <1>1, <1>2, <2>1 DEF Opens
  <2>2. \A k \in Key : tx.reads[k] # 0
    BY <1>4 DEF O!Unread
  <2> QED BY <1>1, <2>1, <2>2 DEF CreateReads
<1>9. RecordSeen(records, versions, next, tx)
  <2>1. api.operation \in {"get", "update_status", "delete"} => Awaits(next.rest, "get")
    BY <1>1, <1>2 DEF Opens
  <2> QED BY <1>1, <1>4, <2>1 DEF RecordSeen
<1>10. Checked(next)
  <2>1. api.operation \in {"update_status", "delete"} => Awaits(next.rest, "current")
    BY <1>1, <1>2 DEF Opens
  <2> QED BY <1>1, <2>1 DEF Checked
<1>11. StagedInv(next, tx)
  <2>1. api.operation \in {"create", "update_status", "delete"} => Awaits(next.rest, "put")
    BY <1>1, <1>2 DEF Opens
  <2> QED BY <1>1, <1>5, <2>1 DEF StagedInv
<1> QED BY <1>1, <1>3, <1>6, <1>7, <1>8, <1>9, <1>10, <1>11 DEF UnderWay, tx

----
(***************************************************************************)
(* Commits.                                                                *)
(***************************************************************************)

StatusIn(recs, k) == IF recs[k] # Absent THEN recs[k].document["status"] ELSE Absent

\* A transaction stages documents of its entities only.
LEMMA StagedDocuments ==
    ASSUME NEW call, NEW tx, StagedInv(call, tx)
    PROVE  \A k \in Key : tx.puts[k] # Absent => tx.puts[k] \in [Entity(k[1]).fields -> Value]
BY DEF StagedInv

\* The status of an entity is one of its values, and not the marker.
LEMMA StatusPresent ==
    ASSUME NEW recs, NEW vers, StoreInv(recs, vers), NEW k \in Key
    PROVE  StatusIn(recs, k) # Absent <=> recs[k] # Absent
<1> SUFFICES ASSUME recs[k] # Absent
             PROVE  recs[k].document["status"] # Absent
  BY DEF StatusIn
<1>1. recs[k].document \in [Entity(k[1]).fields -> Value]
  BY DEF StoreInv, RecordOf
<1>2. recs[k].document["status"] \in Value
  BY <1>1, KeyFacts
<1> QED BY <1>2, MarkerAssumption

\* The commit of a call that is to write changes the status of its own entity only.
LEMMA Wrote ==
    ASSUME StoreInv(records, versions),
           NEW call, IsCall(call), NEW tx, UnderWay(records, versions, call, tx),
           Head(call.rest).op = "commit", Head(call.rest).status # 404,
           call.api.operation \in {"create", "update_status", "delete"},
           NEW recs, recs = O!CommitRecords(records, versions, tx)
    PROVE  LET asked == AskedOf(call.api, call.request)
           IN  /\ asked.key \in Key
               /\ \A k \in Key : StatusIn(recs, k) = IF k = asked.key THEN asked.status
                                                     ELSE StatusIn(records, k)
<1> DEFINE asked == AskedOf(call.api, call.request)
<1>1. Remainder(call.api, call.rest) /\ StagedInv(call, tx) /\ Given(call.api, call.request)
  BY DEF UnderWay
<1>2. Final(call.rest).status # 404
  BY <1>1, RemainderHead
<1>3. ~Awaits(call.rest, "put")
  BY <1>1, RemainderHead DEF Rank
<1>4. asked.key \in Key
  <2>1. call.api.operation # None /\ call.api.operation # "list"
    BY ApiAssumption DEF Operations
  <2>2. AskedKey(call.api.entity, call.api, call.request) \in Key
    BY <1>1, <2>1, AskedKeys DEF IsCall
  <2> QED BY <2>1, <2>2, AskedFields
<1>5. tx.erases = {} /\ tx.puts[asked.key] # Absent
      /\ \A k \in Key : tx.puts[k] # Absent => k = asked.key /\ tx.puts[k]["status"] = asked.status
  BY <1>1, <1>2, <1>3 DEF StagedInv
<1> HIDE DEF asked
<1>6. \A k \in Key :
         recs[k] = IF k \in tx.erases THEN Absent
                   ELSE IF tx.puts[k] # Absent
                        THEN [version |-> versions[k] + 1, document |-> tx.puts[k]]
                   ELSE records[k]
  BY DEF O!CommitRecords, O!Putting
<1>7. ASSUME NEW k \in Key
      PROVE  StatusIn(recs, k) = IF k = asked.key THEN asked.status ELSE StatusIn(records, k)
  <2>1. CASE k = asked.key
    <3>1. recs[k] = [version |-> versions[k] + 1, document |-> tx.puts[k]]
      BY <1>5, <1>6, <2>1
    <3>2. recs[k] # Absent
      <4>1. tx.puts[k] \in [Entity(k[1]).fields -> Value]
        BY <1>1, <1>5, <2>1, StagedDocuments
      <4>2. versions[k] + 1 \in Nat \ {0}
        BY DEF StoreInv
      <4>3. recs[k] \in RecordOf(k)
        BY <3>1, <4>1, <4>2 DEF RecordOf
      <4> QED BY <4>3, KeyFacts
    <3>3. StatusIn(recs, k) = recs[k].document["status"]
      BY <3>2 DEF StatusIn
    <3>4. recs[k].document = tx.puts[k]
      BY <3>1
    <3>5. tx.puts[k]["status"] = asked.status
      BY <1>5, <2>1
    <3> QED BY <2>1, <3>3, <3>4, <3>5
  <2>2. CASE k # asked.key
    <3>1. k \notin tx.erases /\ tx.puts[k] = Absent
      BY <1>5, <2>2
    <3>2. recs[k] = records[k]
      BY <1>6, <3>1
    <3> QED BY <2>2, <3>2 DEF StatusIn
  <2> QED BY <2>1, <2>2
<1> QED BY <1>4, <1>7 DEF asked

\* The commit of a call that only read, or that found no record, changes none.
LEMMA WroteNothing ==
    ASSUME StoreInv(records, versions),
           NEW call, IsCall(call), NEW tx, UnderWay(records, versions, call, tx),
           Head(call.rest).op = "commit",
           Head(call.rest).status = 404
              \/ call.api.operation \notin {"create", "update_status", "delete"},
           NEW recs, recs = O!CommitRecords(records, versions, tx)
    PROVE  \A k \in Key : recs[k] = records[k]
<1>1. Remainder(call.api, call.rest) /\ StagedInv(call, tx)
  BY DEF UnderWay
<1>2. Final(call.rest) = Head(call.rest)
  BY <1>1, RemainderHead
<1>3. tx.erases = {} /\ \A k \in Key : tx.puts[k] = Absent
  BY <1>1, <1>2 DEF StagedInv
<1> QED BY <1>3 DEF O!CommitRecords, O!Putting

\* What a call asked for and is about to commit stands on the records.
Stands(recs, call) ==
    LET asked == AskedOf(call.api, call.request)
        status == Head(call.rest).status
    IN  /\ call.api.operation = "create" =>
              /\ recs[asked.key] = Absent
              /\ \A p \in asked.parents : p \in Key /\ recs[p] # Absent
        /\ call.api.operation \in {"get", "update_status", "delete"} =>
              /\ asked.key \in Key
              /\ status = 404 => recs[asked.key] = Absent
              /\ status # 404 => recs[asked.key] # Absent /\ recs[asked.key] = call.seen
        /\ call.api.operation \in {"update_status", "delete"} /\ status # 404 =>
              <<StatusIn(recs, asked.key), asked.status>> \in asked.allowed

\* What a create, an update and a delete that commit knew is still so: the parents
\* exist and the entity does not; the record is the one that was checked.
LEMMA CommitsCurrent ==
    ASSUME StoreInv(records, versions),
           NEW call, IsCall(call), NEW tx, UnderWay(records, versions, call, tx),
           Head(call.rest).op = "commit", O!Validates(versions, tx)
    PROVE  Stands(records, call)
<1> DEFINE api == call.api
           asked == AskedOf(api, call.request)
           key == AskedKey(api.entity, api, call.request)
           status == Head(call.rest).status
<1>1. Remainder(api, call.rest) /\ TxInv(records, versions, tx) /\ Given(api, call.request)
      /\ CreateReads(versions, call, tx) /\ RecordSeen(records, versions, call, tx) /\ Checked(call)
  BY DEF UnderWay
<1>2. Final(call.rest) = Head(call.rest)
  BY <1>1, RemainderHead
<1>3. \A op \in DOMAIN Rank : op # "commit" => ~Awaits(call.rest, op)
  BY <1>1, RemainderHead
<1>4. ~Awaits(call.rest, "get") /\ ~Awaits(call.rest, "vacant") /\ ~Awaits(call.rest, "current")
  BY <1>3 DEF Rank
<1>5. \A e : ~AwaitsParent(call.rest, e)
  <2>1. \A op : Awaits(call.rest, op) => op = "commit"
    BY <1>1, RemainderHead
  <2>2. ~Awaits(call.rest, "parent")
    BY <2>1
  <2> QED BY <2>2 DEF Awaits, AwaitsParent
<1>6. \A k \in Key : /\ versions[k] \in Nat
                     /\ records[k] # Absent => records[k] \in RecordOf(k)
                                               /\ records[k].version = versions[k]
  BY DEF StoreInv
<1>7. \A k \in Key : /\ tx.reads[k] # O!Unread => tx.reads[k] = versions[k]
                     /\ tx.reads[k] = versions[k] /\ versions[k] > 0 => records[k] # Absent
  BY <1>1 DEF O!Validates, TxInv
<1>8. ASSUME api.operation \in {"create", "get", "update_status", "delete"}
      PROVE  asked.key = key /\ key \in Key
  <2>1. api.operation # None /\ api.operation # "list"
    BY <1>8, ApiAssumption DEF Operations
  <2>2. key \in Key
    BY <1>1, <2>1, AskedKeys DEF IsCall
  <2>3. asked.key = key
    BY <2>1, AskedFields
  <2> QED BY <2>2, <2>3
<1>9. \A k \in Key : versions[k] = 0 => records[k] = Absent
  BY <1>6 DEF RecordOf
<1>10. ASSUME api.operation = "create"
       PROVE  records[asked.key] = Absent /\ \A p \in asked.parents : p \in Key /\ records[p] # Absent
  <2>1. tx.reads[key] # O!Unread /\ (tx.reads[key] = versions[key] => versions[key] = 0)
    BY <1>1, <1>4, <1>10 DEF CreateReads
  <2>2. records[key] = Absent
    BY <1>7, <1>8, <1>9, <1>10, <2>1
  <2>3. ASSUME NEW p \in ParentEntities(Entity(api.entity))
        PROVE  /\ AskedKey(p, api, call.request) \in Key
               /\ records[AskedKey(p, api, call.request)] # Absent
    <3> DEFINE parent == AskedKey(p, api, call.request)
    <3>1. parent \in Key
      <4>1. api.operation # "list"
        BY <1>10
      <4> QED BY <1>1, <1>10, <4>1, AskedKeys DEF IsCall
    <3>2. tx.reads[parent] > 0
      BY <1>1, <1>5, <1>10 DEF CreateReads
    <3>3. tx.reads[parent] # O!Unread
      BY <3>2 DEF O!Unread
    <3> HIDE DEF parent
    <3> QED BY <1>7, <3>1, <3>2, <3>3 DEF parent
  <2>4. asked.parents = {AskedKey(e, api, call.request) : e \in ParentEntities(Entity(api.entity))}
    <3>1. api.operation # None /\ api.operation # "list"
      BY <1>10, ApiAssumption DEF Operations
    <3> QED BY <1>10, <3>1, AskedFields
  <2> HIDE DEF asked
  <2> QED BY <1>8, <1>10, <2>2, <2>3, <2>4
<1>11. ASSUME api.operation \in {"get", "update_status", "delete"}
       PROVE  /\ status = 404 => records[key] = Absent
              /\ status # 404 => records[key] # Absent /\ records[key] = call.seen
  <2>1. CASE call.seen = Absent
    <3>1. tx.reads[key] = 0 /\ status = 404
      BY <1>1, <1>2, <1>4, <1>11, <2>1 DEF RecordSeen
    <3>2. tx.reads[key] # O!Unread
      BY <3>1 DEF O!Unread
    <3> QED BY <1>7, <1>8, <1>9, <1>11, <3>1, <3>2
  <2>2. CASE call.seen # Absent
    <3>1. /\ status # 404 /\ call.seen \in RecordOf(key)
          /\ tx.reads[key] = call.seen.version
          /\ versions[key] = call.seen.version => records[key] = call.seen
      BY <1>1, <1>2, <1>4, <1>11, <2>2 DEF RecordSeen
    <3>2. call.seen.version \in Nat
      BY <3>1 DEF RecordOf
    <3>3. tx.reads[key] # O!Unread
      BY <3>1, <3>2 DEF O!Unread
    <3> QED BY <1>7, <1>8, <1>11, <2>2, <3>1, <3>3
  <2> QED BY <2>1, <2>2
<1>12. ASSUME api.operation \in {"update_status", "delete"}, status # 404
       PROVE  <<StatusIn(records, key), asked.status>> \in asked.allowed
  <2>1. <<call.seen.document["status"], asked.status>> \in asked.allowed
    BY <1>1, <1>2, <1>4, <1>12 DEF Checked
  <2>2. records[key] # Absent /\ records[key] = call.seen
    BY <1>11, <1>12
  <2> HIDE DEF asked
  <2> QED BY <2>1, <2>2 DEF StatusIn
<1> HIDE DEF asked, key
<1>13. api.operation \in {"get", "update_status", "delete"} => asked.key \in Key
  BY <1>8
<1>14. api.operation \in {"get", "update_status", "delete"} => asked.key = key
  BY <1>8
<1> QED BY <1>10, <1>11, <1>12, <1>13, <1>14 DEF Stands, asked

\* The answer to a commit is the status its step names, unless a get or a list
\* lacks a field it is to answer.
LEMMA CommitAnswers ==
    ASSUME StoreInv(records, versions),
           NEW call, IsCall(call), NEW tx, UnderWay(records, versions, call, tx),
           Head(call.rest).op = "commit", O!Validates(versions, tx)
    PROVE  LET step == Head(call.rest)
               stored == {f \in DOMAIN step.body : step.body[f] = Stored(f)}
           IN  /\ step.status = 404 =>
                    call.api.operation \in {"get", "update_status", "delete"}
               /\ step.status # 404 =>
                    step.status = (CASE call.api.operation = "create" -> 201
                                     [] call.api.operation = "delete" -> 204
                                     [] OTHER -> 200)
               /\ call.api.operation \in {"create", "update_status", "delete"} =>
                    stored = {} \/ stored \subseteq DOMAIN call.seen.document
<1> DEFINE api == call.api
           step == Head(call.rest)
           stored == {f \in DOMAIN step.body : step.body[f] = Stored(f)}
<1>1. Remainder(api, call.rest) /\ Given(api, call.request)
  BY DEF UnderWay
<1>2. Suits(api, step)
  BY <1>1, RemainderHead
<1>3. /\ step.status = 404 => api.operation \in {"get", "update_status", "delete"}
      /\ step.status # 404 =>
            step.status = (CASE api.operation = "create" -> 201
                             [] api.operation = "delete" -> 204
                             [] OTHER -> 200)
      /\ api.operation \in {"create", "update_status", "delete"} =>
            stored \subseteq (IF api.operation = "update_status" /\ step.status # 404
                              THEN Entity(api.entity).fields ELSE {})
  BY <1>2 DEF Suits
<1>4. ASSUME api.operation = "update_status", step.status # 404
      PROVE  DOMAIN call.seen.document = Entity(api.entity).fields
  <2> DEFINE key == AskedKey(api.entity, api, call.request)
  <2>1. ~Awaits(call.rest, "get")
    BY <1>1, RemainderHead DEF Rank
  <2>2. Final(call.rest) = step
    BY <1>1, RemainderHead
  <2>3. RecordSeen(records, versions, call, tx)
    BY DEF UnderWay
  <2>4. call.seen \in RecordOf(key)
    BY <1>4, <2>1, <2>2, <2>3 DEF RecordSeen
  <2>5. key[1] = api.entity
    BY DEF AskedKey
  <2> QED BY <2>4, <2>5 DEF RecordOf
<1> HIDE DEF stored
<1>5. ASSUME api.operation \in {"create", "update_status", "delete"}
      PROVE  stored = {} \/ stored \subseteq DOMAIN call.seen.document
  <2>1. CASE api.operation = "update_status" /\ step.status # 404
    BY <1>3, <1>4, <2>1
  <2>2. CASE ~(api.operation = "update_status" /\ step.status # 404)
    BY <1>3, <1>5, <2>2
  <2> QED BY <2>1, <2>2
<1> QED BY <1>3, <1>5 DEF stored

----
(***************************************************************************)
(* What a step of a handler comes to: it goes on, or it ends the call.     *)
(***************************************************************************)

Ended(c, status) == calls' = [calls EXCEPT ![c] = [rest |-> <<>>, answer |-> status]]

Failed(c) ==
    /\ Ended(c, 500)
    /\ txs' = [txs EXCEPT ![c] = O!Closed]
    /\ UNCHANGED store

Proceeded(c) ==
    /\ UNCHANGED store
    /\ \E next, after :
          /\ calls' = [calls EXCEPT ![c] = next]
          /\ txs' = [txs EXCEPT ![c] = after]
          /\ IsCall(next)
          /\ next.api = calls[c].api /\ next.request = calls[c].request
          /\ next.answer = calls[c].answer
          /\ UnderWay(records, versions, next, after)

Committed(c) ==
    /\ Step(c).op = "commit"
    /\ O!Validates(versions, txs[c])
    /\ records' = O!CommitRecords(records, versions, txs[c])
    /\ versions' = O!CommitVersions(versions, txs[c])
    /\ txs' = [txs EXCEPT ![c] = O!Closed]
    /\ \/ Ended(c, Step(c).status)
       \/ Ended(c, 500) /\ calls[c].api.operation \notin {"create", "update_status", "delete"}

Responded(c) ==
    /\ Step(c).op \in {"raise", "respond"}
    /\ Ended(c, 500) \/ (Step(c).op = "respond" /\ Ended(c, Step(c).status))
    /\ UNCHANGED <<store, txs>>

\* A call has looked up its record and goes on by it.
Looks(c, seen, rest) == calls' = [calls EXCEPT ![c].seen = seen, ![c].rest = rest]

\* A call that looked up its record is still a call, of the same request.
LEMMA LookedUp ==
    ASSUME NEW c, IsCall(calls[c]), NEW seen, NEW rest, Looks(c, seen, rest)
    PROVE  \E next : /\ calls' = [calls EXCEPT ![c] = next]
                     /\ IsCall(next)
                     /\ next.api = calls[c].api /\ next.request = calls[c].request
                     /\ next.answer = calls[c].answer
                     /\ next.seen = seen /\ next.rest = rest
<1> DEFINE call == calls[c]
           looking == [call EXCEPT !.seen = seen]
           next == [looking EXCEPT !.rest = rest]
<1>1. call = [api |-> call.api, request |-> call.request, rest |-> call.rest,
              seen |-> call.seen, answer |-> call.answer]
  BY DEF IsCall
<1>2. calls' = [calls EXCEPT ![c] = next]
  BY DEF Looks
<1> HIDE DEF call, next
<1>3. looking = [api |-> call.api, request |-> call.request, rest |-> call.rest,
                 seen |-> seen, answer |-> call.answer]
  BY <1>1
<1> HIDE DEF looking
<1>4. next = [api |-> call.api, request |-> call.request, rest |-> rest,
              seen |-> seen, answer |-> call.answer]
  BY <1>3 DEF next
<1>5. IsCall(call)
  BY DEF call
<1>6. /\ IsCall(next)
      /\ next.api = call.api /\ next.request = call.request
      /\ next.answer = call.answer
      /\ next.seen = seen /\ next.rest = rest
  BY <1>4, <1>5 DEF IsCall
<1> QED BY <1>2, <1>6 DEF call

\* A step that goes on to the next one.
LEMMA Advances ==
    ASSUME NEW c, IsCall(calls[c]), Advance(c), NEW next, next = [calls[c] EXCEPT !.rest = Tail(@)],
           NEW after, txs' = [txs EXCEPT ![c] = after], UNCHANGED store,
           UnderWay(records, versions, next, after)
    PROVE  Proceeded(c)
<1>1. calls' = [calls EXCEPT ![c] = next]
  BY DEF Advance
<1>2. /\ IsCall(next)
      /\ next.api = calls[c].api /\ next.request = calls[c].request
      /\ next.answer = calls[c].answer
  BY Advanced
<1> QED BY <1>1, <1>2 DEF Proceeded

\* Every step of a handler goes on, commits, answers at once or fails.
LEMMA HandleSteps ==
    ASSUME CrudInv, NEW c \in Client, Handle(c)
    PROVE  /\ calls[c].rest # <<>>
           /\ UNCHANGED <<language, batches>>
           /\ Failed(c) \/ Proceeded(c) \/ Committed(c) \/ Responded(c)
<1> DEFINE call == calls[c]
           tx == txs[c]
           step == Head(call.rest)
           key == <<step.entity, EvalAll(call, step.key)>>
           next == [call EXCEPT !.rest = Tail(@)]
<1>1. call.rest # <<>>
  BY DEF Handle, OpenTx, RequireParent, RequireVacant, RequireCurrent, RequireTx, GetRecord,
         PutRecord, QueryIndex, CommitAndAnswer, RaiseOrRespond, At, Busy
<1>2. UNCHANGED <<language, batches>>
  BY DEF Handle, OpenTx, RequireParent, RequireVacant, RequireCurrent, RequireTx, GetRecord,
         PutRecord, QueryIndex, CommitAndAnswer, RaiseOrRespond
<1>3. CallInv(records, versions, call, tx) /\ language = "cpp" /\ StoreInv(records, versions)
  BY DEF CrudInv
<1>4. IsCall(call)
  BY <1>1, <1>3, CallPhases
<1>5. step.op \in DOMAIN Rank => UnderWay(records, versions, call, tx)
  BY <1>1, <1>3, CallPhases
<1>6. step.op \in {"respond", "raise", "open"} => Fresh(call)
  BY <1>1, <1>3, CallPhases
<1>7. StepKey(c) = key
  BY DEF StepKey, Step
<1>8. \A op : At(c, op) => step.op = op
  BY DEF At, Step
<1> HIDE DEF key, next
<1>9. ASSUME Fail(c), UNCHANGED store
      PROVE  Failed(c)
  BY <1>9 DEF Fail, Abort, Answer, Failed, Ended
<1>10. CASE OpenTx(c)
  <2>1. step.op = "open" /\ UNCHANGED store
    BY <1>8, <1>10 DEF OpenTx
  <2>2. CASE Decoded(c)
    <3>1. Advance(c) /\ txs' = [txs EXCEPT ![c] = O!Begun]
      BY <1>10, <2>2 DEF OpenTx
    <3>2. step.decodes \subseteq DOMAIN call.request.body
      BY <2>2 DEF Decoded, Step
    <3>3. UnderWay(records, versions, next, O!Begun)
      BY <1>3, <1>4, <1>6, <2>1, <3>2, OpenStep DEF next
    <3>4. Proceeded(c)
      BY <1>4, <2>1, <3>1, <3>3, Advances DEF next
    <3> QED BY <1>1, <1>2, <3>4
  <2>3. CASE ~Decoded(c)
    BY <1>1, <1>2, <1>9, <1>10, <2>1, <2>3 DEF OpenTx
  <2> QED BY <2>2, <2>3
<1>11. ASSUME NEW op, NEW holds, RequireTx(c, op, holds)
       PROVE  /\ step.op = op /\ UNCHANGED store
              /\ ~holds => Failed(c)
              /\ holds => Advance(c) /\ txs' = [txs EXCEPT ![c] = Get(tx, key)]
  BY <1>7, <1>8, <1>9, <1>11 DEF RequireTx
<1>12. CASE RequireParent(c)
  <2>1. RequireTx(c, "parent", At(c, "parent") /\ Exists(c))
    BY <1>12 DEF RequireParent
  <2>2. CASE At(c, "parent") /\ Exists(c)
    <3>1. step.op = "parent" /\ UNCHANGED store /\ Advance(c) /\ txs' = [txs EXCEPT ![c] = Get(tx, key)]
      BY <1>11, <2>1, <2>2
    <3>2. O!Visible(records, tx, key) # Absent
      BY <1>7, <2>2 DEF Exists
    <3>3. UnderWay(records, versions, call, tx)
      BY <1>5, <3>1 DEF Rank
    <3>4. UnderWay(records, versions, next, Get(tx, key))
      BY <1>3, <1>4, <3>1, <3>2, <3>3, ParentStep DEF next, key
    <3>5. Proceeded(c)
      BY <1>4, <3>1, <3>4, Advances DEF next
    <3> QED BY <1>1, <1>2, <3>5
  <2>3. CASE ~(At(c, "parent") /\ Exists(c))
    BY <1>1, <1>2, <1>11, <2>1, <2>3
  <2> QED BY <2>2, <2>3
<1>13. CASE RequireVacant(c)
  <2>1. RequireTx(c, "vacant", At(c, "vacant") /\ ~Exists(c))
    BY <1>13 DEF RequireVacant
  <2>2. CASE At(c, "vacant") /\ ~Exists(c)
    <3>1. step.op = "vacant" /\ UNCHANGED store /\ Advance(c) /\ txs' = [txs EXCEPT ![c] = Get(tx, key)]
      BY <1>11, <2>1, <2>2
    <3>2. O!Visible(records, tx, key) = Absent
      BY <1>7, <2>2 DEF Exists
    <3>3. UnderWay(records, versions, call, tx)
      BY <1>5, <3>1 DEF Rank
    <3>4. UnderWay(records, versions, next, Get(tx, key))
      BY <1>3, <1>4, <3>1, <3>2, <3>3, VacantStep DEF next, key
    <3>5. Proceeded(c)
      BY <1>4, <3>1, <3>4, Advances DEF next
    <3> QED BY <1>1, <1>2, <3>5
  <2>3. CASE ~(At(c, "vacant") /\ ~Exists(c))
    BY <1>1, <1>2, <1>11, <2>1, <2>3
  <2> QED BY <2>2, <2>3
<1>14. CASE RequireCurrent(c)
  <2> DEFINE holds == /\ At(c, "current")
                      /\ <<call.seen.document["status"], Eval(call, Step(c).to)>> \in Step(c).allowed
                      /\ records[StepKey(c)] # Absent
                      /\ records[StepKey(c)].version = call.seen.version
  <2>1. RequireTx(c, "current", holds)
    BY <1>14 DEF RequireCurrent
  <2>2. CASE holds
    <3>1. step.op = "current" /\ UNCHANGED store /\ Advance(c) /\ txs' = [txs EXCEPT ![c] = Get(tx, key)]
      BY <1>11, <2>1, <2>2
    <3>2. <<call.seen.document["status"], Eval(call, step.to)>> \in step.allowed
      BY <2>2 DEF Step
    <3>3. UnderWay(records, versions, call, tx)
      BY <1>5, <3>1 DEF Rank
    <3>4. UnderWay(records, versions, next, Get(tx, key))
      BY <1>3, <1>4, <3>1, <3>2, <3>3, CurrentStep DEF next, key
    <3>5. Proceeded(c)
      BY <1>4, <3>1, <3>4, Advances DEF next
    <3> QED BY <1>1, <1>2, <3>5
  <2>3. CASE ~holds
    BY <1>1, <1>2, <1>11, <2>1, <2>3
  <2> QED BY <2>2, <2>3
<1>15. CASE GetRecord(c)
  <2> DEFINE further == IF O!Visible(records, tx, key) # Absent THEN Tail(call.rest)
                     ELSE <<CommitAs(404, NoBody, TRUE)>>
  <2>1. step.op = "get" /\ UNCHANGED store
    BY <1>8, <1>15 DEF GetRecord
  <2>2. txs' = [txs EXCEPT ![c] = Get(tx, key)]
    BY <1>7, <1>15 DEF GetRecord
  <2>3. Looks(c, records[key], further)
    BY <1>7, <1>15 DEF GetRecord, Exists, Looks
  <2> HIDE DEF further
  <2>4. PICK found : /\ calls' = [calls EXCEPT ![c] = found]
                     /\ IsCall(found)
                     /\ found.api = call.api /\ found.request = call.request
                     /\ found.answer = call.answer
                     /\ found.seen = records[key] /\ found.rest = further
    BY <1>4, <2>3, LookedUp
  <2>7. UnderWay(records, versions, call, tx)
    BY <1>5, <2>1 DEF Rank
  <2>8. UnderWay(records, versions, found, Get(tx, key))
    <3> DEFINE after == Get(tx, key)
    <3>1. key = <<Head(call.rest).entity, EvalAll(call, Head(call.rest).key)>>
      BY DEF key
    <3>2. found.rest = GetRest(tx, key, call.rest)
      BY <2>4 DEF further, GetRest
    <3>3. after = Get(tx, key)
      OBVIOUS
    <3>5. /\ language = "cpp" /\ StoreInv(records, versions) /\ IsCall(call)
          /\ Head(call.rest).op = "get"
      BY <1>3, <1>4, <2>1
    <3>6. /\ IsCall(found) /\ found.api = call.api /\ found.request = call.request
          /\ found.seen = records[key]
      BY <2>4
    <3> HIDE DEF after, key, call, tx, further
    <3>4. UnderWay(records, versions, found, after)
      BY <2>7, <3>1, <3>2, <3>3, <3>5, <3>6, GetStep
    <3> QED BY <3>3, <3>4
  <2>9. Proceeded(c)
    BY <2>1, <2>2, <2>4, <2>8 DEF Proceeded
  <2> QED BY <1>1, <1>2, <2>9
<1>16. CASE PutRecord(c)
  <2>1. step.op = "put" /\ UNCHANGED store /\ Advance(c)
    BY <1>8, <1>16 DEF PutRecord
  <2>2. txs' = [txs EXCEPT ![c] = Put(tx, key, EvalAll(call, step.document))]
    BY <1>7, <1>16 DEF PutRecord, Step
  <2>3. UnderWay(records, versions, call, tx)
    BY <1>5, <2>1 DEF Rank
  <2>4. UnderWay(records, versions, next, Put(tx, key, EvalAll(call, step.document)))
    BY <1>3, <1>4, <2>1, <2>3, PutStep DEF next, key
  <2>5. Proceeded(c)
    BY <1>4, <2>1, <2>2, <2>4, Advances DEF next
  <2> QED BY <1>1, <1>2, <2>5
<1>17. CASE QueryIndex(c)
  <2>1. step.op = "query" /\ UNCHANGED store /\ Advance(c)
    BY <1>8, <1>17 DEF QueryIndex
  <2>2. PICK found : txs' = [txs EXCEPT ![c] = Reading(tx, found)]
    BY <1>17 DEF QueryIndex
  <2>3. UnderWay(records, versions, call, tx)
    BY <1>5, <2>1 DEF Rank
  <2>4. UnderWay(records, versions, next, Reading(tx, found))
    BY <1>3, <1>4, <2>1, <2>3, QueryStep DEF next
  <2>5. Proceeded(c)
    BY <1>4, <2>1, <2>2, <2>4, Advances DEF next
  <2> QED BY <1>1, <1>2, <2>5
<1>18. CASE CommitAndAnswer(c)
  <2>1. step.op = "commit"
    BY <1>8, <1>18 DEF CommitAndAnswer
  <2>2. UnderWay(records, versions, call, tx)
    BY <1>5, <2>1 DEF Rank
  <2>3. CASE Commits(c)
    <3> DEFINE stored == {f \in DOMAIN step.body : step.body[f] = Stored(f)}
               decodable == \/ ~step.strict
                            \/ stored = {}
                            \/ stored \subseteq DOMAIN call.seen.document
    <3>1. O!Validates(versions, tx)
      BY <2>3 DEF Commits
    <3>2. CommitTx(c) /\ Answer(c, IF decodable THEN step.status ELSE 500)
      BY <1>18, <2>3 DEF CommitAndAnswer, Step
    <3>3. call.api.operation \in {"create", "update_status", "delete"} =>
            stored = {} \/ stored \subseteq DOMAIN call.seen.document
      BY <1>3, <1>4, <2>1, <2>2, <3>1, CommitAnswers
    <3> HIDE DEF stored
    <3>4. \/ Ended(c, step.status)
          \/ Ended(c, 500) /\ call.api.operation \notin {"create", "update_status", "delete"}
      <4>1. CASE decodable
        BY <3>2, <4>1 DEF Answer, Ended
      <4>2. CASE ~decodable
        BY <3>2, <3>3, <4>2 DEF Answer, Ended
      <4> QED BY <4>1, <4>2
    <3>5. Committed(c)
      BY <2>1, <3>1, <3>2, <3>4 DEF CommitTx, Committed, Step
    <3> QED BY <1>1, <1>2, <3>5
  <2>4. CASE ~Commits(c)
    BY <1>1, <1>2, <1>9, <1>18, <2>4 DEF CommitAndAnswer
  <2> QED BY <2>3, <2>4
<1>19. CASE RaiseOrRespond(c)
  <2>1. step.op \in {"raise", "respond"} /\ UNCHANGED <<store, txs>>
    BY <1>8, <1>19 DEF RaiseOrRespond
  <2>2. Ended(c, 500) \/ (step.op = "respond" /\ Ended(c, step.status))
    BY <1>8, <1>19 DEF RaiseOrRespond, Answer, Ended, Step
  <2>3. Responded(c)
    BY <2>1, <2>2 DEF Responded, Step
  <2> QED BY <1>1, <1>2, <2>3
<1> QED BY <1>10, <1>12, <1>13, <1>14, <1>15, <1>16, <1>17, <1>18, <1>19 DEF Handle

----
(***************************************************************************)
(* The garbage collector.                                                  *)
(***************************************************************************)

\* What a step of the collector comes to.
SweptBy(g) ==
    /\ UNCHANGED <<language, calls>>
    /\ StoreInv(records', versions')
    /\ Forward(records, versions, records', versions')
    /\ \E after, batch : /\ txs' = [txs EXCEPT ![g] = after]
                         /\ batches' = [batches EXCEPT ![g] = batch]
                         /\ BatchInv(records', versions', after, batch)
    /\ \A k \in Key : \/ records'[k] = records[k]
                      \/ /\ records'[k] = Absent
                         /\ StatusIn(records, k) \in Entity(k[1]).terminal

\* A store nobody writes.
LEMMA Still ==
    ASSUME StoreInv(records, versions), UNCHANGED store
    PROVE  /\ StoreInv(records', versions')
           /\ Forward(records, versions, records', versions')
           /\ \A k \in Key : records'[k] = records[k]
BY DEF store, StoreInv, Forward

\* The collector reads the records of its entity, lists those in a terminal status
\* and erases what is still as it was listed (EntityGcWorker::run_once).
LEMMA CollectSteps ==
    ASSUME CrudInv, NEW g \in Collector, Collect(g)
    PROVE  SweptBy(g)
<1> DEFINE tx == txs[g]
<1>1. /\ language = "cpp" /\ StoreInv(records, versions) /\ BatchInv(records, versions, tx, batches[g])
      /\ batches = [h \in Collector |-> batches[h]]
  BY DEF CrudInv
<1>2. CASE ListEligible(g)
  <2> DEFINE live == {k \in Key : k[1] = Collected /\ O!Live(records, k)}
             after == Reading(O!Begun, live)
  <2>1. UNCHANGED <<language, calls>> /\ UNCHANGED store /\ txs' = [txs EXCEPT ![g] = after]
    BY <1>2 DEF ListEligible
  <2>2. PICK batch : /\ batch \subseteq {k \in Key : Eligible(k)}
                     /\ batches' = [batches EXCEPT ![g] = batch]
    BY <1>2 DEF ListEligible, kSubset
  <2>3. TxInv(records, versions, O!Begun)
    BY <1>1, BegunFacts
  <2>4. \A k \in Key : O!Begun.reads[k] = O!Unread /\ O!Begun.puts[k] = Absent
    BY <1>1, BegunFacts
  <2>5. O!Begun.erases = {}
    BY <1>1, BegunFacts
  <2> DEFINE tx0 == O!Begun
  <2> HIDE DEF live, after, tx0
  <2>6. TxInv(records, versions, after)
    BY <1>1, <2>3, ReadFacts DEF after
  <2>7. after.puts = O!Begun.puts /\ after.erases = O!Begun.erases
    BY <1>1, <2>3, ReadFacts DEF after
  <2>8. \A k \in Key :
           after.reads[k] = IF k \in live /\ O!Begun.reads[k] = O!Unread
                            THEN IF records[k] # Absent THEN versions[k] ELSE 0
                            ELSE O!Begun.reads[k]
    BY <1>1, <2>3, ReadFacts DEF after
  <2>9. ASSUME NEW k \in batch
        PROVE  /\ k \in Key /\ k[1] = Collected /\ after.reads[k] > 0
               /\ records[k].document["status"] \in Entity(Collected).terminal
    <3>1. k \in Key /\ Eligible(k)
      BY <2>2
    <3>2. k \in live /\ records[k] # Absent
      BY <3>1 DEF Eligible, O!Live, live
    <3>3. versions[k] > 0
      BY <1>1, <3>1, <3>2 DEF StoreInv, RecordOf
    <3> QED BY <2>4, <2>8, <3>1, <3>2, <3>3 DEF Eligible
  <2>10. BatchInv(records, versions, after, batch)
    BY <2>4, <2>5, <2>6, <2>7, <2>9 DEF BatchInv
  <2>11. records' = records /\ versions' = versions
    BY <2>1 DEF store
  <2> QED BY <1>1, <2>1, <2>2, <2>10, <2>11, Still DEF SweptBy
<1>3. CASE FinalizeGc(g)
  <2> DEFINE key == CHOOSE k \in batches[g] : TRUE
             after == Erase(tx, key)
             batch == batches[g] \ {key}
  <2>1. /\ tx.open /\ batches[g] # {}
        /\ txs' = [txs EXCEPT ![g] = after]
        /\ batches' = [batches EXCEPT ![g] = batch]
        /\ UNCHANGED <<language, calls>> /\ UNCHANGED store
    BY <1>3 DEF FinalizeGc
  <2>2. key \in batches[g]
    BY <2>1
  <2> HIDE DEF key
  <2>3. /\ TxInv(records, versions, tx)
        /\ \A k \in Key : tx.puts[k] = Absent
        /\ \A k \in batches[g] \cup tx.erases :
              /\ k \in Key
              /\ k[1] = Collected
              /\ tx.reads[k] > 0
              /\ tx.reads[k] = versions[k] =>
                    records[k].document["status"] \in Entity(Collected).terminal
    BY <1>1, <2>1 DEF BatchInv
  <2>4. key \in Key /\ tx.puts[key] = Absent /\ tx.reads[key] # O!Unread
    BY <2>2, <2>3 DEF O!Unread
  <2> HIDE DEF after
  <2>5. TxInv(records, versions, after)
    BY <1>1, <2>3, <2>4, EraseFacts DEF after
  <2>6. after.reads = tx.reads /\ after.erases = tx.erases \cup {key}
    BY <1>1, <2>3, <2>4, EraseFacts DEF after
  <2>7. \A k \in Key : after.puts[k] = tx.puts[k]
    BY <1>1, <2>3, <2>4, EraseFacts DEF after
  <2>8. BatchInv(records, versions, after, batch)
    <3>1. batch \cup after.erases \subseteq batches[g] \cup tx.erases
      BY <2>2, <2>6
    <3> QED BY <2>3, <2>5, <2>6, <2>7, <3>1 DEF BatchInv
  <2>9. records' = records /\ versions' = versions
    BY <2>1 DEF store
  <2> QED BY <1>1, <2>1, <2>8, <2>9, Still DEF SweptBy
<1>4. CASE CommitGc(g)
  <2>1. tx.open /\ batches[g] = {} /\ UNCHANGED <<language, calls>> /\ batches' = batches
    BY <1>4 DEF CommitGc
  <2>2. batches' = [batches EXCEPT ![g] = batches[g]]
    BY <1>1, <2>1
  <2>3. txs' = [txs EXCEPT ![g] = O!Closed]
    BY <1>4 DEF CommitGc, CommitTx, Abort
  <2>4. BatchInv(records', versions', O!Closed, batches[g])
    BY DEF BatchInv, O!Closed
  <2>5. CASE Commits(g)
    <3>1. /\ records' = O!CommitRecords(records, versions, tx)
          /\ versions' = O!CommitVersions(versions, tx)
          /\ O!Validates(versions, tx)
      BY <1>4, <2>5 DEF CommitGc, CommitTx, Commits
    <3>2. /\ TxInv(records, versions, tx)
          /\ \A k \in Key : tx.puts[k] = Absent
          /\ \A k \in tx.erases :
                /\ k \in Key
                /\ k[1] = Collected
                /\ tx.reads[k] > 0
                /\ tx.reads[k] = versions[k] =>
                      records[k].document["status"] \in Entity(Collected).terminal
      BY <1>1, <2>1 DEF BatchInv
    <3>3. \A k \in Key : tx.puts[k] # Absent => tx.puts[k] \in [Entity(k[1]).fields -> Value]
      BY <3>2
    <3>4. StoreInv(records', versions')
      BY <1>1, <3>1, <3>3, CommitFacts
    <3>5. Forward(records, versions, records', versions')
      BY <1>1, <3>1, <3>3, CommitFacts
    <3>6. ASSUME NEW k \in Key
          PROVE  \/ records'[k] = records[k]
                 \/ /\ records'[k] = Absent
                    /\ StatusIn(records, k) \in Entity(k[1]).terminal
      <4>1. CASE k \in tx.erases
        <5>1. records'[k] = Absent
          BY <3>1, <4>1 DEF O!CommitRecords
        <5>2. tx.reads[k] # O!Unread
          BY <3>2, <4>1 DEF O!Unread
        <5>3. tx.reads[k] = versions[k] /\ versions[k] > 0
          BY <3>1, <3>2, <4>1, <5>2 DEF O!Validates
        <5>4. records[k] # Absent
          BY <3>2, <5>3 DEF TxInv
        <5> QED BY <3>2, <4>1, <5>1, <5>3, <5>4 DEF StatusIn
      <4>2. CASE k \notin tx.erases
        BY <3>1, <3>2, <4>2 DEF O!CommitRecords, O!Putting
      <4> QED BY <4>1, <4>2
    <3> QED BY <2>1, <2>2, <2>3, <2>4, <3>4, <3>5, <3>6 DEF SweptBy
  <2>6. CASE ~Commits(g)
    <3>1. UNCHANGED store
      BY <1>4, <2>6 DEF CommitGc
    <3> QED BY <1>1, <2>1, <2>2, <2>3, <2>4, <3>1, Still DEF SweptBy
  <2> QED BY <2>5, <2>6
<1> QED BY <1>2, <1>3, <1>4 DEF Collect

----
(***************************************************************************)
(* The invariant holds.                                                    *)
(***************************************************************************)

\* A function after an update at one of its arguments.
LEMMA Updated ==
    ASSUME NEW S, NEW f, f = [x \in S |-> f[x]], NEW a \in S, NEW v,
           NEW g, g = [f EXCEPT ![a] = v]
    PROVE  /\ g = [x \in S |-> g[x]]
           /\ g[a] = v
           /\ \A x \in S \ {a} : g[x] = f[x]
<1>1. g = [x \in S |-> IF x = a THEN v ELSE f[x]]
  OBVIOUS
<1> QED BY <1>1

\* A step of a client leaves what is known of the other threads.
LEMMA ClientKeeps ==
    ASSUME CrudInv, NEW c \in Client, UNCHANGED <<language, batches>>,
           StoreInv(records', versions'), Forward(records, versions, records', versions'),
           NEW call, calls' = [calls EXCEPT ![c] = call],
           NEW tx, txs' = [txs EXCEPT ![c] = tx],
           CallInv(records', versions', call, tx)
    PROVE  CrudInv'
<1>1. /\ calls = [d \in Client |-> calls[d]] /\ txs = [t \in Thread |-> txs[t]]
      /\ batches = [g \in Collector |-> batches[g]]
      /\ language = "cpp" /\ StoreInv(records, versions)
      /\ \A d \in Client : CallInv(records, versions, calls[d], txs[d])
      /\ \A g \in Collector : BatchInv(records, versions, txs[g], batches[g])
  BY DEF CrudInv
<1>2. c \in Thread
  BY DEF Thread
<1>3. calls' = [d \in Client |-> calls'[d]] /\ calls'[c] = call
      /\ \A d \in Client \ {c} : calls'[d] = calls[d]
  BY <1>1, Updated
<1>4. txs' = [t \in Thread |-> txs'[t]] /\ txs'[c] = tx
      /\ \A t \in Thread \ {c} : txs'[t] = txs[t]
  BY <1>1, <1>2, Updated
<1>5. ASSUME NEW d \in Client
      PROVE  CallInv(records', versions', calls'[d], txs'[d])
  <2>1. CASE d = c
    BY <1>3, <1>4, <2>1
  <2>2. CASE d # c
    <3>1. calls'[d] = calls[d] /\ txs'[d] = txs[d]
      BY <1>3, <1>4, <2>2 DEF Thread
    <3>2. CallInv(records', versions', calls[d], txs[d])
      BY <1>1, ForwardCall
    <3> QED BY <3>1, <3>2
  <2> QED BY <2>1, <2>2
<1>6. ASSUME NEW g \in Collector
      PROVE  BatchInv(records', versions', txs'[g], batches'[g])
  <2>1. g # c
    BY ThreadAssumption
  <2>2. txs'[g] = txs[g] /\ batches'[g] = batches[g]
    BY <1>4, <2>1 DEF Thread
  <2>3. BatchInv(records', versions', txs[g], batches[g])
    BY <1>1, ForwardBatch
  <2> QED BY <2>2, <2>3
<1>7. batches' = [g \in Collector |-> batches'[g]] /\ language' = "cpp"
  BY <1>1
<1> QED BY <1>3, <1>4, <1>5, <1>6, <1>7 DEF CrudInv

\* A step of the collector leaves what is known of the other threads.
LEMMA CollectorKeeps ==
    ASSUME CrudInv, NEW g \in Collector, SweptBy(g)
    PROVE  CrudInv'
<1>1. /\ calls = [d \in Client |-> calls[d]] /\ txs = [t \in Thread |-> txs[t]]
      /\ batches = [h \in Collector |-> batches[h]]
      /\ language = "cpp" /\ StoreInv(records, versions)
      /\ \A d \in Client : CallInv(records, versions, calls[d], txs[d])
      /\ \A h \in Collector : BatchInv(records, versions, txs[h], batches[h])
  BY DEF CrudInv
<1>2. PICK after, batch : /\ txs' = [txs EXCEPT ![g] = after]
                          /\ batches' = [batches EXCEPT ![g] = batch]
                          /\ BatchInv(records', versions', after, batch)
  BY DEF SweptBy
<1>3. /\ StoreInv(records', versions') /\ Forward(records, versions, records', versions')
      /\ language' = language /\ calls' = calls
  BY DEF SweptBy
<1>4. g \in Thread
  BY DEF Thread
<1>5. txs' = [t \in Thread |-> txs'[t]] /\ txs'[g] = after
      /\ \A t \in Thread \ {g} : txs'[t] = txs[t]
  BY <1>1, <1>2, <1>4, Updated
<1>6. batches' = [h \in Collector |-> batches'[h]] /\ batches'[g] = batch
      /\ \A h \in Collector \ {g} : batches'[h] = batches[h]
  BY <1>1, <1>2, Updated
<1>7. ASSUME NEW d \in Client
      PROVE  CallInv(records', versions', calls'[d], txs'[d])
  <2>1. d # g
    BY ThreadAssumption
  <2>2. calls'[d] = calls[d] /\ txs'[d] = txs[d]
    BY <1>3, <1>5, <2>1 DEF Thread
  <2>3. CallInv(records', versions', calls[d], txs[d])
    BY <1>1, <1>3, ForwardCall
  <2> QED BY <2>2, <2>3
<1>8. ASSUME NEW h \in Collector
      PROVE  BatchInv(records', versions', txs'[h], batches'[h])
  <2>1. CASE h = g
    BY <1>2, <1>5, <1>6, <2>1
  <2>2. CASE h # g
    <3>1. txs'[h] = txs[h] /\ batches'[h] = batches[h]
      BY <1>5, <1>6, <2>2 DEF Thread
    <3>2. BatchInv(records', versions', txs[h], batches[h])
      BY <1>1, <1>3, ForwardBatch
    <3> QED BY <3>1, <3>2
  <2> QED BY <2>1, <2>2
<1>9. calls' = [d \in Client |-> calls'[d]]
  BY <1>1, <1>3
<1> QED BY <1>1, <1>3, <1>5, <1>6, <1>7, <1>8, <1>9 DEF CrudInv

\* The store starts with entities in their initial status, or without any.
LEMMA CrudInvStarts ==
    ASSUME Languages = {"cpp"}, Init
    PROVE  CrudInv
<1>1. language = "cpp"
  BY DEF Init
<1>2. PICK existing \in SUBSET Key, plain \in Text :
         /\ records = [k \in Key |->
                IF k \in existing
                THEN [version  |-> 1,
                      document |-> [f \in Entity(k[1]).fields |->
                          CASE f = "status"              -> Entity(k[1]).initial
                            [] f \in Timestamps          -> "now"
                            [] f \in Entity(k[1]).keys   -> k[2][f]
                            [] OTHER                     -> plain]]
                ELSE Absent]
         /\ versions = [k \in Key |-> IF k \in existing THEN 1 ELSE 0]
  BY DEF Init
<1>3. ASSUME NEW k \in Key
      PROVE  /\ versions[k] \in Nat
             /\ records[k] # Absent => /\ records[k] \in RecordOf(k)
                                       /\ records[k].version = versions[k]
  <2> DEFINE value(f) == CASE f = "status"              -> Entity(k[1]).initial
                           [] f \in Timestamps          -> "now"
                           [] f \in Entity(k[1]).keys   -> k[2][f]
                           [] OTHER                     -> plain
  <2>1. CASE k \in existing
    <3>1. versions[k] = 1
      BY <1>2, <2>1
    <3>2. records[k] = [version |-> 1, document |-> [f \in Entity(k[1]).fields |-> value(f)]]
      BY <1>2, <2>1
    <3>3. ASSUME NEW f \in Entity(k[1]).fields
          PROVE  value(f) \in Value
      <4>1. PICK e \in DOMAIN System.entities : k \in {e} \X [Entity(e).keys -> Text]
        BY DEF Key
      <4>2. k[1] = e /\ k[2] \in [Entity(e).keys -> Text]
        BY <4>1
      <4>3. Entity(e).initial \in Value
        BY SystemAssumption DEF Value
      <4>4. "now" \in Value /\ plain \in Value
        BY <1>2 DEF Value
      <4>5. f \in Entity(e).keys => k[2][f] \in Value
        BY <4>2 DEF Value
      <4>a. Entity(k[1]).keys \cap Foundational = {}
        BY <4>2, SystemAssumption
      <4>6. CASE f = "status"
        <5>1. f \notin Timestamps /\ f \notin Entity(k[1]).keys
          BY <4>6, <4>a DEF Foundational, Timestamps
        <5>2. value(f) = Entity(k[1]).initial
          BY <4>6, <5>1
        <5> QED BY <4>2, <4>3, <5>2
      <4>7. CASE f \in Timestamps
        <5>1. f # "status" /\ f \notin Entity(k[1]).keys
          BY <4>7, <4>a DEF Foundational, Timestamps
        <5>2. value(f) = "now"
          BY <4>7, <5>1
        <5> QED BY <4>4, <5>2
      <4>8. CASE f # "status" /\ f \notin Timestamps
        <5>1. CASE f \in Entity(k[1]).keys
          <6>1. value(f) = k[2][f]
            BY <4>8, <5>1
          <6> QED BY <4>2, <4>5, <5>1, <6>1
        <5>2. CASE f \notin Entity(k[1]).keys
          <6>1. value(f) = plain
            BY <4>8, <5>2
          <6> QED BY <4>4, <6>1
        <5> QED BY <5>1, <5>2
      <4> QED BY <4>6, <4>7, <4>8
    <3> HIDE DEF value
    <3>4. [f \in Entity(k[1]).fields |-> value(f)] \in [Entity(k[1]).fields -> Value]
      BY <3>3
    <3>5. records[k] \in RecordOf(k) /\ records[k].version = 1
      BY <3>2, <3>4 DEF RecordOf
    <3> QED BY <3>1, <3>5
  <2>2. CASE k \notin existing
    <3>1. records[k] = Absent /\ versions[k] = 0
      BY <1>2, <2>2
    <3> QED BY <3>1
  <2> QED BY <2>1, <2>2
<1>4. StoreInv(records, versions)
  BY <1>3 DEF StoreInv
<1>5. calls = [c \in Client |-> calls[c]] /\ txs = [t \in Thread |-> txs[t]]
      /\ batches = [g \in Collector |-> batches[g]]
  BY DEF Init
<1>6. ASSUME NEW c \in Client
      PROVE  CallInv(records, versions, calls[c], txs[c])
  BY DEF Init, CallInv
<1>7. ASSUME NEW g \in Collector
      PROVE  BatchInv(records, versions, txs[g], batches[g])
  <2>1. txs[g] = O!Closed
    BY DEF Init, Thread
  <2>2. ~txs[g].open
    BY <2>1 DEF O!Closed
  <2> QED BY <2>2 DEF BatchInv
<1> QED BY <1>1, <1>4, <1>5, <1>6, <1>7 DEF CrudInv

\* A call is received with the handler of its API.
LEMMA ReceiveSteps ==
    ASSUME CrudInv, NEW c \in Client, NEW api \in System.apis, NEW request \in Requests(api),
           Receive(c, api, request)
    PROVE  CrudInv'
<1> DEFINE call == [api |-> api, request |-> request, rest |-> Handler(language, api),
                    seen |-> Absent, answer |-> 0]
<1>1. /\ language = "cpp" /\ StoreInv(records, versions) /\ txs = [t \in Thread |-> txs[t]]
  BY DEF CrudInv
<1>2. /\ calls' = [calls EXCEPT ![c] = call]
      /\ UNCHANGED <<language, batches>> /\ UNCHANGED store /\ txs' = txs
  BY DEF Receive
<1>3. txs' = [txs EXCEPT ![c] = txs[c]]
  BY <1>1, <1>2
<1>4. call.rest = Cpp!CppHandler(System, api)
  BY <1>1 DEF Handler
<1>5. IsCall(call)
  BY DEF IsCall
<1>6. Fresh(call)
  BY <1>4 DEF Fresh
<1> HIDE DEF call
<1>7. CallInv(records', versions', call, txs[c])
  BY <1>5, <1>6 DEF CallInv
<1>8. StoreInv(records', versions')
  BY <1>1, <1>2, Still
<1>9. Forward(records, versions, records', versions')
  BY <1>1, <1>2, Still
<1> QED BY <1>2, <1>3, <1>7, <1>8, <1>9, ClientKeeps

\* An ended call has nothing left to know.
LEMMA EndedCall ==
    ASSUME NEW recs, NEW vers, NEW tx, NEW status
    PROVE  CallInv(recs, vers, [rest |-> <<>>, answer |-> status], tx)
BY DEF CallInv

\* Every step of a handler keeps the invariant.
LEMMA HandleKeeps ==
    ASSUME CrudInv, NEW c \in Client, Handle(c)
    PROVE  CrudInv'
<1>1. /\ StoreInv(records, versions) /\ txs = [t \in Thread |-> txs[t]]
      /\ CallInv(records, versions, calls[c], txs[c])
  BY DEF CrudInv
<1>2. calls[c].rest # <<>> /\ UNCHANGED <<language, batches>>
  BY HandleSteps
<1>3. CASE Failed(c)
  <2>1. /\ calls' = [calls EXCEPT ![c] = [rest |-> <<>>, answer |-> 500]]
        /\ txs' = [txs EXCEPT ![c] = O!Closed] /\ UNCHANGED store
    BY <1>3 DEF Failed, Ended
  <2>2. StoreInv(records', versions')
    BY <1>1, <2>1, Still
  <2>3. Forward(records, versions, records', versions')
    BY <1>1, <2>1, Still
  <2> DEFINE ended == [rest |-> <<>>, answer |-> 500]
  <2>4. CallInv(records', versions', ended, O!Closed)
    BY EndedCall
  <2>5. calls' = [calls EXCEPT ![c] = ended]
    BY <2>1
  <2> HIDE DEF ended
  <2>6. txs' = [txs EXCEPT ![c] = O!Closed] /\ UNCHANGED <<language, batches>>
    BY <1>2, <2>1
  <2> QED BY <2>2, <2>3, <2>4, <2>5, <2>6, ClientKeeps
<1>4. CASE Proceeded(c)
  <2>1. PICK next, after : /\ calls' = [calls EXCEPT ![c] = next]
                           /\ txs' = [txs EXCEPT ![c] = after]
                           /\ IsCall(next)
                           /\ UnderWay(records, versions, next, after)
    BY <1>4 DEF Proceeded
  <2>2. UNCHANGED store /\ records' = records /\ versions' = versions
    BY <1>4 DEF Proceeded, store
  <2>3. StoreInv(records', versions')
    BY <1>1, <2>2, Still
  <2>4. Forward(records, versions, records', versions')
    BY <1>1, <2>2, Still
  <2>5. CallInv(records', versions', next, after)
    BY <2>1, <2>2 DEF CallInv
  <2> QED BY <1>2, <2>1, <2>3, <2>4, <2>5, ClientKeeps
<1>5. CASE Committed(c)
  <2>1. PICK status : calls' = [calls EXCEPT ![c] = [rest |-> <<>>, answer |-> status]]
    BY <1>5 DEF Committed, Ended
  <2>2. txs' = [txs EXCEPT ![c] = O!Closed]
    BY <1>5 DEF Committed
  <2>3. /\ records' = O!CommitRecords(records, versions, txs[c])
        /\ versions' = O!CommitVersions(versions, txs[c])
    BY <1>5 DEF Committed
  <2>4. UnderWay(records, versions, calls[c], txs[c])
    <3>1. Head(calls[c].rest).op \in DOMAIN Rank
      BY <1>5 DEF Committed, Step, Rank
    <3> QED BY <1>1, <1>2, <3>1, CallPhases
  <2>5. \A k \in Key : txs[c].puts[k] # Absent => txs[c].puts[k] \in [Entity(k[1]).fields -> Value]
    BY <2>4, StagedDocuments DEF UnderWay
  <2>6. StoreInv(records', versions')
    BY <1>1, <2>3, <2>5, CommitFacts
  <2>7. Forward(records, versions, records', versions')
    BY <1>1, <2>3, <2>5, CommitFacts
  <2> QED BY <1>2, <2>1, <2>2, <2>6, <2>7, EndedCall, ClientKeeps
<1>6. CASE Responded(c)
  <2>1. PICK status : calls' = [calls EXCEPT ![c] = [rest |-> <<>>, answer |-> status]]
    BY <1>6 DEF Responded, Ended
  <2>2. UNCHANGED store /\ txs' = txs
    BY <1>6 DEF Responded
  <2>3. txs' = [txs EXCEPT ![c] = txs[c]]
    BY <1>1, <2>2
  <2>4. StoreInv(records', versions')
    BY <1>1, <2>2, Still
  <2>5. Forward(records, versions, records', versions')
    BY <1>1, <2>2, Still
  <2> QED BY <1>2, <2>1, <2>3, <2>4, <2>5, EndedCall, ClientKeeps
<1>7. Failed(c) \/ Proceeded(c) \/ Committed(c) \/ Responded(c)
  BY HandleSteps
<1> QED BY <1>3, <1>4, <1>5, <1>6, <1>7

\* The invariant of the C++ handlers: it relates what every call has read, checked
\* and staged to the store, whatever the other threads commit.
THEOREM CrudInvariant ==
    ASSUME Languages = {"cpp"}
    PROVE  Spec => []CrudInv
<1>1. Init => CrudInv
  BY CrudInvStarts
<1>2. CrudInv /\ [Next]_vars => CrudInv'
  <2> SUFFICES ASSUME CrudInv, [Next]_vars
               PROVE  CrudInv'
    OBVIOUS
  <2>1. ASSUME NEW c \in Client, NEW api \in System.apis, NEW r \in Requests(api), Receive(c, api, r)
        PROVE  CrudInv'
    BY <2>1, ReceiveSteps
  <2>2. ASSUME NEW c \in Client, Handle(c)
        PROVE  CrudInv'
    BY <2>2, HandleKeeps
  <2>3. ASSUME NEW g \in Collector, Collect(g)
        PROVE  CrudInv'
    BY <2>3, CollectSteps, CollectorKeeps
  <2>4. CASE UNCHANGED vars
    BY <2>4 DEF vars, CrudInv
  <2> QED BY <2>1, <2>2, <2>3, <2>4 DEF Next
<1> QED BY <1>1, <1>2, PTL DEF Spec

----
(***************************************************************************)
(* Statuses.                                                               *)
(***************************************************************************)

\* A call that commits is under way.
LEMMA CommittedCall ==
    ASSUME CrudInv, NEW c \in Client, calls[c].rest # <<>>, Committed(c)
    PROVE  /\ StoreInv(records, versions)
           /\ IsCall(calls[c]) /\ UnderWay(records, versions, calls[c], txs[c])
           /\ Head(calls[c].rest).op = "commit"
           /\ O!Validates(versions, txs[c])
           /\ records' = O!CommitRecords(records, versions, txs[c])
<1>1. Head(calls[c].rest).op = "commit"
  BY DEF Committed, Step
<1>2. Head(calls[c].rest).op \in DOMAIN Rank
  BY <1>1 DEF Rank
<1>3. StoreInv(records, versions) /\ CallInv(records, versions, calls[c], txs[c])
  BY DEF CrudInv
<1>4. IsCall(calls[c])
  BY <1>3, CallPhases
<1>5. UnderWay(records, versions, calls[c], txs[c])
  BY <1>2, <1>3, CallPhases
<1> QED BY <1>1, <1>3, <1>4, <1>5 DEF Committed

\* A commit takes an entity from one status to another only as declared.
LEMMA CommittedTransitions ==
    ASSUME CrudInv, NEW c \in Client, calls[c].rest # <<>>, Committed(c), NEW k \in Key,
           StatusIn(records, k) # Absent, StatusIn(records', k) # StatusIn(records, k)
    PROVE  <<StatusIn(records, k), StatusIn(records', k)>> \in Entity(k[1]).transitions
<1> DEFINE call == calls[c]
           api == call.api
           asked == AskedOf(api, call.request)
           status == Head(call.rest).status
           writes == {"create", "update_status", "delete"}
<1>1. /\ StoreInv(records, versions)
      /\ IsCall(call) /\ UnderWay(records, versions, call, txs[c])
      /\ Head(call.rest).op = "commit"
      /\ O!Validates(versions, txs[c])
      /\ records' = O!CommitRecords(records, versions, txs[c])
  BY CommittedCall
<1>2. status # 404 /\ api.operation \in writes
  <2> SUFFICES ASSUME status = 404 \/ api.operation \notin writes
               PROVE  FALSE
    OBVIOUS
  <2>1. \A l \in Key : records'[l] = records[l]
    BY <1>1, WroteNothing
  <2> QED BY <2>1 DEF StatusIn
<1>3. \A l \in Key : StatusIn(records', l) = IF l = asked.key THEN asked.status
                                              ELSE StatusIn(records, l)
  BY <1>1, <1>2, Wrote
<1>4. k = asked.key /\ StatusIn(records', k) = asked.status
  BY <1>3
<1>a. Stands(records, call)
  BY <1>1, CommitsCurrent
<1>5. api.operation # "create"
  <2>1. api.operation = "create" => records[asked.key] = Absent
    BY <1>a DEF Stands
  <2> QED BY <1>4, <2>1 DEF StatusIn
<1>6. api.operation \in {"update_status", "delete"}
  BY <1>2, <1>5
<1>7. <<StatusIn(records, asked.key), asked.status>> \in asked.allowed
  BY <1>2, <1>6, <1>a DEF Stands
<1>8. api.operation # None /\ api.operation # "list"
  BY <1>6, ApiAssumption DEF Operations
<1>9. asked.allowed = Cpp!TransitionsAllowed(Entity(api.entity))
  BY <1>8, AskedFields
<1>10. asked.key = AskedKey(api.entity, api, call.request)
  BY <1>8, AskedFields
<1> HIDE DEF asked
<1>11. k[1] = api.entity
  <2>1. AskedKey(api.entity, api, call.request)[1] = api.entity
    BY DEF AskedKey
  <2> QED BY <1>4, <1>10, <2>1
<1>12. api.entity \in DOMAIN System.entities
  BY <1>11, KeyFacts
<1>13. <<StatusIn(records, k), StatusIn(records', k)>> \in Cpp!TransitionsAllowed(Entity(k[1]))
  BY <1>4, <1>7, <1>9, <1>11
<1> QED BY <1>11, <1>12, <1>13, AllowedStates

\* Whichever updates race for an entity, its status changes as it declares, under
\* the C++ handlers (write_cpp_status_transition_check, updateTx, commit()).
THEOREM CppTransitionsDeclared ==
    ASSUME Languages = {"cpp"}
    PROVE  Spec => DeclaredTransitions
<1>1. \A k \in Key : Status(k) = StatusIn(records, k) /\ Status(k)' = StatusIn(records', k)
  BY DEF Status, StatusIn, O!Live
<1>2. CrudInv /\ [Next]_vars =>
        [\A k \in Key :
            (Status(k) # Absent /\ Status(k)' # Absent /\ Status(k)' # Status(k))
               => <<Status(k), Status(k)'>> \in Entity(k[1]).transitions]_vars
  <2> SUFFICES ASSUME CrudInv, Next, NEW k \in Key,
                      StatusIn(records, k) # Absent, StatusIn(records', k) # Absent,
                      StatusIn(records', k) # StatusIn(records, k)
               PROVE  <<StatusIn(records, k), StatusIn(records', k)>> \in Entity(k[1]).transitions
    BY <1>1
  <2>1. ASSUME UNCHANGED store
        PROVE  FALSE
    BY <2>1 DEF store, StatusIn
  <2>2. ASSUME NEW c \in Client, NEW api \in System.apis, NEW r \in Requests(api), Receive(c, api, r)
        PROVE  FALSE
    BY <2>1, <2>2 DEF Receive
  <2>3. ASSUME NEW c \in Client, Handle(c)
        PROVE  <<StatusIn(records, k), StatusIn(records', k)>> \in Entity(k[1]).transitions
    <3>1. calls[c].rest # <<>>
      BY <2>3, HandleSteps
    <3>2. Failed(c) \/ Proceeded(c) \/ Committed(c) \/ Responded(c)
      BY <2>3, HandleSteps
    <3>3. Committed(c)
      BY <2>1, <3>2 DEF Failed, Proceeded, Responded
    <3> QED BY <3>1, <3>3, CommittedTransitions
  <2>4. ASSUME NEW g \in Collector, Collect(g)
        PROVE  FALSE
    <3>1. SweptBy(g)
      BY <2>4, CollectSteps
    <3>2. records'[k] = records[k] \/ records'[k] = Absent
      BY <3>1 DEF SweptBy
    <3> QED BY <3>2 DEF StatusIn
  <2> QED BY <2>2, <2>3, <2>4 DEF Next
<1> QED BY <1>2, CrudInvariant, PTL DEF Spec, DeclaredTransitions

----
(***************************************************************************)
(* The handlers implement the service: what a call is answered is so at    *)
(* its commit.                                                             *)
(***************************************************************************)

Entities == [k \in Key |-> Status(k)]
Questions == [c \in Client |-> Asked(c)]
Answers == [c \in Client |-> calls[c].answer]
Terminals == [k \in Key |-> Entity(k[1]).terminal]

\* What a call that runs asks is a question.
LEMMA Questioned ==
    ASSUME CrudInv, NEW c \in Client, calls[c].rest # <<>>
    PROVE  /\ Questions[c] = AskedOf(calls[c].api, calls[c].request)
           /\ Questions[c] # Absent
<1>1. CallInv(records, versions, calls[c], txs[c])
  BY DEF CrudInv
<1>2. IsCall(calls[c])
  BY <1>1, CallPhases
<1>3. AskedOf(calls[c].api, calls[c].request) # Absent
  BY <1>2, MarkerAssumption DEF IsCall
<1> QED BY <1>3 DEF Questions, Asked, Busy

\* The kind of what is asked.
LEMMA AskedOperation ==
    ASSUME NEW api, NEW request
    PROVE  /\ api.operation = None => AskedOf(api, request).operation = "business"
           /\ api.operation = "list" => AskedOf(api, request).operation = "list"
           /\ api.operation \in Operations => AskedOf(api, request).operation = api.operation
<1>1. None \notin Operations
  BY ApiAssumption
<1>2. api.operation = None => AskedOf(api, request).operation = "business"
  BY DEF AskedOf
<1>3. api.operation = "list" => AskedOf(api, request).operation = "list"
  BY <1>1 DEF AskedOf, Operations
<1>4. ASSUME api.operation \in Operations, api.operation # "list"
      PROVE  AskedOf(api, request).operation = api.operation
  BY <1>1, <1>4, AskedFields
<1> QED BY <1>2, <1>3, <1>4

\* The end of a call is an answer of the service.
LEMMA EndsAnswered ==
    ASSUME CrudInv, NEW c \in Client, calls[c].rest # <<>>, NEW status, Ended(c, status)
    PROVE  Service!Answered(c, status)
<1> DEFINE end == [rest |-> <<>>, answer |-> status]
<1>1. calls = [d \in Client |-> calls[d]] /\ calls' = [calls EXCEPT ![c] = end]
  BY DEF CrudInv, Ended
<1> HIDE DEF end
<1>2. calls'[c] = end /\ \A d \in Client \ {c} : calls'[d] = calls[d]
  BY <1>1, Updated
<1>3. calls'[c].rest = <<>> /\ calls'[c].answer = status
  BY <1>2 DEF end
<1>4. \A d \in Client \ {c} : Asked(d)' = Asked(d)
  BY <1>2 DEF Asked, Busy
<1>5. Asked(c)' = Absent
  BY <1>3 DEF Asked, Busy
<1>6. Questions' = [Questions EXCEPT ![c] = Absent]
  BY <1>4, <1>5 DEF Questions
<1>7. Answers' = [Answers EXCEPT ![c] = status]
  BY <1>2, <1>3 DEF Answers
<1>8. Questions[c] # Absent
  BY Questioned
<1>9. Terminals' = Terminals
  BY DEF Terminals
<1> QED BY <1>6, <1>7, <1>8, <1>9 DEF Service!Answered, Questions, Answers, Terminals

\* A step that changes no record changes no entity.
LEMMA EntitiesKept ==
    ASSUME \A k \in Key : records'[k] = records[k]
    PROVE  Entities' = Entities
BY DEF Entities, Status, O!Live

\* A step that goes on is none of the service.
LEMMA ProceedsSilently ==
    ASSUME CrudInv, NEW c \in Client, calls[c].rest # <<>>, Proceeded(c)
    PROVE  UNCHANGED Service!vars
<1>1. PICK next, after : /\ calls' = [calls EXCEPT ![c] = next]
                         /\ next.api = calls[c].api /\ next.request = calls[c].request
                         /\ next.answer = calls[c].answer
                         /\ UnderWay(records, versions, next, after)
  BY DEF Proceeded
<1>2. Remainder(next.api, next.rest)
  BY <1>1 DEF UnderWay
<1>3. next.rest # <<>>
  BY <1>2, RemainderHead
<1>4. calls = [d \in Client |-> calls[d]]
  BY DEF CrudInv
<1>5. calls'[c] = next /\ \A d \in Client \ {c} : calls'[d] = calls[d]
  BY <1>1, <1>4, Updated
<1>6. \A d \in Client : Asked(d)' = Asked(d)
  BY <1>1, <1>3, <1>5 DEF Asked, Busy
<1>7. \A d \in Client : calls'[d].answer = calls[d].answer
  BY <1>1, <1>5
<1>8. Entities' = Entities
  BY EntitiesKept DEF Proceeded, store
<1> QED BY <1>6, <1>7, <1>8 DEF Service!vars, Entities

\* A call is asked.
LEMMA ReceivesAsk ==
    ASSUME CrudInv, NEW c \in Client, NEW api, NEW request, Receive(c, api, request)
    PROVE  Service!Ask(c)
<1>1. calls = [d \in Client |-> calls[d]]
  BY DEF CrudInv
<1>2. PICK call : calls' = [calls EXCEPT ![c] = call]
  BY DEF Receive
<1>3. \A d \in Client \ {c} : calls'[d] = calls[d]
  BY <1>1, <1>2, Updated
<1>4. \A d \in Client \ {c} : Asked(d)' = Asked(d) /\ calls'[d].answer = calls[d].answer
  BY <1>3 DEF Asked, Busy
<1>5. Asked(c) = Absent
  BY DEF Receive, Asked
<1>6. Entities' = Entities
  BY EntitiesKept DEF Receive, store
<1> QED BY <1>4, <1>5, <1>6 DEF Service!Ask, Entities

\* The collector takes away entities in a terminal status.
LEMMA CollectsCollect ==
    ASSUME NEW g \in Collector, SweptBy(g)
    PROVE  Service!Collect
<1>1. calls' = calls
  BY DEF SweptBy
<1>2. ASSUME NEW k \in Key, Entities'[k] # Entities[k]
      PROVE  Entities'[k] = Absent /\ Entities[k] \in Terminals[k]
  <2>1. Entities[k] = StatusIn(records, k) /\ Entities'[k] = StatusIn(records', k)
    BY DEF Entities, Status, StatusIn, O!Live
  <2>2. records'[k] # records[k]
    BY <1>2, <2>1 DEF StatusIn
  <2>3. records'[k] = Absent /\ StatusIn(records, k) \in Entity(k[1]).terminal
    BY <2>2 DEF SweptBy
  <2> QED BY <2>1, <2>3 DEF StatusIn, Terminals
<1>3. DOMAIN Entities = Key
  BY DEF Entities
<1>4. Questions' = Questions /\ Answers' = Answers /\ Terminals' = Terminals
  BY <1>1 DEF Questions, Answers, Terminals, Asked, Busy
<1> QED BY <1>2, <1>3, <1>4 DEF Service!Collect, Entities, Questions, Answers, Terminals

\* An entity is present if its record is.
LEMMA PresentEntities ==
    ASSUME CrudInv, NEW k \in Key
    PROVE  /\ Entities[k] = StatusIn(records, k)
           /\ Entities[k] # Absent <=> records[k] # Absent
<1>1. Entities[k] = StatusIn(records, k)
  BY DEF Entities, Status, StatusIn, O!Live
<1>2. StoreInv(records, versions)
  BY DEF CrudInv
<1> QED BY <1>1, <1>2, StatusPresent

\* A commit that writes gives the entity of the call the status it asks for.
LEMMA WritesEntity ==
    ASSUME CrudInv, NEW c \in Client, calls[c].rest # <<>>, Committed(c),
           Head(calls[c].rest).status # 404,
           calls[c].api.operation \in {"create", "update_status", "delete"},
           NEW question, question = AskedOf(calls[c].api, calls[c].request)
    PROVE  Entities' = [Entities EXCEPT ![question.key] = question.status]
<1>1. /\ StoreInv(records, versions)
      /\ IsCall(calls[c]) /\ UnderWay(records, versions, calls[c], txs[c])
      /\ Head(calls[c].rest).op = "commit"
      /\ records' = O!CommitRecords(records, versions, txs[c])
  BY CommittedCall
<1>2. \A k \in Key : StatusIn(records', k) = IF k = question.key THEN question.status
                                              ELSE StatusIn(records, k)
  BY <1>1, Wrote
<1>3. \A k \in Key : Entities[k] = StatusIn(records, k) /\ Entities'[k] = StatusIn(records', k)
  BY DEF Entities, Status, StatusIn, O!Live
<1>4. Entities = [k \in Key |-> Entities[k]] /\ Entities' = [k \in Key |-> Entities'[k]]
  BY DEF Entities
<1> HIDE DEF Entities
<1> QED BY <1>2, <1>3, <1>4

\* A commit answers a call by what is so at that moment.
LEMMA CommitsAnswer ==
    ASSUME CrudInv, NEW c \in Client, calls[c].rest # <<>>, Committed(c)
    PROVE  Service!Next
<1> DEFINE call == calls[c]
           api == call.api
           question == AskedOf(api, call.request)
           status == Head(call.rest).status
           writes == {"create", "update_status", "delete"}
<1>1. /\ StoreInv(records, versions)
      /\ IsCall(call) /\ UnderWay(records, versions, call, txs[c])
      /\ Head(call.rest).op = "commit"
      /\ O!Validates(versions, txs[c])
      /\ records' = O!CommitRecords(records, versions, txs[c])
  BY CommittedCall
<1>2. Given(api, call.request)
  BY <1>1 DEF UnderWay
<1>3. api.operation \in Operations /\ question.operation = api.operation
  BY <1>2, AskedOperation DEF Given
<1>4. Questions[c] = question
  BY Questioned
<1>5. /\ status = 404 => api.operation \in {"get", "update_status", "delete"}
      /\ status # 404 => status = (CASE api.operation = "create" -> 201
                                     [] api.operation = "delete" -> 204
                                     [] OTHER -> 200)
  BY <1>1, CommitAnswers
<1>a. Stands(records, call)
  BY <1>1, CommitsCurrent
<1>6. api.operation = "create" =>
        /\ records[question.key] = Absent
        /\ \A p \in question.parents : p \in Key /\ records[p] # Absent
  BY <1>a DEF Stands
<1>7. api.operation \in {"get", "update_status", "delete"} =>
        /\ question.key \in Key
        /\ status = 404 => records[question.key] = Absent
        /\ status # 404 => records[question.key] # Absent
  BY <1>a DEF Stands
<1>8. api.operation \in {"update_status", "delete"} /\ status # 404 =>
        <<StatusIn(records, question.key), question.status>> \in question.allowed
  BY <1>a DEF Stands
<1>9. status # 404 /\ api.operation \in writes => question.key \in Key
  BY <1>1, Wrote
<1>10. status # 404 /\ api.operation \in writes =>
         Entities' = [Entities EXCEPT ![question.key] = question.status]
  BY WritesEntity
<1>11. status = 404 \/ api.operation \notin writes => Entities' = Entities
  <2>1. status = 404 \/ api.operation \notin writes => \A k \in Key : records'[k] = records[k]
    BY <1>1, WroteNothing
  <2> QED BY <2>1, EntitiesKept
<1>12. \A k \in Key : /\ Entities[k] = StatusIn(records, k)
                      /\ Entities[k] # Absent <=> records[k] # Absent
  BY PresentEntities
<1> HIDE DEF question
<1>13. CASE Ended(c, 500) /\ api.operation \notin writes
  <2>1. Service!Answered(c, 500)
    BY <1>13, EndsAnswered
  <2>2. Service!Refuse(c)
    BY <1>11, <1>13, <2>1 DEF Service!Refuse, Entities
  <2> QED BY <2>2 DEF Service!Next
<1>14. CASE Ended(c, status)
  <2>1. \A number \in {200, 201, 204, 404} : status = number => Service!Answered(c, number)
    <3> TAKE number \in {200, 201, 204, 404}
    <3> HAVE status = number
    <3>1. Ended(c, number)
      BY <1>14 DEF Ended
    <3> QED BY <3>1, EndsAnswered
  <2>2. CASE status = 404
    <3>1. api.operation \in {"get", "update_status", "delete"}
      BY <1>5, <2>2
    <3>2. Entities[question.key] = Absent
      BY <1>7, <1>12, <2>2, <3>1
    <3>3. Entities' = Entities
      BY <1>11, <2>2
    <3>4. Service!Miss(c)
      BY <1>3, <1>4, <2>1, <2>2, <3>1, <3>2, <3>3
         DEF Service!Miss, Service!Present, Entities, Questions
    <3> QED BY <3>4 DEF Service!Next
  <2>3. CASE status # 404 /\ api.operation = "create"
    <3>1. status = 201 /\ question.key \in Key
      BY <1>5, <1>9, <2>3
    <3>2. Entities[question.key] = Absent
      BY <1>6, <1>12, <2>3, <3>1
    <3>3. \A p \in question.parents : Entities[p] # Absent
      BY <1>6, <1>12, <2>3
    <3>4. Entities' = [Entities EXCEPT ![question.key] = question.status]
      BY <1>10, <2>3
    <3>a. ~Service!Present(Questions[c].key)
      BY <1>4, <3>2 DEF Service!Present, Entities
    <3>b. \A p \in Questions[c].parents : Service!Present(p)
      BY <1>4, <3>3 DEF Service!Present, Entities
    <3>c. Service!Answered(c, 201)
      BY <2>1, <2>3, <3>1
    <3>d. Questions[c].operation = "create"
      BY <1>3, <1>4, <2>3
    <3>e. Entities' = [Entities EXCEPT ![Questions[c].key] = Questions[c].status]
      BY <1>4, <3>4
    <3>5. Service!Create(c)
      BY <3>a, <3>b, <3>c, <3>d, <3>e DEF Service!Create, Entities, Questions
    <3> QED BY <3>5 DEF Service!Next
  <2>4. CASE status # 404 /\ api.operation \in {"update_status", "delete"}
    <3>1. Entities[question.key] # Absent /\ Entities[question.key] = StatusIn(records, question.key)
      BY <1>7, <1>12, <2>4
    <3>2. <<Entities[question.key], question.status>> \in question.allowed
      BY <1>8, <2>4, <3>1
    <3>3. Entities' = [Entities EXCEPT ![question.key] = question.status]
      BY <1>10, <2>4
    <3>4. CASE api.operation = "update_status"
      <4>1. status = 200
        BY <1>5, <2>4, <3>4
      <4>2. Service!Change(c, "update_status", 200)
        BY <1>3, <1>4, <2>1, <3>1, <3>2, <3>3, <3>4, <4>1
           DEF Service!Change, Service!Present, Entities, Questions
      <4> QED BY <4>2 DEF Service!Next
    <3>5. CASE api.operation = "delete"
      <4>1. status = 204
        BY <1>5, <2>4, <3>5
      <4>2. Service!Change(c, "delete", 204)
        BY <1>3, <1>4, <2>1, <3>1, <3>2, <3>3, <3>5, <4>1
           DEF Service!Change, Service!Present, Entities, Questions
      <4> QED BY <4>2 DEF Service!Next
    <3> QED BY <2>4, <3>4, <3>5
  <2>5. CASE status # 404 /\ api.operation \in {"get", "list"}
    <3>1. status = 200
      BY <1>5, <2>5
    <3>2. api.operation = "get" => Entities[question.key] # Absent
      BY <1>7, <1>12, <2>5
    <3>3. Entities' = Entities
      BY <1>11, <2>5
    <3>4. Service!Read(c)
      BY <1>3, <1>4, <2>1, <2>5, <3>1, <3>2, <3>3
         DEF Service!Read, Service!Present, Entities, Questions
    <3> QED BY <3>4 DEF Service!Next
  <2> QED BY <1>3, <2>2, <2>3, <2>4, <2>5 DEF Operations
<1>15. Ended(c, status) \/ (Ended(c, 500) /\ api.operation \notin writes)
  BY DEF Committed, Step
<1> QED BY <1>13, <1>14, <1>15

\* An answer without a transaction: of an operation of the application, or a refusal.
LEMMA RespondsAnswer ==
    ASSUME CrudInv, NEW c \in Client, calls[c].rest # <<>>, Responded(c)
    PROVE  Service!Next
<1>1. CallInv(records, versions, calls[c], txs[c])
  BY DEF CrudInv
<1>2. Entities' = Entities
  BY EntitiesKept DEF Responded, store
<1>3. CASE Ended(c, 500)
  <2>1. Service!Answered(c, 500)
    BY <1>3, EndsAnswered
  <2>2. Service!Refuse(c)
    BY <1>2, <2>1 DEF Service!Refuse, Entities
  <2> QED BY <2>2 DEF Service!Next
<1>4. CASE Step(c).op = "respond" /\ Ended(c, Step(c).status)
  <2> DEFINE status == Head(calls[c].rest).status
  <2>1. Head(calls[c].rest).op = "respond" /\ Ended(c, status)
    BY <1>4 DEF Step
  <2>2. IsCall(calls[c]) /\ Fresh(calls[c])
    BY <1>1, <2>1, CallPhases
  <2>3. calls[c].api.operation = None /\ status \in {200, 202}
    BY <2>1, <2>2, FreshHead
  <2>4. Questions[c].operation = "business"
    BY <2>3, AskedOperation, Questioned
  <2>5. \A number \in {200, 202} : status = number => Service!Answered(c, number)
    <3> TAKE number \in {200, 202}
    <3> HAVE status = number
    <3>1. Ended(c, number)
      BY <2>1 DEF Ended
    <3> QED BY <3>1, EndsAnswered
  <2>6. CASE status = 200
    <3>1. Service!Read(c)
      BY <1>2, <2>4, <2>5, <2>6 DEF Service!Read, Entities, Questions
    <3> QED BY <3>1 DEF Service!Next
  <2>7. CASE status = 202
    <3>1. Service!Accept(c)
      BY <1>2, <2>4, <2>5, <2>7 DEF Service!Accept, Entities, Questions
    <3> QED BY <3>1 DEF Service!Next
  <2> QED BY <2>3, <2>6, <2>7
<1> QED BY <1>3, <1>4 DEF Responded

\* The C++ handlers on the in-memory backend implement the service: every call is
\* answered by what is so at one moment, takes effect then or is refused and has none.
THEOREM CppImplementsService ==
    ASSUME Languages = {"cpp"}
    PROVE  Spec => ImplementsEntityService
<1>1. Init => Service!Init
  <2> SUFFICES ASSUME Init
               PROVE  Service!Init
    OBVIOUS
  <2>1. \A c \in Client : Asked(c) = Absent
    BY DEF Init, Asked, Busy
  <2> QED BY <2>1 DEF Service!Init
<1>2. CrudInv /\ [Next]_vars => [Service!Next]_Service!vars
  <2> SUFFICES ASSUME CrudInv, [Next]_vars
               PROVE  Service!Next \/ UNCHANGED Service!vars
    OBVIOUS
  <2>1. ASSUME NEW c \in Client, NEW api \in System.apis, NEW r \in Requests(api), Receive(c, api, r)
        PROVE  Service!Next
    <3>1. Service!Ask(c)
      BY <2>1, ReceivesAsk
    <3> QED BY <3>1 DEF Service!Next
  <2>2. ASSUME NEW c \in Client, Handle(c)
        PROVE  Service!Next \/ UNCHANGED Service!vars
    <3>1. calls[c].rest # <<>>
      BY <2>2, HandleSteps
    <3>2. Failed(c) \/ Proceeded(c) \/ Committed(c) \/ Responded(c)
      BY <2>2, HandleSteps
    <3>3. CASE Failed(c)
      <4>1. Service!Answered(c, 500)
        BY <3>1, <3>3, EndsAnswered DEF Failed
      <4>2. Entities' = Entities
        BY <3>3, EntitiesKept DEF Failed, store
      <4>3. Service!Refuse(c)
        BY <4>1, <4>2 DEF Service!Refuse, Entities
      <4> QED BY <4>3 DEF Service!Next
    <3>4. CASE Proceeded(c)
      BY <3>1, <3>4, ProceedsSilently
    <3>5. CASE Committed(c)
      BY <3>1, <3>5, CommitsAnswer
    <3>6. CASE Responded(c)
      BY <3>1, <3>6, RespondsAnswer
    <3> QED BY <3>2, <3>3, <3>4, <3>5, <3>6
  <2>3. ASSUME NEW g \in Collector, Collect(g)
        PROVE  Service!Next
    <3>1. Service!Collect
      BY <2>3, CollectSteps, CollectsCollect
    <3> QED BY <3>1 DEF Service!Next
  <2>4. CASE UNCHANGED vars
    <3>1. \A c \in Client : Asked(c)' = Asked(c)
      BY <2>4 DEF vars, Asked, Busy
    <3>2. Entities' = Entities
      BY <2>4, EntitiesKept DEF vars
    <3>3. calls' = calls
      BY <2>4 DEF vars
    <3> QED BY <3>1, <3>2, <3>3 DEF Service!vars, Entities
  <2> QED BY <2>1, <2>2, <2>3, <2>4 DEF Next
<1> QED BY <1>1, <1>2, CrudInvariant, PTL DEF Spec, ImplementsEntityService, Service!Spec

================================================================================
