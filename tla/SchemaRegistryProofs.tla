-------------------------- MODULE SchemaRegistryProofs -------------------------
(***************************************************************************)
(* Proofs about the collection registry, for every set of batches and      *)
(* keys: upgrades compose, however many a batch or a history contains.     *)
(***************************************************************************)
EXTENDS SchemaRegistry, WellFoundedInduction, TLAPS

\* What a chain of upgrades preserves: the part of Upgradable that is transitive.
Follows(old, new) ==
    /\ new.key = old.key
    /\ FieldsKept(old, new) /\ FieldsAdded(old, new)
    /\ IndexesKept(old, new) /\ IndexesAdded(old, new)

Documents == (SUBSET FieldName) \cup {None}

\* The inductive invariant: the descriptor in force follows every descriptor
\* that was ever accepted, and the documents are those it allows.
SchemaInv ==
    /\ collections \in [Collection -> Descriptor \cup {None}]
    /\ records \in [Collection -> [Key -> Documents]]
    /\ accepted \in SUBSET Descriptor
    /\ \A n \in Registered : collections[n].name = n
    /\ \A d \in accepted : d.name \in Registered /\ Follows(d, collections[d.name])
    /\ NothingHalfPublished
    /\ DocumentsStayValid
    /\ \A n \in Collection \ Registered : Stored(n) = {}

Filed(i, n) == {<<Entry(i, records[n][k]), k>> : k \in Stored(n)}

\* Inductive with SchemaInv: an index state files the documents there are, and
\* the unique indexes of the descriptor in force have one, which keeps them unique.
IndexInv ==
    /\ indexes = [n \in Collection |-> indexes[n]]
    /\ \A n \in Collection : \A i \in DOMAIN indexes[n] : indexes[n][i] = Filed(i, n)
    /\ \A n \in Registered : \A i \in ToSet(collections[n].indexes) : i.unique =>
          /\ i \in DOMAIN indexes[n]
          /\ \A j, k \in Stored(n) :
                Entry(i, records[n][j]) = Entry(i, records[n][k]) => j = k

--------------------------------------------------------------------------------
\* Chains of upgrades.

\* What compare_collection_descriptors lets through keeps all that Follows says.
LEMMA UpgradeFollows ==
    ASSUME NEW old, NEW new, Upgradable(old, new)
    PROVE  Follows(old, new)
BY DEF Upgradable, Follows, FieldsKept, FieldsAdded, IndexesKept, IndexesAdded,
       Required, Fields

\* A descriptor registered again is compatible with itself.
LEMMA FollowsReflexive ==
    ASSUME NEW d
    PROVE  Follows(d, d)
BY DEF Follows, FieldsKept, FieldsAdded, IndexesKept, IndexesAdded, Required, Fields

\* A field that the last descriptor requires is one field of the descriptor in
\* the middle, as no name occurs twice there, and so required by it as well.
LEMMA FollowsTransitive ==
    ASSUME NEW a, NEW b \in Descriptor, NEW c \in Descriptor, Follows(a, b), Follows(b, c)
    PROVE  Follows(a, c)
<1>1. c.key = a.key
  BY DEF Follows
<1>2. FieldsKept(a, c)
  BY DEF Follows, FieldsKept
<1>3. FieldsAdded(a, c)
  <2> SUFFICES ASSUME NEW h \in ToSet(c.fields), h.required
               PROVE  h.name \in Fields(a)
    BY DEF FieldsAdded, Required
  <2>1. PICK g \in ToSet(b.fields) : g.name = h.name
    BY DEF Follows, FieldsAdded, Required, Fields
  <2>2. PICK e \in ToSet(c.fields) : e.name = g.name /\ (e.required => g.required)
    BY DEF Follows, FieldsKept
  <2>3. e = h
    BY <2>1, <2>2, BatchesAssumption
  <2>4. g.name \in Required(b)
    BY <2>2, <2>3 DEF Required
  <2> QED
    BY <2>1, <2>4 DEF Follows, FieldsAdded
<1>4. IndexesKept(a, c)
  BY DEF Follows, IndexesKept
<1>5. IndexesAdded(a, c)
  BY DEF Follows, IndexesAdded
<1> QED
  BY <1>1, <1>2, <1>3, <1>4, <1>5 DEF Follows

\* Every set of positions has a first one.
LEMMA LeastOf ==
    ASSUME NEW T \in SUBSET Nat, T # {}
    PROVE  \E n \in T : \A m \in T : n <= m
<1> DEFINE R == {pair \in Nat \X Nat : pair[1] < pair[2]}
<1>1. \E n \in T : \A m \in T : <<m, n>> \notin R
  <2> HIDE DEF R
  <2>1. IsWellFoundedOn(R, Nat)
    BY NatLessThanWellFounded DEF R, OpToRel
  <2> QED
    BY <2>1, WFMin
<1>2. PICK n \in T : \A m \in T : <<m, n>> \notin R
  BY <1>1
<1>3. \A m \in T : ~(m < n)
  BY <1>2
<1> QED
  BY <1>3

\* A set of positions of a batch has a last one.
LEMMA LastOf ==
    ASSUME NEW b \in Nat, NEW T \in SUBSET (1..b), T # {}
    PROVE  \E n \in T : \A m \in T : m <= n
<1> DEFINE U == {m \in Nat : m <= b /\ b - m \in T}
<1>1. \A n \in T : b - n \in U
  <2> SUFFICES ASSUME NEW n \in T
               PROVE  b - n \in U
    OBVIOUS
  <2>1. n \in 1..b
    OBVIOUS
  <2>2. b - n \in Nat /\ b - n <= b /\ b - (b - n) = n
    BY <2>1
  <2> QED
    BY <2>2
<1>2. PICK u \in U : \A v \in U : u <= v
  <2> HIDE DEF U
  <2>1. U \subseteq Nat
    BY DEF U
  <2> QED
    BY <1>1, <2>1, LeastOf
<1>3. \A m \in T : m <= b - u
  <2> SUFFICES ASSUME NEW m \in T
               PROVE  m <= b - u
    OBVIOUS
  <2>1. m \in 1..b
    OBVIOUS
  <2>2. u <= b - m
    BY <1>1, <1>2
  <2>3. u \in Nat
    OBVIOUS
  <2> QED
    BY <2>1, <2>2, <2>3
<1> QED
  BY <1>3

--------------------------------------------------------------------------------
\* Batches.

\* The members of a batch are descriptors of the collections of the model.
LEMMA BatchElements ==
    ASSUME NEW batch \in Seq(Descriptor)
    PROVE  /\ Len(batch) \in Nat /\ DOMAIN batch = 1..Len(batch)
           /\ \A i \in DOMAIN batch : batch[i] \in Descriptor /\ batch[i].name \in Collection
<1>1. \A i \in DOMAIN batch : batch[i] \in Descriptor
  OBVIOUS
<1> QED
  BY <1>1 DEF Collection

\* The staged descriptor of a collection is the last of the batch, or the one
\* that was registered before.
LEMMA StagedOf ==
    ASSUME NEW batch \in Seq(Descriptor), NEW n \in Collection
    PROVE  \/ /\ \A i \in DOMAIN batch : batch[i].name # n
              /\ Staged(batch)[n] = collections[n]
           \/ \E m \in DOMAIN batch :
                 /\ batch[m].name = n
                 /\ \A i \in DOMAIN batch : batch[i].name = n => i <= m
                 /\ Staged(batch)[n] = batch[m]
<1> DEFINE ofn == {i \in DOMAIN batch : batch[i].name = n}
<1>1. Staged(batch)[n] = IF ofn = {} THEN collections[n]
                         ELSE batch[CHOOSE i \in ofn : \A j \in ofn : j <= i]
  BY DEF Staged
<1>2. CASE ofn = {}
  BY <1>1, <1>2
<1>3. CASE ofn # {}
  <2>1. ofn \in SUBSET (1..Len(batch)) /\ Len(batch) \in Nat
    BY BatchElements
  <2>2. \E i \in ofn : \A j \in ofn : j <= i
    <3> HIDE DEF ofn
    <3> QED
      BY <1>3, <2>1, LastOf
  <2>3. PICK m \in ofn : /\ \A j \in ofn : j <= m
                         /\ m = CHOOSE i \in ofn : \A j \in ofn : j <= i
    <3> HIDE DEF ofn
    <3> QED
      BY <2>2
  <2> QED
    BY <1>1, <1>3, <2>3
<1> QED
  BY <1>2, <1>3

\* A batch that is accepted is a chain of upgrades of every collection in it.
LEMMA AcceptedChain ==
    ASSUME NEW batch \in Seq(Descriptor), Accepts(batch),
           collections \in [Collection -> Descriptor \cup {None}]
    PROVE  \A j \in DOMAIN batch :
              /\ \A i \in DOMAIN batch :
                    i <= j /\ batch[i].name = batch[j].name => Follows(batch[i], batch[j])
              /\ collections[batch[j].name] # None =>
                    Follows(collections[batch[j].name], batch[j])
<1> DEFINE
      Good(j) ==
          /\ \A i \in DOMAIN batch :
                i <= j /\ batch[i].name = batch[j].name => Follows(batch[i], batch[j])
          /\ collections[batch[j].name] # None =>
                Follows(collections[batch[j].name], batch[j])
      Bad == {j \in DOMAIN batch : ~Good(j)}
<1>1. /\ Len(batch) \in Nat /\ DOMAIN batch = 1..Len(batch)
      /\ \A i \in DOMAIN batch : batch[i] \in Descriptor /\ batch[i].name \in Collection
  BY BatchElements
<1> SUFFICES ASSUME Bad # {}
             PROVE  FALSE
  OBVIOUS
<1>2. PICK j \in Bad : \A i \in Bad : j <= i
  <2>1. Bad \in SUBSET Nat
    BY <1>1
  <2> HIDE DEF Bad
  <2> QED
    BY <2>1, LeastOf
<1>3. j \in DOMAIN batch /\ ~Good(j) /\ \A i \in DOMAIN batch : i < j => Good(i)
  <2>1. \A i \in DOMAIN batch : i \in Int
    BY <1>1
  <2> QED
    BY <1>2, <2>1
<1> DEFINE n == batch[j].name
           before == SubSeq(batch, 1, j - 1)
           old == Staged(before)[n]
<1>4. /\ before \in Seq(Descriptor) /\ DOMAIN before = 1..(j - 1)
      /\ \A i \in 1..(j - 1) : before[i] = batch[i]
  BY <1>1, <1>3
<1>5. old # None => Follows(old, batch[j])
  BY <1>3, UpgradeFollows DEF Accepts
<1>6. Follows(batch[j], batch[j])
  BY FollowsReflexive
<1>7. \A i \in DOMAIN batch : i <= j => i = j \/ i \in 1..(j - 1)
  BY <1>1, <1>3
<1>8. CASE (\A i \in DOMAIN before : before[i].name # n) /\ old = collections[n]
  <2>1. \A i \in DOMAIN batch : i <= j /\ batch[i].name = n => i = j
    BY <1>4, <1>7, <1>8
  <2> QED
    BY <1>3, <1>5, <1>6, <1>8, <2>1
<1>9. ASSUME NEW m \in DOMAIN before, before[m].name = n, old = before[m],
             \A i \in DOMAIN before : before[i].name = n => i <= m
      PROVE  FALSE
  <2>1. m \in DOMAIN batch /\ m < j /\ batch[m].name = n /\ old = batch[m]
    BY <1>1, <1>3, <1>4, <1>9
  <2>2. Good(m)
    BY <1>3, <2>1
  <2>3. batch[m] \in Descriptor /\ batch[j] \in Descriptor /\ n \in Collection
    BY <1>1, <1>3, <2>1
  <2>4. Follows(batch[m], batch[j])
    BY <1>5, <2>1, <2>3, BatchesAssumption
  <2>5. ASSUME NEW i \in DOMAIN batch, i <= j, batch[i].name = n
        PROVE  Follows(batch[i], batch[j])
    <3>1. CASE i = j
      BY <1>6, <3>1
    <3>2. CASE i \in 1..(j - 1)
      <4>1. i <= m
        BY <1>4, <1>9, <2>5, <3>2
      <4>2. Follows(batch[i], batch[m])
        BY <2>1, <2>2, <2>5, <4>1
      <4> QED
        BY <2>3, <2>4, <4>2, FollowsTransitive
    <3> QED
      BY <1>7, <2>5, <3>1, <3>2
  <2>6. ASSUME collections[n] # None
        PROVE  Follows(collections[n], batch[j])
    <3>1. Follows(collections[n], batch[m])
      BY <2>1, <2>2, <2>6
    <3> QED
      BY <2>3, <2>4, <3>1, FollowsTransitive
  <2> QED
    BY <1>3, <2>5, <2>6
<1> QED
  <2>1. n \in Collection
    BY <1>1, <1>3
  <2> HIDE DEF before, old, n, Good
  <2> QED
    BY <1>4, <1>8, <1>9, <2>1, StagedOf DEF old

\* What a batch that is accepted does to a collection: the staged descriptor
\* follows the registered one and every one of the batch for this collection.
LEMMA StagedFollows ==
    ASSUME NEW batch \in Seq(Descriptor), Accepts(batch), NEW n \in Collection,
           collections \in [Collection -> Descriptor \cup {None}],
           collections[n] # None => collections[n].name = n
    PROVE  LET s == Staged(batch)[n]
           IN  /\ s \in Descriptor \cup {None}
               /\ s # None => s.name = n /\ (s = collections[n] \/ s \in ToSet(batch))
               /\ collections[n] # None => s # None /\ Follows(collections[n], s)
               /\ \A d \in ToSet(batch) : d.name = n => s # None /\ Follows(d, s)
<1> DEFINE s == Staged(batch)[n]
<1>1. \A d \in ToSet(batch) : \E i \in DOMAIN batch : d = batch[i]
  BY DEF ToSet
<1>2. CASE (\A i \in DOMAIN batch : batch[i].name # n) /\ s = collections[n]
  BY <1>1, <1>2, FollowsReflexive
<1>3. ASSUME NEW m \in DOMAIN batch, batch[m].name = n, s = batch[m],
             \A i \in DOMAIN batch : batch[i].name = n => i <= m
      PROVE  /\ s \in Descriptor
             /\ s.name = n /\ s \in ToSet(batch)
             /\ collections[n] # None => Follows(collections[n], s)
             /\ \A d \in ToSet(batch) : d.name = n => Follows(d, s)
  <2>1. s \in Descriptor
    BY <1>3, BatchElements
  <2>2. s \in ToSet(batch)
    BY <1>3 DEF ToSet
  <2>3. /\ collections[n] # None => Follows(collections[n], batch[m])
        /\ \A i \in DOMAIN batch : batch[i].name = n => Follows(batch[i], batch[m])
    BY <1>3, AcceptedChain
  <2> QED
    BY <1>1, <1>3, <2>1, <2>2, <2>3
<1> QED
  <2> HIDE DEF s
  <2> QED
    BY <1>2, <1>3, StagedOf, BatchesAssumption DEF s

\* What an upgrade means for documents: no field is lost, and none becomes required.
LEMMA FollowsFields ==
    ASSUME NEW old \in Descriptor, NEW new \in Descriptor, Follows(old, new)
    PROVE  Fields(old) \subseteq Fields(new) /\ Required(new) \subseteq Required(old)
<1>1. Fields(old) \subseteq Fields(new)
  BY DEF Follows, FieldsKept, Fields
<1>2. ASSUME NEW h \in ToSet(new.fields), h.required
      PROVE  h.name \in Required(old)
  <2>1. PICK f \in ToSet(old.fields) : f.name = h.name
    BY <1>2 DEF Follows, FieldsAdded, Required, Fields
  <2>2. PICK e \in ToSet(new.fields) : e.name = f.name /\ (e.required => f.required)
    BY DEF Follows, FieldsKept
  <2>3. e = h
    BY <2>1, <2>2, BatchesAssumption
  <2> QED
    BY <1>2, <2>1, <2>2, <2>3 DEF Required
<1> QED
  BY <1>1, <1>2 DEF Required

--------------------------------------------------------------------------------
\* The steps.

\* Initially nothing is registered and nothing stored.
LEMMA InitSchemaInv == Init => SchemaInv
<1> SUFFICES ASSUME Init
             PROVE  SchemaInv
  OBVIOUS
<1>1. Registered = {}
  BY DEF Init, Registered
<1>2. \A n \in Collection : Stored(n) = {}
  BY DEF Init, Stored
<1>3. records \in [Collection -> [Key -> Documents]]
  <2>1. [k \in Key |-> None] \in [Key -> Documents]
    BY DEF Documents
  <2> QED
    BY <2>1 DEF Init
<1>4. collections \in [Collection -> Descriptor \cup {None}] /\ accepted = {}
  BY DEF Init
<1> QED
  BY <1>1, <1>2, <1>3, <1>4 DEF SchemaInv, NothingHalfPublished, DocumentsStayValid

\* A registration that returns: documents stay as they are, and are valid under
\* the descriptor that follows the one they were valid under.
LEMMA EnsureKeeps ==
    ASSUME SchemaInv, NEW batch \in Batches, Ensure(batch)
    PROVE  SchemaInv'
<1> USE DEF SchemaInv
<1>1. batch \in Seq(Descriptor) /\ Accepts(batch)
  BY BatchesAssumption DEF Ensure
<1>2. /\ collections' = Staged(batch) /\ records' = records
      /\ accepted' = accepted \cup ToSet(batch)
  BY DEF Ensure, Publish
<1>3. \A n \in Collection :
        /\ collections'[n] \in Descriptor \cup {None}
        /\ collections'[n] # None =>
              /\ collections'[n].name = n
              /\ collections'[n] = collections[n] \/ collections'[n] \in ToSet(batch)
        /\ collections[n] # None =>
              collections'[n] # None /\ Follows(collections[n], collections'[n])
        /\ \A d \in ToSet(batch) :
              d.name = n => collections'[n] # None /\ Follows(d, collections'[n])
  BY <1>1, <1>2, StagedFollows DEF Registered
<1>4. \A d \in ToSet(batch) : d \in Descriptor /\ d.name \in Collection
  BY <1>1, BatchElements DEF ToSet
<1>5. collections' \in [Collection -> Descriptor \cup {None}]
  <2>1. collections' = [n \in Collection |-> collections'[n]]
    BY <1>2 DEF Staged
  <2> QED
    BY <1>3, <2>1
<1>6. accepted' \in SUBSET Descriptor
  BY <1>2, <1>4
<1>7. \A n \in Registered' : collections'[n].name = n
  BY <1>3 DEF Registered
<1>8. ASSUME NEW d \in accepted'
      PROVE  d.name \in Registered' /\ Follows(d, collections'[d.name])
  <2>1. CASE d \in ToSet(batch)
    BY <1>3, <1>4, <2>1 DEF Registered
  <2>2. CASE d \in accepted
    <3>1. d.name \in Collection /\ collections[d.name] # None
          /\ Follows(d, collections[d.name])
      BY <2>2 DEF Registered
    <3>2. collections'[d.name] # None /\ Follows(collections[d.name], collections'[d.name])
      BY <1>3, <3>1
    <3> QED
      BY <1>3, <3>1, <3>2, FollowsTransitive DEF Registered
  <2> QED
    BY <1>2, <2>1, <2>2
<1>9. NothingHalfPublished'
  BY <1>2, <1>3 DEF NothingHalfPublished, Registered
<1>10. DocumentsStayValid'
  <2> SUFFICES ASSUME NEW n \in Registered', NEW k \in Key, records[n][k] # None
               PROVE  /\ Required(collections'[n]) \subseteq records[n][k]
                      /\ records[n][k] \subseteq Fields(collections'[n])
    BY <1>2 DEF DocumentsStayValid, Stored
  <2>1. n \in Collection /\ collections'[n] \in Descriptor
    BY <1>3 DEF Registered
  <2>2. n \in Registered
    BY <2>1 DEF Stored
  <2>3. /\ Required(collections[n]) \subseteq records[n][k]
        /\ records[n][k] \subseteq Fields(collections[n])
    BY <2>2 DEF DocumentsStayValid, Stored
  <2>4. collections[n] \in Descriptor /\ Follows(collections[n], collections'[n])
    BY <1>3, <2>1, <2>2 DEF Registered
  <2> QED
    BY <2>1, <2>3, <2>4, FollowsFields
<1>11. \A n \in Collection \ Registered' : Stored(n)' = {}
  BY <1>2, <1>3 DEF Registered, Stored
<1> QED
  BY <1>2, <1>5, <1>6, <1>7, <1>8, <1>9, <1>10, <1>11

\* A document that the application of an accepted descriptor writes.
LEMMA PutKeeps ==
    ASSUME SchemaInv, NEW d \in accepted, NEW key \in Key,
           NEW document \in SUBSET Fields(d), Put(d, key, document)
    PROVE  SchemaInv'
<1> USE DEF SchemaInv
<1>1. /\ Required(d) \subseteq document
      /\ records' = [records EXCEPT ![d.name][key] = document]
      /\ collections' = collections /\ accepted' = accepted
  BY DEF Put
<1>2. d \in Descriptor /\ d.name \in Collection /\ d.name \in Registered
  BY DEF Registered
<1>3. document \in Documents
  BY <1>2 DEF Documents, FieldName
<1>4. records' \in [Collection -> [Key -> Documents]]
  BY <1>1, <1>2, <1>3
<1>5. \A n \in Collection, k \in Key :
        records'[n][k] = IF n = d.name /\ k = key THEN document ELSE records[n][k]
  BY <1>1, <1>2
<1>6. DocumentsStayValid'
  <2> SUFFICES ASSUME NEW n \in Registered, NEW k \in Key, records'[n][k] # None
               PROVE  /\ Required(collections[n]) \subseteq records'[n][k]
                      /\ records'[n][k] \subseteq Fields(collections[n])
    BY <1>1 DEF DocumentsStayValid, Stored, Registered
  <2>0. n \in Collection
    BY DEF Registered
  <2>1. CASE n = d.name /\ k = key
    <3>1. records'[n][k] = document
      BY <1>5, <2>0, <2>1
    <3>2. collections[n] \in Descriptor /\ Follows(d, collections[n])
      BY <2>1 DEF Registered
    <3> QED
      BY <1>1, <1>2, <3>1, <3>2, FollowsFields
  <2>2. CASE ~(n = d.name /\ k = key)
    <3>1. records'[n][k] = records[n][k]
      BY <1>5, <2>0, <2>2
    <3> QED
      BY <3>1 DEF DocumentsStayValid, Stored
  <2> QED
    BY <2>1, <2>2
<1>7. \A n \in Collection \ Registered' : Stored(n)' = {}
  BY <1>1, <1>2, <1>5 DEF Registered, Stored
<1> QED
  BY <1>1, <1>4, <1>6, <1>7 DEF Registered, NothingHalfPublished

\* A document removed leaves nothing to be valid.
LEMMA EraseKeeps ==
    ASSUME SchemaInv, NEW d \in accepted, NEW key \in Key, Erase(d, key)
    PROVE  SchemaInv'
<1> USE DEF SchemaInv
<1>1. /\ records' = [records EXCEPT ![d.name][key] = None]
      /\ collections' = collections /\ accepted' = accepted
  BY DEF Erase
<1>2. d.name \in Collection
  BY DEF Registered
<1>3. records' \in [Collection -> [Key -> Documents]]
  <2>1. None \in Documents
    BY DEF Documents
  <2> QED
    BY <1>1, <1>2, <2>1
<1>4. \A n \in Collection, k \in Key : records'[n][k] \in {records[n][k], None}
  BY <1>1, <1>2
<1>5. DocumentsStayValid'
  <2> SUFFICES ASSUME NEW n \in Registered, NEW k \in Key, records'[n][k] # None
               PROVE  /\ Required(collections[n]) \subseteq records'[n][k]
                      /\ records'[n][k] \subseteq Fields(collections[n])
    BY <1>1 DEF DocumentsStayValid, Stored, Registered
  <2>1. records'[n][k] = records[n][k]
    BY <1>4 DEF Registered
  <2> QED
    BY <2>1 DEF DocumentsStayValid, Stored
<1>6. \A n \in Collection \ Registered' : Stored(n)' = {}
  BY <1>1, <1>4 DEF Registered, Stored
<1> QED
  BY <1>1, <1>3, <1>5, <1>6 DEF Registered, NothingHalfPublished

--------------------------------------------------------------------------------
\* Indexes.

\* An upgrade leaves the index states alone, and adds no unique index that
\* would have none; a first registration starts them, empty.
LEMMA EnsureKeepsIndexes ==
    ASSUME SchemaInv, IndexInv, NEW batch \in Batches, Ensure(batch)
    PROVE  IndexInv'
<1>1. batch \in Seq(Descriptor) /\ Accepts(batch)
  BY BatchesAssumption DEF Ensure
<1>2. /\ collections' = Staged(batch) /\ records' = records
      /\ indexes' = [n \in Collection |->
            IF collections[n] = None /\ collections'[n] # None
            THEN EmptyIndexes(collections'[n]) ELSE indexes[n]]
  BY DEF Ensure, Publish
<1>3. \A n \in Registered : /\ collections'[n] # None
                            /\ Follows(collections[n], collections'[n])
  BY <1>1, <1>2, StagedFollows DEF Registered, SchemaInv
<1>4. \A n \in Collection : Stored(n)' = Stored(n)
  BY <1>2 DEF Stored
<1>5. \A n \in Collection : \A i : Filed(i, n)' = Filed(i, n)
  BY <1>2, <1>4 DEF Filed
<1>6. ASSUME NEW n \in Registered
      PROVE  /\ \A i \in DOMAIN indexes'[n] : indexes'[n][i] = Filed(i, n)
             /\ \A i \in ToSet(collections'[n].indexes) : i.unique =>
                  /\ i \in DOMAIN indexes'[n]
                  /\ \A j, k \in Stored(n) :
                        Entry(i, records[n][j]) = Entry(i, records[n][k]) => j = k
  <2>1. n \in Collection /\ indexes'[n] = indexes[n]
    BY <1>2 DEF Registered
  <2>2. \A i \in ToSet(collections'[n].indexes) :
           i.unique => i \in ToSet(collections[n].indexes)
    BY <1>3 DEF Follows, IndexesAdded
  <2> QED
    BY <2>1, <2>2 DEF IndexInv
<1>7. ASSUME NEW n \in Collection \ Registered
      PROVE  /\ \A i \in DOMAIN indexes'[n] : indexes'[n][i] = Filed(i, n)
             /\ Stored(n) = {}
             /\ collections'[n] # None => DOMAIN indexes'[n] = ToSet(collections'[n].indexes)
  <2>1. Stored(n) = {} /\ collections[n] = None
    BY DEF SchemaInv, Registered
  <2>2. \A i : Filed(i, n) = {}
    BY <2>1 DEF Filed
  <2>3. CASE collections'[n] = None
    BY <1>2, <2>1, <2>3 DEF IndexInv
  <2>4. CASE collections'[n] # None
    BY <1>2, <2>1, <2>2, <2>4 DEF EmptyIndexes
  <2> QED
    BY <2>1, <2>3, <2>4
<1>8. \A n \in Collection : \A i \in DOMAIN indexes'[n] : indexes'[n][i] = Filed(i, n)'
  BY <1>5, <1>6, <1>7
<1>9. \A n \in Registered' : \A i \in ToSet(collections'[n].indexes) : i.unique =>
        /\ i \in DOMAIN indexes'[n]
        /\ \A j, k \in Stored(n)' :
              Entry(i, records'[n][j]) = Entry(i, records'[n][k]) => j = k
  <2> SUFFICES ASSUME NEW n \in Collection, collections'[n] # None,
                      NEW i \in ToSet(collections'[n].indexes), i.unique
               PROVE  /\ i \in DOMAIN indexes'[n]
                      /\ \A j, k \in Stored(n) :
                            Entry(i, records[n][j]) = Entry(i, records[n][k]) => j = k
    BY <1>2, <1>4 DEF Registered
  <2> QED
    BY <1>6, <1>7
<1>10. indexes' = [n \in Collection |-> indexes'[n]]
  BY <1>2
<1> QED
  BY <1>8, <1>9, <1>10 DEF IndexInv

\* Refiling a key that is written: the index loses its old entry, if it had
\* one, and gains the new one, if there is a document.
LEMMA RefileFiles ==
    ASSUME SchemaInv, IndexInv, NEW n \in Collection, NEW key \in Key, NEW document \in Documents,
           records' = [records EXCEPT ![n][key] = document],
           indexes' = [indexes EXCEPT ![n] = Refile(n, key, document)]
    PROVE  /\ indexes' = [m \in Collection |-> indexes'[m]]
           /\ \A m \in Collection : /\ DOMAIN indexes'[m] = DOMAIN indexes[m]
                                   /\ \A i \in DOMAIN indexes'[m] :
                                         indexes'[m][i] = Filed(i, m)'
<1> USE DEF IndexInv
<1>1. \A m \in Collection, k \in Key :
        records'[m][k] = IF m = n /\ k = key THEN document ELSE records[m][k]
  BY DEF SchemaInv
<1>2. \A m \in Collection :
        indexes'[m] = IF m = n THEN Refile(n, key, document) ELSE indexes[m]
  OBVIOUS
<1>3. ASSUME NEW m \in Collection, m # n
      PROVE  /\ DOMAIN indexes'[m] = DOMAIN indexes[m]
             /\ \A i \in DOMAIN indexes'[m] : indexes'[m][i] = Filed(i, m)'
  <2>1. \A i : Filed(i, m)' = Filed(i, m)
    BY <1>1, <1>3 DEF Filed, Stored
  <2> QED
    BY <1>2, <1>3, <2>1
<1>4. DOMAIN indexes'[n] = DOMAIN indexes[n]
  BY <1>2 DEF Refile
<1>5. ASSUME NEW i \in DOMAIN indexes[n]
      PROVE  indexes'[n][i] = Filed(i, n)'
  <2> DEFINE old == IF records[n][key] = None THEN indexes[n][i]
                    ELSE indexes[n][i] \ {<<Entry(i, records[n][key]), key>>}
             new == IF document = None THEN {} ELSE {<<Entry(i, document), key>>}
  <2>1. indexes'[n][i] = old \cup new
    BY <1>2 DEF Refile
  <2>2. indexes[n][i] = {<<Entry(i, records[n][k]), k>> : k \in Stored(n)}
    BY DEF Filed
  <2>3. old = {<<Entry(i, records[n][k]), k>> : k \in Stored(n) \ {key}}
    BY <2>2 DEF Stored
  <2>4. \A k \in Key \ {key} : records'[n][k] = records[n][k]
    BY <1>1
  <2>5. records'[n][key] = document
    BY <1>1
  <2>6. Stored(n)' = (Stored(n) \ {key}) \cup (IF document = None THEN {} ELSE {key})
    BY <2>4, <2>5 DEF Stored
  <2>7. Filed(i, n)' = {<<Entry(i, records'[n][k]), k>> : k \in Stored(n)'}
    BY DEF Filed, Entry
  <2>8. \A k \in Stored(n) \ {key} : records'[n][k] = records[n][k]
    BY <2>4 DEF Stored
  <2>9. Filed(i, n)' = old \cup new
    BY <2>3, <2>5, <2>6, <2>7, <2>8
  <2> QED
    BY <2>1, <2>9
<1>6. indexes' = [m \in Collection |-> indexes'[m]]
  OBVIOUS
<1> QED
  BY <1>3, <1>4, <1>5, <1>6

\* A document that is written has an entry of its own in every unique index.
LEMMA PutKeepsIndexes ==
    ASSUME SchemaInv, IndexInv, NEW d \in accepted, NEW key \in Key,
           NEW document \in SUBSET Fields(d), Put(d, key, document)
    PROVE  IndexInv'
<1>1. /\ ~UniqueConflict(d.name, key, document)
      /\ records' = [records EXCEPT ![d.name][key] = document]
      /\ indexes' = [indexes EXCEPT ![d.name] = Refile(d.name, key, document)]
      /\ collections' = collections
  BY DEF Put
<1>2. d.name \in Collection /\ document \in Documents
  BY DEF SchemaInv, Registered, Documents, FieldName
<1>3. /\ indexes' = [m \in Collection |-> indexes'[m]]
      /\ \A m \in Collection : /\ DOMAIN indexes'[m] = DOMAIN indexes[m]
                              /\ \A i \in DOMAIN indexes'[m] : indexes'[m][i] = Filed(i, m)'
  BY <1>1, <1>2, RefileFiles
<1>4. \A m \in Collection, k \in Key :
        records'[m][k] = IF m = d.name /\ k = key THEN document ELSE records[m][k]
  BY <1>1, <1>2 DEF SchemaInv
<1>5. ASSUME NEW m \in Registered, NEW i \in ToSet(collections[m].indexes), i.unique,
             NEW j \in Key, NEW k \in Key, records'[m][j] # None, records'[m][k] # None,
             Entry(i, records'[m][j]) = Entry(i, records'[m][k])
      PROVE  j = k
  <2>1. m \in Collection
    BY DEF Registered
  <2>2. /\ i \in DOMAIN indexes[m] /\ indexes[m][i] = Filed(i, m)
        /\ \A a, b \in Stored(m) :
              Entry(i, records[m][a]) = Entry(i, records[m][b]) => a = b
    BY <1>5, <2>1 DEF IndexInv
  <2>3. CASE m # d.name \/ (j # key /\ k # key)
    BY <1>4, <1>5, <2>1, <2>2, <2>3 DEF Stored
  <2>4. ASSUME m = d.name, NEW l \in Key \ {key}, records[m][l] # None,
               Entry(i, document) = Entry(i, records[m][l])
        PROVE  FALSE
    <3>1. <<Entry(i, records[m][l]), l>> \in indexes[m][i]
      BY <2>2, <2>4 DEF Filed, Stored
    <3> QED
      BY <1>1, <1>5, <2>2, <2>4, <3>1 DEF UniqueConflict
  <2>5. CASE m = d.name /\ (j = key \/ k = key)
    BY <1>4, <1>5, <2>1, <2>4, <2>5
  <2> QED
    BY <2>3, <2>5
<1>6. \A m \in Registered' : \A i \in ToSet(collections'[m].indexes) : i.unique =>
        /\ i \in DOMAIN indexes'[m]
        /\ \A j, k \in Stored(m)' :
              Entry(i, records'[m][j]) = Entry(i, records'[m][k]) => j = k
  <2>1. Registered' = Registered
    BY <1>1 DEF Registered
  <2>2. \A m \in Registered : m \in Collection /\
           \A i \in ToSet(collections[m].indexes) : i.unique => i \in DOMAIN indexes'[m]
    BY <1>3 DEF IndexInv, Registered
  <2> QED
    BY <1>1, <1>5, <2>1, <2>2 DEF Stored
<1> QED
  BY <1>3, <1>6 DEF IndexInv

\* What is removed conflicts with nothing.
LEMMA EraseKeepsIndexes ==
    ASSUME SchemaInv, IndexInv, NEW d \in accepted, NEW key \in Key, Erase(d, key)
    PROVE  IndexInv'
<1>1. /\ records' = [records EXCEPT ![d.name][key] = None]
      /\ indexes' = [indexes EXCEPT ![d.name] = Refile(d.name, key, None)]
      /\ collections' = collections
  BY DEF Erase
<1>2. d.name \in Collection /\ None \in Documents
  BY DEF SchemaInv, Registered, Documents
<1>3. /\ indexes' = [m \in Collection |-> indexes'[m]]
      /\ \A m \in Collection : /\ DOMAIN indexes'[m] = DOMAIN indexes[m]
                              /\ \A i \in DOMAIN indexes'[m] : indexes'[m][i] = Filed(i, m)'
  BY <1>1, <1>2, RefileFiles
<1>4. \A m \in Collection, k \in Key : records'[m][k] \in {records[m][k], None}
  BY <1>1, <1>2 DEF SchemaInv
<1>5. \A m \in Registered' : \A i \in ToSet(collections'[m].indexes) : i.unique =>
        /\ i \in DOMAIN indexes'[m]
        /\ \A j, k \in Stored(m)' :
              Entry(i, records'[m][j]) = Entry(i, records'[m][k]) => j = k
  <2> SUFFICES ASSUME NEW m \in Registered, NEW i \in ToSet(collections[m].indexes), i.unique
               PROVE  /\ i \in DOMAIN indexes'[m]
                      /\ \A j, k \in Stored(m)' :
                            Entry(i, records'[m][j]) = Entry(i, records'[m][k]) => j = k
    BY <1>1 DEF Registered
  <2>1. m \in Collection
    BY DEF Registered
  <2>2. i \in DOMAIN indexes'[m]
    BY <1>3, <2>1 DEF IndexInv
  <2>3. \A k \in Stored(m)' : k \in Stored(m) /\ records'[m][k] = records[m][k]
    BY <1>4, <2>1 DEF Stored
  <2> QED
    BY <2>2, <2>3 DEF IndexInv
<1> QED
  BY <1>3, <1>5 DEF IndexInv

--------------------------------------------------------------------------------
\* The theorems.

\* A refused batch changes nothing, and no step leaves the invariant.
THEOREM SchemaInvariant == Spec => []SchemaInv
<1>1. ASSUME SchemaInv, [Next]_vars
      PROVE  SchemaInv'
  <2>1. CASE UNCHANGED vars
    BY <1>1, <2>1 DEF vars, SchemaInv, Registered, Stored, NothingHalfPublished,
       DocumentsStayValid
  <2>2. ASSUME NEW batch \in Batches, Ensure(batch)
        PROVE  SchemaInv'
    BY <1>1, <2>2, EnsureKeeps
  <2>3. ASSUME NEW batch \in Batches, EnsureThrows(batch)
        PROVE  UNCHANGED vars
    BY <2>3 DEF EnsureThrows
  <2>4. ASSUME NEW d \in accepted, NEW k \in Key, NEW document \in SUBSET Fields(d),
               Put(d, k, document)
        PROVE  SchemaInv'
    BY <1>1, <2>4, PutKeeps
  <2>5. ASSUME NEW d \in accepted, NEW k \in Key, Erase(d, k)
        PROVE  SchemaInv'
    BY <1>1, <2>5, EraseKeeps
  <2> QED
    BY <1>1, <2>1, <2>2, <2>3, <2>4, <2>5 DEF Next
<1> QED
  BY <1>1, InitSchemaInv, PTL DEF Spec

\* docs/schema-upgrades.md: "All existing records remain valid", through every
\* history of registrations and of writes by instances of every version.
THEOREM RegistryDocumentsStayValid == Spec => []DocumentsStayValid
<1>1. SchemaInv => DocumentsStayValid
  BY DEF SchemaInv
<1> QED
  BY <1>1, SchemaInvariant, PTL

\* An instance that registered is served for ever: no later upgrade, nor the
\* rest of its own batch, takes a key, a field or an index away from it.
THEOREM RegistryOldInstancesServed == Spec => []OldInstancesServed
<1>1. ASSUME NEW old, NEW new, Follows(old, new)
      PROVE  /\ new.key = old.key
             /\ \A f \in ToSet(old.fields) :
                   \E g \in ToSet(new.fields) : g.name = f.name /\ g.type = f.type
             /\ ToSet(old.indexes) \subseteq ToSet(new.indexes)
  BY <1>1 DEF Follows, FieldsKept, IndexesKept
<1>2. SchemaInv => OldInstancesServed
  BY <1>1 DEF SchemaInv, OldInstancesServed
<1> QED
  BY <1>2, SchemaInvariant, PTL

\* ensure_collections: of a batch that throws nothing is in force.
THEOREM RegistryNothingHalfPublished == Spec => []NothingHalfPublished
<1>1. SchemaInv => NothingHalfPublished
  BY DEF SchemaInv
<1> QED
  BY <1>1, SchemaInvariant, PTL

\* The index states a collection started with file its documents through every
\* upgrade, and what the descriptor in force declares unique is unique, though
\* an upgrade rebuilds no index.
THEOREM RegistryIndexesSurvive == Spec => []IndexesSurvive
<1>1. Init => IndexInv
  <2> SUFFICES ASSUME Init
               PROVE  IndexInv
    OBVIOUS
  <2>1. indexes = [n \in Collection |-> [i \in {} |-> {}]]
    BY DEF Init
  <2>2. Registered = {}
    BY DEF Init, Registered
  <2> QED
    BY <2>1, <2>2 DEF IndexInv
<1>2. ASSUME SchemaInv, IndexInv, [Next]_vars
      PROVE  IndexInv'
  <2>1. ASSUME UNCHANGED vars
        PROVE  IndexInv'
    <3>1. \A n \in Collection : \A i : Filed(i, n)' = Filed(i, n)
      BY <2>1 DEF vars, Filed, Stored, Entry
    <3> QED
      BY <1>2, <2>1, <3>1 DEF vars, IndexInv, Registered, Stored
  <2>2. ASSUME NEW batch \in Batches, Ensure(batch)
        PROVE  IndexInv'
    BY <1>2, <2>2, EnsureKeepsIndexes
  <2>3. ASSUME NEW batch \in Batches, EnsureThrows(batch)
        PROVE  UNCHANGED vars
    BY <2>3 DEF EnsureThrows
  <2>4. ASSUME NEW d \in accepted, NEW k \in Key, NEW document \in SUBSET Fields(d),
               Put(d, k, document)
        PROVE  IndexInv'
    BY <1>2, <2>4, PutKeepsIndexes
  <2>5. ASSUME NEW d \in accepted, NEW k \in Key, Erase(d, k)
        PROVE  IndexInv'
    BY <1>2, <2>5, EraseKeepsIndexes
  <2> QED
    BY <1>2, <2>1, <2>2, <2>3, <2>4, <2>5 DEF Next
<1>3. IndexInv => IndexesSurvive
  BY DEF IndexInv, IndexesSurvive, Filed, Registered
<1> QED
  BY <1>1, <1>2, <1>3, SchemaInvariant, PTL DEF Spec

================================================================================
