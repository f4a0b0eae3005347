---------------------------- MODULE LeaseStoreProofs ---------------------------
(***************************************************************************)
(* Proofs about the lease store, for every set of holders and ttls.        *)
(***************************************************************************)
EXTENDS LeaseStore, TLAPS

Leased == Live(records, Lease)
Recorded == records[Lease].document

\* The version of the lease that t read is still the current one.
Current(t) == t.reads[Lease] = versions[Lease]

\* What acquireTx and renewTx found before they staged a grant with this token.
Claimable(h, token) ==
    \/ ~Leased /\ versions[Lease] = 0 /\ token = 1
    \/ Leased /\ Recorded.expires_at <= now /\ token = Recorded.fencing_token + 1
    \/ Leased /\ Recorded.holder = h /\ token = Recorded.fencing_token

\* An open call of h with transaction t, which will report g: a grant it reports
\* is the record it stages, and what it found holds until the lease is committed.
CallInv(h, t, g) ==
    /\ t.puts[Definition] \in LeaseDefinition \cup {Absent}
    /\ t.reads[Lease] <= versions[Lease]
    /\ ~Staged(t, Lease) => g = grant[h]
    /\ Staged(t, Lease) => t.reads[Lease] # Unread
    /\ Lease \in t.erases =>
          /\ g = NoGrant
          /\ Current(t) => Leased /\ Recorded.holder = h
    /\ Lease \notin t.erases /\ Putting(t, Lease) =>
          /\ g \in Grant
          /\ t.puts[Lease] = [holder |-> h, expires_at |-> g.expires, fencing_token |-> g.token]
          /\ Current(t) => Claimable(h, g.token)

\* The records: the lease carries the newest token, which only its holder has.
RecordInv ==
    /\ \A k \in StoreKey : Live(records, k) => records[k].version = versions[k]
    /\ Live(records, Definition) => records[Definition].document \in LeaseDefinition
    /\ Leased => /\ Recorded \in LeaseRecord
                 /\ Recorded.fencing_token = issued
                 /\ \A g \in Holder \ {Recorded.holder} :
                       grant[g] # NoGrant => grant[g].token < issued
    /\ versions[Lease] = 0 => issued = 0 /\ \A g \in Holder : grant[g] = NoGrant
    /\ \A g \in Holder : grant[g] # NoGrant => grant[g].token <= issued

\* The inductive invariant.
LeaseInv ==
    /\ TypeOK
    /\ RecordInv
    /\ GrantIsRecorded
    /\ \A h \in Holder : txs[h].open => CallInv(h, txs[h], pending[h])

--------------------------------------------------------------------------------
\* The transactions of the calls.

NoPuts == [k \in StoreKey |-> Absent]

\* t has read ks from the records as they are, and staged what is given.
IsTx(t, ks, puts, erases) ==
    /\ t \in Transaction /\ t.open
    /\ \A k \in StoreKey : t.reads[k] = IF k \in ks THEN ReadVersion(records, k) ELSE Unread
    /\ t.puts = puts /\ t.erases = erases

\* begin(): nothing is read or staged.
LEMMA BegunTx == IsTx(Begun, {}, NoPuts, {})
BY DEF Begun, Closed, Transaction, IsTx, NoPuts, Unread

\* get() before anything is staged reads one key more.
LEMMA GetTx ==
    ASSUME TypeOK, NEW ks, NEW k \in StoreKey, NEW t, IsTx(t, ks, NoPuts, {})
    PROVE  IsTx(Get(records, t, k), ks \cup {k}, NoPuts, {})
<1>1. ~Staged(t, k)
  BY DEF Staged, Putting, IsTx, NoPuts
<1>2. \A j \in StoreKey : ReadVersion(records, j) \in Nat
  BY DEF TypeOK, ReadVersion, Live, Record
<1>3. /\ RecordRead(records, t, {k}) \in Transaction
      /\ RecordRead(records, t, {k}).open = t.open
      /\ RecordRead(records, t, {k}).puts = t.puts
      /\ RecordRead(records, t, {k}).erases = t.erases
      /\ \A j \in StoreKey : RecordRead(records, t, {k}).reads[j] =
           IF j \in {k} /\ t.reads[j] = Unread THEN ReadVersion(records, j) ELSE t.reads[j]
  BY <1>2 DEF RecordRead, Transaction, Unread, IsTx
<1>4. Get(records, t, k) = RecordRead(records, t, {k})
  BY <1>1 DEF Get
<1> QED
  BY <1>3, <1>4 DEF IsTx

\* put() is a get() and a staged document.
LEMMA PutTx ==
    ASSUME TypeOK, NEW ks, NEW k \in StoreKey, NEW t, IsTx(t, ks, NoPuts, {}), NEW d \in StoreDoc
    PROVE  IsTx(Put(records, t, k, d), ks \cup {k}, [NoPuts EXCEPT ![k] = d], {})
<1> DEFINE g == Get(records, t, k)
<1>1. IsTx(g, ks \cup {k}, NoPuts, {})
  BY GetTx
<1>2. Put(records, t, k, d) = [g EXCEPT !.puts = [g.puts EXCEPT ![k] = d],
                                        !.erases = g.erases \ {k}]
  BY DEF Put
<1> HIDE DEF g
<1>3. g \in Transaction /\ g.erases \ {k} = {} /\ g.puts = NoPuts
  BY <1>1 DEF IsTx
<1>4. [g EXCEPT !.puts = [g.puts EXCEPT ![k] = d], !.erases = g.erases \ {k}] \in Transaction
  BY <1>3 DEF Transaction
<1> QED
  BY <1>1, <1>2, <1>3, <1>4 DEF IsTx, Transaction

\* erase() is a get() and a staged erase.
LEMMA EraseTx ==
    ASSUME TypeOK, NEW ks, NEW k \in StoreKey, NEW t, IsTx(t, ks, NoPuts, {})
    PROVE  IsTx(Erase(records, t, k), ks \cup {k}, NoPuts, {k})
<1> DEFINE g == Get(records, t, k)
<1>1. IsTx(g, ks \cup {k}, NoPuts, {})
  BY GetTx
<1>2. Erase(records, t, k) = [g EXCEPT !.puts = [g.puts EXCEPT ![k] = Absent],
                                       !.erases = g.erases \cup {k}]
  BY DEF Erase
<1> HIDE DEF g
<1>3. [NoPuts EXCEPT ![k] = Absent] = NoPuts
  BY DEF NoPuts
<1>4. g \in Transaction /\ g.puts = NoPuts /\ g.erases = {}
  BY <1>1 DEF IsTx
<1> DEFINE erased == [g EXCEPT !.puts = NoPuts, !.erases = {k}]
<1>5. Erase(records, t, k) = erased
  BY <1>2, <1>3, <1>4
<1>6. erased \in Transaction
  BY <1>4 DEF Transaction, NoPuts
<1>7. /\ erased.open = g.open /\ erased.reads = g.reads
      /\ erased.puts = NoPuts /\ erased.erases = {k}
  BY <1>4 DEF Transaction
<1> HIDE DEF erased
<1> QED
  BY <1>1, <1>5, <1>6, <1>7 DEF IsTx

\* What is visible to a transaction that has staged nothing is committed.
LEMMA DocumentIsRecord ==
    ASSUME NEW k \in StoreKey, Live(records, k)
    PROVE  Document(k) = records[k].document
BY DEF Document, Visible, Begun, Closed, Putting, Live

\* Records carry their versions, and so a version that is read is ahead of none.
LEMMA LeaseVersion ==
    ASSUME TypeOK, RecordInv, NEW r, r = Unread \/ r = ReadVersion(records, Lease)
    PROVE  /\ r <= versions[Lease]
           /\ r # Unread => r = 0 \/ Leased
           /\ ReadVersion(records, Lease) # Unread
<1>1. Lease \in StoreKey
  BY DEF StoreKey
<1>2. /\ versions[Lease] \in Nat
      /\ ReadVersion(records, Lease) \in {0, versions[Lease]}
      /\ ReadVersion(records, Lease) = 0 \/ Live(records, Lease)
  BY <1>1 DEF TypeOK, RecordInv, ReadVersion
<1> QED
  BY <1>2 DEF Unread, Leased

\* A call that has begun disturbs nothing but its own transaction.
LEMMA CallKeeps ==
    ASSUME LeaseInv, NEW h \in Holder, NEW t \in Transaction, NEW g \in Grant \cup {NoGrant},
           Call(h, t, g), CallInv(h, t, g)
    PROVE  LeaseInv'
<1> USE DEF LeaseInv
<1>1. /\ txs' = [txs EXCEPT ![h] = t] /\ pending' = [pending EXCEPT ![h] = g]
      /\ UNCHANGED <<records, versions, now, grant, issued>>
  BY DEF Call
<1>2. TypeOK'
  BY <1>1 DEF TypeOK
<1>3. RecordInv'
  BY <1>1 DEF RecordInv, Leased, Recorded
<1>4. GrantIsRecorded'
  BY <1>1 DEF GrantIsRecorded, Holding, Document
<1>5. ASSUME NEW i \in Holder, txs'[i].open
      PROVE  CallInv(i, txs[i], pending[i])' 
  <2>1. CASE i = h
    <3>1. txs'[i] = t /\ pending'[i] = g
      BY <1>1, <2>1 DEF TypeOK
    <3> QED
      BY <1>1, <2>1, <3>1 DEF CallInv, Current, Claimable, Leased, Recorded
  <2>2. CASE i # h
    <3>1. txs'[i] = txs[i] /\ pending'[i] = pending[i]
      BY <1>1, <2>2 DEF TypeOK
    <3> QED
      BY <1>1, <1>5, <3>1 DEF CallInv, Current, Claimable, Leased, Recorded
  <2> QED
    BY <2>1, <2>2
<1> QED
  BY <1>2, <1>3, <1>4, <1>5

\* register_definition touches the definition only.
LEMMA RegisterDefinitionKeeps ==
    ASSUME LeaseInv, NEW h \in Holder, NEW ttl \in Ttl, RegisterDefinition(h, ttl)
    PROVE  LeaseInv'
<1> DEFINE d == [ttl |-> ttl]
           t == Put(records, Begun, Definition, d)
<1>1. d \in LeaseDefinition /\ d \in StoreDoc
  BY LeaseAssumption DEF LeaseDefinition, StoreDoc
<1>2. TypeOK /\ RecordInv /\ Definition \in StoreKey /\ Lease \in StoreKey /\ Lease # Definition
  BY DEF LeaseInv, StoreKey, Definition, Lease
<1>3. IsTx(t, {Definition}, [NoPuts EXCEPT ![Definition] = d], {})
  BY <1>1, <1>2, BegunTx, PutTx
<1>4. Call(h, t, grant[h])
  BY DEF RegisterDefinition
<1> HIDE DEF d, t
<1>5. t \in Transaction /\ t.puts[Definition] = d /\ t.puts[Lease] = Absent /\ t.erases = {}
  BY <1>2, <1>3 DEF IsTx, NoPuts
<1>6. CallInv(h, t, grant[h])
  <2>1. t.reads[Lease] = Unread
    BY <1>2, <1>3 DEF IsTx
  <2> QED
    BY <1>1, <1>2, <1>5, <2>1, LeaseVersion DEF CallInv, Staged, Putting
<1>7. grant[h] \in Grant \cup {NoGrant}
  BY <1>2 DEF TypeOK
<1> QED
  BY <1>4, <1>5, <1>6, <1>7, CallKeeps

\* require_definition and inspectTx read both records and stage nothing.
LEMMA InspectedTx ==
    ASSUME LeaseInv
    PROVE  IsTx(Inspected, StoreKey, NoPuts, {})
<1>1. TypeOK /\ Definition \in StoreKey /\ Lease \in StoreKey
  BY DEF LeaseInv, StoreKey
<1>2. IsTx(Get(records, Begun, Definition), {} \cup {Definition}, NoPuts, {})
  BY <1>1, BegunTx, GetTx
<1>3. IsTx(Inspected, ({} \cup {Definition}) \cup {Lease}, NoPuts, {})
  BY <1>1, <1>2, GetTx DEF Inspected
<1>4. ({} \cup {Definition}) \cup {Lease} = StoreKey
  BY DEF StoreKey
<1> QED
  BY <1>3, <1>4

\* acquire() of a lease that is held stages nothing.
LEMMA AcquireHeldKeeps ==
    ASSUME LeaseInv, NEW h \in Holder, AcquireHeld(h)
    PROVE  LeaseInv'
<1>1. IsTx(Inspected, StoreKey, NoPuts, {})
  BY InspectedTx
<1>2. TypeOK /\ RecordInv /\ Definition \in StoreKey /\ Lease \in StoreKey
  BY DEF LeaseInv, StoreKey
<1>3. /\ Inspected \in Transaction /\ Inspected.erases = {}
      /\ Inspected.puts[Definition] = Absent /\ Inspected.puts[Lease] = Absent
  BY <1>1, <1>2 DEF IsTx, NoPuts
<1>4. CallInv(h, Inspected, grant[h])
  <2>1. Inspected.reads[Lease] = ReadVersion(records, Lease)
    BY <1>1, <1>2 DEF IsTx
  <2> QED
    BY <1>2, <1>3, <2>1, LeaseVersion DEF CallInv, Staged, Putting
<1>5. Call(h, Inspected, grant[h])
  BY DEF AcquireHeld
<1>6. grant[h] \in Grant \cup {NoGrant}
  BY <1>2 DEF TypeOK
<1> QED
  BY <1>3, <1>4, <1>5, <1>6, CallKeeps

\* A call that stages a grant the records let it claim, acquire() or renew().
LEMMA StagedGrantKeeps ==
    ASSUME LeaseInv, NEW h \in Holder, NEW g \in Grant, NEW d,
           d = [holder |-> h, expires_at |-> g.expires, fencing_token |-> g.token],
           Call(h, Put(records, Inspected, Lease, d), g),
           \/ ~Leased /\ g.token = 1
           \/ Claimable(h, g.token)
    PROVE  LeaseInv'
<1> DEFINE t == Put(records, Inspected, Lease, d)
<1>1. d \in StoreDoc
  BY DEF Grant, LeaseRecord, StoreDoc
<1>2. /\ TypeOK /\ RecordInv /\ Definition \in StoreKey /\ Lease \in StoreKey
      /\ Lease # Definition
  BY DEF LeaseInv, StoreKey, Definition, Lease
<1>3. StoreKey \cup {Lease} = StoreKey
  BY <1>2
<1>4. IsTx(t, StoreKey, [NoPuts EXCEPT ![Lease] = d], {})
  BY <1>1, <1>2, <1>3, InspectedTx, PutTx
<1> HIDE DEF t
<1>5. t \in Transaction /\ t.puts[Definition] = Absent /\ t.puts[Lease] = d /\ t.erases = {}
  BY <1>2, <1>4 DEF IsTx, NoPuts
<1>6. /\ t.reads[Lease] <= versions[Lease] /\ t.reads[Lease] # Unread
      /\ t.reads[Lease] = 0 \/ Leased
  <2>1. t.reads[Lease] = ReadVersion(records, Lease)
    BY <1>2, <1>4 DEF IsTx
  <2> QED
    BY <1>2, <2>1, LeaseVersion
<1>7. Current(t) => Claimable(h, g.token)
  BY <1>6 DEF Current, Claimable
<1>8. Staged(t, Lease)
  BY <1>1, <1>5, MarkerAssumption DEF Staged, Putting
<1>9. CallInv(h, t, g)
  BY <1>5, <1>6, <1>7, <1>8 DEF CallInv
<1> QED
  BY <1>5, <1>9, CallKeeps DEF t

\* acquire() of a lease nobody holds: of none it claims token 1, of an expired
\* one the next token.
LEMMA AcquireKeeps ==
    ASSUME LeaseInv, NEW h \in Holder, Acquire(h)
    PROVE  LeaseInv'
<1> DEFINE expires == now + Document(Definition).ttl
           g == [token |-> NextToken, expires |-> expires]
           d == [holder |-> h, expires_at |-> expires, fencing_token |-> NextToken]
<1>1. TypeOK /\ RecordInv /\ Definition \in StoreKey /\ Lease \in StoreKey
  BY DEF LeaseInv, StoreKey
<1>2. Document(Definition) \in LeaseDefinition
  BY <1>1, DocumentIsRecord DEF Acquire, RecordInv
<1>3. Leased => Document(Lease) = Recorded /\ Recorded \in LeaseRecord
  BY <1>1, DocumentIsRecord DEF RecordInv, Leased, Recorded
<1>4. expires \in Nat
  BY <1>1, <1>2 DEF TypeOK, LeaseDefinition
<1>5. NextToken = IF Leased THEN Recorded.fencing_token + 1 ELSE 1
  BY <1>3 DEF NextToken, Leased
<1>6. g \in Grant
  BY <1>3, <1>4, <1>5 DEF Grant, LeaseRecord
<1>7. Leased => Recorded.expires_at <= now
  <2>1. Leased => ~(Recorded.expires_at > now)
    BY <1>3 DEF Acquire, Held, Leased
  <2>2. now \in Nat
    BY <1>1 DEF TypeOK
  <2> QED
    BY <1>3, <2>1, <2>2 DEF LeaseRecord
<1>8. (~Leased /\ g.token = 1) \/ Claimable(h, g.token)
  BY <1>5, <1>7 DEF Claimable
<1>9. Call(h, Put(records, Inspected, Lease, d), g)
  BY DEF Acquire
<1>10. d = [holder |-> h, expires_at |-> g.expires, fencing_token |-> g.token]
  OBVIOUS
<1> HIDE DEF g, d
<1> QED
  BY <1>6, <1>8, <1>9, <1>10, StagedGrantKeeps

\* renew() by the recorded holder claims the token it has.
LEMMA RenewKeeps ==
    ASSUME LeaseInv, NEW h \in Holder, Renew(h)
    PROVE  LeaseInv'
<1> DEFINE expires == now + Document(Definition).ttl
           lease == Document(Lease)
           g == [token |-> lease.fencing_token, expires |-> expires]
           d == [lease EXCEPT !.expires_at = expires]
<1>1. TypeOK /\ RecordInv /\ Definition \in StoreKey /\ Lease \in StoreKey
  BY DEF LeaseInv, StoreKey
<1>2. /\ Live(records, Definition) /\ Leased /\ lease.holder = h
      /\ Call(h, Put(records, Inspected, Lease, d), g)
  BY DEF Renew, RequireHolder, Leased
<1>3. Document(Definition) \in LeaseDefinition
  BY <1>1, <1>2, DocumentIsRecord DEF RecordInv
<1>4. lease = Recorded /\ lease \in LeaseRecord
  BY <1>1, <1>2, DocumentIsRecord DEF RecordInv, Leased, Recorded
<1>5. expires \in Nat
  BY <1>1, <1>3 DEF TypeOK, LeaseDefinition
<1> HIDE DEF expires, lease
<1>6. g \in Grant
  BY <1>4, <1>5 DEF Grant, LeaseRecord
<1>7. Claimable(h, g.token)
  BY <1>2, <1>4 DEF Claimable
<1>8. d = [holder |-> h, expires_at |-> g.expires, fencing_token |-> g.token]
  BY <1>2, <1>4 DEF LeaseRecord
<1> HIDE DEF g, d
<1> QED
  BY <1>2, <1>6, <1>7, <1>8, StagedGrantKeeps

\* release() by the recorded holder stages the erase and will report nothing.
LEMMA ReleaseKeeps ==
    ASSUME LeaseInv, NEW h \in Holder, Release(h)
    PROVE  LeaseInv'
<1> DEFINE t == Erase(records, Get(records, Begun, Lease), Lease)
<1>1. /\ TypeOK /\ RecordInv /\ Definition \in StoreKey /\ Lease \in StoreKey
      /\ Lease # Definition
  BY DEF LeaseInv, StoreKey, Definition, Lease
<1>2. Leased /\ Document(Lease).holder = h /\ Call(h, t, NoGrant)
  BY DEF Release, RequireHolder, Leased
<1>3. Recorded.holder = h
  BY <1>1, <1>2, DocumentIsRecord DEF Leased, Recorded
<1>4. IsTx(Get(records, Begun, Lease), {} \cup {Lease}, NoPuts, {})
  BY <1>1, BegunTx, GetTx
<1>5. IsTx(t, ({} \cup {Lease}) \cup {Lease}, NoPuts, {Lease})
  BY <1>1, <1>4, EraseTx
<1> HIDE DEF t
<1>6. t \in Transaction /\ t.puts[Definition] = Absent /\ t.erases = {Lease}
  BY <1>1, <1>5 DEF IsTx, NoPuts
<1>7. t.reads[Lease] <= versions[Lease] /\ t.reads[Lease] # Unread
  <2>1. t.reads[Lease] = ReadVersion(records, Lease)
    BY <1>1, <1>5 DEF IsTx
  <2> QED
    BY <1>1, <2>1, LeaseVersion
<1>8. CallInv(h, t, NoGrant)
  BY <1>2, <1>3, <1>6, <1>7 DEF CallInv, Staged
<1> QED
  BY <1>2, <1>6, <1>8, CallKeeps

--------------------------------------------------------------------------------
\* Commits, failures and the clock.

\* commit() leaves the lease alone, erases it, or records the pending grant.
LEMMA CommitCases ==
    ASSUME TypeOK, NEW h \in Holder, Commit(h), CallInv(h, txs[h], pending[h])
    PROVE  \/ /\ ~Staged(txs[h], Lease) /\ pending[h] = grant[h]
              /\ records'[Lease] = records[Lease] /\ versions'[Lease] = versions[Lease]
           \/ /\ Staged(txs[h], Lease) /\ versions'[Lease] = versions[Lease] + 1
              /\ records'[Lease] = Absent /\ pending[h] = NoGrant
           \/ /\ Staged(txs[h], Lease) /\ versions'[Lease] = versions[Lease] + 1
              /\ pending[h] \in Grant /\ Claimable(h, pending[h].token)
              /\ records'[Lease] = [version |-> versions'[Lease],
                                    document |-> [holder |-> h, expires_at |-> pending[h].expires,
                                                  fencing_token |-> pending[h].token]]
<1>1. Lease \in StoreKey
  BY DEF StoreKey
<1>2. /\ records'[Lease] = IF Lease \in txs[h].erases THEN Absent
                          ELSE IF Putting(txs[h], Lease)
                               THEN [version |-> versions[Lease] + 1, document |-> txs[h].puts[Lease]]
                          ELSE records[Lease]
      /\ versions'[Lease] = IF Staged(txs[h], Lease) THEN versions[Lease] + 1 ELSE versions[Lease]
  BY <1>1 DEF Commit, CommitRecords, CommitVersions
<1>3. Staged(txs[h], Lease) => Current(txs[h])
  BY <1>1 DEF Commit, Validates, Current, CallInv
<1> QED
  BY <1>2, <1>3 DEF CallInv, Staged

\* What commit() leaves is well formed, and carries its versions.
LEMMA CommitTypes ==
    ASSUME TypeOK, RecordInv, NEW h \in Holder, Commit(h), CallInv(h, txs[h], pending[h])
    PROVE  /\ TypeOK'
           /\ \A k \in StoreKey : Live(records', k) => records'[k].version = versions'[k]
           /\ Live(records', Definition) => records'[Definition].document \in LeaseDefinition
<1> DEFINE t == txs[h]
<1>1. t \in Transaction
  BY DEF TypeOK
<1>2. /\ records' = CommitRecords(records, versions, t)
      /\ versions' = CommitVersions(versions, t)
      /\ txs' = [txs EXCEPT ![h] = Closed]
      /\ grant' = [grant EXCEPT ![h] = pending[h]]
      /\ pending' = [pending EXCEPT ![h] = NoGrant]
      /\ issued' = IF pending[h] # NoGrant /\ pending[h].token > issued
                   THEN pending[h].token ELSE issued
      /\ now' = now
  BY DEF Commit
<1>3. records' \in [StoreKey -> Record \cup {Absent}] /\ versions' \in [StoreKey -> Nat]
  BY <1>1, <1>2 DEF TypeOK, CommitRecords, CommitVersions, Transaction, Record, Putting
<1>4. txs' \in [Holder -> Transaction]
  <2>1. Closed \in Transaction
    BY DEF Closed, Transaction, Unread
  <2> QED
    BY <1>2, <2>1 DEF TypeOK
<1>5. issued' \in Nat
  BY <1>2 DEF TypeOK, Grant
<1>6. grant' \in [Holder -> Grant \cup {NoGrant}] /\ pending' \in [Holder -> Grant \cup {NoGrant}]
  BY <1>2 DEF TypeOK
<1>7. TypeOK'
  BY <1>2, <1>3, <1>4, <1>5, <1>6 DEF TypeOK
<1>8. ASSUME NEW k \in StoreKey, Live(records', k)
      PROVE  /\ records'[k].version = versions'[k]
             /\ \/ records'[k].document = t.puts[k] /\ Putting(t, k)
                \/ records'[k] = records[k]
  BY <1>2, <1>8 DEF CommitRecords, CommitVersions, Staged, Putting, Live, RecordInv
<1>9. Definition \in StoreKey
  BY DEF StoreKey
<1>10. Live(records', Definition) => records'[Definition].document \in LeaseDefinition
  BY <1>8, <1>9 DEF CallInv, RecordInv, Live, Putting
<1> QED
  BY <1>7, <1>8, <1>10

\* What a call found stays true, or is no longer current, whatever others commit
\* and however far the clock goes.
LEMMA OpenCallsKeep ==
    ASSUME TypeOK, RecordInv, NEW i \in Holder, CallInv(i, txs[i], pending[i]),
           txs'[i] = txs[i], pending'[i] = pending[i], grant'[i] = grant[i],
           now' = now \/ now' = now + 1,
           \/ records'[Lease] = records[Lease] /\ versions'[Lease] = versions[Lease]
           \/ versions'[Lease] = versions[Lease] + 1
    PROVE  CallInv(i, txs[i], pending[i])'
<1> DEFINE t == txs[i]
<1>1. Lease \in StoreKey
  BY DEF StoreKey
<1>2. versions[Lease] \in Nat /\ t.reads[Lease] \in Nat \cup {Unread}
  BY <1>1 DEF TypeOK, Transaction
<1>3. t.reads[Lease] <= versions'[Lease]
  BY <1>2 DEF CallInv, Unread
<1>4. CASE versions'[Lease] = versions[Lease] + 1
  <2>1. ~Current(t)'
    BY <1>2, <1>4 DEF CallInv, Current, Unread
  <2> QED
    BY <1>3, <2>1 DEF CallInv, Current, Staged, Putting
<1>5. CASE records'[Lease] = records[Lease] /\ versions'[Lease] = versions[Lease]
  <2>1. ASSUME NEW token, Claimable(i, token)
        PROVE  Claimable(i, token)'
    <3>1. Leased => Recorded.expires_at \in Nat /\ now \in Nat
      BY DEF RecordInv, LeaseRecord, TypeOK
    <3>2. Leased /\ Recorded.expires_at <= now => Recorded.expires_at <= now'
      BY <3>1
    <3> QED
      BY <1>5, <2>1, <3>2 DEF Claimable, Leased, Recorded, Live
  <2>2. Current(t)' => Current(t)
    BY <1>5 DEF Current
  <2>3. Leased' = Leased /\ Recorded' = Recorded
    BY <1>5 DEF Leased, Recorded, Live
  <2> QED
    BY <1>3, <2>1, <2>2, <2>3 DEF CallInv, Staged, Putting
<1> QED
  BY <1>4, <1>5

\* A call that ends without a commit, or a process that dies, takes nothing from
\* anybody else.
LEMMA EndKeeps ==
    ASSUME LeaseInv, NEW h \in Holder,
           txs' = [txs EXCEPT ![h] = Closed], pending' = [pending EXCEPT ![h] = NoGrant],
           grant' = grant \/ grant' = [grant EXCEPT ![h] = NoGrant],
           UNCHANGED <<records, versions, now, issued>>
    PROVE  LeaseInv'
<1> USE DEF LeaseInv
<1>1. \A i \in Holder : grant'[i] \in {grant[i], NoGrant} /\ (i # h => grant'[i] = grant[i])
  BY DEF TypeOK
<1>2. TypeOK'
  <2>1. Closed \in Transaction /\ ~Closed.open
    BY DEF Closed, Transaction, Unread
  <2> QED
    BY <2>1 DEF TypeOK
<1>3. RecordInv'
  BY <1>1 DEF RecordInv, Leased, Recorded, Live
<1>4. GrantIsRecorded'
  BY <1>1 DEF GrantIsRecorded, Holding, Document
<1>5. ASSUME NEW i \in Holder, txs'[i].open
      PROVE  CallInv(i, txs[i], pending[i])'
  <2>1. i # h
    BY <1>5 DEF TypeOK, Closed
  <2>2. txs'[i] = txs[i] /\ pending'[i] = pending[i] /\ grant'[i] = grant[i]
    BY <1>1, <2>1 DEF TypeOK
  <2> QED
    BY <1>5, <2>2, OpenCallsKeep
<1> QED
  BY <1>2, <1>3, <1>4, <1>5

\* The clock expires leases and grants alike.
LEMMA TickKeeps ==
    ASSUME LeaseInv, Tick
    PROVE  LeaseInv'
<1> USE DEF LeaseInv
<1>1. now' = now + 1 /\ UNCHANGED <<records, versions, txs, pending, grant, issued>>
  BY DEF Tick
<1>2. TypeOK'
  BY <1>1 DEF TypeOK
<1>3. RecordInv'
  BY <1>1 DEF RecordInv, Leased, Recorded, Live
<1>4. GrantIsRecorded'
  <2>1. \A h \in Holder : Holding(h)' => Holding(h)
    BY <1>1 DEF Holding, TypeOK, Grant
  <2> QED
    BY <1>1, <2>1 DEF GrantIsRecorded, Document
<1>5. \A i \in Holder : txs'[i].open => CallInv(i, txs[i], pending[i])'
  BY <1>1, OpenCallsKeep
<1> QED
  BY <1>2, <1>3, <1>4, <1>5

\* A commit by h. Where it grants, whoever held the lease had expired, was h,
\* or there never was one; where it erases, the holder was h.
LEMMA CommitKeeps ==
    ASSUME LeaseInv, NEW h \in Holder, Commit(h)
    PROVE  LeaseInv'
<1> USE DEF LeaseInv
<1>1. CallInv(h, txs[h], pending[h]) /\ Lease \in StoreKey
  BY DEF Commit, StoreKey
<1>2. /\ grant'[h] = pending[h] /\ txs'[h] = Closed
      /\ \A i \in Holder \ {h} :
            grant'[i] = grant[i] /\ txs'[i] = txs[i] /\ pending'[i] = pending[i]
      /\ issued' = IF pending[h] # NoGrant /\ pending[h].token > issued
                   THEN pending[h].token ELSE issued
      /\ now' = now
  BY DEF Commit, TypeOK
<1>3. /\ TypeOK'
      /\ \A k \in StoreKey : Live(records, k)' => records'[k].version = versions'[k]
      /\ Live(records, Definition)' => records'[Definition].document \in LeaseDefinition
  BY <1>1, CommitTypes DEF Live
<1>4. /\ issued \in Nat /\ now \in Nat /\ versions[Lease] \in Nat
      /\ \A i \in Holder : grant[i] # NoGrant => grant[i].token \in Nat /\ grant[i].expires \in Nat
  BY <1>1 DEF TypeOK, Grant
<1>5. ASSUME NEW i \in Holder, txs'[i].open
      PROVE  CallInv(i, txs[i], pending[i])'
  <2>1. i # h
    BY <1>2, <1>5 DEF Closed
  <2>2. \/ records'[Lease] = records[Lease] /\ versions'[Lease] = versions[Lease]
        \/ versions'[Lease] = versions[Lease] + 1
    BY <1>1, CommitCases
  <2> QED
    BY <1>2, <1>5, <2>1, <2>2, OpenCallsKeep
<1>6. CASE /\ pending[h] = grant[h]
           /\ records'[Lease] = records[Lease] /\ versions'[Lease] = versions[Lease]
  <2>1. \A i \in Holder : grant'[i] = grant[i]
    BY <1>2, <1>6
  <2>2. issued' = issued
    BY <1>2, <1>4, <1>6 DEF RecordInv
  <2>3. Leased' = Leased /\ Recorded' = Recorded /\ Document(Lease)' = Document(Lease)
    BY <1>6 DEF Leased, Recorded, Live, Document, Visible
  <2>4. RecordInv'
    BY <1>3, <1>6, <2>1, <2>2, <2>3 DEF RecordInv
  <2>5. GrantIsRecorded'
    BY <1>2, <2>1, <2>3 DEF GrantIsRecorded, Holding, Leased
  <2> QED
    BY <1>3, <1>5, <2>4, <2>5
<1>7. CASE /\ Staged(txs[h], Lease) /\ versions'[Lease] = versions[Lease] + 1
           /\ records'[Lease] = Absent /\ pending[h] = NoGrant
  <2>1. issued' = issued /\ grant'[h] = NoGrant /\ ~Leased'
    BY <1>2, <1>7 DEF Leased, Live
  <2>2. Leased /\ Recorded.holder = h
    <3>1. Current(txs[h])
      BY <1>1, <1>7 DEF Commit, Validates, Current, CallInv
    <3>2. Lease \in txs[h].erases
      BY <1>1, <1>7, MarkerAssumption DEF CallInv, Staged
    <3> QED
      BY <1>1, <3>1, <3>2 DEF CallInv
  <2>3. RecordInv'
    BY <1>2, <1>3, <1>4, <1>7, <2>1 DEF RecordInv
  <2>4. \A i \in Holder : ~Holding(i)'
    <3>1. \A i \in Holder \ {h} : ~Holding(i)
      BY <1>1, <2>2, DocumentIsRecord DEF GrantIsRecorded, Leased, Recorded
    <3> QED
      BY <1>2, <2>1, <3>1 DEF Holding
  <2> QED
    BY <1>3, <1>5, <2>3, <2>4 DEF GrantIsRecorded
<1>8. ASSUME versions'[Lease] = versions[Lease] + 1,
             pending[h] \in Grant, Claimable(h, pending[h].token),
             records'[Lease] = [version |-> versions'[Lease],
                                document |-> [holder |-> h, expires_at |-> pending[h].expires,
                                              fencing_token |-> pending[h].token]]
      PROVE  LeaseInv'
  <2> DEFINE token == pending[h].token
             d == [holder |-> h, expires_at |-> pending[h].expires, fencing_token |-> token]
  <2>1. token \in Nat /\ pending[h] # NoGrant /\ d \in LeaseRecord
    BY <1>8, MarkerAssumption DEF Grant, LeaseRecord
  <2>2. Leased' /\ Recorded' = d
    <3>1. records'[Lease] \in Record
      BY <1>8, <2>1, <1>4 DEF Record, StoreDoc
    <3>2. Leased'
      BY <3>1, MarkerAssumption DEF Leased, Live
    <3> QED
      BY <1>8, <3>2 DEF Recorded
  <2>3. /\ token >= issued
        /\ \A i \in Holder \ {h} : grant[i] # NoGrant => grant[i].token < token
        /\ \A i \in Holder \ {h} : ~Holding(i)
    <3>1. CASE ~Leased /\ versions[Lease] = 0 /\ token = 1
      BY <3>1, <1>4 DEF RecordInv, Holding
    <3>2. CASE Leased /\ Recorded.expires_at <= now /\ token = Recorded.fencing_token + 1
      <4>1. Document(Lease) = Recorded /\ Recorded \in LeaseRecord /\ token = issued + 1
        BY <1>1, <3>2, DocumentIsRecord DEF RecordInv, Leased, Recorded
      <4>2. \A i \in Holder : Holding(i) => grant[i].expires = Recorded.expires_at
        BY <4>1 DEF GrantIsRecorded
      <4>3. \A i \in Holder : ~Holding(i)
        <5>1. Recorded.expires_at \in Nat
          BY <4>1 DEF LeaseRecord
        <5>2. \A i \in Holder : Holding(i) => Recorded.expires_at > now
          BY <4>2 DEF Holding
        <5>3. now \in Nat /\ Recorded.expires_at <= now
          BY <1>4, <3>2
        <5>4. ~(Recorded.expires_at > now)
          BY <5>1, <5>3
        <5> QED
          BY <5>2, <5>4
      <4> QED
        BY <1>4, <4>1, <4>3 DEF RecordInv
    <3>3. CASE Leased /\ Recorded.holder = h /\ token = Recorded.fencing_token
      <4>1. Document(Lease) = Recorded
        BY <1>1, <3>3, DocumentIsRecord DEF Leased, Recorded
      <4>2. \A i \in Holder \ {h} : ~Holding(i)
        BY <3>3, <4>1 DEF GrantIsRecorded
      <4> QED
        BY <1>4, <3>3, <4>2 DEF RecordInv
    <3> QED
      BY <1>8, <3>1, <3>2, <3>3 DEF Claimable
  <2>4. issued' = token /\ grant'[h] = pending[h]
    BY <1>2, <1>4, <2>1, <2>3
  <2>5. RecordInv'
    <3>1. \A i \in Holder \ {h} : grant'[i] # NoGrant => grant'[i].token < issued'
      BY <1>2, <2>3, <2>4
    <3>2. \A i \in Holder : grant'[i] # NoGrant => grant'[i].token <= issued'
      BY <1>2, <1>4, <2>1, <3>1, <2>4
    <3>3. versions'[Lease] # 0
      BY <1>4, <1>8
    <3>4. Recorded' \in LeaseRecord /\ Recorded'.fencing_token = issued' /\ Recorded'.holder = h
      BY <2>1, <2>2, <2>4
    <3> HIDE DEF token, d
    <3> QED
      BY <1>3, <3>1, <3>2, <3>3, <3>4 DEF RecordInv
  <2>6. GrantIsRecorded'
    <3>1. \A i \in Holder : Holding(i)' => i = h
      BY <1>2, <2>3 DEF Holding
    <3>2. Document(Lease)' = d
      BY <1>1, <2>2, <1>8 DEF Document, Visible, Begun, Closed, Putting, Leased, Live
    <3> QED
      BY <2>2, <2>4, <3>1, <3>2 DEF GrantIsRecorded, Leased
  <2> QED
    BY <1>3, <1>5, <2>5, <2>6
<1> QED
  BY <1>1, <1>6, <1>7, <1>8, CommitCases

--------------------------------------------------------------------------------
\* The theorems.

\* lease_store.hpp: every call, commit, failure and tick keeps the invariant.
THEOREM LeaseInvariant == Spec => []LeaseInv
<1>1. Init => LeaseInv
  <2> SUFFICES ASSUME Init
               PROVE  LeaseInv
    OBVIOUS
  <2>1. Closed \in Transaction /\ ~Closed.open
    BY DEF Closed, Transaction, Unread
  <2>2. TypeOK
    BY <2>1 DEF Init, TypeOK
  <2>3. ~Live(records, Lease) /\ ~Live(records, Definition)
    BY DEF Init, Live, StoreKey
  <2>4. RecordInv
    BY <2>3 DEF Init, RecordInv, Leased, Live
  <2>5. GrantIsRecorded
    BY DEF Init, GrantIsRecorded, Holding
  <2>6. \A h \in Holder : ~txs[h].open
    BY <2>1 DEF Init
  <2> QED
    BY <2>2, <2>4, <2>5, <2>6 DEF LeaseInv
<1>2. ASSUME LeaseInv, [Next]_vars
      PROVE  LeaseInv'
  <2>1. CASE UNCHANGED vars
    BY <1>2, <2>1 DEF vars, LeaseInv, TypeOK, RecordInv, GrantIsRecorded, Holding, Document,
       CallInv, Current, Claimable, Leased, Recorded
  <2>2. ASSUME NEW h \in Holder, NEW ttl \in Ttl, RegisterDefinition(h, ttl)
        PROVE  LeaseInv'
    BY <1>2, <2>2, RegisterDefinitionKeeps
  <2>3. ASSUME NEW h \in Holder, AcquireHeld(h)
        PROVE  LeaseInv'
    BY <1>2, <2>3, AcquireHeldKeeps
  <2>4. ASSUME NEW h \in Holder, Acquire(h)
        PROVE  LeaseInv'
    BY <1>2, <2>4, AcquireKeeps
  <2>5. ASSUME NEW h \in Holder, Renew(h)
        PROVE  LeaseInv'
    BY <1>2, <2>5, RenewKeeps
  <2>6. ASSUME NEW h \in Holder, Release(h)
        PROVE  LeaseInv'
    BY <1>2, <2>6, ReleaseKeeps
  <2>7. ASSUME NEW h \in Holder, Commit(h)
        PROVE  LeaseInv'
    BY <1>2, <2>7, CommitKeeps
  <2>8. ASSUME NEW h \in Holder, Conflict(h)
        PROVE  LeaseInv'
    BY <1>2, <2>8, EndKeeps DEF Conflict
  <2>9. ASSUME NEW h \in Holder, Crash(h)
        PROVE  LeaseInv'
    BY <1>2, <2>9, EndKeeps DEF Crash
  <2>10. CASE Tick
    BY <1>2, <2>10, TickKeeps
  <2> QED
    BY <1>2, <2>1, <2>2, <2>3, <2>4, <2>5, <2>6, <2>7, <2>8, <2>9, <2>10 DEF Next
<1> QED
  BY <1>1, <1>2, PTL DEF Spec

\* The state of the lease store has its type.
THEOREM LeaseStoreTypeOK == Spec => []TypeOK
<1>1. LeaseInv => TypeOK
  BY DEF LeaseInv
<1> QED
  BY <1>1, LeaseInvariant, PTL

\* A grant that has not expired is the record of the lease.
THEOREM LeaseStoreGrantIsRecorded == Spec => []GrantIsRecorded
<1>1. LeaseInv => GrantIsRecorded
  BY DEF LeaseInv
<1> QED
  BY <1>1, LeaseInvariant, PTL

\* No two holders believe in an unexpired grant at once.
THEOREM LeaseStoreMutualExclusion == Spec => []MutualExclusion
<1>1. LeaseInv => MutualExclusion
  BY DEF LeaseInv, GrantIsRecorded, MutualExclusion
<1> QED
  BY <1>1, LeaseInvariant, PTL

\* The fencing token of a holder is the newest, also after release() erased the
\* record tokens are counted in.
THEOREM LeaseStoreFencingTokenIsNewest == Spec => []FencingTokenIsNewest
<1>1. ASSUME LeaseInv, NEW h \in Holder, Holding(h)
      PROVE  /\ grant[h].token = issued
             /\ \A g \in Holder \ {h} : grant[g] # NoGrant => grant[g].token < grant[h].token
  <2>1. Leased /\ Recorded = Document(Lease) /\ Recorded.holder = h
        /\ Recorded.fencing_token = grant[h].token
    <3>1. Leased /\ Document(Lease) = [holder |-> h, expires_at |-> grant[h].expires,
                                       fencing_token |-> grant[h].token]
      BY <1>1 DEF LeaseInv, GrantIsRecorded, Leased
    <3>2. Recorded = Document(Lease)
      BY <3>1, DocumentIsRecord DEF Leased, Recorded, StoreKey
    <3> QED
      BY <3>1, <3>2
  <2> QED
    BY <1>1, <2>1 DEF LeaseInv, RecordInv
<1>2. LeaseInv => FencingTokenIsNewest
  BY <1>1 DEF FencingTokenIsNewest
<1> QED
  BY <1>2, LeaseInvariant, PTL

================================================================================
