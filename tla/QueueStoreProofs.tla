---------------------------- MODULE QueueStoreProofs ----------------------------
(***************************************************************************)
(* Proofs about the queue store, for every set of workers, producers,      *)
(* messages and requests.                                                  *)
(***************************************************************************)
EXTENDS QueueStore, TLAPS

\* A message id is submitted under one key, or always without one.
OneKeyPerMessage == \A r, s \in Request : r[1] = s[1] => r = s

\* No enqueue overwrites a message: an id is enqueued once, or repeated under the
\* idempotency key it was first submitted with.
NeverOverwritten ==
    \/ MaxEnqueues <= 1
    \/ OneKeyPerMessage /\ \A r \in Request : r[2] # NoKey

\* The version of k that t has read is still the current one.
Current(t, k) == t.reads[k] = versions[k]

IsClaim(d, c, expires) ==
    d.status = "Claimed" /\ d.claimed_by = c /\ d.claim_expires_at = expires

--------------------------------------------------------------------------------
\* What a call of c that stages a put of m by t, and leaves c with the claims w,
\* found when it began, and still finds as long as the message is current.

\* enqueueTx: the key of the request, if any, was unknown, and names m.
Submitted(c, t, w, m) ==
    /\ c \in Producer
    /\ w = NoWork
    /\ t.puts[MessageKey(m)] = Fresh
    /\ \E r \in Request :
          /\ r[1] = m
          /\ r[2] # NoKey => /\ t.puts[IdempotencyKey(r[2])] = [message_id |-> m]
                             /\ t.reads[IdempotencyKey(r[2])] = 0

\* acknowledgeTx, failTx: c is the claimant of a message that is not final.
Finished(c, t, w, m) ==
    /\ w[m] = NoTime
    /\ t.puts[MessageKey(m)].status = "Acked" => t.puts[MessageKey(m)].claimed_by = c
    /\ Current(t, MessageKey(m)) =>
          Exists(m) /\ Msg(m).claimed_by = c /\ Msg(m).status # "Acked"

\* claimTx: nobody has an unexpired claim.
Taken(c, t, w, m) ==
    /\ w[m] # NoTime
    /\ IsClaim(t.puts[MessageKey(m)], c, w[m])
    /\ Current(t, MessageKey(m)) => Claimable(m)

\* An open call of c.
CallInv(c, t, w) ==
    /\ t.erases = {}
    /\ \A k \in StoreKey :
          t.reads[k] <= versions[k] /\ (Putting(t, k) => t.reads[k] # Unread)
    /\ \A m \in Message : Putting(t, MessageKey(m)) =>
          /\ t.puts[MessageKey(m)] \in MessageRecord
          /\ Submitted(c, t, w, m) \/ Finished(c, t, w, m) \/ Taken(c, t, w, m)
    /\ \A m \in Message : w[m] # NoTime =>
          \/ w[m] = work[c][m] /\ ~Putting(t, MessageKey(m))
          \/ Putting(t, MessageKey(m)) /\ Taken(c, t, w, m)
    /\ \A i \in Idempotency : Putting(t, IdempotencyKey(i)) =>
          /\ t.reads[IdempotencyKey(i)] = 0
          /\ \E m \in Message : /\ <<m, i>> \in Request
                                /\ t.puts[IdempotencyKey(i)] = [message_id |-> m]
                                /\ Putting(t, MessageKey(m))

\* The records: a stored key names a stored message that was submitted under it.
RecordInv ==
    /\ \A k \in StoreKey : Live(records, k) =>
          records[k].version = versions[k] /\ versions[k] # 0
    /\ \A m \in Message : Exists(m) => Msg(m) \in MessageRecord
    /\ \A i \in Idempotency : Live(records, IdempotencyKey(i)) =>
          \E m \in Message : /\ records[IdempotencyKey(i)].document = [message_id |-> m]
                             /\ <<m, i>> \in Request /\ Exists(m)

\* Whoever acknowledged a message has no claim of it left.
AckedInv ==
    \A m \in Message : Exists(m) /\ Msg(m).status = "Acked" =>
        \A w \in Worker : Msg(m).claimed_by = w => work[w][m] = NoTime

\* A stored message that was submitted under a key is the one the key names.
KeyInv ==
    \A r \in Request : Exists(r[1]) /\ r[2] # NoKey =>
        /\ Live(records, IdempotencyKey(r[2]))
        /\ records[IdempotencyKey(r[2])].document.message_id = r[1]

\* The unexpired claim a worker was handed is the one recorded.
WorkInv ==
    \A w \in Worker, m \in Message : Working(w, m) =>
        Exists(m) /\ IsClaim(Msg(m), w, work[w][m])

\* The inductive invariant.
QueueInv ==
    /\ TypeOK
    /\ RecordInv
    /\ AckedInv
    /\ \A c \in Client : txs[c].open => CallInv(c, txs[c], pending[c])
    /\ OneKeyPerMessage => KeyInv
    /\ NeverOverwritten => WorkInv

--------------------------------------------------------------------------------
\* The keys and the transactions of the calls.

\* The keys of the two collections are distinct, and name their parts.
LEMMA KeysDistinct ==
    /\ \A m \in Message : MessageKey(m) \in StoreKey /\ MessageKey(m)[2] = m
    /\ \A i \in Idempotency : IdempotencyKey(i) \in StoreKey
    /\ \A m, n \in Message : MessageKey(m) = MessageKey(n) => m = n
    /\ \A i, j \in Idempotency : IdempotencyKey(i) = IdempotencyKey(j) => i = j
    /\ \A m \in Message, i \in Idempotency : MessageKey(m) # IdempotencyKey(i)
    /\ \A k \in StoreKey : \/ \E m \in Message : k = MessageKey(m)
                           \/ \E i \in Idempotency : k = IdempotencyKey(i)
<1>1. \A m, n \in Message : MessageKey(m) = MessageKey(n) => m = n
  <2>1. \A m \in Message : MessageKey(m)[2] = m
    BY DEF MessageKey
  <2> QED
    BY <2>1
<1>2. \A i, j \in Idempotency : IdempotencyKey(i) = IdempotencyKey(j) => i = j
  <2>1. \A i \in Idempotency : IdempotencyKey(i)[2] = i
    BY DEF IdempotencyKey
  <2> QED
    BY <2>1
<1>3. \A m \in Message, i \in Idempotency : MessageKey(m) # IdempotencyKey(i)
  <2>1. \A m \in Message, i \in Idempotency :
           MessageKey(m)[1] = "message" /\ IdempotencyKey(i)[1] = "idempotency"
    BY DEF MessageKey, IdempotencyKey
  <2> QED
    BY <2>1
<1> QED
  BY <1>1, <1>2, <1>3 DEF MessageKey, IdempotencyKey, StoreKey

NoPuts == [k \in StoreKey |-> Absent]

\* t has read ks from the records as they are, and staged the puts.
IsTx(t, ks, puts) ==
    /\ t \in Transaction /\ t.open
    /\ \A k \in StoreKey : t.reads[k] = IF k \in ks THEN ReadVersion(records, k) ELSE Unread
    /\ t.puts = puts /\ t.erases = {}

\* begin(): nothing is read or staged.
LEMMA BegunTx == IsTx(Begun, {}, NoPuts)
BY DEF Begun, Closed, Transaction, IsTx, NoPuts, Unread

\* What records[k] lets a transaction read is the version of k, and 0 without.
LEMMA ReadVersionIs ==
    ASSUME TypeOK, RecordInv, NEW k \in StoreKey
    PROVE  /\ ReadVersion(records, k) \in Nat /\ ReadVersion(records, k) # Unread
           /\ ReadVersion(records, k) <= versions[k]
           /\ Live(records, k) => ReadVersion(records, k) = versions[k]
           /\ ~Live(records, k) => ReadVersion(records, k) = 0
<1>1. versions[k] \in Nat /\ (Live(records, k) => records[k].version = versions[k])
  BY DEF TypeOK, RecordInv
<1> QED
  BY <1>1 DEF ReadVersion, Unread

\* A scan of records reads their versions.
LEMMA RecordReadTx ==
    ASSUME TypeOK, NEW ks, NEW js, NEW t, NEW puts, IsTx(t, ks, puts)
    PROVE  IsTx(RecordRead(records, t, js), ks \cup js, puts)
<1>1. \A j \in StoreKey : ReadVersion(records, j) \in Nat
  BY DEF TypeOK, ReadVersion, Live, Record
<1>2. /\ RecordRead(records, t, js) \in Transaction
      /\ RecordRead(records, t, js).open = t.open
      /\ RecordRead(records, t, js).puts = t.puts
      /\ RecordRead(records, t, js).erases = t.erases
      /\ \A j \in StoreKey : RecordRead(records, t, js).reads[j] =
           IF j \in js /\ t.reads[j] = Unread THEN ReadVersion(records, j) ELSE t.reads[j]
  BY <1>1 DEF RecordRead, Transaction, Unread, IsTx
<1> QED
  BY <1>2 DEF IsTx

\* get() of a key that is not staged reads one key more.
LEMMA GetTx ==
    ASSUME TypeOK, NEW ks, NEW k \in StoreKey, NEW t, NEW puts, IsTx(t, ks, puts),
           puts[k] = Absent
    PROVE  IsTx(Get(records, t, k), ks \cup {k}, puts)
<1>1. ~Staged(t, k)
  BY DEF Staged, Putting, IsTx
<1>2. Get(records, t, k) = RecordRead(records, t, {k})
  BY <1>1 DEF Get
<1> QED
  BY <1>2, RecordReadTx

\* put() is a get() and a staged document.
LEMMA PutTx ==
    ASSUME TypeOK, NEW ks, NEW k \in StoreKey, NEW t, NEW puts, IsTx(t, ks, puts),
           puts[k] = Absent, NEW d \in StoreDoc
    PROVE  IsTx(Put(records, t, k, d), ks \cup {k}, [puts EXCEPT ![k] = d])
<1> DEFINE g == Get(records, t, k)
<1>1. IsTx(g, ks \cup {k}, puts)
  BY GetTx
<1>2. Put(records, t, k, d) = [g EXCEPT !.puts = [g.puts EXCEPT ![k] = d],
                                        !.erases = g.erases \ {k}]
  BY DEF Put
<1> HIDE DEF g
<1>3. g \in Transaction /\ g.erases \ {k} = {} /\ g.puts = puts
  BY <1>1 DEF IsTx
<1>4. [g EXCEPT !.puts = [g.puts EXCEPT ![k] = d], !.erases = g.erases \ {k}] \in Transaction
  BY <1>3 DEF Transaction
<1> QED
  BY <1>1, <1>2, <1>3, <1>4 DEF IsTx, Transaction

\* A call that reads what it puts from the records reads no version ahead of
\* theirs, and finds a record unchanged as long as its version is current.
LEMMA CallReads ==
    ASSUME TypeOK, RecordInv, NEW ks, NEW puts, NEW t, IsTx(t, ks, puts),
           \A k \in StoreKey : puts[k] # Absent => k \in ks
    PROVE  /\ t \in Transaction /\ t.erases = {}
           /\ \A k \in StoreKey : t.reads[k] <= versions[k]
           /\ \A k \in StoreKey : Putting(t, k) => t.reads[k] # Unread
<1>1. \A k \in StoreKey : t.reads[k] \in {Unread, ReadVersion(records, k)}
  BY DEF IsTx
<1>2. \A k \in StoreKey : t.reads[k] <= versions[k]
  <2> TAKE k \in StoreKey
  <2>1. versions[k] \in Nat
    BY DEF TypeOK
  <2> QED
    BY <1>1, <2>1, ReadVersionIs DEF Unread
<1>3. \A k \in StoreKey : Putting(t, k) => t.reads[k] # Unread
  BY ReadVersionIs DEF IsTx, Putting
<1> QED
  BY <1>2, <1>3 DEF IsTx

--------------------------------------------------------------------------------
\* The calls.

\* A call that has begun disturbs nothing but its own transaction.
LEMMA CallKeeps ==
    ASSUME QueueInv, NEW c \in Client, NEW t \in Transaction, NEW w \in Work,
           Call(c, t, w), CallInv(c, t, w)
    PROVE  QueueInv'
<1> USE DEF QueueInv
<1>1. /\ txs' = [txs EXCEPT ![c] = t] /\ pending' = [pending EXCEPT ![c] = w]
      /\ UNCHANGED <<records, versions, work, now>>
  BY DEF Call
<1>2. TypeOK'
  BY <1>1 DEF TypeOK
<1>3. RecordInv' /\ AckedInv'
  BY <1>1 DEF RecordInv, AckedInv, Exists, Msg
<1>4. (KeyInv => KeyInv') /\ (WorkInv => WorkInv')
  BY <1>1 DEF KeyInv, WorkInv, Working, Exists, Msg
<1>5. ASSUME NEW d \in Client, NEW u, NEW x, CallInv(d, u, x)
      PROVE  CallInv(d, u, x)'
  BY <1>1, <1>5 DEF CallInv, Submitted, Finished, Taken, Current, Claimable, Exists, Msg
<1>6. ASSUME NEW d \in Client, txs'[d].open
      PROVE  CallInv(d, txs[d], pending[d])'
  <2>1. CASE d = c
    <3>1. txs'[d] = t /\ pending'[d] = w
      BY <1>1, <2>1 DEF TypeOK
    <3>2. CallInv(d, t, w)'
      BY <1>5, <2>1
    <3> QED
      BY <3>1, <3>2 DEF CallInv, Submitted, Finished, Taken, Current
  <2>2. CASE d # c
    <3>1. txs'[d] = txs[d] /\ pending'[d] = pending[d]
      BY <1>1, <2>2 DEF TypeOK
    <3>2. CallInv(d, txs[d], pending[d])
      BY <1>6, <3>1
    <3> QED
      BY <1>1, <3>1, <3>2 DEF CallInv, Submitted, Finished, Taken, Current, Claimable, Exists, Msg
  <2> QED
    BY <2>1, <2>2
<1> QED
  BY <1>2, <1>3, <1>4, <1>6 DEF OneKeyPerMessage, NeverOverwritten

\* enqueueTx puts the message with its key, or only reads both.
LEMMA EnqueueKeeps ==
    ASSUME QueueInv, NEW p \in Producer, Enqueue(p)
    PROVE  QueueInv'
<1>1. TypeOK /\ RecordInv /\ p \in Client
  BY DEF QueueInv, Client
<1>2. Fresh \in MessageRecord /\ Fresh \in StoreDoc /\ NoWork \in Work
  BY DEF Fresh, MessageRecord, StoreDoc, Status, Work, NoWork
<1>3. PICK r \in Request :
        \/ /\ r[2] = NoKey
           /\ Call(p, Put(records, Begun, MessageKey(r[1]), Fresh), NoWork)
        \/ /\ r[2] # NoKey
           /\ ~Live(records, IdempotencyKey(r[2]))
           /\ Call(p, Put(records, Put(records, Begun, IdempotencyKey(r[2]), [message_id |-> r[1]]),
                          MessageKey(r[1]), Fresh), NoWork)
        \/ /\ r[2] # NoKey
           /\ Live(records, IdempotencyKey(r[2]))
           /\ Call(p, Get(records, Get(records, Begun, IdempotencyKey(r[2])),
                          MessageKey(records[IdempotencyKey(r[2])].document.message_id)), NoWork)
  BY DEF Enqueue
<1> DEFINE m == r[1]
           i == IdempotencyKey(r[2])
           mk == MessageKey(m)
<1>4. m \in Message /\ mk \in StoreKey /\ r = <<m, r[2]>>
      /\ (r[2] # NoKey => r[2] \in Idempotency /\ i \in StoreKey /\ i # mk)
  <2>1. r \in Message \X (Idempotency \cup {NoKey})
    BY QueueAssumption
  <2> QED
    BY <2>1, KeysDistinct
<1>5. Fresh # Absent /\ \A n \in Message : NoWork[n] = NoTime
  BY <1>2, MarkerAssumption DEF NoWork
<1>6. CASE r[2] = NoKey
  <2> DEFINE t == Put(records, Begun, mk, Fresh)
  <2>1. IsTx(t, {mk}, [NoPuts EXCEPT ![mk] = Fresh])
    <3>1. IsTx(t, {} \cup {mk}, [NoPuts EXCEPT ![mk] = Fresh])
      BY <1>1, <1>2, <1>4, BegunTx, PutTx DEF NoPuts
    <3> QED
      BY <3>1
  <2>2. Call(p, t, NoWork)
    BY <1>3, <1>6
  <2> HIDE DEF t
  <2>3. \A k \in StoreKey : t.puts[k] = IF k = mk THEN Fresh ELSE Absent
    BY <2>1, <1>4 DEF IsTx, NoPuts
  <2>4. /\ t \in Transaction /\ t.erases = {}
        /\ \A k \in StoreKey :
              t.reads[k] <= versions[k] /\ (Putting(t, k) => t.reads[k] # Unread)
    BY <1>1, <2>1, CallReads DEF NoPuts
  <2>5. \A n \in Message : Putting(t, MessageKey(n)) => n = m
    BY <1>4, <2>3, KeysDistinct DEF Putting
  <2>6. \A j \in Idempotency : ~Putting(t, IdempotencyKey(j))
    BY <1>4, <2>3, KeysDistinct DEF Putting
  <2>7. Submitted(p, t, NoWork, m)
    BY <1>4, <1>6, <2>3 DEF Submitted
  <2>8. CallInv(p, t, NoWork)
    BY <1>2, <1>4, <1>5, <2>3, <2>4, <2>5, <2>6, <2>7 DEF CallInv
  <2> QED
    BY <1>1, <1>2, <2>2, <2>4, <2>8, CallKeeps
<1>7. CASE r[2] # NoKey /\ ~Live(records, i)
  <2> DEFINE d == [message_id |-> m]
             u == Put(records, Begun, i, d)
             t == Put(records, u, mk, Fresh)
  <2>1. d \in StoreDoc /\ d # Absent
    BY <1>4, MarkerAssumption DEF StoreDoc, IdempotencyRecord
  <2>2. IsTx(u, {} \cup {i}, [NoPuts EXCEPT ![i] = d])
    BY <1>1, <1>4, <1>7, <2>1, BegunTx, PutTx DEF NoPuts
  <2>3. IsTx(t, ({} \cup {i}) \cup {mk}, [[NoPuts EXCEPT ![i] = d] EXCEPT ![mk] = Fresh])
    <3> HIDE DEF u
    <3>1. [NoPuts EXCEPT ![i] = d][mk] = Absent
      BY <1>4, <1>7 DEF NoPuts
    <3> QED
      BY <1>1, <1>2, <1>4, <2>2, <3>1, PutTx
  <2>4. Call(p, t, NoWork)
    BY <1>3, <1>7
  <2> HIDE DEF t, d
  <2>5. \A k \in StoreKey : t.puts[k] = IF k = mk THEN Fresh ELSE IF k = i THEN d ELSE Absent
    BY <2>3, <1>4, <1>7 DEF IsTx, NoPuts
  <2>6. /\ t \in Transaction /\ t.erases = {}
        /\ \A k \in StoreKey :
              t.reads[k] <= versions[k] /\ (Putting(t, k) => t.reads[k] # Unread)
    <3>1. \A k \in StoreKey :
             [[NoPuts EXCEPT ![i] = d] EXCEPT ![mk] = Fresh][k] # Absent => k \in ({} \cup {i}) \cup {mk}
      BY DEF NoPuts
    <3> QED
      BY <1>1, <2>3, <3>1, CallReads
  <2>7. \A n \in Message : Putting(t, MessageKey(n)) => n = m
    BY <1>4, <1>7, <2>5, KeysDistinct DEF Putting
  <2>8. t.reads[i] = 0
    BY <1>1, <1>4, <1>7, <2>3, ReadVersionIs DEF IsTx
  <2>9. Putting(t, mk) /\ t.puts[i] = d /\ t.puts[mk] = Fresh
    BY <1>4, <1>5, <1>7, <2>5 DEF Putting
  <2>10. \A j \in Idempotency : Putting(t, IdempotencyKey(j)) => j = r[2]
    BY <1>4, <1>7, <2>5, KeysDistinct DEF Putting
  <2>11. Submitted(p, t, NoWork, m)
    BY <2>8, <2>9 DEF Submitted, d
  <2>12. \A j \in Idempotency : Putting(t, IdempotencyKey(j)) =>
          /\ t.reads[IdempotencyKey(j)] = 0
          /\ \E n \in Message : /\ <<n, j>> \in Request
                                /\ t.puts[IdempotencyKey(j)] = [message_id |-> n]
                                /\ Putting(t, MessageKey(n))
    BY <1>4, <2>8, <2>9, <2>10 DEF d
  <2>13. CallInv(p, t, NoWork)
    BY <1>2, <1>5, <2>6, <2>7, <2>9, <2>11, <2>12 DEF CallInv
  <2> QED
    BY <1>1, <1>2, <2>4, <2>6, <2>13, CallKeeps
<1>8. CASE r[2] # NoKey /\ Live(records, i)
  <2> DEFINE n == records[i].document.message_id
             t == Get(records, Get(records, Begun, i), MessageKey(n))
  <2>1. n \in Message /\ MessageKey(n) \in StoreKey
    <3>1. PICK o \in Message : records[i].document = [message_id |-> o]
      BY <1>1, <1>4, <1>8 DEF RecordInv
    <3>2. n = o
      BY <3>1
    <3> QED
      BY <3>2, KeysDistinct
  <2>2. IsTx(Get(records, Begun, i), {} \cup {i}, NoPuts)
    BY <1>1, <1>4, <1>8, BegunTx, GetTx DEF NoPuts
  <2>3. IsTx(t, ({} \cup {i}) \cup {MessageKey(n)}, NoPuts)
    <3> HIDE DEF n
    <3> QED
      BY <1>1, <2>1, <2>2, GetTx DEF NoPuts
  <2>4. Call(p, t, NoWork)
    BY <1>3, <1>8
  <2> HIDE DEF t, n
  <2>5. \A k \in StoreKey : ~Putting(t, k)
    BY <2>3 DEF IsTx, NoPuts, Putting
  <2>6. t \in Transaction /\ t.erases = {} /\ \A k \in StoreKey : t.reads[k] <= versions[k]
    BY <1>1, <2>3, CallReads DEF NoPuts
  <2>7. CallInv(p, t, NoWork)
    BY <1>5, <2>5, <2>6, KeysDistinct DEF CallInv
  <2> QED
    BY <1>1, <1>2, <2>4, <2>6, <2>7, CallKeeps
<1> QED
  BY <1>3, <1>6, <1>7, <1>8

\* claimTx puts only messages nobody has an unexpired claim of.
LEMMA ClaimKeeps ==
    ASSUME QueueInv, NEW w \in Worker, Claim(w)
    PROVE  QueueInv'
<1> DEFINE ks == {MessageKey(m) : m \in {n \in Message : Exists(n)}}
           scanned == RecordRead(records, Begun, ks)
           claimed == [k \in StoreKey |-> IF \E m \in ClaimSet : k = MessageKey(m)
                                          THEN ClaimOf(w, k[2]) ELSE Absent]
           t == [scanned EXCEPT !.puts = claimed]
           x == [m \in Message |-> IF m \in ClaimSet THEN now + Timeout ELSE NoTime]
<1>1. TypeOK /\ RecordInv /\ w \in Client /\ now \in Nat
  BY DEF QueueInv, Client, TypeOK
<1>2. Call(w, t, x)
  BY DEF Claim
<1>3. IsTx(scanned, {} \cup ks, NoPuts)
  BY <1>1, BegunTx, RecordReadTx
<1>4. \A m \in ClaimSet : m \in Message /\ Claimable(m) /\ Exists(m)
  BY DEF ClaimSet, Claimable
<1>5. x \in Work /\ \A m \in Message : x[m] # NoTime => m \in ClaimSet
  BY <1>1, QueueAssumption DEF Work
<1>6. \A m \in ClaimSet : ClaimOf(w, m) \in MessageRecord /\ IsClaim(ClaimOf(w, m), w, x[m])
                          /\ x[m] # NoTime
  <2> TAKE m \in ClaimSet
  <2>1. m \in Message /\ Msg(m) \in MessageRecord
    BY <1>1, <1>4 DEF RecordInv
  <2>2. now + Timeout \in Nat
    BY <1>1, QueueAssumption
  <2>3. Msg(m).attempts + 1 \in Nat
    BY <2>1 DEF MessageRecord
  <2>4. x[m] = now + Timeout
    BY <2>1
  <2>5. ClaimOf(w, m) \in MessageRecord
    BY <2>2, <2>3 DEF ClaimOf, MessageRecord, Status
  <2> QED
    BY <2>2, <2>4, <2>5 DEF ClaimOf, IsClaim, NoTime
<1>7. \A m \in ClaimSet : claimed[MessageKey(m)] = ClaimOf(w, m)
  BY <1>4, KeysDistinct
<1>8. \A k \in StoreKey : claimed[k] # Absent => \E m \in ClaimSet : k = MessageKey(m)
  OBVIOUS
<1>9. claimed \in [StoreKey -> StoreDoc \cup {Absent}]
  <2>1. \A k \in StoreKey : claimed[k] \in StoreDoc \cup {Absent}
    <3> TAKE k \in StoreKey
    <3>1. CASE claimed[k] = Absent
      BY <3>1
    <3>2. CASE claimed[k] # Absent
      <4>1. PICK m \in ClaimSet : k = MessageKey(m)
        BY <1>8, <3>2
      <4>2. claimed[k] = ClaimOf(w, m)
        BY <1>7, <4>1
      <4>3. claimed[k] \in MessageRecord
        BY <1>6, <4>2
      <4> QED
        BY <4>3 DEF StoreDoc
    <3> QED
      BY <3>1, <3>2
  <2> QED
    BY <2>1
<1> HIDE DEF claimed, scanned, x
<1>10. IsTx(t, ks, claimed)
  BY <1>3, <1>9 DEF IsTx, Transaction
<1> HIDE DEF t
<1>11. \A k \in StoreKey : claimed[k] # Absent => k \in ks
  BY <1>4, <1>8
<1>12. /\ t \in Transaction /\ t.erases = {} /\ t.puts = claimed
       /\ \A k \in StoreKey :
             t.reads[k] <= versions[k] /\ (Putting(t, k) => t.reads[k] # Unread)
  <2> HIDE DEF ks
  <2> QED
    BY <1>1, <1>10, <1>11, CallReads DEF IsTx
<1>13. \A m \in Message : Putting(t, MessageKey(m)) => m \in ClaimSet
  BY <1>4, <1>8, <1>12, KeysDistinct DEF Putting
<1>14. \A m \in ClaimSet : Putting(t, MessageKey(m)) /\ t.puts[MessageKey(m)] = ClaimOf(w, m)
  BY <1>6, <1>7, <1>12, MarkerAssumption DEF Putting, StoreDoc
<1>15. \A m \in ClaimSet : Taken(w, t, x, m)
  BY <1>4, <1>6, <1>14 DEF Taken
<1>16. \A i \in Idempotency : ~Putting(t, IdempotencyKey(i))
  BY <1>4, <1>8, <1>12, KeysDistinct DEF Putting
<1>17. CallInv(w, t, x)
  BY <1>5, <1>6, <1>12, <1>13, <1>14, <1>15, <1>16 DEF CallInv
<1> QED
  BY <1>1, <1>2, <1>5, <1>12, <1>17, CallKeeps

\* acknowledgeTx and failTx put a message whose claimant w is.
LEMMA UpdateKeeps ==
    ASSUME QueueInv, NEW w \in Worker, NEW m \in Message, NEW d \in MessageRecord,
           Update(w, m, d), d.status = "Acked" => d.claimed_by = w
    PROVE  QueueInv'
<1> DEFINE mk == MessageKey(m)
           t == Put(records, Begun, mk, d)
           x == [work[w] EXCEPT ![m] = NoTime]
<1>1. TypeOK /\ RecordInv /\ AckedInv /\ w \in Client /\ mk \in StoreKey
  BY KeysDistinct DEF QueueInv, Client
<1>2. /\ Exists(m) /\ Msg(m).claimed_by = w /\ work[w][m] # NoTime /\ Call(w, t, x)
  BY DEF Update, RequireClaimant
<1>3. Msg(m).status # "Acked"
  BY <1>1, <1>2 DEF AckedInv
<1>4. x \in Work /\ x[m] = NoTime /\ \A n \in Message \ {m} : x[n] = work[w][n]
  BY <1>1 DEF TypeOK, Work
<1>5. d \in StoreDoc /\ d # Absent
  BY MarkerAssumption DEF StoreDoc
<1>6. IsTx(t, {} \cup {mk}, [NoPuts EXCEPT ![mk] = d])
  BY <1>1, <1>5, BegunTx, PutTx DEF NoPuts
<1> HIDE DEF t, x
<1>7. \A k \in StoreKey : t.puts[k] = IF k = mk THEN d ELSE Absent
  BY <1>1, <1>6 DEF IsTx, NoPuts
<1>8. /\ t \in Transaction /\ t.erases = {}
      /\ \A k \in StoreKey :
            t.reads[k] <= versions[k] /\ (Putting(t, k) => t.reads[k] # Unread)
  BY <1>1, <1>6, CallReads DEF NoPuts
<1>9. \A n \in Message : Putting(t, MessageKey(n)) => n = m
  BY <1>7, KeysDistinct DEF Putting
<1>10. \A i \in Idempotency : ~Putting(t, IdempotencyKey(i))
  BY <1>7, KeysDistinct DEF Putting
<1>11. Finished(w, t, x, m)
  BY <1>1, <1>2, <1>3, <1>4, <1>7 DEF Finished
<1>12. CallInv(w, t, x)
  BY <1>1, <1>4, <1>7, <1>8, <1>9, <1>10, <1>11 DEF CallInv
<1> QED
  BY <1>1, <1>2, <1>4, <1>8, <1>12, CallKeeps

\* acknowledgeTx leaves the claimant in the message; failTx does not acknowledge.
LEMMA FinishKeeps ==
    ASSUME QueueInv, NEW w \in Worker, NEW m \in Message, Acknowledge(w, m) \/ Fail(w, m)
    PROVE  QueueInv'
<1>1. Exists(m) /\ Msg(m).claimed_by = w /\ Msg(m) \in MessageRecord
  BY DEF Acknowledge, Fail, Update, RequireClaimant, QueueInv, RecordInv
<1>2. CASE Acknowledge(w, m)
  <2> DEFINE d == [Msg(m) EXCEPT !.status = "Acked"]
  <2>1. d \in MessageRecord /\ d.claimed_by = w
    BY <1>1 DEF MessageRecord, Status
  <2>2. Update(w, m, d)
    BY <1>2 DEF Acknowledge
  <2> QED
    BY <2>1, <2>2, UpdateKeeps
<1>3. CASE Fail(w, m)
  <2> DEFINE s == IF Msg(m).attempts >= MaxAttempts THEN "DeadLettered" ELSE "Pending"
             d == [Msg(m) EXCEPT !.claimed_by = Nobody, !.claim_expires_at = NoTime,
                                 !.status = s]
  <2>1. s \in {"DeadLettered", "Pending"}
    OBVIOUS
  <2>2. Update(w, m, d)
    BY <1>3 DEF Fail
  <2> HIDE DEF s
  <2>3. d \in MessageRecord /\ d.status # "Acked"
    BY <1>1, <2>1 DEF MessageRecord, Status
  <2> QED
    BY <2>2, <2>3, UpdateKeeps
<1> QED
  BY <1>2, <1>3

--------------------------------------------------------------------------------
\* The ends of the calls.

\* What a call found stays true, or is no longer current, whatever others commit
\* and however far the clock goes.
LEMMA OpenCallKeeps ==
    ASSUME TypeOK, RecordInv, NEW c \in Client, CallInv(c, txs[c], pending[c]),
           txs'[c] = txs[c], pending'[c] = pending[c], work'[c] = work[c],
           now' = now \/ now' = now + 1,
           \A k \in StoreKey : \/ records'[k] = records[k] /\ versions'[k] = versions[k]
                               \/ versions'[k] = versions[k] + 1
    PROVE  CallInv(c, txs[c], pending[c])'
<1> DEFINE t == txs[c]
           w == pending[c]
<1>1. t \in Transaction /\ now \in Nat
  BY DEF TypeOK
<1>2. ASSUME NEW k \in StoreKey
      PROVE  /\ t.reads[k] <= versions'[k]
             /\ Current(t, k)' => Current(t, k) /\ records'[k] = records[k]
  <2>1. versions[k] \in Nat /\ t.reads[k] \in Nat \cup {Unread} /\ t.reads[k] <= versions[k]
    BY <1>1, <1>2 DEF TypeOK, Transaction, CallInv
  <2>2. CASE versions'[k] = versions[k] + 1
    BY <2>1, <2>2 DEF Current, Unread
  <2>3. CASE records'[k] = records[k] /\ versions'[k] = versions[k]
    BY <2>1, <2>3 DEF Current
  <2> QED
    BY <1>2, <2>2, <2>3
<1>3. ASSUME NEW m \in Message, Current(t, MessageKey(m))'
      PROVE  /\ Current(t, MessageKey(m))
             /\ Exists(m)' = Exists(m) /\ Msg(m)' = Msg(m)
  BY <1>2, <1>3, KeysDistinct DEF Exists, Msg, Live
<1>4. ASSUME NEW m \in Message, Current(t, MessageKey(m))', Claimable(m)
      PROVE  Claimable(m)'
  <2>1. Exists(m) /\ Msg(m) \in MessageRecord
    BY <1>4 DEF Claimable, RecordInv
  <2>2. Msg(m).claim_expires_at # NoTime /\ Msg(m).claim_expires_at <= now
           => Msg(m).claim_expires_at <= now'
    BY <1>1, <2>1 DEF MessageRecord, NoTime
  <2> QED
    BY <1>3, <1>4, <2>2 DEF Claimable
<1>5. ASSUME NEW m \in Message, Taken(c, t, w, m)
      PROVE  Taken(c, t, w, m)'
  BY <1>3, <1>4, <1>5 DEF Taken
<1>6. ASSUME NEW m \in Message, Finished(c, t, w, m)
      PROVE  Finished(c, t, w, m)'
  BY <1>3, <1>6 DEF Finished
<1>7. ASSUME NEW m \in Message, Submitted(c, t, w, m)
      PROVE  Submitted(c, t, w, m)'
  BY <1>7 DEF Submitted
<1> QED
  BY <1>2, <1>5, <1>6, <1>7 DEF CallInv, Putting

\* What a commit does to a record, and that it put the newest version of it.
LEMMA Committed ==
    ASSUME TypeOK, RecordInv, NEW c \in Client, Commit(c), CallInv(c, txs[c], pending[c])
    PROVE  /\ \A k \in StoreKey : Putting(txs[c], k) =>
                 /\ records'[k] = [version |-> versions[k] + 1, document |-> txs[c].puts[k]]
                 /\ versions'[k] = versions[k] + 1
                 /\ Live(records, k)' /\ Current(txs[c], k)
                 /\ txs[c].puts[k] \in StoreDoc
           /\ \A k \in StoreKey : ~Putting(txs[c], k) =>
                 records'[k] = records[k] /\ versions'[k] = versions[k]
           /\ \A k \in StoreKey : versions[k] \in Nat /\ (txs[c].reads[k] = 0 =>
                 ~Live(records, k) \/ ~Current(txs[c], k))
<1> DEFINE t == txs[c]
<1>1. t \in Transaction /\ t.erases = {}
  BY DEF TypeOK, CallInv
<1>2. records' = CommitRecords(records, versions, t) /\ versions' = CommitVersions(versions, t)
      /\ Validates(versions, t)
  BY DEF Commit
<1>3. ASSUME NEW k \in StoreKey, Putting(t, k)
      PROVE  /\ records'[k] = [version |-> versions[k] + 1, document |-> t.puts[k]]
             /\ versions'[k] = versions[k] + 1
             /\ Live(records, k)' /\ Current(t, k)
             /\ t.puts[k] \in StoreDoc
  <2>1. t.puts[k] \in StoreDoc /\ versions[k] + 1 \in Nat
    BY <1>1, <1>3 DEF Transaction, Putting, TypeOK
  <2>2. /\ records'[k] = [version |-> versions[k] + 1, document |-> t.puts[k]]
        /\ versions'[k] = versions[k] + 1
    BY <1>1, <1>2, <1>3 DEF CommitRecords, CommitVersions, Staged
  <2>3. records'[k] \in Record
    BY <2>1, <2>2 DEF Record
  <2>4. Live(records, k)'
    BY <2>3, MarkerAssumption DEF Live
  <2>5. Current(t, k)
    BY <1>2, <1>3 DEF CallInv, Validates, Current
  <2> QED
    BY <2>1, <2>2, <2>4, <2>5
<1>4. ASSUME NEW k \in StoreKey, ~Putting(t, k)
      PROVE  records'[k] = records[k] /\ versions'[k] = versions[k]
  BY <1>1, <1>2, <1>4 DEF CommitRecords, CommitVersions, Staged
<1>5. \A k \in StoreKey : versions[k] \in Nat /\ (t.reads[k] = 0 =>
                 ~Live(records, k) \/ ~Current(t, k))
  BY DEF TypeOK, RecordInv, Current
<1> QED
  BY <1>3, <1>4, <1>5

\* A commit by c leaves what it puts, and gives c what its call was to give it.
LEMMA CommittedMessage ==
    ASSUME TypeOK, RecordInv, NEW c \in Client, Commit(c), CallInv(c, txs[c], pending[c]),
           NEW m \in Message
    PROVE  /\ Putting(txs[c], MessageKey(m)) =>
                 /\ Exists(m)' /\ Msg(m)' = txs[c].puts[MessageKey(m)]
                 /\ Msg(m)' \in MessageRecord
                 /\ \/ Submitted(c, txs[c], pending[c], m)
                    \/ Finished(c, txs[c], pending[c], m) /\ Exists(m)
                       /\ Msg(m).claimed_by = c /\ Msg(m).status # "Acked"
                    \/ Taken(c, txs[c], pending[c], m) /\ Claimable(m) /\ Exists(m)
           /\ ~Putting(txs[c], MessageKey(m)) => Exists(m)' = Exists(m) /\ Msg(m)' = Msg(m)
<1>1. MessageKey(m) \in StoreKey
  BY KeysDistinct
<1>2. CASE Putting(txs[c], MessageKey(m))
  <2>1. /\ Current(txs[c], MessageKey(m)) /\ Exists(m)'
        /\ records'[MessageKey(m)] = [version |-> versions[MessageKey(m)] + 1,
                                      document |-> txs[c].puts[MessageKey(m)]]
    BY <1>1, <1>2, Committed DEF Exists
  <2>2. Msg(m)' = txs[c].puts[MessageKey(m)]
    BY <2>1 DEF Msg
  <2> QED
    BY <1>2, <2>1, <2>2 DEF CallInv, Finished, Taken, Claimable
<1>3. CASE ~Putting(txs[c], MessageKey(m))
  BY <1>1, <1>3, Committed DEF Exists, Msg, Live
<1> QED
  BY <1>2, <1>3

\* The types survive a commit.
LEMMA CommitTypes ==
    ASSUME QueueInv, NEW c \in Client, Commit(c)
    PROVE  /\ TypeOK'
           /\ txs'[c] = Closed /\ work'[c] = pending[c]
           /\ \A d \in Client \ {c} :
                 txs'[d] = txs[d] /\ pending'[d] = pending[d] /\ work'[d] = work[d]
           /\ now' = now
<1> USE DEF QueueInv
<1> DEFINE t == txs[c]
<1>1. t \in Transaction
  BY DEF TypeOK
<1>2. /\ records' = CommitRecords(records, versions, t)
      /\ versions' = CommitVersions(versions, t)
      /\ txs' = [txs EXCEPT ![c] = Closed]
      /\ work' = [work EXCEPT ![c] = pending[c]]
      /\ pending' = [pending EXCEPT ![c] = NoWork]
      /\ now' = now
  BY DEF Commit
<1>3. records' \in [StoreKey -> Record \cup {Absent}] /\ versions' \in [StoreKey -> Nat]
  BY <1>1, <1>2 DEF TypeOK, CommitRecords, CommitVersions, Transaction, Record, Putting
<1>4. Closed \in Transaction /\ NoWork \in Work
  BY DEF Closed, Transaction, Unread, NoWork, Work
<1> QED
  BY <1>2, <1>3, <1>4 DEF TypeOK

\* A commit stores a key with the message it names.
LEMMA CommitKeepsRecords ==
    ASSUME QueueInv, NEW c \in Client, Commit(c)
    PROVE  RecordInv'
<1> USE DEF QueueInv
<1>1. CallInv(c, txs[c], pending[c])
  BY DEF Commit
<1>2. \A k \in StoreKey : Live(records, k)' => records'[k].version = versions'[k] /\ versions'[k] # 0
  <2> TAKE k \in StoreKey
  <2>1. CASE Putting(txs[c], k)
    <3>1. /\ records'[k] = [version |-> versions[k] + 1, document |-> txs[c].puts[k]]
          /\ versions'[k] = versions[k] + 1 /\ versions[k] \in Nat
      BY <1>1, <2>1, Committed
    <3> QED
      BY <3>1
  <2>2. CASE ~Putting(txs[c], k)
    BY <1>1, <2>2, Committed DEF RecordInv, Live
  <2> QED
    BY <2>1, <2>2
<1>3. \A m \in Message : Exists(m)' => Msg(m)' \in MessageRecord
  BY <1>1, CommittedMessage DEF RecordInv
<1>4. \A m \in Message : Exists(m) => Exists(m)'
  BY <1>1, CommittedMessage
<1>5. ASSUME NEW i \in Idempotency, Live(records, IdempotencyKey(i))'
      PROVE  \E m \in Message : /\ records'[IdempotencyKey(i)].document = [message_id |-> m]
                                /\ <<m, i>> \in Request /\ Exists(m)'
  <2>1. IdempotencyKey(i) \in StoreKey
    BY KeysDistinct
  <2>2. CASE Putting(txs[c], IdempotencyKey(i))
    <3>1. PICK m \in Message : /\ <<m, i>> \in Request
                               /\ txs[c].puts[IdempotencyKey(i)] = [message_id |-> m]
                               /\ Putting(txs[c], MessageKey(m))
      BY <1>1, <2>2 DEF CallInv
    <3>2. records'[IdempotencyKey(i)].document = [message_id |-> m]
      <4>1. records'[IdempotencyKey(i)] =
               [version |-> versions[IdempotencyKey(i)] + 1,
                document |-> txs[c].puts[IdempotencyKey(i)]]
        BY <1>1, <2>1, <2>2, Committed
      <4> QED
        BY <3>1, <4>1
    <3>3. Exists(m)'
      BY <1>1, <3>1, CommittedMessage
    <3> QED
      BY <3>1, <3>2, <3>3
  <2>3. CASE ~Putting(txs[c], IdempotencyKey(i))
    <3>1. records'[IdempotencyKey(i)] = records[IdempotencyKey(i)]
      BY <1>1, <2>1, <2>3, Committed
    <3> QED
      BY <1>4, <1>5, <3>1 DEF RecordInv, Live
  <2> QED
    BY <2>2, <2>3
<1> QED
  BY <1>2, <1>3, <1>5 DEF RecordInv

\* A commit that acknowledges clears the claim of the worker that did.
LEMMA CommitKeepsAcked ==
    ASSUME QueueInv, NEW c \in Client, Commit(c)
    PROVE  AckedInv'
<1> USE DEF QueueInv
<1>1. CallInv(c, txs[c], pending[c])
  BY DEF Commit
<1>2. ASSUME NEW m \in Message, Exists(m)', Msg(m)'.status = "Acked",
             NEW w \in Worker, Msg(m)'.claimed_by = w
      PROVE  work'[w][m] = NoTime
  <2>1. w \in Client /\ work'[c] = pending[c] /\ (w # c => work'[w] = work[w])
    BY CommitTypes DEF Client
  <2>2. CASE Putting(txs[c], MessageKey(m))
    <3>1. /\ Msg(m)' = txs[c].puts[MessageKey(m)]
          /\ \/ Submitted(c, txs[c], pending[c], m)
             \/ Finished(c, txs[c], pending[c], m)
             \/ Taken(c, txs[c], pending[c], m)
      BY <1>1, <2>2, CommittedMessage
    <3>2. Finished(c, txs[c], pending[c], m)
      BY <1>2, <3>1 DEF Submitted, Taken, IsClaim, Fresh
    <3>3. w = c /\ pending[c][m] = NoTime
      BY <1>2, <3>1, <3>2 DEF Finished
    <3> QED
      BY <2>1, <3>3
  <2>3. CASE ~Putting(txs[c], MessageKey(m))
    <3>1. Exists(m) /\ Msg(m)' = Msg(m)
      BY <1>1, <1>2, <2>3, CommittedMessage
    <3>2. work[w][m] = NoTime
      BY <1>2, <3>1 DEF AckedInv
    <3>3. CASE w = c
      <4>1. pending[c][m] # NoTime => pending[c][m] = work[c][m]
        BY <1>1, <2>3 DEF CallInv
      <4> QED
        BY <2>1, <3>2, <3>3, <4>1
    <3> QED
      BY <2>1, <3>2, <3>3
  <2> QED
    BY <2>2, <2>3
<1> QED
  BY <1>2 DEF AckedInv

\* Producers that race with one key: the second commit would not find it unknown.
LEMMA CommitKeepsKeys ==
    ASSUME QueueInv, NEW c \in Client, Commit(c), OneKeyPerMessage
    PROVE  KeyInv'
<1> USE DEF QueueInv
<1>1. CallInv(c, txs[c], pending[c]) /\ KeyInv
  BY DEF Commit
<1>2. ASSUME NEW r \in Request, Exists(r[1])', r[2] # NoKey
      PROVE  /\ Live(records, IdempotencyKey(r[2]))'
             /\ records'[IdempotencyKey(r[2])].document.message_id = r[1]
  <2> DEFINE m == r[1]
             i == IdempotencyKey(r[2])
             t == txs[c]
  <2>1. m \in Message /\ r[2] \in Idempotency /\ i \in StoreKey
    <3>1. r \in Message \X (Idempotency \cup {NoKey})
      BY QueueAssumption
    <3> QED
      BY <1>2, <3>1, KeysDistinct
  <2>2. CASE Exists(m)
    <3>1. Live(records, i) /\ records[i].document.message_id = m
      BY <1>1, <1>2, <2>2 DEF KeyInv
    <3>2. ~Putting(t, i)
      <4>1. SUFFICES ASSUME Putting(t, i)
                     PROVE  FALSE
        OBVIOUS
      <4>2. t.reads[i] = 0
        BY <1>1, <2>1, <4>1 DEF CallInv
      <4>3. versions[i] # 0
        BY <2>1, <3>1 DEF RecordInv
      <4>4. Validates(versions, t)
        BY DEF Commit
      <4> QED
        BY <2>1, <4>2, <4>3, <4>4 DEF Validates, Unread
    <3>3. records'[i] = records[i]
      BY <1>1, <2>1, <3>2, Committed
    <3> QED
      BY <3>1, <3>3 DEF Live
  <2>3. CASE ~Exists(m)
    <3>1. Submitted(c, t, pending[c], m)
      BY <1>1, <1>2, <2>1, <2>3, CommittedMessage
    <3>2. t.puts[i] = [message_id |-> m]
      BY <1>2, <3>1 DEF Submitted, OneKeyPerMessage
    <3>3. Putting(t, i)
      <4>1. t.puts[i] \in StoreDoc
        BY <2>1, <3>2 DEF StoreDoc, IdempotencyRecord
      <4> QED
        BY <4>1, MarkerAssumption DEF Putting
    <3>4. records'[i] = [version |-> versions[i] + 1, document |-> t.puts[i]] /\ Live(records, i)'
      BY <1>1, <2>1, <3>3, Committed
    <3> QED
      BY <3>2, <3>4
  <2> QED
    BY <2>2, <2>3
<1> QED
  BY <1>2 DEF KeyInv

\* An enqueue that may be committed puts a message that does not exist.
LEMMA EnqueueIsNew ==
    ASSUME QueueInv, NEW c \in Client, Commit(c), NeverOverwritten, NEW m \in Message,
           Putting(txs[c], MessageKey(m)), Submitted(c, txs[c], pending[c], m)
    PROVE  ~Exists(m)
<1> USE DEF QueueInv
<1>1. CallInv(c, txs[c], pending[c]) /\ MessageKey(m) \in StoreKey
  BY KeysDistinct DEF Commit
<1>2. CASE MaxEnqueues <= 1
  <2>1. versions[MessageKey(m)] < MaxEnqueues
    BY DEF Commit, Submitted
  <2>2. versions[MessageKey(m)] \in Nat /\ MaxEnqueues \in Nat
    BY <1>1, QueueAssumption DEF TypeOK
  <2>3. versions[MessageKey(m)] = 0
    BY <1>2, <2>1, <2>2
  <2> QED
    BY <1>1, <2>3 DEF RecordInv, Exists
<1>3. CASE OneKeyPerMessage /\ \A r \in Request : r[2] # NoKey
  <2>1. PICK r \in Request :
           /\ r[1] = m
           /\ r[2] # NoKey => /\ txs[c].puts[IdempotencyKey(r[2])] = [message_id |-> m]
                              /\ txs[c].reads[IdempotencyKey(r[2])] = 0
    BY DEF Submitted
  <2> DEFINE i == IdempotencyKey(r[2])
  <2>2. r[2] # NoKey /\ i \in StoreKey
    <3>1. r \in Message \X (Idempotency \cup {NoKey})
      BY QueueAssumption
    <3> QED
      BY <1>3, <3>1, KeysDistinct
  <2>3. txs[c].puts[i] \in StoreDoc
    BY <2>1, <2>2 DEF StoreDoc, IdempotencyRecord
  <2>4. Putting(txs[c], i)
    BY <2>3, MarkerAssumption DEF Putting
  <2>5. ~Live(records, i)
    BY <1>1, <2>1, <2>2, <2>4, Committed
  <2> QED
    BY <1>3, <2>1, <2>2, <2>5 DEF KeyInv
<1> QED
  BY <1>2, <1>3 DEF NeverOverwritten

\* No commit takes a message from a worker whose claim has not expired.
LEMMA CommitKeepsWork ==
    ASSUME QueueInv, NEW c \in Client, Commit(c), NeverOverwritten
    PROVE  WorkInv'
<1> USE DEF QueueInv
<1>1. CallInv(c, txs[c], pending[c]) /\ WorkInv
  BY DEF Commit
<1>2. ASSUME NEW w \in Worker, NEW m \in Message, Working(w, m)'
      PROVE  Exists(m)' /\ IsClaim(Msg(m)', w, work'[w][m])
  <2>1. /\ w \in Client /\ now \in Nat /\ now' = now
        /\ work'[c] = pending[c] /\ (w # c => work'[w] = work[w])
        /\ work[w] \in Work /\ pending[c] \in Work
    BY CommitTypes DEF Client, TypeOK
  <2>2. work'[w][m] > now /\ work'[w][m] # NoTime
    <3>1. work'[w] \in Work
      BY <2>1
    <3>2. work'[w][m] \in Nat \cup {NoTime}
      BY <3>1 DEF Work
    <3> QED
      BY <1>2, <2>1, <3>2 DEF Working, NoTime
  <2>3. CASE w = c
    <3>1. pending[c][m] = work'[w][m] /\ pending[c][m] # NoTime
      BY <2>1, <2>2, <2>3
    <3>2. CASE pending[c][m] = work[c][m] /\ ~Putting(txs[c], MessageKey(m))
      <4>1. Exists(m) /\ IsClaim(Msg(m), w, work[w][m])
        BY <1>1, <2>2, <2>3, <3>1, <3>2 DEF WorkInv, Working
      <4>2. Exists(m)' /\ Msg(m)' = Msg(m)
        BY <1>1, <3>2, <4>1, CommittedMessage
      <4> QED
        BY <2>3, <3>1, <3>2, <4>1, <4>2
    <3>3. CASE Putting(txs[c], MessageKey(m)) /\ Taken(c, txs[c], pending[c], m)
      <4>1. Exists(m)' /\ Msg(m)' = txs[c].puts[MessageKey(m)]
        BY <1>1, <3>3, CommittedMessage
      <4> QED
        BY <2>3, <3>1, <3>3, <4>1 DEF Taken
    <3> QED
      BY <1>1, <3>1, <3>2, <3>3 DEF CallInv
  <2>4. CASE w # c
    <3>1. Exists(m) /\ IsClaim(Msg(m), w, work[w][m]) /\ Msg(m) \in MessageRecord
      BY <1>1, <2>1, <2>2, <2>4 DEF WorkInv, Working, RecordInv
    <3>2. ~Putting(txs[c], MessageKey(m))
      <4>1. SUFFICES ASSUME Putting(txs[c], MessageKey(m))
                     PROVE  FALSE
        OBVIOUS
      <4>2. CASE Submitted(c, txs[c], pending[c], m)
        BY <3>1, <4>1, <4>2, EnqueueIsNew
      <4>3. CASE Msg(m).claimed_by = c
        BY <2>4, <3>1, <4>3 DEF IsClaim
      <4>4. CASE Claimable(m)
        <5>1. Msg(m).status = "Claimed" /\ Msg(m).claim_expires_at = work[w][m]
          BY <3>1 DEF IsClaim
        <5>2. work[w][m] <= now /\ work[w][m] # NoTime
          BY <4>4, <5>1 DEF Claimable
        <5>3. work[w][m] \in Nat
          BY <2>1, <5>2 DEF Work
        <5>4. work[w][m] > now
          BY <2>1, <2>2, <2>4
        <5> QED
          BY <2>1, <5>2, <5>3, <5>4
      <4> QED
        BY <1>1, <4>1, <4>2, <4>3, <4>4, CommittedMessage
    <3>3. Exists(m)' /\ Msg(m)' = Msg(m)
      BY <1>1, <3>1, <3>2, CommittedMessage
    <3> QED
      BY <2>1, <2>4, <3>1, <3>3
  <2> QED
    BY <2>3, <2>4
<1> QED
  BY <1>2 DEF WorkInv, IsClaim

\* A commit keeps the invariant.
LEMMA CommitKeeps ==
    ASSUME QueueInv, NEW c \in Client, Commit(c)
    PROVE  QueueInv'
<1>1. TypeOK /\ RecordInv /\ CallInv(c, txs[c], pending[c])
  BY DEF QueueInv, Commit
<1>2. \A k \in StoreKey : \/ records'[k] = records[k] /\ versions'[k] = versions[k]
                          \/ versions'[k] = versions[k] + 1
  BY <1>1, Committed
<1>3. ASSUME NEW d \in Client, txs'[d].open
      PROVE  CallInv(d, txs[d], pending[d])'
  <2>1. d # c
    BY <1>3, CommitTypes DEF Closed
  <2>2. /\ txs'[d] = txs[d] /\ pending'[d] = pending[d] /\ work'[d] = work[d] /\ now' = now
        /\ CallInv(d, txs[d], pending[d])
    BY <1>3, <2>1, CommitTypes DEF QueueInv
  <2> QED
    BY <1>1, <1>2, <2>2, OpenCallKeeps
<1> QED
  BY <1>3, CommitTypes, CommitKeepsRecords, CommitKeepsAcked, CommitKeepsKeys, CommitKeepsWork
  DEF QueueInv, OneKeyPerMessage, NeverOverwritten

\* A worker that forgets claims, with or without a call it had begun, loses
\* nothing anybody relies on.
LEMMA EndKeeps ==
    ASSUME QueueInv, NEW c \in Client,
           \/ txs' = txs /\ pending' = pending /\ ~txs[c].open
           \/ /\ txs' = [txs EXCEPT ![c] = Closed]
              /\ pending' = [pending EXCEPT ![c] = NoWork],
           NEW x \in Work, \A m \in Message : x[m] \in {work[c][m], NoTime},
           work' = [work EXCEPT ![c] = x],
           UNCHANGED <<records, versions, now>>
    PROVE  QueueInv'
<1> USE DEF QueueInv
<1>1. /\ \A d \in Client \ {c} :
            txs'[d] = txs[d] /\ pending'[d] = pending[d] /\ work'[d] = work[d]
      /\ ~txs'[c].open /\ work'[c] = x
  BY DEF TypeOK, Closed
<1>2. TypeOK'
  <2>1. Closed \in Transaction /\ NoWork \in Work
    BY DEF Closed, Transaction, Unread, NoWork, Work
  <2> QED
    BY <2>1 DEF TypeOK
<1>3. \A d \in Client, m \in Message : work'[d][m] \in {work[d][m], NoTime}
  BY <1>1
<1>4. RecordInv'
  BY DEF RecordInv, Exists, Msg, Live
<1>5. AckedInv'
  <2>1. \A w \in Worker : w \in Client
    BY DEF Client
  <2> QED
    BY <1>3, <2>1 DEF AckedInv, Exists, Msg, Live
<1>6. KeyInv => KeyInv'
  BY DEF KeyInv, Exists, Live
<1>7. WorkInv => WorkInv'
  <2>1. \A w \in Worker, m \in Message : Working(w, m)' => Working(w, m) /\ work'[w][m] = work[w][m]
    <3> TAKE w \in Worker, m \in Message
    <3>1. w \in Client /\ now \in Nat
      BY DEF Client, TypeOK
    <3>2. ~(NoTime > now)
      BY <3>1 DEF NoTime
    <3> QED
      BY <1>3, <3>1, <3>2 DEF Working
  <2> QED
    BY <2>1 DEF WorkInv, Exists, Msg, Live
<1>8. ASSUME NEW d \in Client, txs'[d].open
      PROVE  CallInv(d, txs[d], pending[d])'
  <2>1. d # c
    BY <1>1, <1>8
  <2>2. txs'[d] = txs[d] /\ pending'[d] = pending[d] /\ work'[d] = work[d]
        /\ CallInv(d, txs[d], pending[d])
    BY <1>1, <1>8, <2>1
  <2> QED
    BY <2>2, OpenCallKeeps
<1> QED
  BY <1>2, <1>4, <1>5, <1>6, <1>7, <1>8 DEF OneKeyPerMessage, NeverOverwritten

\* Workers drop a message that is not theirs, give up a call, or die.
LEMMA EndsKeep ==
    ASSUME QueueInv, NEW c \in Client,
           \/ Conflict(c)
           \/ Crash(c)
           \/ \E m \in Message : Rejected(c, m)
    PROVE  QueueInv'
<1>1. work \in [Client -> Work] /\ NoWork \in Work /\ work[c] \in Work
  BY DEF QueueInv, TypeOK, NoWork, Work
<1>2. CASE Conflict(c)
  <2>1. work' = [work EXCEPT ![c] = work[c]]
    BY <1>1, <1>2 DEF Conflict
  <2> QED
    BY <1>1, <1>2, <2>1, EndKeeps DEF Conflict
<1>3. CASE Crash(c)
  <2>1. \A m \in Message : NoWork[m] \in {work[c][m], NoTime}
    BY DEF NoWork
  <2> QED
    BY <1>1, <1>3, <2>1, EndKeeps DEF Crash
<1>4. ASSUME NEW m \in Message, Rejected(c, m)
      PROVE  QueueInv'
  <2> DEFINE x == [work[c] EXCEPT ![m] = NoTime]
  <2>1. x \in Work /\ \A n \in Message : x[n] \in {work[c][n], NoTime}
    BY <1>1 DEF Work
  <2>2. work' = [work EXCEPT ![c] = x] /\ ~txs[c].open
        /\ UNCHANGED <<records, versions, txs, pending, now>>
    BY <1>4 DEF Rejected
  <2> HIDE DEF x
  <2> QED
    BY <2>1, <2>2, EndKeeps
<1> QED
  BY <1>2, <1>3, <1>4

\* The clock expires claims, recorded and handed out alike.
LEMMA TickKeeps ==
    ASSUME QueueInv, Tick
    PROVE  QueueInv'
<1> USE DEF QueueInv
<1>1. now' = now + 1 /\ UNCHANGED <<records, versions, txs, pending, work>>
  BY DEF Tick
<1>2. TypeOK'
  BY <1>1 DEF TypeOK
<1>3. RecordInv' /\ AckedInv' /\ (KeyInv => KeyInv')
  BY <1>1 DEF RecordInv, AckedInv, KeyInv, Exists, Msg, Live
<1>4. WorkInv => WorkInv'
  <2>1. \A w \in Worker, m \in Message : Working(w, m)' => Working(w, m)
    <3> TAKE w \in Worker, m \in Message
    <3>1. now \in Nat /\ work[w][m] \in Nat \cup {NoTime}
      BY DEF TypeOK, Client, Work
    <3> QED
      BY <1>1, <3>1 DEF Working, NoTime
  <2> QED
    BY <1>1, <2>1 DEF WorkInv, Exists, Msg, Live
<1>5. \A d \in Client : txs'[d].open => CallInv(d, txs[d], pending[d])'
  BY <1>1, OpenCallKeeps
<1> QED
  BY <1>2, <1>3, <1>4, <1>5 DEF OneKeyPerMessage, NeverOverwritten

--------------------------------------------------------------------------------
\* The theorems.

\* A step of the queue store keeps the invariant.
LEMMA StepKeeps ==
    ASSUME QueueInv, [Next]_vars
    PROVE  QueueInv'
<1>1. CASE UNCHANGED vars
  <2>1. UNCHANGED <<records, versions, txs, pending, work, now>>
    BY <1>1 DEF vars
  <2>2. TypeOK' /\ RecordInv' /\ AckedInv' /\ (KeyInv => KeyInv') /\ (WorkInv => WorkInv')
    BY <2>1 DEF QueueInv, TypeOK, RecordInv, AckedInv, KeyInv, WorkInv, Working, Exists, Msg, Live
  <2>3. \A d \in Client : txs'[d].open => CallInv(d, txs[d], pending[d])'
    BY <2>1, OpenCallKeeps DEF QueueInv
  <2> QED
    BY <2>2, <2>3 DEF QueueInv, OneKeyPerMessage, NeverOverwritten
<1>2. ASSUME NEW p \in Producer, Enqueue(p)
      PROVE  QueueInv'
  BY <1>2, EnqueueKeeps
<1>3. ASSUME NEW w \in Worker, Claim(w)
      PROVE  QueueInv'
  BY <1>3, ClaimKeeps
<1>4. ASSUME NEW w \in Worker, Finish(w)
      PROVE  QueueInv'
  BY <1>4, FinishKeeps, EndsKeep DEF Finish, Client
<1>5. ASSUME NEW w \in Worker, Crash(w)
      PROVE  QueueInv'
  BY <1>5, EndsKeep DEF Client
<1>6. ASSUME NEW c \in Client, Commit(c)
      PROVE  QueueInv'
  BY <1>6, CommitKeeps
<1>7. ASSUME NEW c \in Client, Conflict(c)
      PROVE  QueueInv'
  BY <1>7, EndsKeep
<1>8. CASE Tick
  BY <1>8, TickKeeps
<1> QED
  BY <1>1, <1>2, <1>3, <1>4, <1>5, <1>6, <1>7, <1>8 DEF Next

\* queue_store.hpp: every call, commit, failure, crash and tick keeps the invariant.
THEOREM QueueInvariant == Spec => []QueueInv
<1>1. Init => QueueInv
  <2> SUFFICES ASSUME Init
               PROVE  QueueInv
    OBVIOUS
  <2>1. Closed \in Transaction /\ ~Closed.open /\ NoWork \in Work
    BY DEF Closed, Transaction, Unread, NoWork, Work
  <2>2. TypeOK
    BY <2>1 DEF Init, TypeOK
  <2>3. (\A k \in StoreKey : ~Live(records, k)) /\ (\A m \in Message : ~Exists(m))
    BY KeysDistinct DEF Init, Live, Exists
  <2>4. RecordInv /\ AckedInv /\ KeyInv
    <3>1. \A r \in Request : r[1] \in Message
      BY QueueAssumption
    <3> QED
      BY <2>3, <3>1, KeysDistinct DEF RecordInv, AckedInv, KeyInv
  <2>5. WorkInv
    <3>1. \A w \in Worker, m \in Message : ~Working(w, m)
      BY DEF Init, Working, NoWork, NoTime, Client
    <3> QED
      BY <3>1 DEF WorkInv
  <2>6. \A c \in Client : ~txs[c].open
    BY <2>1 DEF Init
  <2> QED
    BY <2>2, <2>4, <2>5, <2>6 DEF QueueInv
<1> QED
  BY <1>1, StepKeeps, PTL DEF Spec

\* The state of the queue store has its type.
THEOREM QueueStoreTypeOK == Spec => []TypeOK
<1>1. QueueInv => TypeOK
  BY DEF QueueInv
<1> QED
  BY <1>1, QueueInvariant, PTL

\* No two workers process a message under unexpired claims, provided that no
\* enqueue overwrites the message: claimTx finds the record of the first claim.
THEOREM QueueStoreExclusiveClaim ==
    ASSUME NeverOverwritten
    PROVE  Spec => []ExclusiveClaim
<1>1. QueueInv => ExclusiveClaim
  BY DEF QueueInv, WorkInv, IsClaim, ExclusiveClaim
<1> QED
  BY <1>1, QueueInvariant, PTL

\* An acknowledged message stays acknowledged, provided that no enqueue
\* overwrites it: a late claim, fail or acknowledge finds another record.
THEOREM QueueStoreAckedIsFinal ==
    ASSUME NeverOverwritten
    PROVE  Spec => AckedIsFinal
<1>1. ASSUME QueueInv, [Next]_vars, NEW m \in Message, Exists(m), Msg(m).status = "Acked"
      PROVE  Exists(m)' /\ Msg(m)'.status = "Acked"
  <2>1. CASE records' = records
    BY <1>1, <2>1 DEF Exists, Msg, Live
  <2>2. ASSUME NEW c \in Client, Commit(c)
        PROVE  Exists(m)' /\ Msg(m)'.status = "Acked"
    <3>1. TypeOK /\ RecordInv /\ CallInv(c, txs[c], pending[c])
      BY <1>1, <2>2 DEF QueueInv, Commit
    <3>2. ~Putting(txs[c], MessageKey(m))
      BY <1>1, <2>2, <3>1, CommittedMessage, EnqueueIsNew DEF Claimable
    <3> QED
      BY <1>1, <2>2, <3>1, <3>2, CommittedMessage
  <2>3. (\E c \in Client : Commit(c)) \/ records' = records
    BY <1>1 DEF Next, vars, Enqueue, Claim, Finish, Acknowledge, Fail, Update, Rejected, Call,
       Crash, Conflict, Tick
  <2> QED
    BY <2>1, <2>2, <2>3
<1>2. QueueInv /\ [Next]_vars =>
        [\A m \in Message : Exists(m) /\ Msg(m).status = "Acked"
            => Exists(m)' /\ Msg(m)'.status = "Acked"]_vars
  BY <1>1
<1> QED
  BY <1>2, QueueInvariant, PTL DEF Spec, AckedIsFinal

\* However producers race with one idempotency key, one message is stored under
\* it, and the key names that message.
THEOREM QueueStoreOneMessagePerKey ==
    ASSUME OneKeyPerMessage
    PROVE  Spec => []OneMessagePerKey
<1>1. ASSUME QueueInv, NEW i \in Idempotency
      PROVE  {m \in Message : <<m, i>> \in Request /\ Exists(m)}
               = IF Live(records, IdempotencyKey(i))
                 THEN {records[IdempotencyKey(i)].document.message_id} ELSE {}
  <2> DEFINE k == IdempotencyKey(i)
  <2>1. ASSUME NEW m \in Message, <<m, i>> \in Request, Exists(m)
        PROVE  Live(records, k) /\ records[k].document.message_id = m
    <3>1. <<m, i>>[1] = m /\ <<m, i>>[2] = i /\ i # NoKey
      BY MarkerAssumption
    <3> QED
      BY <1>1, <2>1, <3>1 DEF QueueInv, KeyInv
  <2>2. ASSUME Live(records, k)
        PROVE  /\ records[k].document.message_id \in Message
               /\ <<records[k].document.message_id, i>> \in Request
               /\ Exists(records[k].document.message_id)
    <3>1. PICK m \in Message : /\ records[k].document = [message_id |-> m]
                               /\ <<m, i>> \in Request /\ Exists(m)
      BY <1>1, <2>2 DEF QueueInv, RecordInv
    <3>2. records[k].document.message_id = m
      BY <3>1
    <3> QED
      BY <3>1, <3>2
  <2> QED
    BY <2>1, <2>2
<1>2. QueueInv => OneMessagePerKey
  BY <1>1 DEF OneMessagePerKey
<1> QED
  BY <1>2, QueueInvariant, PTL

================================================================================
