------------------------------- MODULE QueueStore ------------------------------
(***************************************************************************)
(* RuntimeQueueStore on the in-memory backend: producers enqueue, with or  *)
(* without an idempotency key, and workers claim, acknowledge and fail     *)
(* messages of one queue channel.  A call is one transaction, begun and    *)
(* staged in one step and committed in a later one.                        *)
(*                                                                         *)
(* Queue definitions are stored but read by none of the operations below   *)
(* (the caller passes visibility_timeout and max_attempts), so they are    *)
(* not part of the model.                                                  *)
(***************************************************************************)
EXTENDS Integers, FiniteSets

CONSTANTS
    Worker, Producer,   \* the calling threads; a worker is a claimant
    Message,            \* message ids, in key order
    Idempotency,        \* idempotency keys
    Request,            \* the <<message, idempotency key or NoKey>> enqueued
    NoKey, Absent,
    Timeout,            \* request.visibility_timeout
    MaxMessages,        \* request.max_messages of a claim
    MaxAttempts,        \* request.max_attempts of a fail
    MaxTime,            \* bound: the clock stops here
    LastCrash,          \* bound: no worker crashes later than this
    MaxEnqueues,        \* bound: no enqueue commits over a message of this version
    MaxVersion          \* bound: no record is committed more often

ASSUME QueueAssumption ==
    /\ Message \subseteq Nat
    /\ Request \subseteq Message \X (Idempotency \cup {NoKey})
    /\ Timeout \in Nat \ {0} /\ MaxMessages \in Nat \ {0} /\ MaxAttempts \in Nat \ {0}
    /\ MaxTime \in Nat /\ LastCrash \in Int
    /\ MaxEnqueues \in Nat /\ MaxVersion \in Nat

Client == Worker \cup Producer

\* Keys of the messages and the idempotency collections.
MessageKey(m) == <<"message", m>>
IdempotencyKey(i) == <<"idempotency", i>>
StoreKey == {MessageKey(m) : m \in Message} \cup {IdempotencyKey(i) : i \in Idempotency}

NoTime == -1   \* claim_expires_at without a value
Nobody == "nobody"

Status == {"Pending", "Claimed", "Acked", "DeadLettered"}
MessageRecord == [status : Status, attempts : Nat,
                  claimed_by : Worker \cup {Nobody},
                  claim_expires_at : Nat \cup {NoTime}]
IdempotencyRecord == [message_id : Message]
StoreDoc == MessageRecord \cup IdempotencyRecord

VARIABLES
    records, versions,  \* the queue collections of the backend
    txs,      \* the transaction of each client's call
    pending,  \* what the worker has to do once its call has committed
    work,     \* the expiry of each message claim a worker was handed
    now       \* the clock callers pass as request.now

vars == <<records, versions, txs, pending, work, now>>

INSTANCE Occ WITH Key <- StoreKey, Doc <- StoreDoc

ASSUME MarkerAssumption ==
    Absent \notin StoreDoc /\ Absent \notin Record /\ NoKey \notin Idempotency

NoWork == [m \in Message |-> NoTime]
Work == [Message -> Nat \cup {NoTime}]

TypeOK ==
    /\ records \in [StoreKey -> Record \cup {Absent}]
    /\ versions \in [StoreKey -> Nat]
    /\ txs \in [Client -> Transaction]
    /\ pending \in [Client -> Work]
    /\ work \in [Client -> Work]
    /\ now \in Nat

Init ==
    /\ records = [k \in StoreKey |-> Absent]
    /\ versions = [k \in StoreKey |-> 0]
    /\ txs = [c \in Client |-> Closed]
    /\ pending = [c \in Client |-> NoWork]
    /\ work = [c \in Client |-> NoWork]
    /\ now = 0

--------------------------------------------------------------------------------

Exists(m) == Live(records, MessageKey(m))
Msg(m) == records[MessageKey(m)].document

Call(c, t, w) ==
    /\ ~txs[c].open
    /\ txs' = [txs EXCEPT ![c] = t]
    /\ pending' = [pending EXCEPT ![c] = w]
    /\ UNCHANGED <<records, versions, work, now>>

Fresh == [status |-> "Pending", attempts |-> 0, claimed_by |-> Nobody,
          claim_expires_at |-> NoTime]

\* enqueueTx: the message is put whatever is stored under its id, unless the
\* idempotency key is known; then that key's message is read and returned.
Enqueue(p) ==
    \E r \in Request :
        LET m == r[1]  i == IdempotencyKey(r[2])
            keyed == Put(records, Begun, i, [message_id |-> m])
        IN  \/ /\ r[2] = NoKey
               /\ Call(p, Put(records, Begun, MessageKey(m), Fresh), NoWork)
            \/ /\ r[2] # NoKey
               /\ ~Live(records, i)
               /\ Call(p, Put(records, keyed, MessageKey(m), Fresh), NoWork)
            \/ /\ r[2] # NoKey
               /\ Live(records, i)
               /\ Call(p, Get(records, Get(records, Begun, i),
                              MessageKey(records[i].document.message_id)), NoWork)

\* Faulty variants of Claimable: off by one at the expiry; no expiry.
ClaimableEarly(m) ==
    /\ Exists(m)
    /\ Msg(m).status \notin {"Acked", "DeadLettered"}
    /\ \/ Msg(m).status = "Pending"
       \/ Msg(m).claim_expires_at # NoTime /\ Msg(m).claim_expires_at <= now + 1

ClaimablePending(m) == Exists(m) /\ Msg(m).status = "Pending"

Claimable(m) ==
    /\ Exists(m)
    /\ Msg(m).status \notin {"Acked", "DeadLettered"}
    /\ \/ Msg(m).status = "Pending"
       \/ Msg(m).claim_expires_at # NoTime /\ Msg(m).claim_expires_at <= now

\* The first max_messages claimable messages, in key order.
ClaimSet ==
    {m \in Message : Claimable(m) /\
        Cardinality({n \in Message : n < m /\ Claimable(n)}) < MaxMessages}

\* Faulty variant of ClaimOf: a status no reader knows.
ClaimOfMisspelt(w, m) == [status |-> "claimed", attempts |-> Msg(m).attempts + 1,
                          claimed_by |-> w, claim_expires_at |-> now + Timeout]

ClaimOf(w, m) == [status |-> "Claimed", attempts |-> Msg(m).attempts + 1,
                  claimed_by |-> w, claim_expires_at |-> now + Timeout]

\* claimTx reads every message of the collection and puts the claimed ones.
\* A worker polls again when it has dealt with what it claimed before.
Claim(w) ==
    LET scanned == RecordRead(records, Begun, {MessageKey(m) : m \in {n \in Message : Exists(n)}})
        claimed == [k \in StoreKey |->
                        IF \E m \in ClaimSet : k = MessageKey(m)
                        THEN ClaimOf(w, k[2]) ELSE Absent]
    IN  /\ work[w] = NoWork
        /\ Call(w, [scanned EXCEPT !.puts = claimed],
                [m \in Message |-> IF m \in ClaimSet THEN now + Timeout ELSE NoTime])

\* Faulty variant of RequireClaimant: any worker may finish any message.
RequireMessage(w, m) == Exists(m)

\* require_claimant: the name of the claimant, not the expiry of the claim.
RequireClaimant(w, m) == Exists(m) /\ Msg(m).claimed_by = w

Update(w, m, d) ==
    /\ work[w][m] # NoTime
    /\ RequireClaimant(w, m)
    /\ Call(w, Put(records, Begun, MessageKey(m), d), [work[w] EXCEPT ![m] = NoTime])

Acknowledge(w, m) == Update(w, m, [Msg(m) EXCEPT !.status = "Acked"])

Fail(w, m) ==
    Update(w, m, [Msg(m) EXCEPT
                    !.claimed_by = Nobody,
                    !.claim_expires_at = NoTime,
                    !.status = IF Msg(m).attempts >= MaxAttempts THEN "DeadLettered"
                               ELSE "Pending"])

\* acknowledge or fail throws QueueClaimConflict: the worker forgets the message.
Rejected(w, m) ==
    /\ ~txs[w].open
    /\ work[w][m] # NoTime
    /\ ~RequireClaimant(w, m)
    /\ work' = [work EXCEPT ![w][m] = NoTime]
    /\ UNCHANGED <<records, versions, txs, pending, now>>

--------------------------------------------------------------------------------

Commit(c) ==
    /\ txs[c].open
    /\ Validates(versions, txs[c])
    /\ \A k \in StoreKey : Staged(txs[c], k) => versions[k] < MaxVersion
    /\ c \in Producer =>
            \A m \in Message : Putting(txs[c], MessageKey(m)) =>
                versions[MessageKey(m)] < MaxEnqueues
    /\ records' = CommitRecords(records, versions, txs[c])
    /\ versions' = CommitVersions(versions, txs[c])
    /\ txs' = [txs EXCEPT ![c] = Closed]
    /\ work' = [work EXCEPT ![c] = pending[c]]
    /\ pending' = [pending EXCEPT ![c] = NoWork]
    /\ UNCHANGED now

\* commit() throws VersionConflict: the call failed, the worker still has what
\* it had and may call again.
Conflict(c) ==
    /\ txs[c].open
    /\ ~Validates(versions, txs[c])
    /\ txs' = [txs EXCEPT ![c] = Closed]
    /\ pending' = [pending EXCEPT ![c] = NoWork]
    /\ UNCHANGED <<records, versions, work, now>>

\* The worker process dies with its claims and restarts with none.
Crash(w) ==
    /\ now <= LastCrash
    /\ work[w] # NoWork \/ txs[w].open
    /\ txs' = [txs EXCEPT ![w] = Closed]
    /\ pending' = [pending EXCEPT ![w] = NoWork]
    /\ work' = [work EXCEPT ![w] = NoWork]
    /\ UNCHANGED <<records, versions, now>>

Tick ==
    /\ now < MaxTime
    /\ now' = now + 1
    /\ UNCHANGED <<records, versions, txs, pending, work>>

Finish(w) == \E m \in Message : Acknowledge(w, m) \/ Fail(w, m) \/ Rejected(w, m)

Next ==
    \/ \E p \in Producer : Enqueue(p)
    \/ \E w \in Worker : Claim(w) \/ Finish(w) \/ Crash(w)
    \/ \E c \in Client : Commit(c) \/ Conflict(c)
    \/ Tick

Spec == Init /\ [][Next]_vars

\* Workers poll, deal with what they claimed and get their commits answered;
\* the clock moves.  Producers owe nothing.
Fairness ==
    /\ \A w \in Worker : WF_vars(Claim(w)) /\ WF_vars(Finish(w))
    /\ \A c \in Client : WF_vars(Commit(c) \/ Conflict(c))
    /\ WF_vars(Tick)

FairSpec == Spec /\ Fairness

--------------------------------------------------------------------------------

\* w was handed the message and by the clock its claim has not expired.
Working(w, m) == work[w][m] > now

\* No two workers process a message under unexpired claims, however their
\* claimTx, acknowledgeTx and failTx transactions overlap and expire.
ExclusiveClaim ==
    \A v, w \in Worker, m \in Message : Working(v, m) /\ Working(w, m) => v = w

\* acknowledgeTx is final: a late fail, an expired claim or a repeated enqueue
\* under the same idempotency key does not bring the message back.
AckedIsFinal ==
    [][\A m \in Message : Exists(m) /\ Msg(m).status = "Acked"
            => Exists(m)' /\ Msg(m)'.status = "Acked"]_vars

\* Producers racing with one idempotency key store one message, the one the
\* key names: the second enqueueTx either finds the key or fails its commit,
\* although the key it read did not exist; and enqueueTx may dereference the
\* message of a known key unchecked.
OneMessagePerKey ==
    \A i \in Idempotency :
        LET k == IdempotencyKey(i)
            named == IF Live(records, k) THEN {records[k].document.message_id} ELSE {}
        IN  {m \in Message : <<m, i>> \in Request /\ Exists(m)} = named

Done(m) == Exists(m) /\ Msg(m).status \in {"Acked", "DeadLettered"}

\* An enqueued message is dealt with in the end: a crashed worker's claim
\* expires and another claimTx finds the message, and no order of failures
\* starves it.
EveryMessageDone == \A m \in Message : Exists(m) ~> Done(m)

================================================================================
