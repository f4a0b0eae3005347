------------------------------- MODULE LeaseStore ------------------------------
(***************************************************************************)
(* RuntimeLeaseStore: one resource of one lease definition, taken, renewed *)
(* and released by competing holders.  Every operation is a transaction of *)
(* the in-memory backend: the call begins it, reads and stages; the commit *)
(* is a later step, and other holders and the clock move in between.  A    *)
(* call that throws (unknown definition or lease, not held by the caller)  *)
(* drops its transaction and changes nothing, so it has no step.           *)
(***************************************************************************)
EXTENDS Integers

CONSTANTS
    Holder,     \* holder identities, one calling thread each
    Ttl,        \* the ttls a registered definition may have
    Absent,     \* no record
    NoGrant,    \* a holder that holds nothing
    MaxTime,    \* bound: the clock stops here
    MaxVersion  \* bound: no record is committed more often

ASSUME LeaseAssumption ==
    /\ Ttl \subseteq Nat \ {0}
    /\ MaxTime \in Nat /\ MaxVersion \in Nat

\* definition_key and lease_key.
Definition == "definition"
Lease == "lease"
StoreKey == {Definition, Lease}

LeaseDefinition == [ttl : Nat]
LeaseRecord == [holder : Holder, expires_at : Nat, fencing_token : Nat]

VARIABLES
    records, versions,  \* the two lease collections of the backend
    txs,      \* the transaction of each holder's call
    pending,  \* the grant the call will report once it has committed
    now,      \* the clock callers pass as request.now
    grant,    \* what each holder was last told it holds
    issued    \* observed: the highest fencing token ever granted

vars == <<records, versions, txs, pending, now, grant, issued>>

StoreDoc == LeaseDefinition \cup LeaseRecord
INSTANCE Occ WITH Key <- StoreKey, Doc <- StoreDoc

Grant == [token : Nat, expires : Nat]

\* The markers are neither documents, records nor grants.
ASSUME MarkerAssumption == Absent \notin StoreDoc /\ Absent \notin Record /\ NoGrant \notin Grant

TypeOK ==
    /\ records \in [StoreKey -> Record \cup {Absent}]
    /\ versions \in [StoreKey -> Nat]
    /\ txs \in [Holder -> Transaction]
    /\ pending \in [Holder -> Grant \cup {NoGrant}]
    /\ now \in Nat
    /\ grant \in [Holder -> Grant \cup {NoGrant}]
    /\ issued \in Nat

Init ==
    /\ records = [k \in StoreKey |-> Absent]
    /\ versions = [k \in StoreKey |-> 0]
    /\ txs = [h \in Holder |-> Closed]
    /\ pending = [h \in Holder |-> NoGrant]
    /\ now = 0
    /\ grant = [h \in Holder |-> NoGrant]
    /\ issued = 0

--------------------------------------------------------------------------------

\* begin() and the ...Tx operation of a call of h, which has no call running:
\* t is its transaction, g the grant it reports when t commits.
Call(h, t, g) ==
    /\ ~txs[h].open
    /\ txs' = [txs EXCEPT ![h] = t]
    /\ pending' = [pending EXCEPT ![h] = g]
    /\ UNCHANGED <<records, versions, now, grant, issued>>

Document(k) == Visible(records, Begun, k)

\* register_definitionTx replaces whatever definition there is.
RegisterDefinition(h, ttl) ==
    Call(h, Put(records, Begun, Definition, [ttl |-> ttl]), grant[h])

\* The transaction after require_definition and inspectTx or require_lease.
Inspected == Get(records, Get(records, Begun, Definition), Lease)

\* acquireTx finds a holder whose lease has not expired: not acquired.
Held == Live(records, Lease) /\ Document(Lease).expires_at > now

AcquireHeld(h) ==
    /\ Live(records, Definition)
    /\ Held
    /\ Call(h, Inspected, grant[h])

\* Faulty variant of NextToken: an expired lease is forgotten with its token.
NextTokenOfHeld == IF Held THEN Document(Lease).fencing_token + 1 ELSE 1

NextToken == IF Live(records, Lease) THEN Document(Lease).fencing_token + 1 ELSE 1

Acquire(h) ==
    LET expires == now + Document(Definition).ttl
    IN  /\ Live(records, Definition)
        /\ ~Held
        /\ Call(h,
                Put(records, Inspected, Lease,
                    [holder |-> h, expires_at |-> expires, fencing_token |-> NextToken]),
                [token |-> NextToken, expires |-> expires])

\* Faulty variant of RequireHolder: the caller's identity is not compared.
RequireToken(h, token) ==
    /\ Live(records, Lease)
    /\ token = 0 \/ Document(Lease).fencing_token = token

\* require_holder: the caller's token is the one it was granted, or 0 for none.
RequireHolder(h, token) ==
    /\ Live(records, Lease)
    /\ Document(Lease).holder = h
    /\ token = 0 \/ Document(Lease).fencing_token = token

CallerToken(h) == {0} \cup (IF grant[h] = NoGrant THEN {} ELSE {grant[h].token})

Renew(h) ==
    \E token \in CallerToken(h) :
        LET expires == now + Document(Definition).ttl
            lease == Document(Lease)
        IN  /\ Live(records, Definition)
            /\ RequireHolder(h, token)
            /\ Call(h,
                    Put(records, Inspected, Lease, [lease EXCEPT !.expires_at = expires]),
                    [token |-> lease.fencing_token, expires |-> expires])

Release(h) ==
    \E token \in CallerToken(h) :
        /\ RequireHolder(h, token)
        /\ Call(h, Erase(records, Get(records, Begun, Lease), Lease), NoGrant)

--------------------------------------------------------------------------------

Commit(h) ==
    /\ txs[h].open
    /\ Validates(versions, txs[h])
    /\ \A k \in StoreKey : Staged(txs[h], k) => versions[k] < MaxVersion
    /\ records' = CommitRecords(records, versions, txs[h])
    /\ versions' = CommitVersions(versions, txs[h])
    /\ txs' = [txs EXCEPT ![h] = Closed]
    /\ grant' = [grant EXCEPT ![h] = pending[h]]
    /\ pending' = [pending EXCEPT ![h] = NoGrant]
    /\ issued' = IF pending[h] # NoGrant /\ pending[h].token > issued
                 THEN pending[h].token ELSE issued
    /\ UNCHANGED now

\* commit() throws VersionConflict out of the call, which drops the transaction.
Conflict(h) ==
    /\ txs[h].open
    /\ ~Validates(versions, txs[h])
    /\ txs' = [txs EXCEPT ![h] = Closed]
    /\ pending' = [pending EXCEPT ![h] = NoGrant]
    /\ UNCHANGED <<records, versions, now, grant, issued>>

\* The process of h dies and restarts under the same holder identity.
Crash(h) ==
    /\ txs[h].open \/ grant[h] # NoGrant
    /\ txs' = [txs EXCEPT ![h] = Closed]
    /\ pending' = [pending EXCEPT ![h] = NoGrant]
    /\ grant' = [grant EXCEPT ![h] = NoGrant]
    /\ UNCHANGED <<records, versions, now, issued>>

Tick ==
    /\ now < MaxTime
    /\ now' = now + 1
    /\ UNCHANGED <<records, versions, txs, pending, grant, issued>>

Next ==
    \/ \E h \in Holder :
        \/ \E ttl \in Ttl : RegisterDefinition(h, ttl)
        \/ AcquireHeld(h)
        \/ Acquire(h)
        \/ Renew(h)
        \/ Release(h)
        \/ Commit(h)
        \/ Conflict(h)
        \/ Crash(h)
    \/ Tick

Spec == Init /\ [][Next]_vars

--------------------------------------------------------------------------------

\* h was told it holds the lease, and by the clock it still does.
Holding(h) == grant[h] # NoGrant /\ grant[h].expires > now

\* No two holders believe in an unexpired grant at once, however their
\* acquire, renew and release transactions of lease_store.hpp overlap and
\* however old the request.now is that a commit writes.
MutualExclusion == \A g, h \in Holder : Holding(g) /\ Holding(h) => g = h

\* The fencing token of the current holder is the highest ever granted, and
\* higher than what any other holder still believes in: a former holder that
\* goes on writing with its token can be told apart, also after release()
\* erased the record the next token is computed from.
FencingTokenIsNewest ==
    \A h \in Holder : Holding(h) =>
        /\ grant[h].token = issued
        /\ \A g \in Holder \ {h} : grant[g] # NoGrant => grant[g].token < grant[h].token

\* The lease record is never ahead of or behind what its holder was told,
\* unless the holder crashed: a grant that has not expired is in the record
\* with its token and its expiry.
GrantIsRecorded ==
    \A h \in Holder : Holding(h) =>
        /\ Live(records, Lease)
        /\ Document(Lease) = [holder |-> h, expires_at |-> grant[h].expires,
                              fencing_token |-> grant[h].token]

================================================================================
