------------------------------ MODULE WorkflowStore ----------------------------
(***************************************************************************)
(* RuntimeWorkflowStore: the executions, heartbeats and definitions it     *)
(* keeps in the backend, and its ...Tx operations as functions from a      *)
(* transaction to the transaction they leave behind.  WorkflowRunner makes *)
(* a state machine of them.                                                *)
(***************************************************************************)
EXTENDS Integers

CONSTANTS
    Execution,    \* execution ids of one workflow, in key order
    Step, StartStep,
    Name,         \* worker names
    Definition,   \* contents a definition of the workflow may be registered with
    Absent,
    Lease,        \* lease_duration
    MaxAttempts,  \* max_attempts of a fail
    MaxClaims     \* bound: no execution is claimed more often

ASSUME WorkflowAssumption ==
    /\ Execution \subseteq Nat
    /\ StartStep \in Step
    /\ Lease \in Nat \ {0} /\ MaxAttempts \in Nat \ {0} /\ MaxClaims \in Nat \ {0}

NoTime == -1       \* claim_expires_at without a value
Nobody == "nobody" \* claimed_by without a value
NoToken == <<>>    \* claim_token without a value
NoStep == "none"   \* next_step without a value

\* claim_token_for, within one execution.
Token(name, attempt) == <<name, attempt>>
Tokens == {Token(n, a) : n \in Name, a \in 1 .. MaxClaims}

DefinitionKey == <<"definition">>
ExecutionKey(e) == <<"execution", e>>
HeartbeatKey(e, token) == <<"heartbeat", e, token>>
StoreKey == {DefinitionKey} \cup {ExecutionKey(e) : e \in Execution}
                \cup {HeartbeatKey(e, t) : e \in Execution, t \in Tokens}

Terminal == {"Completed", "Failed", "Canceled"}

ExecutionRecord ==
    [current_step : Step, status : {"Running"} \cup Terminal, attempt : 0 .. MaxClaims,
     claimed_by : Name \cup {Nobody}, claim_token : Tokens \cup {NoToken},
     claim_expires_at : Nat \cup {NoTime}]
HeartbeatRecord == [claim_expires_at : Nat]
DefinitionRecord == [definition : Definition]
StoreDoc == ExecutionRecord \cup HeartbeatRecord \cup DefinitionRecord

VARIABLES
    records, versions,  \* the workflow collections of the backend
    now                 \* the clock callers pass as request.now

INSTANCE Occ WITH Key <- StoreKey, Doc <- StoreDoc

ASSUME MarkerAssumption ==
    Absent \notin StoreDoc /\ Absent \notin Record /\ NoStep \notin Step

Exists(e) == Live(records, ExecutionKey(e))
Exec(e) == records[ExecutionKey(e)].document

--------------------------------------------------------------------------------

\* register_definitionTx replaces whatever definition there is.
RegisterDefinitionTx(t, d) == Put(records, t, DefinitionKey, [definition |-> d])

\* startTx of an id that is not in use; an id in use is only read.
StartTx(t, e) ==
    Put(records, t, ExecutionKey(e),
        [current_step |-> StartStep, status |-> "Running", attempt |-> 0,
         claimed_by |-> Nobody, claim_token |-> NoToken, claim_expires_at |-> NoTime])

\* Faulty variant of Claimable: claims do not expire.
ClaimableUnclaimed(e) ==
    Exists(e) /\ Exec(e).status = "Running" /\ Exec(e).claimed_by = Nobody

Claimable(e) ==
    /\ Exists(e)
    /\ Exec(e).status = "Running"
    /\ \/ Exec(e).claimed_by = Nobody
       \/ Exec(e).claim_expires_at # NoTime /\ Exec(e).claim_expires_at <= now

\* max_steps is 1: the first claimable execution, in key order.
ToClaim == {e \in Execution : Claimable(e) /\ \A f \in Execution : Claimable(f) => e <= f}

\* Faulty variant of Claimed: a claim taken over is not counted as an attempt.
ClaimedUncounted(e, name) ==
    LET attempt == IF Exec(e).attempt = 0 THEN 1 ELSE Exec(e).attempt
    IN  [Exec(e) EXCEPT !.attempt = attempt, !.claimed_by = name,
                        !.claim_token = Token(name, attempt),
                        !.claim_expires_at = now + Lease]

Claimed(e, name) ==
    LET attempt == Exec(e).attempt + 1
    IN  [Exec(e) EXCEPT !.attempt = attempt, !.claimed_by = name,
                        !.claim_token = Token(name, attempt),
                        !.claim_expires_at = now + Lease]

PutHeartbeat(t, e, token) ==
    Put(records, t, HeartbeatKey(e, token), [claim_expires_at |-> now + Lease])

\* Faulty variant of EraseHeartbeat: heartbeats are left behind.
KeepHeartbeat(t, e, token) == t

EraseHeartbeat(t, e, token) ==
    IF token = NoToken THEN t ELSE Erase(records, t, HeartbeatKey(e, token))

\* claim_stepsTx reads every execution of the collection, and claims e.
ClaimStepsTx(t, e, name) ==
    LET scanned == RecordRead(records, t, {ExecutionKey(f) : f \in {g \in Execution : Exists(g)}})
        d == Claimed(e, name)
    IN  PutHeartbeat(Put(records, scanned, ExecutionKey(e), d), e, d.claim_token)

\* What the transaction sees of the execution: require_execution.
ExecIn(t, e) == Visible(records, t, ExecutionKey(e))

RequireClaim(t, e, name, step, token) ==
    /\ ExecIn(t, e) # Absent
    /\ ExecIn(t, e).claimed_by = name
    /\ ExecIn(t, e).current_step = step
    /\ ExecIn(t, e).claim_token = token

\* Faulty variant of KeepAliveStepTx: the execution's own expiry is extended.
KeepAliveExecutionTx(t, e, token) ==
    PutHeartbeat(
        Put(records, t, ExecutionKey(e), [Exec(e) EXCEPT !.claim_expires_at = now + Lease]),
        e, token)

\* keep_alive_stepTx reads the execution and puts the heartbeat only: the
\* claim_expires_at it assigns afterwards is that of the returned copy.
KeepAliveStepTx(t, e, token) ==
    PutHeartbeat(Get(records, t, ExecutionKey(e)), e, token)

Unclaimed(d) == [d EXCEPT !.claimed_by = Nobody, !.claim_token = NoToken,
                          !.claim_expires_at = NoTime]

\* Faulty variant of Finalized: the token is cleared before it is used.
FinalizedClearFirst(t, e, d) ==
    EraseHeartbeat(
        Put(records, Get(records, t, ExecutionKey(e)), ExecutionKey(e), Unclaimed(d)),
        e, Unclaimed(d).claim_token)

\* The end of complete_stepTx, fail_stepTx and cancelTx: d replaces the
\* execution, its claim is cleared and the heartbeat of that claim erased.
Finalized(t, e, d) ==
    EraseHeartbeat(
        Put(records, Get(records, t, ExecutionKey(e)), ExecutionKey(e), Unclaimed(d)),
        e, ExecIn(t, e).claim_token)

\* Faulty variant of CompleteStepTx: a status no reader knows.
CompleteMisspelt(t, e, next) ==
    Finalized(t, e, [ExecIn(t, e) EXCEPT
        !.status = IF next = NoStep THEN "Complete" ELSE "Running",
        !.current_step = IF next = NoStep THEN @ ELSE next])

CompleteStepTx(t, e, next) ==
    LET d == ExecIn(t, e)
    IN  Finalized(t, e,
            IF next = NoStep THEN [d EXCEPT !.status = "Completed"]
            ELSE [d EXCEPT !.current_step = next, !.status = "Running"])

FailStepTx(t, e) ==
    Finalized(t, e,
        [ExecIn(t, e) EXCEPT !.status = IF ExecIn(t, e).attempt >= MaxAttempts
                                        THEN "Failed" ELSE "Running"])

\* cancelTx asks for no claim and looks at no status.
CancelTx(t, e) == Finalized(t, e, [ExecIn(t, e) EXCEPT !.status = "Canceled"])

================================================================================
