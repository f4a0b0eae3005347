------------------------------ MODULE WorkflowRunner ---------------------------
(***************************************************************************)
(* WorkflowRunner.run_once on the workflow store: the polling loops of     *)
(* worker processes, the keep-alive thread each one runs beside its        *)
(* handler, API calls that start and cancel executions, the clock, and     *)
(* crashes.  A run claims a step in one transaction and executes it in     *)
(* another, which stays open from the revalidation of the claim, through   *)
(* the handler, to the commit of its result.                               *)
(*                                                                         *)
(* Loops of one worker share its name: only the claim token tells their    *)
(* claims apart.                                                           *)
(***************************************************************************)
EXTENDS WorkflowStore, FiniteSets

CONSTANTS
    Runner,     \* polling loops
    NameOf,     \* the worker name of a loop
    Api,        \* threads that call start, cancel and register_definition
    NextStep,   \* the next step a handler returns when it completes
    NoClaim,
    MaxBeats,   \* bound: periodic refreshes of one heartbeat
    MaxVersion, \* bound: no API call writes a record of a higher version
    MaxTime,    \* bound: the clock stops here
    CrashTime   \* bound: no loop crashes at this time or later

ASSUME RunnerAssumption ==
    /\ NameOf \in [Runner -> Name]
    /\ NextStep \in [Step -> Step \cup {NoStep}]
    /\ MaxBeats \in Nat /\ MaxVersion \in Nat /\ MaxTime \in Nat /\ CrashTime \in Nat

VARIABLES
    pc,      \* how far the run_once of each loop is
    claim,   \* the record claim_steps returned to it
    tx,      \* its claim transaction, then its handler transaction
    due,     \* its keep-alive is about to run
    ktx,     \* the transaction of its keep-alive
    error,   \* PeriodicWorkflowKeepAlive.error_ is set
    result,  \* what the handler returned
    apiTx    \* the transaction of each API call

local == <<pc, claim, tx, due, ktx, error, result>>
vars == <<records, versions, now, local, apiTx>>

Claim == [execution : Execution, step : Step, token : Tokens]

\* "throw": revalidation failed, and the transaction is aborted.
Result == {"complete", "fail", "cancel", "throw"}

TypeOK ==
    /\ records \in [StoreKey -> Record \cup {Absent}]
    /\ versions \in [StoreKey -> Nat]
    /\ now \in Nat
    /\ pc \in [Runner -> {"idle", "claiming", "starting", "started", "handling",
                          "stopping", "finalizing"}]
    /\ claim \in [Runner -> Claim \cup {NoClaim}]
    /\ tx \in [Runner -> Transaction]
    /\ due \in [Runner -> BOOLEAN]
    /\ ktx \in [Runner -> Transaction]
    /\ error \in [Runner -> BOOLEAN]
    /\ result \in [Runner -> Result]
    /\ apiTx \in [Api -> Transaction]

Init ==
    /\ records = [k \in StoreKey |-> Absent]
    /\ versions = [k \in StoreKey |-> 0]
    /\ now = 0
    /\ pc = [r \in Runner |-> "idle"]
    /\ claim = [r \in Runner |-> NoClaim]
    /\ tx = [r \in Runner |-> Closed]
    /\ due = [r \in Runner |-> FALSE]
    /\ ktx = [r \in Runner |-> Closed]
    /\ error = [r \in Runner |-> FALSE]
    /\ result = [r \in Runner |-> "throw"]
    /\ apiTx = [a \in Api |-> Closed]

\* run_once ends, or its process starts over.
Idle(r) ==
    /\ pc' = [pc EXCEPT ![r] = "idle"]
    /\ claim' = [claim EXCEPT ![r] = NoClaim]
    /\ tx' = [tx EXCEPT ![r] = Closed]
    /\ due' = [due EXCEPT ![r] = FALSE]
    /\ ktx' = [ktx EXCEPT ![r] = Closed]
    /\ error' = [error EXCEPT ![r] = FALSE]
    /\ result' = [result EXCEPT ![r] = "throw"]

Apply(t) ==
    /\ Validates(versions, t)
    /\ records' = CommitRecords(records, versions, t)
    /\ versions' = CommitVersions(versions, t)

--------------------------------------------------------------------------------
\* The first transaction: the claim.

\* claim_steps; a claim that finds nothing ends the run and changes nothing.
ClaimSteps(r) ==
    /\ pc[r] = "idle"
    /\ \E e \in ToClaim :
        /\ Exec(e).attempt < MaxClaims
        /\ tx' = [tx EXCEPT ![r] = ClaimStepsTx(Begun, e, NameOf[r])]
        /\ claim' = [claim EXCEPT ![r] =
                [execution |-> e, step |-> Exec(e).current_step,
                 token |-> Claimed(e, NameOf[r]).claim_token]]
    /\ pc' = [pc EXCEPT ![r] = "claiming"]
    /\ UNCHANGED <<records, versions, now, due, ktx, error, result, apiTx>>

\* The claim is published; keep_alive.start() refreshes its heartbeat at once.
CommitClaim(r) ==
    /\ pc[r] = "claiming"
    /\ Apply(tx[r])
    /\ pc' = [pc EXCEPT ![r] = "starting"]
    /\ tx' = [tx EXCEPT ![r] = Closed]
    /\ due' = [due EXCEPT ![r] = TRUE]
    /\ UNCHANGED <<now, claim, ktx, error, result, apiTx>>

ConflictClaim(r) ==
    /\ pc[r] = "claiming"
    /\ ~Validates(versions, tx[r])
    /\ Idle(r)
    /\ UNCHANGED <<records, versions, now, apiTx>>

--------------------------------------------------------------------------------
\* PeriodicWorkflowKeepAlive.

\* wait_for times out before stop_requested_ is set; keep_alive_once follows
\* without the mutex, possibly after stop().
KeepAliveDue(r) ==
    /\ pc[r] \in {"started", "handling"}
    /\ ~due[r] /\ ~ktx[r].open
    /\ versions[HeartbeatKey(claim[r].execution, claim[r].token)] <= MaxBeats + 1
    /\ due' = [due EXCEPT ![r] = TRUE]
    /\ UNCHANGED <<records, versions, now, pc, claim, tx, ktx, error, result, apiTx>>

HoldsClaim(r, t) ==
    RequireClaim(t, claim[r].execution, NameOf[r], claim[r].step, claim[r].token)

KeepAlive(r) ==
    /\ due[r]
    /\ HoldsClaim(r, Begun)
    /\ due' = [due EXCEPT ![r] = FALSE]
    /\ ktx' = [ktx EXCEPT ![r] = KeepAliveStepTx(Begun, claim[r].execution, claim[r].token)]
    /\ UNCHANGED <<records, versions, now, pc, claim, tx, error, result, apiTx>>

\* After the first one, start() returns.
Kept(r) ==
    pc' = [pc EXCEPT ![r] = IF @ = "starting" THEN "started" ELSE @]

CommitKeepAlive(r) ==
    /\ ktx[r].open
    /\ Apply(ktx[r])
    /\ ktx' = [ktx EXCEPT ![r] = Closed]
    /\ Kept(r)
    /\ UNCHANGED <<now, claim, tx, due, error, result, apiTx>>

\* keep_alive_step throws, from require_claim or from its commit; the error
\* is recorded and the controller goes on.
KeepAliveFails(r) ==
    /\ \/ due[r] /\ ~HoldsClaim(r, Begun)
       \/ ktx[r].open /\ ~Validates(versions, ktx[r])
    /\ due' = [due EXCEPT ![r] = FALSE]
    /\ ktx' = [ktx EXCEPT ![r] = Closed]
    /\ error' = [error EXCEPT ![r] = TRUE]
    /\ Kept(r)
    /\ UNCHANGED <<records, versions, now, claim, tx, result, apiTx>>

--------------------------------------------------------------------------------
\* The second transaction: revalidation, handler, result.

\* Faulty variant of StillClaimed: some claim of the execution will do.
StillClaimedByAny(r) ==
    /\ Exists(claim[r].execution)
    /\ Exec(claim[r].execution).claim_expires_at > now

\* revalidate_claimed_step.
StillClaimed(r) ==
    /\ HoldsClaim(r, Begun)
    /\ Exec(claim[r].execution).claim_expires_at > now

Revalidate(r) ==
    /\ pc[r] = "started"
    /\ IF StillClaimed(r)
       THEN /\ pc' = [pc EXCEPT ![r] = "handling"]
            /\ tx' = [tx EXCEPT ![r] = Get(records, Begun, ExecutionKey(claim[r].execution))]
       ELSE /\ pc' = [pc EXCEPT ![r] = "stopping"]   \* result is "throw"
            /\ UNCHANGED tx
    /\ UNCHANGED <<records, versions, now, claim, due, ktx, error, result, apiTx>>

\* The handler returns, throws (which is a fail) or is unknown (a fail), and
\* keep_alive.stop() is called.
HandlerReturns(r, res) ==
    /\ pc[r] = "handling"
    /\ result' = [result EXCEPT ![r] = res]
    /\ pc' = [pc EXCEPT ![r] = "stopping"]
    /\ UNCHANGED <<records, versions, now, claim, tx, due, ktx, error, apiTx>>

\* The keep-alive thread has been joined.
Joined(r) == pc[r] = "stopping" /\ ~due[r] /\ ~ktx[r].open

ResultTx(r) ==
    LET e == claim[r].execution IN
    CASE result[r] = "complete" -> CompleteStepTx(tx[r], e, NextStep[claim[r].step])
      [] result[r] = "fail"     -> FailStepTx(tx[r], e)
      [] result[r] = "cancel"   -> CancelTx(tx[r], e)

\* complete_stepTx and fail_stepTx require the claim; cancelTx does not.
Accepted(r) ==
    /\ result[r] # "throw" /\ ~error[r]
    /\ result[r] = "cancel" \/ HoldsClaim(r, tx[r])

Finalize(r) ==
    /\ Joined(r)
    /\ Accepted(r)
    /\ tx' = [tx EXCEPT ![r] = ResultTx(r)]
    /\ pc' = [pc EXCEPT ![r] = "finalizing"]
    /\ UNCHANGED <<records, versions, now, claim, due, ktx, error, result, apiTx>>

GiveUp(r) ==
    /\ Joined(r)
    /\ ~Accepted(r)
    /\ Idle(r)
    /\ UNCHANGED <<records, versions, now, apiTx>>

CommitResult(r) ==
    /\ pc[r] = "finalizing"
    /\ Apply(tx[r])
    /\ Idle(r)
    /\ UNCHANGED <<now, apiTx>>

ConflictResult(r) ==
    /\ pc[r] = "finalizing"
    /\ ~Validates(versions, tx[r])
    /\ Idle(r)
    /\ UNCHANGED <<records, versions, now, apiTx>>

Crash(r) ==
    /\ now < CrashTime
    /\ pc[r] # "idle"
    /\ Idle(r)
    /\ UNCHANGED <<records, versions, now, apiTx>>

--------------------------------------------------------------------------------
\* The API calls.

\* An API thread begins a call that writes the record of k.
Call(a, k, t) ==
    /\ ~apiTx[a].open
    /\ versions[k] < MaxVersion
    /\ apiTx' = [apiTx EXCEPT ![a] = t]
    /\ UNCHANGED <<records, versions, now, local>>

RegisterDefinition(a, d) == Call(a, DefinitionKey, RegisterDefinitionTx(Begun, d))

Start(a, e) == ~Exists(e) /\ Call(a, ExecutionKey(e), StartTx(Begun, e))

Cancel(a, e) == Exists(e) /\ Call(a, ExecutionKey(e), CancelTx(Begun, e))

CommitApi(a) ==
    /\ apiTx[a].open
    /\ Apply(apiTx[a])
    /\ apiTx' = [apiTx EXCEPT ![a] = Closed]
    /\ UNCHANGED <<now, local>>

ConflictApi(a) ==
    /\ apiTx[a].open
    /\ ~Validates(versions, apiTx[a])
    /\ apiTx' = [apiTx EXCEPT ![a] = Closed]
    /\ UNCHANGED <<records, versions, now, local>>

Tick ==
    /\ now < MaxTime
    /\ now' = now + 1
    /\ UNCHANGED <<records, versions, local, apiTx>>

KeepsAlive(r) == KeepAlive(r) \/ CommitKeepAlive(r) \/ KeepAliveFails(r)

Runs(r) ==
    \/ ClaimSteps(r) \/ CommitClaim(r) \/ ConflictClaim(r)
    \/ Revalidate(r)
    \/ \E res \in {"complete", "fail", "cancel"} : HandlerReturns(r, res)
    \/ Finalize(r) \/ GiveUp(r) \/ CommitResult(r) \/ ConflictResult(r)

Next ==
    \/ \E r \in Runner : Runs(r) \/ KeepAliveDue(r) \/ KeepsAlive(r) \/ Crash(r)
    \/ \E a \in Api :
        \/ \E d \in Definition : RegisterDefinition(a, d)
        \/ \E e \in Execution : Start(a, e) \/ Cancel(a, e)
        \/ CommitApi(a) \/ ConflictApi(a)
    \/ Tick

Spec == Init /\ [][Next]_vars

\* Threads run, handlers return, and the clock moves up to its bound.
Fairness ==
    /\ \A r \in Runner : WF_vars(Runs(r)) /\ WF_vars(KeepsAlive(r))
    /\ WF_vars(Tick)

FairSpec == Spec /\ Fairness

--------------------------------------------------------------------------------

\* r has been told that it owns a step.
Owns(r) == pc[r] \notin {"idle", "claiming"}

OwnExec(r) == Exec(claim[r].execution)

\* Two loops that believe in a claim of one execution hold different tokens,
\* also when they share a worker name and one took the claim over from the
\* other: claim_token_for numbers the attempts of the whole execution.
TokensUnique ==
    \A q, r \in Runner : q # r /\ Owns(q) /\ Owns(r) => claim[q] # claim[r]

\* A result is committed only while the record still carries the token of the
\* loop that commits it: a claim taken over or cancelled between revalidation
\* and commit leaves no trace, whether complete_stepTx, fail_stepTx or
\* cancelTx, which asks for no claim, staged the result.
OnlyClaimantFinalizes ==
    [][\A r \in Runner : pc[r] = "finalizing" /\ records' # records /\ pc'[r] = "idle"
            => OwnExec(r).claim_token = claim[r].token]_vars

\* An execution goes forward: no late start, claim or result puts back its
\* step, its attempt or a terminal status.
Ended(d) == d.status \in Terminal
ExecutionAdvances ==
    [][\A e \in Execution : Exists(e) =>
            /\ Exists(e)'
            /\ Exec(e)'.current_step \in {Exec(e).current_step, NextStep[Exec(e).current_step]}
            /\ Exec(e)'.attempt \in Exec(e).attempt .. Exec(e).attempt + 1
            /\ Ended(Exec(e)) => Ended(Exec(e)')]_vars

\* The newest claim of an execution has a heartbeat exactly as long as it is
\* held: no keep-alive brings back the heartbeat of a step that complete, fail
\* or cancel has finalized.
HeartbeatFollowsClaim ==
    \A e \in Execution : Exists(e) =>
        \A n \in Name : LET token == Token(n, Exec(e).attempt) IN
            token \in Tokens =>
                (Live(records, HeartbeatKey(e, token)) <=> Exec(e).claim_token = token)

\* "A background keep-alive must not update the same workflow execution
\* document version that the open handler transaction reads and later commits"
\* (docs/worker-process-lifecycle.md:55): while a loop still has its claim,
\* nothing its own keep-alive thread did fails the commit of its result.
KeepAliveSparesResult ==
    \A r \in Runner :
        pc[r] = "finalizing" /\ OwnExec(r).claim_token = claim[r].token
            => Validates(versions, tx[r])

\* Whatever claims expire, loops crash or commits conflict, an execution that
\* was started ends.
EveryExecutionEnds == \A e \in Execution : Exists(e) ~> Exists(e) /\ Ended(Exec(e))

================================================================================
