-------------------------- MODULE WorkflowRunnerProofs --------------------------
(***************************************************************************)
(* Proofs about the workflow runner, for every set of loops, worker names, *)
(* API threads, executions and steps.                                      *)
(***************************************************************************)
EXTENDS WorkflowRunner, TLAPS

\* The version of k that t has read is still the current one.
Current(t, k) == t.reads[k] = versions[k]

\* A transaction read no version ahead of the current ones.
Reads(t) == \A k \in StoreKey : t.reads[k] <= versions[k]

\* The records that the claim c is about.
ExecutionOf(c) == ExecutionKey(c.execution)
HeartbeatOf(c) == HeartbeatKey(c.execution, c.token)

\* The execution is held under c.
Held(c) ==
    /\ Exists(c.execution)
    /\ Exec(c.execution).claim_token = c.token
    /\ Exec(c.execution).current_step = c.step

\* t knows whether c is still held: as long as the execution it read is current.
Watches(t, c) ==
    /\ Reads(t)
    /\ t.reads[ExecutionOf(c)] # Unread
    /\ Current(t, ExecutionOf(c)) => Held(c)
    /\ Exec(c.execution).claim_token = c.token => Current(t, ExecutionOf(c))

--------------------------------------------------------------------------------
\* What the transactions write.

\* t takes the claim of an execution over: the next attempt of a running one.
ClaimsTx(t, c, name) ==
    /\ Reads(t)
    /\ t.reads[ExecutionOf(c)] # Unread
    /\ t.erases = {}
    /\ \A k \in StoreKey : Putting(t, k) <=> k \in {ExecutionOf(c), HeartbeatOf(c)}
    /\ t.puts[ExecutionOf(c)] \in ExecutionRecord
    /\ LET d == t.puts[ExecutionOf(c)] IN
          /\ d.status = "Running" /\ d.claim_token = c.token
          /\ d.attempt = c.token[2] /\ d.current_step = c.step
    /\ c.token[1] = name
    /\ Current(t, ExecutionOf(c)) =>
          /\ Exists(c.execution)
          /\ Exec(c.execution).status = "Running"
          /\ Exec(c.execution).attempt + 1 = c.token[2]
          /\ Exec(c.execution).current_step = c.step

\* t refreshes the heartbeat of a claim, and has read the execution.
BeatsTx(t, c) ==
    /\ Reads(t)
    /\ t.reads[ExecutionOf(c)] # Unread
    /\ t.erases = {}
    /\ \A k \in StoreKey : Putting(t, k) <=> k = HeartbeatOf(c)
    /\ Current(t, ExecutionOf(c)) => Held(c)

\* t clears the claim of e with its heartbeat, and takes e no step back.
EndsTx(t, e) ==
    /\ t.erases = IF Exec(e).claim_token = NoToken THEN {}
                  ELSE {HeartbeatKey(e, Exec(e).claim_token)}
    /\ \A k \in StoreKey : Putting(t, k) <=> k = ExecutionKey(e)
    /\ t.puts[ExecutionKey(e)] \in ExecutionRecord
    /\ LET d == t.puts[ExecutionKey(e)] IN
          /\ d.claim_token = NoToken
          /\ d.attempt = Exec(e).attempt
          /\ d.current_step \in {Exec(e).current_step, NextStep[Exec(e).current_step]}
          /\ Ended(Exec(e)) => Ended(d)

\* t creates an execution.
StartsTx(t, e) ==
    /\ t.reads[ExecutionKey(e)] = 0
    /\ t.erases = {}
    /\ \A k \in StoreKey : Putting(t, k) <=> k = ExecutionKey(e)
    /\ t.puts[ExecutionKey(e)] \in ExecutionRecord
    /\ t.puts[ExecutionKey(e)].claim_token = NoToken
    /\ t.puts[ExecutionKey(e)].attempt = 0

\* t registers a definition.
DefinesTx(t) == t.erases = {} /\ \A k \in StoreKey : Putting(t, k) => k = DefinitionKey

\* The transaction of an API call.
ApiInv(t) ==
    /\ Reads(t)
    /\ \/ DefinesTx(t)
       \/ \E e \in Execution : StartsTx(t, e)
       \/ \E e \in Execution :
             /\ t.reads[ExecutionKey(e)] # Unread
             /\ Current(t, ExecutionKey(e)) => Exists(e) /\ EndsTx(t, e)

--------------------------------------------------------------------------------
\* The loops: where one is in run_once says what its transactions are.

\* The claim of a loop was committed by it, under its name.
OwnInv(name, c) ==
    /\ Exists(c.execution)
    /\ c.token[1] = name
    /\ c.token[2] <= Exec(c.execution).attempt

\* The handler's transaction before its result is staged, and with it.
HandlesTx(t, c) ==
    /\ Watches(t, c)
    /\ t.erases = {}
    /\ \A k \in StoreKey : ~Putting(t, k) /\ (k # ExecutionOf(c) => t.reads[k] = Unread)

FinalizesTx(t, c) ==
    /\ Watches(t, c)
    /\ Current(t, ExecutionOf(c)) =>
          /\ EndsTx(t, c.execution)
          /\ Current(t, HeartbeatOf(c))
          /\ \A k \in StoreKey : t.reads[k] # Unread => k \in {ExecutionOf(c), HeartbeatOf(c)}

\* A loop named name at p, with its claim, transactions and result.
LoopInv(name, p, c, t, d, kt, res) ==
    /\ p # "idle" => c \in Claim
    /\ p = "claiming" => ClaimsTx(t, c, name)
    /\ p \notin {"idle", "claiming"} => OwnInv(name, c)
    /\ p \notin {"stopping", "finalizing"} => res = "throw"
    /\ p = "handling" \/ (p = "stopping" /\ res # "throw") => HandlesTx(t, c)
    /\ p = "finalizing" => FinalizesTx(t, c)
    /\ p \in {"idle", "claiming", "finalizing"} => ~d /\ ~kt.open
    /\ kt.open => BeatsTx(kt, c)

\* Claims of one execution have tokens of their own.
ClaimsDiffer ==
    \A q, r \in Runner : q # r /\ Owns(q) /\ Owns(r) /\ claim[q].execution = claim[r].execution
        => claim[q].token # claim[r].token

\* The records carry their versions.
VersionInv ==
    \A k \in StoreKey : Live(records, k) => records[k].version = versions[k] /\ versions[k] # 0

\* A token names the attempt it was given out for; heartbeats are of no later
\* attempt, and of the newest one as long as its token is held.
ExecutionInv(e) ==
    /\ Exists(e) =>
          /\ Exec(e) \in ExecutionRecord
          /\ Exec(e).claim_token # NoToken =>
                Exec(e).status = "Running" /\ Exec(e).claim_token[2] = Exec(e).attempt
    /\ \A token \in Tokens :
          /\ Live(records, HeartbeatKey(e, token)) => Exists(e) /\ token[2] <= Exec(e).attempt
          /\ Exists(e) /\ token[2] = Exec(e).attempt =>
                (Live(records, HeartbeatKey(e, token)) <=> Exec(e).claim_token = token)

RecordInv == VersionInv /\ \A e \in Execution : ExecutionInv(e)

\* The inductive invariant.
RunInv ==
    /\ TypeOK
    /\ RecordInv
    /\ ClaimsDiffer
    /\ \A r \in Runner :
          LoopInv(NameOf[r], pc[r], claim[r], tx[r], due[r], ktx[r], result[r])
    /\ \A a \in Api : apiTx[a].open => ApiInv(apiTx[a])

--------------------------------------------------------------------------------
\* Keys and tokens.

\* A token is its name and its attempt.
LEMMA TokenParts ==
    /\ NoToken \notin Tokens
    /\ \A token \in Tokens :
          token[1] \in Name /\ token[2] \in 1 .. MaxClaims /\ token = Token(token[1], token[2])
    /\ \A n \in Name, a \in 1 .. MaxClaims :
          Token(n, a) \in Tokens /\ Token(n, a)[1] = n /\ Token(n, a)[2] = a
<1>1. \A n, a : Token(n, a)[1] = n /\ Token(n, a)[2] = a /\ Token(n, a) # NoToken
  BY DEF Token, NoToken
<1> QED
  BY <1>1 DEF Tokens

\* The keys of the three collections are distinct, and name their parts.
LEMMA KeysDistinct ==
    /\ DefinitionKey \in StoreKey
    /\ \A e \in Execution : ExecutionKey(e) \in StoreKey /\ ExecutionKey(e) # DefinitionKey
    /\ \A e \in Execution, token \in Tokens :
          HeartbeatKey(e, token) \in StoreKey /\ HeartbeatKey(e, token) # DefinitionKey
    /\ \A e, f \in Execution : ExecutionKey(e) = ExecutionKey(f) => e = f
    /\ \A e, f \in Execution, token \in Tokens : ExecutionKey(e) # HeartbeatKey(f, token)
    /\ \A e, f \in Execution, s, token \in Tokens :
          HeartbeatKey(e, s) = HeartbeatKey(f, token) => e = f /\ s = token
<1>1. \A e, token : /\ ExecutionKey(e)[1] = "execution" /\ ExecutionKey(e)[2] = e
                    /\ HeartbeatKey(e, token)[1] = "heartbeat"
                    /\ HeartbeatKey(e, token)[2] = e /\ HeartbeatKey(e, token)[3] = token
                    /\ DefinitionKey[1] = "definition"
  BY DEF ExecutionKey, HeartbeatKey, DefinitionKey
<1>2. \A e, f \in Execution : ExecutionKey(e) = ExecutionKey(f) => e = f
  BY <1>1
<1>3. \A e, f \in Execution, s, token \in Tokens :
          HeartbeatKey(e, s) = HeartbeatKey(f, token) => e = f /\ s = token
  BY <1>1
<1>4. /\ DefinitionKey \in StoreKey
      /\ \A e \in Execution : ExecutionKey(e) \in StoreKey
      /\ \A e \in Execution, token \in Tokens : HeartbeatKey(e, token) \in StoreKey
  BY DEF StoreKey
<1>5. "execution" # "heartbeat" /\ "execution" # "definition" /\ "heartbeat" # "definition"
  OBVIOUS
<1>6. \A e, f \in Execution, token \in Tokens :
          /\ ExecutionKey(e) # HeartbeatKey(f, token) /\ ExecutionKey(e) # DefinitionKey
          /\ HeartbeatKey(e, token) # DefinitionKey
  BY <1>1, <1>5
<1>7. \A e \in Execution : ExecutionKey(e) # DefinitionKey
  BY <1>1, <1>5
<1> QED
  BY <1>2, <1>3, <1>4, <1>6, <1>7

\* The keys of a claim.
LEMMA ClaimKeys ==
    ASSUME NEW c \in Claim
    PROVE  /\ c.execution \in Execution /\ c.step \in Step /\ c.token \in Tokens
           /\ ExecutionOf(c) \in StoreKey /\ HeartbeatOf(c) \in StoreKey
           /\ ExecutionOf(c) = ExecutionKey(c.execution)
           /\ HeartbeatOf(c) = HeartbeatKey(c.execution, c.token)
           /\ ExecutionOf(c) # HeartbeatOf(c)
           /\ c.token[2] \in Nat /\ c.token # NoToken
<1>1. c.execution \in Execution /\ c.step \in Step /\ c.token \in Tokens
  BY DEF Claim
<1>2. 1 .. MaxClaims \subseteq Nat
  BY WorkflowAssumption
<1> QED
  BY <1>1, <1>2, KeysDistinct, TokenParts DEF ExecutionOf, HeartbeatOf

--------------------------------------------------------------------------------
\* What a commit does.

\* A commit finds current what it has read, and changes what it has staged.
LEMMA Applied ==
    ASSUME TypeOK, NEW t \in Transaction, Apply(t)
    PROVE  /\ \A k \in StoreKey : t.reads[k] # Unread => Current(t, k)
           /\ \A k \in StoreKey : ~Putting(t, k) /\ k \notin t.erases =>
                 records'[k] = records[k] /\ versions'[k] = versions[k]
           /\ \A k \in StoreKey : k \in t.erases =>
                 ~Live(records, k)' /\ versions'[k] = versions[k] + 1
           /\ \A k \in StoreKey : Putting(t, k) /\ k \notin t.erases =>
                 /\ Live(records, k)' /\ versions'[k] = versions[k] + 1
                 /\ records'[k] = [version |-> versions[k] + 1, document |-> t.puts[k]]
           /\ \A k \in StoreKey : versions[k] \in Nat
           /\ records' \in [StoreKey -> Record \cup {Absent}]
           /\ versions' \in [StoreKey -> Nat]
<1>1. /\ Validates(versions, t)
      /\ records' = CommitRecords(records, versions, t)
      /\ versions' = CommitVersions(versions, t)
  BY DEF Apply
<1>2. records' \in [StoreKey -> Record \cup {Absent}] /\ versions' \in [StoreKey -> Nat]
  BY <1>1 DEF TypeOK, CommitRecords, CommitVersions, Transaction, Record, Putting
<1>3. \A k \in StoreKey : t.reads[k] # Unread => Current(t, k)
  BY <1>1 DEF Validates, Current
<1>4. \A k \in StoreKey : ~Putting(t, k) /\ k \notin t.erases =>
         records'[k] = records[k] /\ versions'[k] = versions[k]
  BY <1>1 DEF CommitRecords, CommitVersions, Staged
<1>5. \A k \in StoreKey : k \in t.erases =>
         ~Live(records, k)' /\ versions'[k] = versions[k] + 1
  BY <1>1 DEF CommitRecords, CommitVersions, Staged, Live
<1>6. ASSUME NEW k \in StoreKey, Putting(t, k), k \notin t.erases
      PROVE  /\ Live(records, k)' /\ versions'[k] = versions[k] + 1
             /\ records'[k] = [version |-> versions[k] + 1, document |-> t.puts[k]]
  <2>1. /\ versions'[k] = versions[k] + 1
        /\ records'[k] = [version |-> versions[k] + 1, document |-> t.puts[k]]
    BY <1>1, <1>6 DEF CommitRecords, CommitVersions, Staged
  <2>2. t.puts[k] \in StoreDoc /\ versions[k] + 1 \in Nat
    BY <1>6 DEF Transaction, Putting, TypeOK
  <2>3. records'[k] \in Record
    BY <2>1, <2>2 DEF Record
  <2> QED
    BY <2>1, <2>3, MarkerAssumption DEF Live
<1> QED
  BY <1>2, <1>3, <1>4, <1>5, <1>6 DEF TypeOK

\* So records go on carrying their versions.
LEMMA AppliedVersions ==
    ASSUME TypeOK, VersionInv, NEW t \in Transaction, Apply(t)
    PROVE  VersionInv'
<1>1. ASSUME NEW k \in StoreKey, Live(records, k)'
      PROVE  records'[k].version = versions'[k] /\ versions'[k] # 0
  <2>1. CASE k \in t.erases
    BY <1>1, <2>1, Applied
  <2>2. CASE Putting(t, k) /\ k \notin t.erases
    <3>1. /\ records'[k] = [version |-> versions[k] + 1, document |-> t.puts[k]]
          /\ versions'[k] = versions[k] + 1 /\ versions[k] \in Nat
      BY <2>2, Applied
    <3> QED
      BY <3>1
  <2>3. CASE ~Putting(t, k) /\ k \notin t.erases
    BY <1>1, <2>3, Applied DEF VersionInv, Live
  <2> QED
    BY <2>1, <2>2, <2>3
<1> QED
  BY <1>1 DEF VersionInv

\* The execution e goes forward.
Advances(e) ==
    /\ Exists(e)'
    /\ Exec(e)'.current_step \in {Exec(e).current_step, NextStep[Exec(e).current_step]}
    /\ Exec(e)'.attempt \in Exec(e).attempt .. Exec(e).attempt + 1
    /\ Ended(Exec(e)) => Ended(Exec(e)')

\* A step changes nothing, or versions; a change of an execution takes it
\* forward and its claim away from whoever has it.
Forward ==
    /\ \A k \in StoreKey : \/ records'[k] = records[k] /\ versions'[k] = versions[k]
                           \/ versions'[k] = versions[k] + 1
    /\ \A e \in Execution : Exists(e) =>
          /\ Advances(e)
          /\ versions'[ExecutionKey(e)] # versions[ExecutionKey(e)] =>
                \/ Exec(e)'.claim_token = NoToken
                \/ Exec(e)'.claim_token[2] > Exec(e).attempt

\* A step writes no heartbeat without the execution.
NoBeat ==
    \A e \in Execution, token \in Tokens :
        versions'[HeartbeatKey(e, token)] # versions[HeartbeatKey(e, token)]
            => versions'[ExecutionKey(e)] # versions[ExecutionKey(e)]

\* What a commit does not touch goes forward.
LEMMA Untouched ==
    ASSUME RecordInv, NEW e \in Execution,
           records'[ExecutionKey(e)] = records[ExecutionKey(e)],
           \A token \in Tokens :
               records'[HeartbeatKey(e, token)] = records[HeartbeatKey(e, token)]
    PROVE  /\ ExecutionInv(e)'
           /\ Exists(e)' <=> Exists(e)
           /\ Exists(e) => Advances(e)
<1>1. ExecutionInv(e)
  BY DEF RecordInv
<1>2. Exists(e)' = Exists(e) /\ Exec(e)' = Exec(e)
  BY DEF Exists, Exec, Live
<1>3. \A token \in Tokens :
         Live(records, HeartbeatKey(e, token))' = Live(records, HeartbeatKey(e, token))
  BY DEF Live
<1>4. ExecutionInv(e)'
  BY <1>1, <1>2, <1>3 DEF ExecutionInv
<1>5. Exists(e) => Exec(e).attempt \in Nat
  BY <1>1, WorkflowAssumption DEF ExecutionInv, ExecutionRecord
<1>6. Exists(e) => Exec(e).attempt \in Exec(e).attempt .. Exec(e).attempt + 1
  BY <1>5
<1> QED
  BY <1>2, <1>4, <1>6 DEF Advances

\* A commit that writes a record of the execution e writes records of no other.
LEMMA AppliedTo ==
    ASSUME TypeOK, RecordInv, NEW t \in Transaction, Apply(t), NEW e \in Execution,
           \A k \in StoreKey : Putting(t, k) \/ k \in t.erases =>
               k = ExecutionKey(e) \/ \E token \in Tokens : k = HeartbeatKey(e, token),
           ExecutionInv(e)', Exists(e)',
           versions'[ExecutionKey(e)] = versions[ExecutionKey(e)] + 1,
           Exists(e) =>
               /\ Advances(e)
               /\ \/ Exec(e)'.claim_token = NoToken
                  \/ Exec(e)'.claim_token[2] > Exec(e).attempt
    PROVE  RecordInv' /\ Forward /\ NoBeat
<1>1. \A f \in Execution \ {e} : ~Putting(t, ExecutionKey(f)) /\ ExecutionKey(f) \notin t.erases
  BY KeysDistinct
<1>2. \A f \in Execution \ {e}, token \in Tokens :
         ~Putting(t, HeartbeatKey(f, token)) /\ HeartbeatKey(f, token) \notin t.erases
  BY KeysDistinct
<1>3. \A f \in Execution \ {e} :
         /\ records'[ExecutionKey(f)] = records[ExecutionKey(f)]
         /\ versions'[ExecutionKey(f)] = versions[ExecutionKey(f)]
  BY <1>1, Applied, KeysDistinct
<1>4. \A f \in Execution \ {e}, token \in Tokens :
         /\ records'[HeartbeatKey(f, token)] = records[HeartbeatKey(f, token)]
         /\ versions'[HeartbeatKey(f, token)] = versions[HeartbeatKey(f, token)]
  BY <1>2, Applied, KeysDistinct
<1>5. \A f \in Execution \ {e} : ExecutionInv(f)' /\ (Exists(f) => Advances(f))
  BY <1>3, <1>4, Untouched
<1>6. RecordInv'
  BY <1>5, AppliedVersions DEF RecordInv
<1>7. \A k \in StoreKey : \/ records'[k] = records[k] /\ versions'[k] = versions[k]
                          \/ versions'[k] = versions[k] + 1
  BY Applied
<1>8. Forward
  BY <1>3, <1>5, <1>7 DEF Forward
<1>9. versions[ExecutionKey(e)] \in Nat
  BY KeysDistinct DEF TypeOK
<1>10. NoBeat
  BY <1>4, <1>9 DEF NoBeat
<1> QED
  BY <1>6, <1>8, <1>10

\* The commit of claim_stepsTx: the next attempt, with a heartbeat of its own.
LEMMA ClaimCommits ==
    ASSUME TypeOK, RecordInv, NEW c \in Claim, NEW name, NEW t \in Transaction,
           ClaimsTx(t, c, name), Apply(t)
    PROVE  /\ RecordInv' /\ Forward /\ NoBeat
           /\ Exists(c.execution) /\ Exec(c.execution).attempt < c.token[2]
           /\ Exists(c.execution)' /\ c.token[2] <= Exec(c.execution)'.attempt
<1> DEFINE e == c.execution
           ek == ExecutionKey(e)
           hk == HeartbeatKey(e, c.token)
           d == t.puts[ek]
<1>1. /\ e \in Execution /\ c.token \in Tokens /\ ek \in StoreKey /\ hk \in StoreKey
      /\ ek = ExecutionOf(c) /\ hk = HeartbeatOf(c) /\ ek # hk
      /\ c.token[2] \in Nat /\ c.token # NoToken
  BY ClaimKeys
<1>2. /\ Exists(e) /\ Exec(e).status = "Running" /\ Exec(e).attempt + 1 = c.token[2]
      /\ Exec(e).current_step = c.step
  BY <1>1, Applied DEF ClaimsTx
<1>3. Exec(e) \in ExecutionRecord /\ Exec(e).attempt \in Nat /\ ExecutionInv(e)
  <2>1. ExecutionInv(e)
    BY <1>1 DEF RecordInv
  <2>2. Exec(e) \in ExecutionRecord
    BY <1>2, <2>1 DEF ExecutionInv
  <2> QED
    BY <2>1, <2>2, WorkflowAssumption DEF ExecutionRecord
<1>4. /\ d \in ExecutionRecord /\ d.status = "Running" /\ d.claim_token = c.token
      /\ d.attempt = c.token[2] /\ d.current_step = c.step
  BY <1>1 DEF ClaimsTx
<1> HIDE DEF d
<1>5. /\ Putting(t, ek) /\ Putting(t, hk) /\ t.erases = {}
      /\ \A k \in StoreKey : Putting(t, k) => k \in {ek, hk}
  BY <1>1 DEF ClaimsTx
<1>6. /\ Exists(e)' /\ versions'[ek] = versions[ek] + 1
      /\ records'[ek] = [version |-> versions[ek] + 1, document |-> d]
      /\ Live(records, hk)'
  BY <1>1, <1>5, Applied DEF Exists, d
<1>7. Exec(e)' = d
  BY <1>6 DEF Exec
<1>8. ASSUME NEW token \in Tokens, token # c.token
      PROVE  /\ Live(records, HeartbeatKey(e, token))' = Live(records, HeartbeatKey(e, token))
             /\ Live(records, HeartbeatKey(e, token)) => token[2] < c.token[2]
  <2>1. HeartbeatKey(e, token) \in StoreKey /\ HeartbeatKey(e, token) \notin {ek, hk}
    BY <1>1, <1>8, KeysDistinct
  <2>2. records'[HeartbeatKey(e, token)] = records[HeartbeatKey(e, token)]
    BY <1>5, <2>1, Applied
  <2>3. token[2] \in Nat
    BY TokenParts, WorkflowAssumption
  <2>4. Live(records, HeartbeatKey(e, token)) => token[2] <= Exec(e).attempt
    BY <1>3 DEF ExecutionInv
  <2> QED
    BY <1>1, <1>2, <1>3, <2>2, <2>3, <2>4 DEF Live
<1>9. ASSUME NEW token \in Tokens
      PROVE  /\ Live(records, HeartbeatKey(e, token))' => token[2] <= d.attempt
             /\ token[2] = d.attempt =>
                   (Live(records, HeartbeatKey(e, token))' <=> d.claim_token = token)
  <2>1. CASE token = c.token
    BY <1>1, <1>4, <1>6, <2>1
  <2>2. CASE token # c.token
    <3>1. token[2] \in Nat
      BY TokenParts, WorkflowAssumption
    <3> QED
      BY <1>1, <1>4, <1>8, <2>2, <3>1
  <2> QED
    BY <2>1, <2>2
<1>10. ExecutionInv(e)'
  BY <1>4, <1>6, <1>7, <1>9 DEF ExecutionInv
<1>11. Advances(e) /\ Exec(e)'.claim_token[2] > Exec(e).attempt
  <2>1. d.attempt \in Exec(e).attempt .. Exec(e).attempt + 1 /\ d.claim_token[2] > Exec(e).attempt
    BY <1>1, <1>2, <1>3, <1>4
  <2>2. ~Ended(Exec(e))
    BY <1>2 DEF Ended, Terminal
  <2> QED
    BY <1>2, <1>4, <1>6, <1>7, <2>1, <2>2 DEF Advances
<1>12. RecordInv' /\ Forward /\ NoBeat
  BY <1>1, <1>5, <1>6, <1>10, <1>11, AppliedTo
<1>13. Exec(e).attempt < c.token[2] /\ c.token[2] <= Exec(e)'.attempt
  BY <1>1, <1>2, <1>3, <1>4, <1>7
<1> QED
  BY <1>2, <1>6, <1>12, <1>13

\* The commit of a result or of a cancel: the claim goes with its heartbeat.
LEMMA EndCommits ==
    ASSUME TypeOK, RecordInv, NEW e \in Execution, NEW t \in Transaction,
           Exists(e), EndsTx(t, e), Apply(t)
    PROVE  RecordInv' /\ Forward /\ NoBeat
<1> DEFINE ek == ExecutionKey(e)
           d == t.puts[ek]
           held == Exec(e).claim_token
<1>1. ek \in StoreKey /\ ExecutionInv(e) /\ Exec(e) \in ExecutionRecord /\ Exec(e).attempt \in Nat
  BY KeysDistinct, WorkflowAssumption DEF RecordInv, ExecutionInv, ExecutionRecord
<1>2. held \in Tokens \cup {NoToken}
  BY <1>1 DEF ExecutionRecord
<1>3. /\ d \in ExecutionRecord /\ d.claim_token = NoToken /\ d.attempt = Exec(e).attempt
      /\ d.current_step \in {Exec(e).current_step, NextStep[Exec(e).current_step]}
      /\ Ended(Exec(e)) => Ended(d)
  BY DEF EndsTx
<1> HIDE DEF d
<1>4. /\ Putting(t, ek) /\ \A k \in StoreKey : Putting(t, k) => k = ek
      /\ t.erases = IF held = NoToken THEN {} ELSE {HeartbeatKey(e, held)}
  BY <1>1 DEF EndsTx
<1>5. ek \notin t.erases
  BY <1>2, <1>4, KeysDistinct
<1>6. /\ Exists(e)' /\ versions'[ek] = versions[ek] + 1
      /\ records'[ek] = [version |-> versions[ek] + 1, document |-> d]
  BY <1>1, <1>4, <1>5, Applied DEF Exists, d
<1>7. Exec(e)' = d
  BY <1>6 DEF Exec
<1>8. ASSUME NEW token \in Tokens
      PROVE  /\ token = held => ~Live(records, HeartbeatKey(e, token))'
             /\ token # held =>
                   Live(records, HeartbeatKey(e, token))' = Live(records, HeartbeatKey(e, token))
  <2>1. HeartbeatKey(e, token) \in StoreKey /\ HeartbeatKey(e, token) # ek
    BY KeysDistinct
  <2>2. CASE token = held
    <3>1. HeartbeatKey(e, token) \in t.erases
      BY <1>4, <2>2, TokenParts
    <3> QED
      BY <2>1, <2>2, <3>1, Applied
  <2>3. CASE token # held
    <3>1. HeartbeatKey(e, token) \notin t.erases
      BY <1>2, <1>4, <2>3, KeysDistinct
    <3>2. records'[HeartbeatKey(e, token)] = records[HeartbeatKey(e, token)]
      BY <1>4, <2>1, <3>1, Applied
    <3> QED
      BY <2>3, <3>2 DEF Live
  <2> QED
    BY <2>2, <2>3
<1>9. ASSUME NEW token \in Tokens
      PROVE  /\ Live(records, HeartbeatKey(e, token))' => token[2] <= d.attempt
             /\ token[2] = d.attempt =>
                   (Live(records, HeartbeatKey(e, token))' <=> d.claim_token = token)
  <2>1. d.claim_token # token
    BY <1>3, TokenParts
  <2>2. /\ Live(records, HeartbeatKey(e, token)) => token[2] <= Exec(e).attempt
        /\ token[2] = Exec(e).attempt => (Live(records, HeartbeatKey(e, token)) <=> held = token)
    BY <1>1 DEF ExecutionInv
  <2> QED
    BY <1>3, <1>8, <2>1, <2>2
<1>10. ExecutionInv(e)'
  BY <1>3, <1>6, <1>7, <1>9 DEF ExecutionInv
<1>11. Advances(e) /\ Exec(e)'.claim_token = NoToken
  <2>1. d.attempt \in Exec(e).attempt .. Exec(e).attempt + 1
    BY <1>1, <1>3
  <2> QED
    BY <1>3, <1>6, <1>7, <2>1 DEF Advances
<1>12. \A k \in StoreKey : Putting(t, k) \/ k \in t.erases =>
          k = ek \/ \E token \in Tokens : k = HeartbeatKey(e, token)
  BY <1>2, <1>4
<1> QED
  BY <1>6, <1>10, <1>11, <1>12, AppliedTo

\* The commit of startTx: an execution that has no heartbeat yet.
LEMMA StartCommits ==
    ASSUME TypeOK, RecordInv, NEW e \in Execution, NEW t \in Transaction,
           StartsTx(t, e), Apply(t)
    PROVE  RecordInv' /\ Forward /\ NoBeat
<1> DEFINE ek == ExecutionKey(e)
           d == t.puts[ek]
<1>1. ek \in StoreKey /\ ExecutionInv(e)
  BY KeysDistinct DEF RecordInv
<1>2. ~Exists(e)
  <2>1. versions[ek] = 0
    BY <1>1, Applied DEF StartsTx, Current, Unread
  <2> QED
    BY <1>1, <2>1 DEF RecordInv, VersionInv, Exists
<1>3. d \in ExecutionRecord /\ d.claim_token = NoToken /\ d.attempt = 0
  BY DEF StartsTx
<1> HIDE DEF d
<1>4. Putting(t, ek) /\ t.erases = {} /\ \A k \in StoreKey : Putting(t, k) => k = ek
  BY <1>1 DEF StartsTx
<1>5. /\ Exists(e)' /\ versions'[ek] = versions[ek] + 1
      /\ records'[ek] = [version |-> versions[ek] + 1, document |-> d]
  BY <1>1, <1>4, Applied DEF Exists, d
<1>6. Exec(e)' = d
  BY <1>5 DEF Exec
<1>7. ASSUME NEW token \in Tokens
      PROVE  ~Live(records, HeartbeatKey(e, token))' /\ token[2] # 0
  <2>1. HeartbeatKey(e, token) \in StoreKey /\ HeartbeatKey(e, token) # ek
    BY KeysDistinct
  <2>2. records'[HeartbeatKey(e, token)] = records[HeartbeatKey(e, token)]
    BY <1>4, <2>1, Applied
  <2>3. ~Live(records, HeartbeatKey(e, token))
    BY <1>1, <1>2 DEF ExecutionInv
  <2> QED
    BY <2>2, <2>3, TokenParts DEF Live
<1>8. ExecutionInv(e)'
  BY <1>3, <1>5, <1>6, <1>7 DEF ExecutionInv
<1> QED
  BY <1>2, <1>4, <1>5, <1>8, AppliedTo

\* The commit of register_definitionTx touches no execution and no heartbeat.
LEMMA DefineCommits ==
    ASSUME TypeOK, RecordInv, NEW t \in Transaction, DefinesTx(t), Apply(t)
    PROVE  RecordInv' /\ Forward /\ NoBeat
<1>1. \A e \in Execution :
         /\ records'[ExecutionKey(e)] = records[ExecutionKey(e)]
         /\ versions'[ExecutionKey(e)] = versions[ExecutionKey(e)]
  BY Applied, KeysDistinct DEF DefinesTx
<1>2. \A e \in Execution, token \in Tokens :
         /\ records'[HeartbeatKey(e, token)] = records[HeartbeatKey(e, token)]
         /\ versions'[HeartbeatKey(e, token)] = versions[HeartbeatKey(e, token)]
  BY Applied, KeysDistinct DEF DefinesTx
<1>3. \A e \in Execution : ExecutionInv(e)' /\ (Exists(e) => Advances(e))
  BY <1>1, <1>2, Untouched
<1>4. RecordInv'
  BY <1>3, AppliedVersions DEF RecordInv
<1> QED
  BY <1>1, <1>2, <1>3, <1>4, Applied DEF Forward, NoBeat

\* The commit of keep_alive_stepTx writes the heartbeat of a claim that is held.
LEMMA BeatCommits ==
    ASSUME TypeOK, RecordInv, NEW c \in Claim, NEW t \in Transaction, BeatsTx(t, c), Apply(t)
    PROVE  /\ RecordInv' /\ Forward
           /\ \A k \in StoreKey \ {HeartbeatOf(c)} :
                 records'[k] = records[k] /\ versions'[k] = versions[k]
<1> DEFINE e == c.execution
           hk == HeartbeatKey(e, c.token)
<1>1. /\ e \in Execution /\ c.token \in Tokens /\ hk \in StoreKey /\ c.token # NoToken
      /\ hk = HeartbeatOf(c) /\ c.token[2] \in Nat /\ ExecutionOf(c) \in StoreKey
  BY ClaimKeys
<1>2. Held(c)
  BY <1>1, Applied DEF BeatsTx
<1>3. /\ Exists(e) /\ Exec(e).claim_token = c.token /\ ExecutionInv(e)
      /\ Exec(e).attempt = c.token[2]
  BY <1>1, <1>2 DEF Held, RecordInv, ExecutionInv
<1>4. Live(records, hk)' /\ versions'[hk] = versions[hk] + 1
  BY <1>1, Applied DEF BeatsTx
<1>5. \A k \in StoreKey \ {hk} : records'[k] = records[k] /\ versions'[k] = versions[k]
  BY <1>1, Applied DEF BeatsTx
<1>6. \A f \in Execution : records'[ExecutionKey(f)] = records[ExecutionKey(f)]
                           /\ versions'[ExecutionKey(f)] = versions[ExecutionKey(f)]
  BY <1>1, <1>5, KeysDistinct
<1>7. \A f \in Execution, token \in Tokens : f # e \/ token # c.token =>
         records'[HeartbeatKey(f, token)] = records[HeartbeatKey(f, token)]
  BY <1>1, <1>5, KeysDistinct
<1>8. \A f \in Execution : Exists(f)' = Exists(f) /\ Exec(f)' = Exec(f)
  BY <1>6 DEF Exists, Exec, Live
<1>9. Live(records, hk)
  BY <1>1, <1>3 DEF ExecutionInv
<1>10. \A f \in Execution, token \in Tokens :
          Live(records, HeartbeatKey(f, token))' = Live(records, HeartbeatKey(f, token))
  <2> TAKE f \in Execution, token \in Tokens
  <2>1. CASE f = e /\ token = c.token
    BY <1>4, <1>9, <2>1
  <2>2. CASE f # e \/ token # c.token
    BY <1>7, <2>2 DEF Live
  <2> QED
    BY <2>1, <2>2
<1>11. \A f \in Execution : ExecutionInv(f)'
  BY <1>8, <1>10 DEF RecordInv, ExecutionInv
<1>12. \A f \in Execution : Exists(f) => Advances(f)
  <2> TAKE f \in Execution
  <2>1. Exists(f) => Exec(f).attempt \in Nat
    BY WorkflowAssumption DEF RecordInv, ExecutionInv, ExecutionRecord
  <2>2. Exists(f) => Exec(f).attempt \in Exec(f).attempt .. Exec(f).attempt + 1
    BY <2>1
  <2> QED
    BY <1>8, <2>2 DEF Advances
<1>13. RecordInv'
  BY <1>11, AppliedVersions DEF RecordInv
<1>14. Forward
  BY <1>4, <1>5, <1>6, <1>12 DEF Forward
<1> QED
  BY <1>1, <1>5, <1>13, <1>14

--------------------------------------------------------------------------------
\* What the others are told by a step.

\* The locals of the loop r.
Same(r) ==
    /\ pc'[r] = pc[r] /\ claim'[r] = claim[r] /\ tx'[r] = tx[r] /\ due'[r] = due[r]
    /\ ktx'[r] = ktx[r] /\ result'[r] = result[r]

\* A step that goes forward leaves a loop's claim as it is, or no longer held
\* and out of date for its transactions.
LEMMA LoopKeeps ==
    ASSUME TypeOK, RecordInv, Forward, NEW r \in Runner, Same(r),
           LoopInv(NameOf[r], pc[r], claim[r], tx[r], due[r], ktx[r], result[r]),
           pc[r] = "finalizing" =>
               (versions'[HeartbeatOf(claim[r])] # versions[HeartbeatOf(claim[r])]
                    => versions'[ExecutionOf(claim[r])] # versions[ExecutionOf(claim[r])])
    PROVE  LoopInv(NameOf[r], pc[r], claim[r], tx[r], due[r], ktx[r], result[r])'
<1> DEFINE c == claim[r]
           e == claim[r].execution
           ek == ExecutionOf(claim[r])
<1> USE DEF Same
<1>1. ASSUME NEW t \in Transaction, Reads(t)
      PROVE  /\ \A k \in StoreKey : t.reads[k] <= versions'[k]
             /\ \A k \in StoreKey : t.reads[k] = versions'[k]
                   => t.reads[k] = versions[k] /\ records'[k] = records[k]
                      /\ versions'[k] = versions[k]
  <2>1. \A k \in StoreKey : versions[k] \in Nat /\ t.reads[k] \in Nat \cup {Unread}
    BY DEF TypeOK, Transaction
  <2> QED
    BY <1>1, <2>1 DEF Reads, Forward, Unread
<1>2. ASSUME pc[r] # "idle"
      PROVE  /\ c \in Claim /\ ek \in StoreKey /\ e \in Execution /\ ek = ExecutionKey(e)
             /\ c.token \in Tokens /\ c.token[2] \in Nat /\ c.token # NoToken
             /\ HeartbeatOf(c) \in StoreKey
  BY <1>2, ClaimKeys DEF LoopInv
<1>3. ASSUME pc[r] # "idle", versions'[ek] = versions[ek]
      PROVE  Exists(e)' = Exists(e) /\ Exec(e)' = Exec(e)
  <2>1. records'[ek] = records[ek]
    <3>1. versions[ek] \in Nat
      BY <1>2, <1>3 DEF TypeOK
    <3> QED
      BY <1>2, <1>3, <3>1 DEF Forward
  <2> QED
    BY <1>2, <1>3, <2>1 DEF Exists, Exec, Live
<1>4. ASSUME Owns(r)
      PROVE  /\ Exists(e)' /\ Exec(e).attempt <= Exec(e)'.attempt
             /\ c.token[1] = NameOf[r] /\ c.token[2] <= Exec(e)'.attempt
             /\ versions'[ek] # versions[ek] => Exec(e)'.claim_token # c.token
  <2>1. /\ Exists(e) /\ c.token[1] = NameOf[r] /\ c.token[2] <= Exec(e).attempt
        /\ pc[r] # "idle"
    BY <1>4 DEF LoopInv, OwnInv, Owns
  <2>2. Exec(e).attempt \in Nat
    <3>1. Exec(e) \in ExecutionRecord
      BY <1>2, <2>1 DEF RecordInv, ExecutionInv
    <3> QED
      BY <3>1, WorkflowAssumption DEF ExecutionRecord
  <2>3. /\ Exists(e)' /\ Exec(e)'.attempt \in Exec(e).attempt .. Exec(e).attempt + 1
        /\ versions'[ek] # versions[ek] =>
              Exec(e)'.claim_token = NoToken \/ Exec(e)'.claim_token[2] > Exec(e).attempt
    BY <1>2, <2>1 DEF Forward, Advances
  <2>4. Exec(e)'.attempt \in Nat /\ Exec(e).attempt <= Exec(e)'.attempt
    BY <2>2, <2>3
  <2>5. c.token[2] <= Exec(e)'.attempt
    BY <1>2, <2>1, <2>2, <2>4
  <2>6. ASSUME versions'[ek] # versions[ek], Exec(e)'.claim_token = c.token
        PROVE  FALSE
    BY <1>2, <2>1, <2>2, <2>3, <2>6
  <2> QED
    BY <2>1, <2>3, <2>4, <2>5, <2>6
<1>5. ASSUME pc[r] = "claiming"
      PROVE  ClaimsTx(tx[r], c, NameOf[r])'
  <2>1. ClaimsTx(tx[r], c, NameOf[r]) /\ tx[r] \in Transaction
    BY <1>5 DEF LoopInv, TypeOK
  <2>2. Current(tx[r], ek)' => Current(tx[r], ek) /\ versions'[ek] = versions[ek]
    BY <1>1, <1>2, <1>5, <2>1 DEF ClaimsTx, Current
  <2>3. Reads(tx[r])'
    BY <1>1, <2>1 DEF ClaimsTx, Reads
  <2> QED
    BY <1>3, <1>5, <2>1, <2>2, <2>3 DEF ClaimsTx, ExecutionOf, HeartbeatOf, Putting
<1>6. ASSUME ktx[r].open
      PROVE  BeatsTx(ktx[r], c)'
  <2>1. BeatsTx(ktx[r], c) /\ ktx[r] \in Transaction /\ pc[r] # "idle"
    BY <1>6 DEF LoopInv, TypeOK
  <2>2. Current(ktx[r], ek)' => Current(ktx[r], ek) /\ versions'[ek] = versions[ek]
    BY <1>1, <1>2, <2>1 DEF BeatsTx, Current
  <2>3. Reads(ktx[r])'
    BY <1>1, <2>1 DEF BeatsTx, Reads
  <2> QED
    BY <1>3, <2>1, <2>2, <2>3 DEF BeatsTx, Held, ExecutionOf, HeartbeatOf, Putting
<1>7. ASSUME Owns(r), Watches(tx[r], c)
      PROVE  Watches(tx[r], c)' /\ (Current(tx[r], ek)' => Current(tx[r], ek))
  <2>1. tx[r] \in Transaction /\ pc[r] # "idle"
    BY <1>7 DEF TypeOK, Owns
  <2>2. Current(tx[r], ek)' => Current(tx[r], ek) /\ versions'[ek] = versions[ek]
    BY <1>1, <1>2, <1>7, <2>1 DEF Watches, Current
  <2>3. Reads(tx[r])'
    BY <1>1, <1>7, <2>1 DEF Watches, Reads
  <2>4. Current(tx[r], ek)' => Held(c)'
    BY <1>3, <1>7, <2>1, <2>2 DEF Watches, Held
  <2>5. Exec(e)'.claim_token = c.token => Current(tx[r], ek)'
    <3>1. ASSUME Exec(e)'.claim_token = c.token
          PROVE  Current(tx[r], ek)'
      <4>1. versions'[ek] = versions[ek]
        BY <1>4, <1>7, <3>1
      <4>2. Exec(e).claim_token = c.token
        BY <1>3, <2>1, <3>1, <4>1
      <4> QED
        BY <1>7, <4>1, <4>2 DEF Watches, Current, ExecutionOf
    <3> QED
      BY <3>1
  <2> QED
    BY <1>7, <2>2, <2>3, <2>4, <2>5 DEF Watches, ExecutionOf
<1>8. ASSUME pc[r] = "handling" \/ (pc[r] = "stopping" /\ result[r] # "throw")
      PROVE  HandlesTx(tx[r], c)'
  <2>1. HandlesTx(tx[r], c) /\ Owns(r)
    BY <1>8 DEF LoopInv, Owns
  <2>2. Watches(tx[r], c)'
    BY <1>7, <2>1 DEF HandlesTx
  <2> QED
    BY <2>1, <2>2 DEF HandlesTx, Putting, ExecutionOf
<1>9. ASSUME pc[r] = "finalizing"
      PROVE  FinalizesTx(tx[r], c)'
  <2>1. FinalizesTx(tx[r], c) /\ Owns(r) /\ pc[r] # "idle"
    BY <1>9 DEF LoopInv, Owns
  <2>2. Watches(tx[r], c)' /\ (Current(tx[r], ek)' => Current(tx[r], ek))
    BY <1>7, <2>1 DEF FinalizesTx
  <2>3. ASSUME Current(tx[r], ek)'
        PROVE  EndsTx(tx[r], e)' /\ Current(tx[r], HeartbeatOf(c))'
    <3>1. versions'[ek] = versions[ek]
      BY <2>2, <2>3 DEF Current, ExecutionOf
    <3>2. Exec(e)' = Exec(e)
      BY <1>3, <2>1, <3>1
    <3>3. EndsTx(tx[r], e) /\ Current(tx[r], HeartbeatOf(c))
      BY <2>1, <2>2, <2>3 DEF FinalizesTx
    <3>4. versions'[HeartbeatOf(c)] = versions[HeartbeatOf(c)]
      BY <1>9, <3>1
    <3> QED
      BY <3>2, <3>3, <3>4 DEF EndsTx, Current, Putting, HeartbeatOf, Ended
  <2> QED
    BY <2>1, <2>2, <2>3 DEF FinalizesTx, ExecutionOf, HeartbeatOf
<1>10. Owns(r) => OwnInv(NameOf[r], c)'
  BY <1>4 DEF OwnInv
<1> HIDE DEF c, ek
<1> QED
  BY <1>2, <1>5, <1>6, <1>8, <1>9, <1>10 DEF LoopInv, Owns, c

\* An API call that was begun is as it was, or out of date.
LEMMA ApiKeeps ==
    ASSUME TypeOK, Forward, NEW a \in Api, ApiInv(apiTx[a]), apiTx'[a] = apiTx[a]
    PROVE  ApiInv(apiTx[a])'
<1> DEFINE t == apiTx[a]
<1>1. \A k \in StoreKey : versions[k] \in Nat /\ t.reads[k] \in Nat \cup {Unread}
  BY DEF TypeOK, Transaction
<1>2. Reads(t)'
  BY <1>1 DEF ApiInv, Reads, Forward, Unread
<1>3. ASSUME NEW e \in Execution, Current(t, ExecutionKey(e))'
      PROVE  Current(t, ExecutionKey(e)) /\ Exists(e)' = Exists(e) /\ Exec(e)' = Exec(e)
  <2>1. ExecutionKey(e) \in StoreKey
    BY KeysDistinct
  <2>2. /\ t.reads[ExecutionKey(e)] = versions'[ExecutionKey(e)]
        /\ t.reads[ExecutionKey(e)] <= versions[ExecutionKey(e)]
    BY <1>3, <2>1 DEF Current, ApiInv, Reads
  <2>3. /\ records'[ExecutionKey(e)] = records[ExecutionKey(e)]
        /\ versions'[ExecutionKey(e)] = versions[ExecutionKey(e)]
    BY <1>1, <2>1, <2>2 DEF Forward, Unread
  <2> QED
    BY <2>2, <2>3 DEF Current, Exists, Exec, Live
<1>4. DefinesTx(t) => DefinesTx(t)'
  BY DEF DefinesTx, Putting
<1>5. \A e \in Execution : StartsTx(t, e) => StartsTx(t, e)'
  BY DEF StartsTx, Putting
<1>6. ASSUME NEW e \in Execution, t.reads[ExecutionKey(e)] # Unread,
             Current(t, ExecutionKey(e)) => Exists(e) /\ EndsTx(t, e)
      PROVE  /\ t'.reads[ExecutionKey(e)] # Unread
             /\ Current(t, ExecutionKey(e))' => Exists(e)' /\ EndsTx(t, e)'
  BY <1>3, <1>6 DEF EndsTx, Putting, Ended
<1> QED
  BY <1>2, <1>4, <1>5, <1>6 DEF ApiInv

\* A step of the loop r that goes forward, spares the heartbeats of finalizing
\* loops, and leaves r with a claim it had, or of a new attempt.
LEMMA LoopSteps ==
    ASSUME RunInv, NEW r \in Runner, TypeOK', RecordInv', Forward, apiTx' = apiTx,
           \A q \in Runner \ {r} : Same(q),
           \A q \in Runner \ {r} : pc[q] = "finalizing" =>
               (versions'[HeartbeatOf(claim[q])] # versions[HeartbeatOf(claim[q])]
                    => versions'[ExecutionOf(claim[q])] # versions[ExecutionOf(claim[q])]),
           LoopInv(NameOf[r], pc[r], claim[r], tx[r], due[r], ktx[r], result[r])',
           Owns(r)' =>
               /\ claim'[r] = claim[r]
               /\ ~Owns(r) => Exec(claim[r].execution).attempt < claim[r].token[2]
    PROVE  RunInv'
<1>1. TypeOK /\ RecordInv /\ ClaimsDiffer
  BY DEF RunInv
<1>2. \A q \in Runner \ {r} :
         LoopInv(NameOf[q], pc[q], claim[q], tx[q], due[q], ktx[q], result[q])'
  BY <1>1, LoopKeeps DEF RunInv
<1>3. \A a \in Api : apiTx'[a].open => ApiInv(apiTx[a])'
  BY <1>1, ApiKeeps DEF RunInv
<1>4. ASSUME NEW q \in Runner \ {r}, Owns(q)', Owns(r)',
             claim'[q].execution = claim'[r].execution
      PROVE  claim'[q].token # claim'[r].token
  <2>1. Owns(q) /\ claim'[q] = claim[q] /\ claim'[r] = claim[r]
    BY <1>4 DEF Same, Owns
  <2>2. CASE Owns(r)
    BY <1>1, <1>4, <2>1, <2>2 DEF ClaimsDiffer
  <2>3. CASE ~Owns(r)
    <3>1. Exec(claim[r].execution).attempt < claim[r].token[2]
      BY <1>4, <2>3
    <3>2. claim[q] \in Claim /\ OwnInv(NameOf[q], claim[q])
      BY <2>1 DEF RunInv, LoopInv, Owns
    <3>3. claim[q].token[2] <= Exec(claim[r].execution).attempt /\ claim[q].token[2] \in Nat
          /\ Exec(claim[r].execution) \in ExecutionRecord
      BY <1>1, <1>4, <2>1, <3>2, ClaimKeys DEF OwnInv, RecordInv, ExecutionInv
    <3>4. Exec(claim[r].execution).attempt \in Nat
      BY <3>3, WorkflowAssumption DEF ExecutionRecord
    <3>5. ASSUME claim[q].token = claim[r].token
          PROVE  FALSE
      BY <3>1, <3>3, <3>4, <3>5
    <3> QED
      BY <2>1, <3>5
  <2> QED
    BY <2>2, <2>3
<1>5. ClaimsDiffer'
  <2>1. ASSUME NEW q \in Runner, NEW s \in Runner, q # s, Owns(q)', Owns(s)',
               claim'[q].execution = claim'[s].execution
        PROVE  claim'[q].token # claim'[s].token
    <3>1. CASE q = r
      BY <1>4, <2>1, <3>1
    <3>2. CASE s = r
      BY <1>4, <2>1, <3>2
    <3>3. CASE q # r /\ s # r
      BY <1>1, <2>1, <3>3 DEF ClaimsDiffer, Same, Owns
    <3> QED
      BY <3>1, <3>2, <3>3
  <2> QED
    BY <2>1 DEF ClaimsDiffer
<1> QED
  BY <1>2, <1>3, <1>5 DEF RunInv

\* A step that changes no record goes forward.
LEMMA Unchanged ==
    ASSUME RunInv, UNCHANGED <<records, versions>>
    PROVE  RecordInv' /\ Forward /\ NoBeat
<1>1. RecordInv
  BY DEF RunInv
<1>2. \A e \in Execution : ExecutionInv(e)' /\ (Exists(e) => Advances(e))
  BY <1>1, Untouched
<1>3. VersionInv'
  BY <1>1 DEF RecordInv, VersionInv, Live
<1> QED
  BY <1>2, <1>3 DEF RecordInv, Forward, NoBeat

\* A step of the loop r on its own locals.
LEMMA LocalSteps ==
    ASSUME RunInv, NEW r \in Runner, TypeOK', UNCHANGED <<records, versions, apiTx>>,
           \A q \in Runner \ {r} : Same(q),
           LoopInv(NameOf[r], pc'[r], claim'[r], tx'[r], due'[r], ktx'[r], result'[r]),
           Owns(r)' => Owns(r) /\ claim'[r] = claim[r]
    PROVE  RunInv'
<1>1. RecordInv' /\ Forward
  BY Unchanged
<1>2. LoopInv(NameOf[r], pc[r], claim[r], tx[r], due[r], ktx[r], result[r])'
  BY DEF LoopInv, ClaimsTx, OwnInv, HandlesTx, FinalizesTx, BeatsTx, EndsTx, Watches, Held,
     Reads, Current, Exists, Exec, Live, Putting, ExecutionOf, HeartbeatOf, Ended
<1>3. \A k : versions'[k] = versions[k]
  OBVIOUS
<1> QED
  BY <1>1, <1>2, <1>3, LoopSteps

\* The type of a transaction that is over.
LEMMA ClosedTx == Closed \in Transaction /\ ~Closed.open
BY DEF Closed, Transaction, Unread

\* Once idle, a loop has nothing.
LEMMA IdleInv ==
    ASSUME NEW r \in Runner, TypeOK, Idle(r)
    PROVE  /\ \A q \in Runner \ {r} : Same(q)
           /\ ~Owns(r)'
           /\ LoopInv(NameOf[r], pc[r], claim[r], tx[r], due[r], ktx[r], result[r])'
           /\ pc' \in [Runner -> {"idle", "claiming", "starting", "started", "handling",
                                  "stopping", "finalizing"}]
           /\ claim' \in [Runner -> Claim \cup {NoClaim}] /\ tx' \in [Runner -> Transaction]
           /\ due' \in [Runner -> BOOLEAN] /\ ktx' \in [Runner -> Transaction]
           /\ error' \in [Runner -> BOOLEAN] /\ result' \in [Runner -> Result]
<1>1. /\ pc'[r] = "idle" /\ ~due'[r] /\ ~ktx'[r].open /\ result'[r] = "throw"
      /\ \A q \in Runner \ {r} : Same(q)
  BY ClosedTx DEF Idle, TypeOK, Same
<1>2. LoopInv(NameOf[r], pc[r], claim[r], tx[r], due[r], ktx[r], result[r])'
  BY <1>1 DEF LoopInv
<1>3. ~Owns(r)'
  BY <1>1 DEF Owns
<1> QED
  BY <1>1, <1>2, <1>3, ClosedTx DEF Idle, TypeOK, Result

\* A run of a loop that ends without a commit.
LEMMA IdleSteps ==
    ASSUME RunInv, NEW r \in Runner, Idle(r), UNCHANGED <<records, versions, now, apiTx>>
    PROVE  RunInv'
<1>1. TypeOK
  BY DEF RunInv
<1>2. TypeOK'
  BY <1>1, IdleInv DEF TypeOK
<1>3. RecordInv' /\ Forward
  BY Unchanged
<1> QED
  BY <1>1, <1>2, <1>3, IdleInv, LoopSteps

--------------------------------------------------------------------------------
\* The transactions of the store's operations.

NoPuts == [k \in StoreKey |-> Absent]
NoReads == [k \in StoreKey |-> Unread]

\* What has been read, once the committed records of ks are read too.
WithReads(reads, ks) ==
    [k \in StoreKey |-> IF k \in ks /\ reads[k] = Unread THEN ReadVersion(records, k)
                        ELSE reads[k]]

\* The transaction t, by its parts.
IsTx(t, reads, puts, erases) ==
    t \in Transaction /\ t.reads = reads /\ t.puts = puts /\ t.erases = erases

\* begin(): nothing is read or staged.
LEMMA BegunTx == IsTx(Begun, NoReads, NoPuts, {})
BY DEF Begun, Closed, Transaction, IsTx, NoPuts, NoReads, Unread

\* A scan of records reads their versions.
LEMMA RecordReadTx ==
    ASSUME TypeOK, NEW ks, NEW t, NEW reads, NEW puts, NEW erases, IsTx(t, reads, puts, erases)
    PROVE  IsTx(RecordRead(records, t, ks), WithReads(reads, ks), puts, erases)
<1>1. \A k \in StoreKey : ReadVersion(records, k) \in Nat
  BY DEF TypeOK, ReadVersion, Live, Record
<1>2. WithReads(reads, ks) \in [StoreKey -> Nat \cup {Unread}]
  BY <1>1 DEF IsTx, Transaction, WithReads
<1>3. RecordRead(records, t, ks) = [t EXCEPT !.reads = WithReads(reads, ks)]
  BY DEF RecordRead, WithReads, IsTx
<1> HIDE DEF WithReads
<1> QED
  BY <1>2, <1>3 DEF IsTx, Transaction

\* get() of a key that is not staged reads it.
LEMMA GetTx ==
    ASSUME TypeOK, NEW k \in StoreKey, NEW t, NEW reads, NEW puts, NEW erases,
           IsTx(t, reads, puts, erases), puts[k] = Absent, k \notin erases
    PROVE  IsTx(Get(records, t, k), WithReads(reads, {k}), puts, erases)
<1>1. ~Staged(t, k)
  BY DEF Staged, Putting, IsTx
<1>2. Get(records, t, k) = RecordRead(records, t, {k})
  BY <1>1 DEF Get
<1> QED
  BY <1>2, RecordReadTx

\* put() is a get() and a staged document.
LEMMA PutTx ==
    ASSUME TypeOK, NEW k \in StoreKey, NEW t, NEW reads, NEW puts, NEW erases,
           IsTx(t, reads, puts, erases), puts[k] = Absent, k \notin erases, NEW d \in StoreDoc
    PROVE  IsTx(Put(records, t, k, d), WithReads(reads, {k}), [puts EXCEPT ![k] = d], erases)
<1> DEFINE g == Get(records, t, k)
<1>1. IsTx(g, WithReads(reads, {k}), puts, erases)
  BY GetTx
<1>2. Put(records, t, k, d) = [g EXCEPT !.puts = [g.puts EXCEPT ![k] = d],
                                        !.erases = g.erases \ {k}]
  BY DEF Put
<1> HIDE DEF g
<1>3. g \in Transaction /\ g.erases \ {k} = erases /\ g.puts = puts
  BY <1>1 DEF IsTx
<1>4. [g EXCEPT !.puts = [g.puts EXCEPT ![k] = d], !.erases = g.erases \ {k}] \in Transaction
  BY <1>3 DEF Transaction
<1> QED
  BY <1>1, <1>2, <1>3, <1>4 DEF IsTx, Transaction

\* erase() is a get() and a staged erase.
LEMMA EraseTx ==
    ASSUME TypeOK, NEW k \in StoreKey, NEW t, NEW reads, NEW puts, NEW erases,
           IsTx(t, reads, puts, erases), puts[k] = Absent, k \notin erases
    PROVE  IsTx(Erase(records, t, k), WithReads(reads, {k}), puts, erases \cup {k})
<1> DEFINE g == Get(records, t, k)
<1>1. IsTx(g, WithReads(reads, {k}), puts, erases)
  BY GetTx
<1>2. Erase(records, t, k) = [g EXCEPT !.puts = [g.puts EXCEPT ![k] = Absent],
                                       !.erases = g.erases \cup {k}]
  BY DEF Erase
<1> HIDE DEF g
<1>3. /\ g \in Transaction /\ g.reads = WithReads(reads, {k})
      /\ g.puts = puts /\ g.erases = erases
  BY <1>1 DEF IsTx
<1>4. [g.puts EXCEPT ![k] = Absent] = puts
  <2>1. puts \in [StoreKey -> StoreDoc \cup {Absent}]
    BY <1>3 DEF Transaction
  <2> QED
    BY <1>3, <2>1
<1>5. Erase(records, t, k) = [g EXCEPT !.puts = puts, !.erases = erases \cup {k}]
  BY <1>2, <1>3, <1>4
<1>6. puts \in [StoreKey -> StoreDoc \cup {Absent}] /\ erases \cup {k} \in SUBSET StoreKey
  BY <1>3 DEF Transaction
<1>7. [g EXCEPT !.puts = puts, !.erases = erases \cup {k}] \in Transaction
  BY <1>3, <1>6 DEF Transaction
<1>8. /\ Erase(records, t, k).reads = WithReads(reads, {k})
      /\ Erase(records, t, k).puts = puts /\ Erase(records, t, k).erases = erases \cup {k}
  BY <1>3, <1>5 DEF Transaction
<1> QED
  BY <1>5, <1>7, <1>8 DEF IsTx

\* What is read of k is the version of k, and 0 without a record.
LEMMA ReadVersionIs ==
    ASSUME TypeOK, RecordInv, NEW k \in StoreKey
    PROVE  /\ ReadVersion(records, k) \in Nat /\ ReadVersion(records, k) # Unread
           /\ ReadVersion(records, k) <= versions[k]
           /\ Live(records, k) => ReadVersion(records, k) = versions[k]
           /\ ~Live(records, k) => ReadVersion(records, k) = 0
<1>1. versions[k] \in Nat /\ (Live(records, k) => records[k].version = versions[k])
  BY DEF TypeOK, RecordInv, VersionInv
<1> QED
  BY <1>1 DEF ReadVersion, Unread

\* Reading more reads no version ahead, reads what it names, and changes no
\* version that was read.
LEMMA WithReadsIs ==
    ASSUME TypeOK, RecordInv, NEW reads \in [StoreKey -> Nat \cup {Unread}], NEW ks,
           \A k \in StoreKey : reads[k] <= versions[k]
    PROVE  /\ WithReads(reads, ks) \in [StoreKey -> Nat \cup {Unread}]
           /\ \A k \in StoreKey : WithReads(reads, ks)[k] <= versions[k]
           /\ \A k \in StoreKey : k \in ks => WithReads(reads, ks)[k] # Unread
           /\ \A k \in StoreKey : reads[k] # Unread \/ k \notin ks => WithReads(reads, ks)[k] = reads[k]
           /\ \A k \in StoreKey : reads[k] = Unread /\ k \in ks =>
                 WithReads(reads, ks)[k] = ReadVersion(records, k)
BY ReadVersionIs DEF WithReads

\* The reads of a transaction that has read nothing are ahead of nothing.
LEMMA NoReadsIs ==
    ASSUME TypeOK
    PROVE  NoReads \in [StoreKey -> Nat \cup {Unread}] /\ \A k \in StoreKey : NoReads[k] <= versions[k]
BY DEF TypeOK, NoReads, Unread

\* What a transaction that has staged nothing sees of an execution.
LEMMA ExecInIs ==
    ASSUME NEW e \in Execution, NEW t, t.erases = {}, ~Putting(t, ExecutionKey(e))
    PROVE  /\ Exists(e) => ExecIn(t, e) = Exec(e)
           /\ ~Exists(e) => ExecIn(t, e) = Absent
BY DEF ExecIn, Visible, Exists, Exec

\* The end of complete_stepTx, fail_stepTx and cancelTx, begun after no put:
\* it clears the claim that is recorded now, and reads what it writes.
LEMMA FinalizedTx ==
    ASSUME TypeOK, RecordInv, NEW e \in Execution, Exists(e), NEW t, NEW reads,
           IsTx(t, reads, NoPuts, {}), \A k \in StoreKey : reads[k] <= versions[k],
           NEW d \in ExecutionRecord, d.attempt = Exec(e).attempt,
           d.current_step \in {Exec(e).current_step, NextStep[Exec(e).current_step]},
           Ended(Exec(e)) => Ended(d)
    PROVE  LET u == Finalized(t, e, d)
               token == Exec(e).claim_token
           IN  /\ u \in Transaction /\ Reads(u) /\ EndsTx(u, e)
               /\ u.reads[ExecutionKey(e)] # Unread
               /\ reads[ExecutionKey(e)] # Unread => u.reads[ExecutionKey(e)] = reads[ExecutionKey(e)]
               /\ \A k \in StoreKey : k \notin u.erases /\ k # ExecutionKey(e) => u.reads[k] = reads[k]
               /\ \A k \in StoreKey : k \in u.erases /\ reads[k] = Unread =>
                     u.reads[k] = ReadVersion(records, k)
<1> DEFINE ek == ExecutionKey(e)
           token == Exec(e).claim_token
           hk == HeartbeatKey(e, token)
           g == Get(records, t, ek)
           f == Unclaimed(d)
           p == Put(records, g, ek, f)
           u == Finalized(t, e, d)
           rs1 == WithReads(reads, {ek})
           rs2 == WithReads(rs1, {ek})
           rs3 == WithReads(rs2, {hk})
           puts == [NoPuts EXCEPT ![ek] = f]
<1>1. ek \in StoreKey /\ Exec(e) \in ExecutionRecord
  BY KeysDistinct DEF RecordInv, ExecutionInv
<1>2. /\ f \in ExecutionRecord /\ f.claim_token = NoToken /\ f.attempt = d.attempt
      /\ f.current_step = d.current_step /\ f.status = d.status
  BY DEF Unclaimed, ExecutionRecord
<1>3. f \in StoreDoc /\ f # Absent
  BY <1>2, MarkerAssumption DEF StoreDoc
<1>4. reads \in [StoreKey -> Nat \cup {Unread}]
  BY DEF IsTx, Transaction
<1>5. ExecIn(t, e) = Exec(e)
  <2>1. t.erases = {} /\ ~Putting(t, ek)
    BY <1>1 DEF IsTx, NoPuts, Putting
  <2> QED
    BY <2>1, ExecInIs
<1>6. u = IF token = NoToken THEN p ELSE Erase(records, p, hk)
  BY <1>5 DEF Finalized, EraseHeartbeat
<1> HIDE DEF f, u
<1>7. IsTx(g, rs1, NoPuts, {})
  BY <1>1, GetTx DEF NoPuts
<1>8. IsTx(p, rs2, puts, {})
  <2> HIDE DEF g, rs1
  <2>1. NoPuts[ek] = Absent
    BY <1>1 DEF NoPuts
  <2> QED
    BY <1>1, <1>3, <1>7, <2>1, PutTx
<1>9. /\ rs1 \in [StoreKey -> Nat \cup {Unread}] /\ \A k \in StoreKey : rs1[k] <= versions[k]
      /\ rs1[ek] # Unread /\ (reads[ek] # Unread => rs1[ek] = reads[ek])
      /\ \A k \in StoreKey : k # ek => rs1[k] = reads[k]
  BY <1>1, <1>4, WithReadsIs
<1>10. /\ rs2 \in [StoreKey -> Nat \cup {Unread}] /\ \A k \in StoreKey : rs2[k] <= versions[k]
       /\ rs2[ek] # Unread /\ (reads[ek] # Unread => rs2[ek] = reads[ek])
       /\ \A k \in StoreKey : k # ek => rs2[k] = reads[k]
  <2> HIDE DEF rs1
  <2> QED
    BY <1>1, <1>9, WithReadsIs
<1> HIDE DEF g, p, rs1, rs2
<1>11. \A k \in StoreKey : puts[k] # Absent <=> k = ek
  BY <1>1, <1>3 DEF NoPuts
<1>12. puts[ek] = f
  BY <1>1 DEF NoPuts
<1>13. CASE token = NoToken
  <2>1. IsTx(u, rs2, puts, {})
    BY <1>6, <1>8, <1>13
  <2> HIDE DEF puts
  <2>2. u \in Transaction /\ u.reads = rs2 /\ u.puts = puts /\ u.erases = {}
    BY <2>1 DEF IsTx
  <2>3. Reads(u)
    BY <1>10, <2>2 DEF Reads
  <2>4. EndsTx(u, e)
    BY <1>2, <1>11, <1>12, <1>13, <2>2 DEF EndsTx, Putting, Ended
  <2> QED
    BY <1>1, <1>10, <2>2, <2>3, <2>4 DEF u
<1>14. CASE token # NoToken
  <2>1. token \in Tokens /\ hk \in StoreKey /\ hk # ek
    BY <1>1, <1>14, KeysDistinct DEF ExecutionRecord
  <2>2. puts[hk] = Absent
    BY <1>11, <2>1
  <2> HIDE DEF puts
  <2>3. IsTx(Erase(records, p, hk), rs3, puts, {} \cup {hk})
    BY <1>8, <2>1, <2>2, EraseTx
  <2>4. u \in Transaction /\ u.reads = rs3 /\ u.puts = puts /\ u.erases = {hk}
    BY <1>6, <1>14, <2>3 DEF IsTx
  <2>5. /\ \A k \in StoreKey : rs3[k] <= versions[k]
        /\ \A k \in StoreKey : k # hk => rs3[k] = rs2[k]
        /\ rs2[hk] = Unread => rs3[hk] = ReadVersion(records, hk)
    BY <1>10, <2>1, WithReadsIs
  <2> HIDE DEF rs3
  <2>6. Reads(u)
    BY <2>4, <2>5 DEF Reads
  <2>7. EndsTx(u, e)
    BY <1>2, <1>11, <1>12, <1>14, <2>4 DEF EndsTx, Putting, Ended
  <2> QED
    BY <1>1, <1>10, <2>1, <2>4, <2>5, <2>6, <2>7 DEF u
<1> QED
  BY <1>13, <1>14

--------------------------------------------------------------------------------
\* The claim.

\* claim_stepsTx stages the next attempt of an execution that is claimable.
LEMMA ClaimStepsClaims ==
    ASSUME TypeOK, RecordInv, NEW e \in ToClaim, Exec(e).attempt < MaxClaims, NEW name \in Name
    PROVE  LET t == ClaimStepsTx(Begun, e, name)
               c == [execution |-> e, step |-> Exec(e).current_step,
                     token |-> Claimed(e, name).claim_token]
           IN  t \in Transaction /\ c \in Claim /\ ClaimsTx(t, c, name)
<1> DEFINE ks == {ExecutionKey(f) : f \in {g \in Execution : Exists(g)}}
           d == Claimed(e, name)
           token == Token(name, Exec(e).attempt + 1)
           c == [execution |-> e, step |-> Exec(e).current_step, token |-> d.claim_token]
           ek == ExecutionKey(e)
           hk == HeartbeatKey(e, token)
           b == [claim_expires_at |-> now + Lease]
           scanned == RecordRead(records, Begun, ks)
           p == Put(records, scanned, ek, d)
           t == ClaimStepsTx(Begun, e, name)
           rs1 == WithReads(NoReads, ks)
           rs2 == WithReads(rs1, {ek})
           rs3 == WithReads(rs2, {hk})
           puts1 == [NoPuts EXCEPT ![ek] = d]
           puts2 == [puts1 EXCEPT ![hk] = b]
<1>1. e \in Execution /\ Exists(e) /\ Exec(e).status = "Running" /\ ek \in StoreKey
  BY KeysDistinct DEF ToClaim, Claimable
<1>2. Exec(e) \in ExecutionRecord /\ Exec(e).attempt \in Nat /\ MaxClaims \in Nat
  BY <1>1, WorkflowAssumption DEF RecordInv, ExecutionInv, ExecutionRecord
<1>3. Exec(e).attempt + 1 \in 1 .. MaxClaims
  BY <1>2
<1>4. /\ token \in Tokens /\ token[1] = name /\ token[2] = Exec(e).attempt + 1
      /\ hk \in StoreKey /\ hk # ek
  BY <1>1, <1>3, TokenParts, KeysDistinct
<1>5. /\ d.attempt = Exec(e).attempt + 1 /\ d.claim_token = token /\ d.status = "Running"
      /\ d.current_step = Exec(e).current_step
  BY <1>1, <1>2 DEF Claimed, ExecutionRecord
<1>6. d \in ExecutionRecord
  <2>1. now + Lease \in Nat
    BY WorkflowAssumption DEF TypeOK
  <2>2. Exec(e).attempt + 1 \in 0 .. MaxClaims
    BY <1>2, <1>3
  <2> QED
    BY <1>2, <1>4, <2>1, <2>2 DEF Claimed, ExecutionRecord
<1>7. b \in StoreDoc /\ d \in StoreDoc /\ b # Absent /\ d # Absent
  <2>1. b \in HeartbeatRecord
    BY WorkflowAssumption DEF TypeOK, HeartbeatRecord
  <2> QED
    BY <1>6, <2>1, MarkerAssumption DEF StoreDoc
<1>8. c \in Claim /\ c.execution = e /\ c.step = Exec(e).current_step /\ c.token = token
  BY <1>1, <1>2, <1>4, <1>5 DEF Claim, ExecutionRecord
<1>9. t = Put(records, p, hk, b)
  BY <1>5 DEF ClaimStepsTx, PutHeartbeat
<1> HIDE DEF t, c, b, d, token
<1>10. /\ IsTx(scanned, rs1, NoPuts, {})
       /\ rs1 \in [StoreKey -> Nat \cup {Unread}] /\ \A k \in StoreKey : rs1[k] <= versions[k]
  BY BegunTx, RecordReadTx, NoReadsIs, WithReadsIs
<1> HIDE DEF scanned, rs1
<1>11. IsTx(p, rs2, puts1, {})
  <2>1. NoPuts[ek] = Absent
    BY <1>1 DEF NoPuts
  <2> QED
    BY <1>1, <1>7, <1>10, <2>1, PutTx
<1>12. /\ rs2 \in [StoreKey -> Nat \cup {Unread}] /\ \A k \in StoreKey : rs2[k] <= versions[k]
       /\ rs2[ek] # Unread
  BY <1>1, <1>10, WithReadsIs
<1>13. puts1[ek] = d /\ \A k \in StoreKey \ {ek} : puts1[k] = Absent
  BY <1>1 DEF NoPuts
<1>14. puts1 \in [StoreKey -> StoreDoc \cup {Absent}]
  BY <1>11 DEF IsTx, Transaction
<1> HIDE DEF p, rs2, puts1
<1>15. IsTx(t, rs3, puts2, {})
  <2>1. puts1[hk] = Absent
    BY <1>4, <1>13
  <2> QED
    BY <1>4, <1>7, <1>9, <1>11, <2>1, PutTx
<1>16. (\A k \in StoreKey : rs3[k] <= versions[k]) /\ rs3[ek] # Unread
  BY <1>1, <1>4, <1>12, WithReadsIs
<1>17. puts2[ek] = d /\ puts2[hk] = b /\ \A k \in StoreKey \ {ek, hk} : puts2[k] = Absent
  BY <1>1, <1>4, <1>13, <1>14
<1> HIDE DEF rs3, puts2
<1>18. ExecutionOf(c) = ek /\ HeartbeatOf(c) = hk
  BY <1>8 DEF ExecutionOf, HeartbeatOf
<1>19. t \in Transaction /\ t.reads = rs3 /\ t.puts = puts2 /\ t.erases = {}
  BY <1>15 DEF IsTx
<1>20. Reads(t) /\ t.reads[ek] # Unread
  BY <1>16, <1>19 DEF Reads
<1>21. \A k \in StoreKey : Putting(t, k) <=> k \in {ek, hk}
  BY <1>7, <1>17, <1>19 DEF Putting
<1>22. t.puts[ek] = d
  BY <1>17, <1>19
<1>23. ClaimsTx(t, c, name)
  BY <1>1, <1>4, <1>5, <1>6, <1>8, <1>18, <1>19, <1>20, <1>21, <1>22 DEF ClaimsTx
<1> QED
  BY <1>8, <1>19, <1>23 DEF t, c, d

\* A loop that claims.
LEMMA ClaimStepsKeeps ==
    ASSUME RunInv, NEW r \in Runner, ClaimSteps(r)
    PROVE  RunInv'
<1>1. TypeOK /\ RecordInv /\ NameOf[r] \in Name
  BY RunnerAssumption DEF RunInv
<1>2. PICK e \in ToClaim :
        /\ Exec(e).attempt < MaxClaims
        /\ tx' = [tx EXCEPT ![r] = ClaimStepsTx(Begun, e, NameOf[r])]
        /\ claim' = [claim EXCEPT ![r] =
                [execution |-> e, step |-> Exec(e).current_step,
                 token |-> Claimed(e, NameOf[r]).claim_token]]
  BY DEF ClaimSteps
<1>3. /\ tx'[r] \in Transaction /\ claim'[r] \in Claim /\ ClaimsTx(tx'[r], claim'[r], NameOf[r])
      /\ tx' = [tx EXCEPT ![r] = tx'[r]] /\ claim' = [claim EXCEPT ![r] = claim'[r]]
  <2>1. /\ tx'[r] = ClaimStepsTx(Begun, e, NameOf[r])
        /\ claim'[r] = [execution |-> e, step |-> Exec(e).current_step,
                        token |-> Claimed(e, NameOf[r]).claim_token]
    BY <1>1, <1>2 DEF TypeOK
  <2>2. ClaimStepsTx(Begun, e, NameOf[r]) \in Transaction
    BY <1>1, <1>2, ClaimStepsClaims
  <2> QED
    BY <1>1, <1>2, <2>1, <2>2, ClaimStepsClaims
<1>4. /\ pc[r] = "idle" /\ pc' = [pc EXCEPT ![r] = "claiming"]
      /\ UNCHANGED <<records, versions, now, due, ktx, error, result, apiTx>>
  BY DEF ClaimSteps
<1>5. \A q \in Runner \ {r} : Same(q)
  BY <1>1, <1>3, <1>4 DEF TypeOK, Same
<1>6. TypeOK'
  BY <1>1, <1>3, <1>4 DEF TypeOK
<1>7. pc'[r] = "claiming" /\ result'[r] = "throw" /\ ~due'[r] /\ ~ktx'[r].open
  BY <1>1, <1>4 DEF TypeOK, RunInv, LoopInv
<1>8. LoopInv(NameOf[r], pc'[r], claim'[r], tx'[r], due'[r], ktx'[r], result'[r])
  BY <1>3, <1>7 DEF LoopInv
<1>9. ~Owns(r)'
  BY <1>7 DEF Owns
<1> QED
  BY <1>4, <1>5, <1>6, <1>8, <1>9, LocalSteps

\* A commit that writes no heartbeat without its execution spares every result.
LEMMA Spared ==
    ASSUME RunInv, NoBeat, NEW q \in Runner, pc[q] = "finalizing"
    PROVE  versions'[HeartbeatOf(claim[q])] # versions[HeartbeatOf(claim[q])]
               => versions'[ExecutionOf(claim[q])] # versions[ExecutionOf(claim[q])]
<1>1. claim[q] \in Claim
  BY DEF RunInv, LoopInv
<1> QED
  BY <1>1, ClaimKeys DEF NoBeat

\* A loop whose claim is committed.
LEMMA CommitClaimKeeps ==
    ASSUME RunInv, NEW r \in Runner, CommitClaim(r)
    PROVE  RunInv' /\ Forward
<1>1. /\ TypeOK /\ RecordInv
      /\ LoopInv(NameOf[r], pc[r], claim[r], tx[r], due[r], ktx[r], result[r])
  BY DEF RunInv
<1>2. /\ pc[r] = "claiming" /\ Apply(tx[r]) /\ pc' = [pc EXCEPT ![r] = "starting"]
      /\ tx' = [tx EXCEPT ![r] = Closed] /\ due' = [due EXCEPT ![r] = TRUE]
      /\ UNCHANGED <<now, claim, ktx, error, result, apiTx>>
  BY DEF CommitClaim
<1>3. tx[r] \in Transaction /\ claim[r] \in Claim /\ ClaimsTx(tx[r], claim[r], NameOf[r])
  BY <1>1, <1>2 DEF LoopInv, TypeOK
<1>4. /\ RecordInv' /\ Forward /\ NoBeat
      /\ Exec(claim[r].execution).attempt < claim[r].token[2]
      /\ Exists(claim[r].execution)' /\ claim[r].token[2] <= Exec(claim[r].execution)'.attempt
  BY <1>1, <1>2, <1>3, ClaimCommits
<1>5. TypeOK'
  BY <1>1, <1>2, <1>3, Applied, ClosedTx DEF TypeOK
<1>6. \A q \in Runner \ {r} : Same(q)
  BY <1>1, <1>2 DEF TypeOK, Same
<1>7. pc'[r] = "starting" /\ claim'[r] = claim[r] /\ ~ktx'[r].open /\ result'[r] = "throw"
  BY <1>1, <1>2 DEF TypeOK, LoopInv
<1>8. OwnInv(NameOf[r], claim[r])'
  BY <1>3, <1>4, <1>7 DEF OwnInv, ClaimsTx
<1>9. LoopInv(NameOf[r], pc[r], claim[r], tx[r], due[r], ktx[r], result[r])'
  BY <1>3, <1>7, <1>8 DEF LoopInv
<1> QED
  BY <1>2, <1>4, <1>5, <1>6, <1>7, <1>9, Spared, LoopSteps

--------------------------------------------------------------------------------
\* The keep-alive.

\* A transaction that has staged nothing sees what is committed: require_claim
\* then says that the execution is held under the claim.
LEMMA HoldsIsHeld ==
    ASSUME NEW r \in Runner, NEW t, t.erases = {},
           ~Putting(t, ExecutionKey(claim[r].execution)), claim[r] \in Claim, HoldsClaim(r, t)
    PROVE  Held(claim[r])
<1>1. claim[r].execution \in Execution
  BY ClaimKeys
<1>2. ExecIn(t, claim[r].execution) # Absent
  BY DEF HoldsClaim, RequireClaim
<1>3. Exists(claim[r].execution) /\ ExecIn(t, claim[r].execution) = Exec(claim[r].execution)
  BY <1>1, <1>2, ExecInIs
<1> QED
  BY <1>3 DEF HoldsClaim, RequireClaim, Held

\* Nothing is staged in a transaction just begun.
LEMMA BegunStagesNothing == Begun.erases = {} /\ \A k \in StoreKey : ~Putting(Begun, k)
BY BegunTx DEF IsTx, NoPuts, Putting

\* keep_alive_stepTx reads the execution and writes the heartbeat.
LEMMA KeepAliveBeats ==
    ASSUME TypeOK, RecordInv, NEW c \in Claim, Held(c)
    PROVE  LET t == KeepAliveStepTx(Begun, c.execution, c.token)
           IN  t \in Transaction /\ BeatsTx(t, c)
<1> DEFINE ek == ExecutionKey(c.execution)
           hk == HeartbeatKey(c.execution, c.token)
           b == [claim_expires_at |-> now + Lease]
           g == Get(records, Begun, ek)
           t == KeepAliveStepTx(Begun, c.execution, c.token)
           rs1 == WithReads(NoReads, {ek})
           rs2 == WithReads(rs1, {hk})
           puts == [NoPuts EXCEPT ![hk] = b]
<1>1. /\ ek \in StoreKey /\ hk \in StoreKey /\ ek # hk
      /\ ek = ExecutionOf(c) /\ hk = HeartbeatOf(c)
  BY ClaimKeys
<1>2. b \in StoreDoc /\ b # Absent
  <2>1. b \in HeartbeatRecord
    BY WorkflowAssumption DEF TypeOK, HeartbeatRecord
  <2> QED
    BY <2>1, MarkerAssumption DEF StoreDoc
<1>3. t = Put(records, g, hk, b)
  BY DEF KeepAliveStepTx, PutHeartbeat
<1>4. NoPuts[ek] = Absent /\ NoPuts[hk] = Absent
  BY <1>1 DEF NoPuts
<1>5. IsTx(g, rs1, NoPuts, {})
  BY <1>1, <1>4, BegunTx, GetTx
<1>6. /\ rs1 \in [StoreKey -> Nat \cup {Unread}] /\ \A k \in StoreKey : rs1[k] <= versions[k]
      /\ rs1[ek] # Unread
  BY <1>1, NoReadsIs, WithReadsIs
<1> HIDE DEF t, g, rs1, b
<1>7. IsTx(t, rs2, puts, {})
  BY <1>1, <1>2, <1>3, <1>4, <1>5, PutTx
<1>8. (\A k \in StoreKey : rs2[k] <= versions[k]) /\ rs2[ek] # Unread
  BY <1>1, <1>6, WithReadsIs
<1>9. \A k \in StoreKey : puts[k] # Absent <=> k = hk
  BY <1>1, <1>2 DEF NoPuts
<1> HIDE DEF rs2, puts
<1>10. t \in Transaction /\ t.reads = rs2 /\ t.puts = puts /\ t.erases = {}
  BY <1>7 DEF IsTx
<1>11. BeatsTx(t, c)
  BY <1>1, <1>8, <1>9, <1>10 DEF BeatsTx, Reads, Putting
<1> QED
  BY <1>10, <1>11 DEF t

\* A keep-alive thread whose wait timed out.
LEMMA KeepAliveDueKeeps ==
    ASSUME RunInv, NEW r \in Runner, KeepAliveDue(r)
    PROVE  RunInv'
<1>1. TypeOK /\ LoopInv(NameOf[r], pc[r], claim[r], tx[r], due[r], ktx[r], result[r])
  BY DEF RunInv
<1>2. /\ pc[r] \in {"started", "handling"} /\ due' = [due EXCEPT ![r] = TRUE]
      /\ UNCHANGED <<records, versions, now, pc, claim, tx, ktx, error, result, apiTx>>
  BY DEF KeepAliveDue
<1>3. TypeOK' /\ \A q \in Runner \ {r} : Same(q)
  BY <1>1, <1>2 DEF TypeOK, Same
<1>4. LoopInv(NameOf[r], pc'[r], claim'[r], tx'[r], due'[r], ktx'[r], result'[r])
  BY <1>1, <1>2 DEF LoopInv
<1> QED
  BY <1>2, <1>3, <1>4, LocalSteps DEF Owns

\* A keep-alive that begins has read a claim that is held.
LEMMA KeepAliveKeeps ==
    ASSUME RunInv, NEW r \in Runner, KeepAlive(r)
    PROVE  RunInv'
<1>1. /\ TypeOK /\ RecordInv
      /\ LoopInv(NameOf[r], pc[r], claim[r], tx[r], due[r], ktx[r], result[r])
  BY DEF RunInv
<1>2. /\ due[r] /\ HoldsClaim(r, Begun) /\ due' = [due EXCEPT ![r] = FALSE]
      /\ ktx' = [ktx EXCEPT ![r] = KeepAliveStepTx(Begun, claim[r].execution, claim[r].token)]
      /\ UNCHANGED <<records, versions, now, pc, claim, tx, error, result, apiTx>>
  BY DEF KeepAlive
<1>3. Owns(r) /\ pc[r] # "finalizing" /\ claim[r] \in Claim
  BY <1>1, <1>2 DEF LoopInv, Owns
<1>4. Held(claim[r])
  BY <1>2, <1>3, ClaimKeys, BegunStagesNothing, HoldsIsHeld
<1>5. /\ ktx'[r] = KeepAliveStepTx(Begun, claim[r].execution, claim[r].token)
      /\ KeepAliveStepTx(Begun, claim[r].execution, claim[r].token) \in Transaction
      /\ BeatsTx(ktx'[r], claim[r])
  BY <1>1, <1>2, <1>3, <1>4, KeepAliveBeats DEF TypeOK
<1>6. TypeOK' /\ \A q \in Runner \ {r} : Same(q)
  BY <1>1, <1>2, <1>5 DEF TypeOK, Same
<1>7. ~due'[r]
  BY <1>1, <1>2 DEF TypeOK
<1>8. LoopInv(NameOf[r], pc'[r], claim'[r], tx'[r], due'[r], ktx'[r], result'[r])
  BY <1>1, <1>2, <1>3, <1>5, <1>7 DEF LoopInv, Owns
<1> QED
  BY <1>2, <1>3, <1>6, <1>8, LocalSteps DEF Owns

\* What keep_alive.start() makes of where the loop is.
LEMMA KeptIs ==
    ASSUME TypeOK, NEW r \in Runner, Kept(r)
    PROVE  /\ pc' \in [Runner -> {"idle", "claiming", "starting", "started", "handling",
                                  "stopping", "finalizing"}]
           /\ \A q \in Runner \ {r} : pc'[q] = pc[q]
           /\ pc'[r] = IF pc[r] = "starting" THEN "started" ELSE pc[r]
BY DEF TypeOK, Kept

\* A keep-alive that throws leaves its error behind.
LEMMA KeepAliveFailsKeeps ==
    ASSUME RunInv, NEW r \in Runner, KeepAliveFails(r)
    PROVE  RunInv'
<1>1. TypeOK /\ LoopInv(NameOf[r], pc[r], claim[r], tx[r], due[r], ktx[r], result[r])
  BY DEF RunInv
<1>2. /\ due[r] \/ ktx[r].open
      /\ due' = [due EXCEPT ![r] = FALSE] /\ ktx' = [ktx EXCEPT ![r] = Closed]
      /\ error' = [error EXCEPT ![r] = TRUE] /\ Kept(r)
      /\ UNCHANGED <<records, versions, now, claim, tx, result, apiTx>>
  BY DEF KeepAliveFails
<1>3. Owns(r) /\ pc[r] # "finalizing"
  BY <1>1, <1>2 DEF LoopInv, Owns
<1>4. TypeOK' /\ \A q \in Runner \ {r} : Same(q)
  BY <1>1, <1>2, KeptIs, ClosedTx DEF TypeOK, Same
<1>5. ~due'[r] /\ ~ktx'[r].open /\ Owns(r)'
  BY <1>1, <1>2, <1>3, KeptIs, ClosedTx DEF TypeOK, Owns
<1>6. LoopInv(NameOf[r], pc'[r], claim'[r], tx'[r], due'[r], ktx'[r], result'[r])
  BY <1>1, <1>2, <1>3, <1>5, KeptIs DEF LoopInv, Owns
<1> QED
  BY <1>2, <1>3, <1>4, <1>6, LocalSteps

\* The commit of a keep-alive changes no execution and no other heartbeat.
LEMMA CommitKeepAliveKeeps ==
    ASSUME RunInv, NEW r \in Runner, CommitKeepAlive(r)
    PROVE  RunInv' /\ Forward
<1> DEFINE c == claim[r]
           e == claim[r].execution
           ek == ExecutionOf(claim[r])
<1>1. /\ TypeOK /\ RecordInv
      /\ LoopInv(NameOf[r], pc[r], claim[r], tx[r], due[r], ktx[r], result[r])
  BY DEF RunInv
<1>2. /\ ktx[r].open /\ Apply(ktx[r]) /\ ktx' = [ktx EXCEPT ![r] = Closed] /\ Kept(r)
      /\ UNCHANGED <<now, claim, tx, due, error, result, apiTx>>
  BY DEF CommitKeepAlive
<1>3. /\ Owns(r) /\ pc[r] # "finalizing" /\ c \in Claim /\ BeatsTx(ktx[r], c)
      /\ ktx[r] \in Transaction /\ OwnInv(NameOf[r], c)
  BY <1>1, <1>2 DEF LoopInv, Owns, TypeOK
<1>4. /\ RecordInv' /\ Forward
      /\ \A k \in StoreKey \ {HeartbeatOf(c)} : records'[k] = records[k] /\ versions'[k] = versions[k]
  BY <1>1, <1>2, <1>3, BeatCommits
<1>5. TypeOK' /\ \A q \in Runner \ {r} : Same(q)
  BY <1>1, <1>2, <1>3, Applied, KeptIs, ClosedTx DEF TypeOK, Same
<1>6. ek \in StoreKey /\ ek # HeartbeatOf(c) /\ ek = ExecutionKey(e)
  BY <1>3, ClaimKeys
<1>7. records'[ek] = records[ek] /\ versions'[ek] = versions[ek]
  BY <1>4, <1>6
<1>8. Exists(e)' = Exists(e) /\ Exec(e)' = Exec(e) /\ claim' = claim /\ tx' = tx
  BY <1>2, <1>6, <1>7 DEF Exists, Exec, Live
<1>9. OwnInv(NameOf[r], c)'
  BY <1>3, <1>8 DEF OwnInv
<1>10. ASSUME HandlesTx(tx[r], c)
       PROVE  HandlesTx(tx[r], c)'
  <2>1. Reads(tx[r])'
    <3>1. \A k \in StoreKey : versions[k] \in Nat /\ tx[r].reads[k] \in Nat \cup {Unread}
      BY <1>1 DEF TypeOK, Transaction
    <3>2. \A k \in StoreKey : tx[r].reads[k] <= versions[k]
      BY <1>10 DEF HandlesTx, Watches, Reads
    <3>3. \A k \in StoreKey : versions'[k] = versions[k] \/ versions'[k] = versions[k] + 1
      BY <1>4 DEF Forward
    <3>4. \A k \in StoreKey : tx[r].reads[k] <= versions'[k]
      BY <3>1, <3>2, <3>3 DEF Unread
    <3> QED
      BY <1>8, <3>4 DEF Reads
  <2>2. /\ Current(tx[r], ek)' = Current(tx[r], ek) /\ Held(c)' = Held(c)
        /\ tx'[r].reads[ek] = tx[r].reads[ek]
    BY <1>7, <1>8 DEF Current, Held, ExecutionOf
  <2>3. Watches(tx[r], c)'
    BY <1>8, <1>10, <2>1, <2>2 DEF HandlesTx, Watches, ExecutionOf
  <2> QED
    BY <1>8, <1>10, <2>3 DEF HandlesTx, Putting, ExecutionOf
<1>11. LoopInv(NameOf[r], pc[r], claim[r], tx[r], due[r], ktx[r], result[r])'
  <2>1. ~ktx'[r].open /\ Owns(r)' /\ pc'[r] # "finalizing" /\ pc'[r] \notin {"idle", "claiming"}
    BY <1>1, <1>2, <1>3, KeptIs, ClosedTx DEF TypeOK, Owns
  <2>2. result'[r] = result[r] /\ claim'[r] \in Claim
    BY <1>2, <1>3
  <2>3. pc'[r] \notin {"stopping", "finalizing"} => result'[r] = "throw"
    BY <1>1, <1>2, KeptIs DEF LoopInv
  <2>4. pc'[r] = "handling" \/ (pc'[r] = "stopping" /\ result'[r] # "throw") => HandlesTx(tx[r], c)'
    BY <1>1, <1>2, <1>10, KeptIs DEF LoopInv
  <2> QED
    BY <1>9, <2>1, <2>2, <2>3, <2>4 DEF LoopInv
<1>12. ASSUME NEW q \in Runner \ {r}, pc[q] = "finalizing"
       PROVE  versions'[HeartbeatOf(claim[q])] = versions[HeartbeatOf(claim[q])]
  <2>1. claim[q] \in Claim /\ Owns(q)
    BY <1>12 DEF RunInv, LoopInv, Owns
  <2>2. claim[q].execution = e => claim[q].token # c.token
    BY <1>3, <2>1 DEF RunInv, ClaimsDiffer
  <2>3. HeartbeatOf(claim[q]) # HeartbeatOf(c) /\ HeartbeatOf(claim[q]) \in StoreKey
    BY <1>3, <2>1, <2>2, ClaimKeys, KeysDistinct
  <2> QED
    BY <1>4, <2>3
<1>13. claim'[r] = claim[r] /\ apiTx' = apiTx
  BY <1>2
<1> HIDE DEF c, e, ek
<1> QED
  BY <1>3, <1>4, <1>5, <1>11, <1>12, <1>13, LoopSteps

--------------------------------------------------------------------------------
\* The handler and its result.

\* revalidate_claimed_step reads the execution while it is held.
LEMMA RevalidateHandles ==
    ASSUME TypeOK, RecordInv, NEW c \in Claim, Held(c)
    PROVE  LET t == Get(records, Begun, ExecutionKey(c.execution))
           IN  t \in Transaction /\ HandlesTx(t, c)
<1> DEFINE ek == ExecutionKey(c.execution)
           t == Get(records, Begun, ek)
           rs == WithReads(NoReads, {ek})
<1>1. ek \in StoreKey /\ ek = ExecutionOf(c)
  BY ClaimKeys
<1>2. NoPuts[ek] = Absent /\ NoReads[ek] = Unread
  BY <1>1 DEF NoPuts, NoReads
<1>3. IsTx(t, rs, NoPuts, {})
  BY <1>1, <1>2, BegunTx, GetTx
<1>4. /\ \A k \in StoreKey : rs[k] <= versions[k]
      /\ rs[ek] # Unread /\ rs[ek] = ReadVersion(records, ek)
      /\ \A k \in StoreKey : k # ek => rs[k] = NoReads[k]
  BY <1>1, <1>2, NoReadsIs, WithReadsIs
<1>5. rs[ek] = versions[ek]
  BY <1>1, <1>4, ReadVersionIs DEF Held, Exists
<1>6. \A k \in StoreKey : k # ek => rs[k] = Unread
  BY <1>4 DEF NoReads
<1> HIDE DEF t, rs
<1>7. t \in Transaction /\ t.reads = rs /\ t.puts = NoPuts /\ t.erases = {}
  BY <1>3 DEF IsTx
<1>8. Watches(t, c)
  BY <1>1, <1>4, <1>5, <1>7 DEF Watches, Reads, Current
<1>9. \A k \in StoreKey : ~Putting(t, k)
  BY <1>7 DEF Putting, NoPuts
<1>10. HandlesTx(t, c)
  BY <1>1, <1>6, <1>7, <1>8, <1>9 DEF HandlesTx
<1> QED
  BY <1>7, <1>10 DEF t

\* A loop that revalidates its claim runs its handler, or throws.
LEMMA RevalidateKeeps ==
    ASSUME RunInv, NEW r \in Runner, Revalidate(r)
    PROVE  RunInv'
<1>1. /\ TypeOK /\ RecordInv
      /\ LoopInv(NameOf[r], pc[r], claim[r], tx[r], due[r], ktx[r], result[r])
  BY DEF RunInv
<1>2. /\ pc[r] = "started"
      /\ UNCHANGED <<records, versions, now, claim, due, ktx, error, result, apiTx>>
  BY DEF Revalidate
<1>3. claim[r] \in Claim /\ Owns(r) /\ result[r] = "throw"
  BY <1>1, <1>2 DEF LoopInv, Owns
<1>4. CASE StillClaimed(r)
  <2>1. /\ pc' = [pc EXCEPT ![r] = "handling"]
        /\ tx' = [tx EXCEPT ![r] = Get(records, Begun, ExecutionKey(claim[r].execution))]
    BY <1>4 DEF Revalidate
  <2>2. Held(claim[r])
    BY <1>3, <1>4, ClaimKeys, BegunStagesNothing, HoldsIsHeld DEF StillClaimed
  <2>3. /\ Get(records, Begun, ExecutionKey(claim[r].execution)) \in Transaction
        /\ HandlesTx(Get(records, Begun, ExecutionKey(claim[r].execution)), claim[r])
    BY <1>1, <1>3, <2>2, RevalidateHandles
  <2>4. pc'[r] = "handling" /\ HandlesTx(tx'[r], claim[r])
    BY <1>1, <2>1, <2>3 DEF TypeOK
  <2>5. TypeOK' /\ \A q \in Runner \ {r} : Same(q)
    BY <1>1, <1>2, <2>1, <2>3 DEF TypeOK, Same
  <2>6. LoopInv(NameOf[r], pc'[r], claim'[r], tx'[r], due'[r], ktx'[r], result'[r])
    BY <1>1, <1>2, <1>3, <2>4 DEF LoopInv, Owns
  <2> QED
    BY <1>2, <1>3, <2>5, <2>6, LocalSteps
<1>5. CASE ~StillClaimed(r)
  <2>1. pc' = [pc EXCEPT ![r] = "stopping"] /\ UNCHANGED tx
    BY <1>5 DEF Revalidate
  <2>2. pc'[r] = "stopping"
    BY <1>1, <2>1 DEF TypeOK
  <2>3. TypeOK' /\ \A q \in Runner \ {r} : Same(q)
    BY <1>1, <1>2, <2>1 DEF TypeOK, Same
  <2>4. LoopInv(NameOf[r], pc'[r], claim'[r], tx'[r], due'[r], ktx'[r], result'[r])
    BY <1>1, <1>2, <1>3, <2>1, <2>2 DEF LoopInv, Owns
  <2> QED
    BY <1>2, <1>3, <2>3, <2>4, LocalSteps
<1> QED
  BY <1>4, <1>5

\* A handler that returns.
LEMMA HandlerReturnsKeeps ==
    ASSUME RunInv, NEW r \in Runner, NEW res \in {"complete", "fail", "cancel"},
           HandlerReturns(r, res)
    PROVE  RunInv'
<1>1. TypeOK /\ LoopInv(NameOf[r], pc[r], claim[r], tx[r], due[r], ktx[r], result[r])
  BY DEF RunInv
<1>2. /\ pc[r] = "handling" /\ result' = [result EXCEPT ![r] = res]
      /\ pc' = [pc EXCEPT ![r] = "stopping"]
      /\ UNCHANGED <<records, versions, now, claim, tx, due, ktx, error, apiTx>>
  BY DEF HandlerReturns
<1>3. TypeOK' /\ \A q \in Runner \ {r} : Same(q)
  BY <1>1, <1>2 DEF TypeOK, Same, Result
<1>4. pc'[r] = "stopping"
  BY <1>1, <1>2 DEF TypeOK
<1>5. LoopInv(NameOf[r], pc'[r], claim'[r], tx'[r], due'[r], ktx'[r], result'[r])
  BY <1>1, <1>2, <1>4 DEF LoopInv
<1> QED
  BY <1>2, <1>3, <1>5, LocalSteps DEF Owns

\* A step whose token is held is of a running execution.
LEMMA HeldRuns ==
    ASSUME TypeOK, RecordInv, NEW c \in Claim, Held(c)
    PROVE  /\ Exec(c.execution) \in ExecutionRecord /\ ~Ended(Exec(c.execution))
           /\ Live(records, HeartbeatOf(c))
<1>1. /\ c.execution \in Execution /\ c.token \in Tokens /\ c.token # NoToken
      /\ ExecutionInv(c.execution) /\ Exists(c.execution)
      /\ Exec(c.execution).claim_token = c.token
  BY ClaimKeys DEF RecordInv, Held
<1>2. Exec(c.execution).status = "Running" /\ c.token[2] = Exec(c.execution).attempt
  BY <1>1 DEF ExecutionInv
<1>3. ~Ended(Exec(c.execution))
  BY <1>2 DEF Ended, Terminal
<1> QED
  BY <1>1, <1>2, <1>3 DEF ExecutionInv, HeartbeatOf

\* The three results stage an execution that has gone forward.
LEMMA ResultIs ==
    ASSUME RunInv, NEW r \in Runner, pc[r] = "stopping", Accepted(r)
    PROVE  \E d \in ExecutionRecord :
              /\ ResultTx(r) = Finalized(tx[r], claim[r].execution, d)
              /\ d.attempt = Exec(claim[r].execution).attempt
              /\ d.current_step \in {Exec(claim[r].execution).current_step,
                                     NextStep[Exec(claim[r].execution).current_step]}
              /\ Ended(Exec(claim[r].execution)) => Ended(d)
<1> DEFINE c == claim[r]
           e == claim[r].execution
           x == Exec(e)
<1>1. /\ TypeOK /\ RecordInv
      /\ LoopInv(NameOf[r], pc[r], claim[r], tx[r], due[r], ktx[r], result[r])
  BY DEF RunInv
<1>2. /\ result[r] \in {"complete", "fail", "cancel"}
      /\ result[r] = "cancel" \/ HoldsClaim(r, tx[r])
  BY <1>1 DEF Accepted, TypeOK, Result
<1>3. c \in Claim /\ HandlesTx(tx[r], c) /\ OwnInv(NameOf[r], c)
  BY <1>1, <1>2 DEF LoopInv
<1>4. /\ e \in Execution /\ ExecutionOf(c) = ExecutionKey(e) /\ ExecutionKey(e) \in StoreKey
      /\ Exists(e)
  BY <1>3, ClaimKeys DEF OwnInv
<1>5. tx[r].erases = {} /\ ~Putting(tx[r], ExecutionKey(e))
  BY <1>3, <1>4 DEF HandlesTx
<1>6. ExecIn(tx[r], e) = x
  BY <1>4, <1>5, ExecInIs
<1>7. x \in ExecutionRecord
  BY <1>1, <1>4 DEF RecordInv, ExecutionInv
<1>8. result[r] # "cancel" => Held(c) /\ ~Ended(x)
  BY <1>1, <1>2, <1>3, <1>4, <1>5, HoldsIsHeld, HeldRuns
<1> DEFINE next == NextStep[c.step]
           complete == IF next = NoStep THEN [x EXCEPT !.status = "Completed"]
                       ELSE [x EXCEPT !.current_step = next, !.status = "Running"]
           fail == [x EXCEPT !.status = IF x.attempt >= MaxAttempts THEN "Failed" ELSE "Running"]
           cancel == [x EXCEPT !.status = "Canceled"]
<1>9. CASE result[r] = "complete"
  <2>1. ResultTx(r) = Finalized(tx[r], e, complete)
    BY <1>6, <1>9 DEF ResultTx, CompleteStepTx
  <2>2. c.step = x.current_step /\ next \in Step \cup {NoStep}
    BY <1>8, <1>9, <1>3, ClaimKeys, RunnerAssumption DEF Held
  <2>3. CASE next = NoStep
    <3>1. complete = [x EXCEPT !.status = "Completed"]
      BY <2>3
    <3>2. /\ [x EXCEPT !.status = "Completed"] \in ExecutionRecord
          /\ [x EXCEPT !.status = "Completed"].attempt = x.attempt
          /\ [x EXCEPT !.status = "Completed"].current_step = x.current_step
      BY <1>7 DEF ExecutionRecord, Terminal
    <3> QED
      BY <1>8, <1>9, <2>1, <3>1, <3>2
  <2>4. CASE next # NoStep
    <3>1. complete = [x EXCEPT !.current_step = next, !.status = "Running"]
      BY <2>4
    <3>2. /\ [x EXCEPT !.current_step = next, !.status = "Running"] \in ExecutionRecord
          /\ [x EXCEPT !.current_step = next, !.status = "Running"].attempt = x.attempt
          /\ [x EXCEPT !.current_step = next, !.status = "Running"].current_step = next
      BY <1>7, <2>2, <2>4 DEF ExecutionRecord
    <3> QED
      BY <1>8, <1>9, <2>1, <2>2, <3>1, <3>2
  <2> QED
    BY <2>3, <2>4
<1>10. CASE result[r] = "fail"
  <2>1. ResultTx(r) = Finalized(tx[r], e, fail)
    BY <1>6, <1>10 DEF ResultTx, FailStepTx
  <2>2. fail \in ExecutionRecord /\ fail.attempt = x.attempt /\ fail.current_step = x.current_step
    BY <1>7 DEF ExecutionRecord, Terminal
  <2> QED
    BY <1>8, <1>10, <2>1, <2>2
<1>11. CASE result[r] = "cancel"
  <2>1. ResultTx(r) = Finalized(tx[r], e, cancel)
    BY <1>6, <1>11 DEF ResultTx, CancelTx
  <2>2. /\ cancel \in ExecutionRecord /\ cancel.attempt = x.attempt
        /\ cancel.current_step = x.current_step /\ Ended(cancel)
    BY <1>7 DEF ExecutionRecord, Terminal, Ended
  <2> QED
    BY <2>1, <2>2
<1> QED
  BY <1>2, <1>9, <1>10, <1>11

\* A loop that stages its result finalizes the claim it has watched.
LEMMA FinalizeKeeps ==
    ASSUME RunInv, NEW r \in Runner, Finalize(r)
    PROVE  RunInv'
<1> DEFINE c == claim[r]
           e == claim[r].execution
           ek == ExecutionOf(claim[r])
           hk == HeartbeatOf(claim[r])
           u == ResultTx(r)
<1>1. /\ TypeOK /\ RecordInv
      /\ LoopInv(NameOf[r], pc[r], claim[r], tx[r], due[r], ktx[r], result[r])
  BY DEF RunInv
<1>2. /\ pc[r] = "stopping" /\ ~due[r] /\ ~ktx[r].open /\ Accepted(r)
      /\ tx' = [tx EXCEPT ![r] = u] /\ pc' = [pc EXCEPT ![r] = "finalizing"]
      /\ UNCHANGED <<records, versions, now, claim, due, ktx, error, result, apiTx>>
  BY DEF Finalize, Joined
<1>3. /\ c \in Claim /\ HandlesTx(tx[r], c) /\ OwnInv(NameOf[r], c) /\ tx[r] \in Transaction
      /\ Owns(r)
  BY <1>1, <1>2 DEF LoopInv, Accepted, TypeOK, Owns
<1>4. /\ e \in Execution /\ Exists(e) /\ ek = ExecutionKey(e) /\ ek \in StoreKey
      /\ hk = HeartbeatKey(e, c.token) /\ hk \in StoreKey /\ hk # ek /\ c.token # NoToken
  BY <1>3, ClaimKeys DEF OwnInv
<1>5. tx[r].puts = NoPuts
  <2>1. tx[r].puts \in [StoreKey -> StoreDoc \cup {Absent}]
    BY <1>3 DEF Transaction
  <2>2. \A k \in StoreKey : tx[r].puts[k] = Absent
    BY <1>3 DEF HandlesTx, Putting
  <2> QED
    BY <2>1, <2>2 DEF NoPuts
<1>6. IsTx(tx[r], tx[r].reads, NoPuts, {})
  BY <1>3, <1>5 DEF IsTx, HandlesTx
<1>7. /\ \A k \in StoreKey : tx[r].reads[k] <= versions[k]
      /\ \A k \in StoreKey : k # ek => tx[r].reads[k] = Unread
      /\ tx[r].reads[ek] # Unread
  BY <1>3 DEF HandlesTx, Watches, Reads
<1>8. PICK d \in ExecutionRecord :
         /\ u = Finalized(tx[r], e, d)
         /\ d.attempt = Exec(e).attempt
         /\ d.current_step \in {Exec(e).current_step, NextStep[Exec(e).current_step]}
         /\ Ended(Exec(e)) => Ended(d)
  BY <1>2, ResultIs
<1> HIDE DEF u
<1>9. /\ u \in Transaction /\ Reads(u) /\ EndsTx(u, e)
      /\ u.reads[ek] # Unread /\ u.reads[ek] = tx[r].reads[ek]
      /\ \A k \in StoreKey : k \notin u.erases /\ k # ek => u.reads[k] = tx[r].reads[k]
      /\ \A k \in StoreKey : k \in u.erases /\ tx[r].reads[k] = Unread =>
            u.reads[k] = ReadVersion(records, k)
  BY <1>1, <1>4, <1>6, <1>7, <1>8, FinalizedTx
<1>10. Watches(u, c)
  <2>1. Current(u, ek) <=> Current(tx[r], ek)
    BY <1>9 DEF Current
  <2>2. Watches(tx[r], c)
    BY <1>3 DEF HandlesTx
  <2> QED
    BY <1>9, <2>1, <2>2 DEF Watches
<1>11. ASSUME Current(u, ek)
       PROVE  /\ Current(u, hk)
              /\ \A k \in StoreKey : u.reads[k] # Unread => k \in {ek, hk}
  <2>1. Held(c)
    BY <1>10, <1>11 DEF Watches
  <2>2. u.erases = {hk}
    BY <1>4, <1>9, <2>1 DEF EndsTx, Held
  <2>3. Live(records, hk)
    BY <1>1, <1>3, <2>1, HeldRuns
  <2>4. u.reads[hk] = versions[hk]
    BY <1>1, <1>4, <1>7, <1>9, <2>2, <2>3, ReadVersionIs
  <2>5. \A k \in StoreKey : k \notin {ek, hk} => u.reads[k] = Unread
    BY <1>7, <1>9, <2>2
  <2> QED
    BY <2>4, <2>5 DEF Current
<1>12. FinalizesTx(u, c)
  BY <1>9, <1>10, <1>11 DEF FinalizesTx
<1>13. pc'[r] = "finalizing" /\ tx'[r] = u
  BY <1>1, <1>2 DEF TypeOK
<1>14. TypeOK' /\ \A q \in Runner \ {r} : Same(q)
  BY <1>1, <1>2, <1>9 DEF TypeOK, Same
<1>15. LoopInv(NameOf[r], pc'[r], claim'[r], tx'[r], due'[r], ktx'[r], result'[r])
  BY <1>2, <1>3, <1>12, <1>13 DEF LoopInv
<1> QED
  BY <1>2, <1>3, <1>14, <1>15, LocalSteps

\* The commit of a result finds the claim it finalizes still held.
LEMMA CommitResultKeeps ==
    ASSUME RunInv, NEW r \in Runner, CommitResult(r)
    PROVE  /\ RunInv' /\ Forward /\ NoBeat /\ Held(claim[r])
<1>1. /\ TypeOK /\ RecordInv
      /\ LoopInv(NameOf[r], pc[r], claim[r], tx[r], due[r], ktx[r], result[r])
  BY DEF RunInv
<1>2. /\ pc[r] = "finalizing" /\ Apply(tx[r]) /\ Idle(r) /\ UNCHANGED <<now, apiTx>>
  BY DEF CommitResult
<1>3. claim[r] \in Claim /\ FinalizesTx(tx[r], claim[r]) /\ tx[r] \in Transaction
  BY <1>1, <1>2 DEF LoopInv, TypeOK
<1>4. Current(tx[r], ExecutionOf(claim[r]))
  BY <1>1, <1>2, <1>3, ClaimKeys, Applied DEF FinalizesTx, Watches
<1>5. Held(claim[r]) /\ EndsTx(tx[r], claim[r].execution)
  BY <1>3, <1>4 DEF FinalizesTx, Watches
<1>6. RecordInv' /\ Forward /\ NoBeat
  BY <1>1, <1>2, <1>3, <1>5, ClaimKeys, EndCommits DEF Held
<1>7. TypeOK'
  BY <1>1, <1>2, <1>3, Applied, IdleInv DEF TypeOK
<1> QED
  BY <1>1, <1>2, <1>5, <1>6, <1>7, IdleInv, Spared, LoopSteps

--------------------------------------------------------------------------------
\* The API calls and the clock.

\* A step that leaves the loops alone.
LEMMA ApiSteps ==
    ASSUME RunInv, TypeOK', RecordInv', Forward, NoBeat, UNCHANGED local,
           \A a \in Api : apiTx'[a].open => ApiInv(apiTx[a])'
    PROVE  RunInv'
<1>1. TypeOK /\ RecordInv /\ ClaimsDiffer
  BY DEF RunInv
<1>2. \A q \in Runner : Same(q)
  BY DEF Same, local
<1>3. \A q \in Runner : LoopInv(NameOf[q], pc[q], claim[q], tx[q], due[q], ktx[q], result[q])'
  BY <1>1, <1>2, Spared, LoopKeeps DEF RunInv
<1>4. ClaimsDiffer'
  BY <1>1, <1>2 DEF ClaimsDiffer, Same, Owns
<1> QED
  BY <1>3, <1>4 DEF RunInv

\* An API call that begins.
LEMMA CallKeeps ==
    ASSUME RunInv, NEW a \in Api, NEW k, NEW t \in Transaction, ApiInv(t), Call(a, k, t)
    PROVE  RunInv'
<1>1. TypeOK
  BY DEF RunInv
<1>2. apiTx' = [apiTx EXCEPT ![a] = t] /\ UNCHANGED <<records, versions, now, local>>
  BY DEF Call
<1>3. TypeOK'
  BY <1>1, <1>2 DEF TypeOK, local
<1>4. RecordInv' /\ Forward /\ NoBeat
  BY <1>2, Unchanged
<1>5. ASSUME NEW b \in Api, apiTx'[b].open
      PROVE  ApiInv(apiTx[b])'
  <2>1. ApiInv(apiTx'[b])
    BY <1>1, <1>2, <1>5 DEF RunInv, TypeOK
  <2>2. \A e \in Execution : Exists(e)' = Exists(e) /\ Exec(e)' = Exec(e)
    BY <1>2 DEF Exists, Exec, Live
  <2>3. \A x, k1 : Current(x, k1)' = Current(x, k1)
    BY <1>2 DEF Current
  <2>4. \A x : \A e \in Execution : EndsTx(x, e)' = EndsTx(x, e)
    BY <1>2 DEF EndsTx, Exec, Putting, Ended
  <2>5. \A x : Reads(x)' = Reads(x)
    BY <1>2 DEF Reads
  <2> QED
    BY <2>1, <2>2, <2>3, <2>4, <2>5 DEF ApiInv, DefinesTx, StartsTx, Putting
<1> QED
  BY <1>2, <1>3, <1>4, <1>5, ApiSteps

\* register_definitionTx.
LEMMA RegisterDefinitionKeeps ==
    ASSUME RunInv, NEW a \in Api, NEW d \in Definition, RegisterDefinition(a, d)
    PROVE  RunInv'
<1> DEFINE t == RegisterDefinitionTx(Begun, d)
           b == [definition |-> d]
           rs == WithReads(NoReads, {DefinitionKey})
           puts == [NoPuts EXCEPT ![DefinitionKey] = b]
<1>1. TypeOK /\ RecordInv /\ DefinitionKey \in StoreKey
  BY KeysDistinct DEF RunInv
<1>2. b \in StoreDoc
  BY DEF StoreDoc, DefinitionRecord
<1>3. NoPuts[DefinitionKey] = Absent
  BY <1>1 DEF NoPuts
<1>4. IsTx(t, rs, puts, {})
  BY <1>1, <1>2, <1>3, BegunTx, PutTx DEF RegisterDefinitionTx
<1>5. \A k \in StoreKey : rs[k] <= versions[k]
  BY <1>1, NoReadsIs, WithReadsIs
<1>6. \A k \in StoreKey : puts[k] # Absent => k = DefinitionKey
  BY <1>1 DEF NoPuts
<1> HIDE DEF rs, puts, t
<1>7. t \in Transaction /\ t.reads = rs /\ t.puts = puts /\ t.erases = {}
  BY <1>4 DEF IsTx
<1>8. Reads(t) /\ DefinesTx(t)
  BY <1>5, <1>6, <1>7 DEF Reads, DefinesTx, Putting
<1>9. ApiInv(t)
  BY <1>8 DEF ApiInv
<1>10. Call(a, DefinitionKey, t)
  BY DEF RegisterDefinition, t
<1> QED
  BY <1>7, <1>9, <1>10, CallKeeps

\* startTx of an id that is not in use.
LEMMA StartKeeps ==
    ASSUME RunInv, NEW a \in Api, NEW e \in Execution, Start(a, e)
    PROVE  RunInv'
<1> DEFINE t == StartTx(Begun, e)
           ek == ExecutionKey(e)
           b == [current_step |-> StartStep, status |-> "Running", attempt |-> 0,
                 claimed_by |-> Nobody, claim_token |-> NoToken, claim_expires_at |-> NoTime]
           rs == WithReads(NoReads, {ek})
           puts == [NoPuts EXCEPT ![ek] = b]
<1>1. TypeOK /\ RecordInv /\ ek \in StoreKey
  BY KeysDistinct DEF RunInv
<1>2. b \in ExecutionRecord
  <2>1. 0 \in 0 .. MaxClaims
    BY WorkflowAssumption
  <2> QED
    BY <2>1, WorkflowAssumption DEF ExecutionRecord
<1>3. b \in StoreDoc /\ b # Absent
  BY <1>2, MarkerAssumption DEF StoreDoc
<1>4. b.claim_token = NoToken /\ b.attempt = 0
  OBVIOUS
<1>5. NoPuts[ek] = Absent /\ NoReads[ek] = Unread
  BY <1>1 DEF NoPuts, NoReads
<1>6. t = Put(records, Begun, ek, b)
  BY DEF StartTx
<1> HIDE DEF t, b
<1>7. IsTx(t, rs, puts, {})
  BY <1>1, <1>3, <1>5, <1>6, BegunTx, PutTx
<1>8. (\A k \in StoreKey : rs[k] <= versions[k]) /\ rs[ek] = ReadVersion(records, ek)
  BY <1>1, <1>5, NoReadsIs, WithReadsIs
<1>9. rs[ek] = 0
  BY <1>1, <1>8, ReadVersionIs DEF Start, Exists
<1>10. puts[ek] = b /\ \A k \in StoreKey : puts[k] # Absent <=> k = ek
  BY <1>1, <1>3 DEF NoPuts
<1> HIDE DEF rs, puts
<1>11. t \in Transaction /\ t.reads = rs /\ t.puts = puts /\ t.erases = {}
  BY <1>7 DEF IsTx
<1>12. Reads(t) /\ StartsTx(t, e)
  BY <1>2, <1>4, <1>8, <1>9, <1>10, <1>11 DEF Reads, StartsTx, Putting
<1>13. ApiInv(t)
  BY <1>12 DEF ApiInv
<1>14. Call(a, ek, t)
  BY DEF Start, t
<1> QED
  BY <1>11, <1>13, <1>14, CallKeeps

\* cancelTx of an execution, in whatever status it is.
LEMMA CancelKeeps ==
    ASSUME RunInv, NEW a \in Api, NEW e \in Execution, Cancel(a, e)
    PROVE  RunInv'
<1> DEFINE t == CancelTx(Begun, e)
           ek == ExecutionKey(e)
           d == [Exec(e) EXCEPT !.status = "Canceled"]
<1>1. TypeOK /\ RecordInv /\ Exists(e)
  BY DEF RunInv, Cancel
<1>2. ExecIn(Begun, e) = Exec(e)
  BY <1>1, BegunStagesNothing, KeysDistinct, ExecInIs
<1>3. t = Finalized(Begun, e, d)
  BY <1>2 DEF CancelTx
<1>4. Exec(e) \in ExecutionRecord
  BY <1>1 DEF RecordInv, ExecutionInv
<1>5. /\ d \in ExecutionRecord /\ d.attempt = Exec(e).attempt
      /\ d.current_step = Exec(e).current_step /\ Ended(d)
  BY <1>4 DEF ExecutionRecord, Terminal, Ended
<1> HIDE DEF t, d
<1>6. \A k \in StoreKey : NoReads[k] <= versions[k]
  BY <1>1, NoReadsIs
<1>7. t \in Transaction /\ Reads(t) /\ EndsTx(t, e) /\ t.reads[ek] # Unread
  BY <1>1, <1>3, <1>5, <1>6, BegunTx, FinalizedTx
<1>8. ApiInv(t)
  BY <1>1, <1>7 DEF ApiInv
<1>9. Call(a, ek, t)
  BY DEF Cancel, t
<1> QED
  BY <1>7, <1>8, <1>9, CallKeeps

\* The commit of an API call.
LEMMA CommitApiKeeps ==
    ASSUME RunInv, NEW a \in Api, CommitApi(a)
    PROVE  RunInv' /\ Forward
<1>1. TypeOK /\ RecordInv
  BY DEF RunInv
<1>2. /\ apiTx[a].open /\ Apply(apiTx[a]) /\ apiTx' = [apiTx EXCEPT ![a] = Closed]
      /\ UNCHANGED <<now, local>>
  BY DEF CommitApi
<1>3. ApiInv(apiTx[a]) /\ apiTx[a] \in Transaction
  BY <1>1, <1>2 DEF RunInv, TypeOK
<1>4. RecordInv' /\ Forward /\ NoBeat
  <2>1. CASE DefinesTx(apiTx[a])
    BY <1>1, <1>2, <1>3, <2>1, DefineCommits
  <2>2. ASSUME NEW e \in Execution, StartsTx(apiTx[a], e)
        PROVE  RecordInv' /\ Forward /\ NoBeat
    BY <1>1, <1>2, <1>3, <2>2, StartCommits
  <2>3. ASSUME NEW e \in Execution, apiTx[a].reads[ExecutionKey(e)] # Unread,
               Current(apiTx[a], ExecutionKey(e)) => Exists(e) /\ EndsTx(apiTx[a], e)
        PROVE  RecordInv' /\ Forward /\ NoBeat
    <3>1. Current(apiTx[a], ExecutionKey(e))
      BY <1>1, <1>2, <1>3, <2>3, KeysDistinct, Applied
    <3> QED
      BY <1>1, <1>2, <1>3, <2>3, <3>1, EndCommits
  <2> QED
    BY <1>3, <2>1, <2>2, <2>3 DEF ApiInv
<1>5. TypeOK'
  BY <1>1, <1>2, <1>3, Applied, ClosedTx DEF TypeOK, local
<1>6. ASSUME NEW b \in Api, apiTx'[b].open
      PROVE  ApiInv(apiTx[b])'
  <2>1. apiTx'[b] = apiTx[b]
    BY <1>1, <1>2, <1>6, ClosedTx DEF TypeOK
  <2> QED
    BY <1>1, <1>4, <1>6, <2>1, ApiKeeps DEF RunInv
<1> QED
  BY <1>2, <1>4, <1>5, <1>6, ApiSteps

\* An API call that loses.
LEMMA ConflictApiKeeps ==
    ASSUME RunInv, NEW a \in Api, ConflictApi(a)
    PROVE  RunInv'
<1>1. TypeOK
  BY DEF RunInv
<1>2. apiTx' = [apiTx EXCEPT ![a] = Closed] /\ UNCHANGED <<records, versions, now, local>>
  BY DEF ConflictApi
<1>3. TypeOK'
  BY <1>1, <1>2, ClosedTx DEF TypeOK, local
<1>4. RecordInv' /\ Forward /\ NoBeat
  BY <1>2, Unchanged
<1>5. ASSUME NEW b \in Api, apiTx'[b].open
      PROVE  ApiInv(apiTx[b])'
  <2>1. apiTx'[b] = apiTx[b]
    BY <1>1, <1>2, <1>5, ClosedTx DEF TypeOK
  <2> QED
    BY <1>1, <1>4, <1>5, <2>1, ApiKeeps DEF RunInv
<1> QED
  BY <1>2, <1>3, <1>4, <1>5, ApiSteps

\* The clock.
LEMMA TickKeeps ==
    ASSUME RunInv, Tick
    PROVE  RunInv'
<1>1. TypeOK
  BY DEF RunInv
<1>2. now' = now + 1 /\ UNCHANGED <<records, versions, local, apiTx>>
  BY DEF Tick
<1>3. TypeOK'
  BY <1>1, <1>2 DEF TypeOK, local
<1>4. RecordInv' /\ Forward /\ NoBeat
  BY <1>2, Unchanged
<1>5. ASSUME NEW b \in Api, apiTx'[b].open
      PROVE  ApiInv(apiTx[b])'
  BY <1>1, <1>2, <1>4, <1>5, ApiKeeps DEF RunInv
<1> QED
  BY <1>2, <1>3, <1>4, <1>5, ApiSteps

--------------------------------------------------------------------------------
\* The theorems.

\* Nothing is claimed or begun at first.
LEMMA InitInv == Init => RunInv
<1> SUFFICES ASSUME Init PROVE RunInv
  OBVIOUS
<1>1. TypeOK
  BY ClosedTx DEF Init, TypeOK, Result
<1>2. \A k \in StoreKey : ~Live(records, k)
  BY DEF Init, Live
<1>3. RecordInv
  BY <1>2, KeysDistinct DEF RecordInv, VersionInv, ExecutionInv, Exists
<1>4. ClaimsDiffer
  BY DEF Init, ClaimsDiffer, Owns
<1>5. \A r \in Runner : LoopInv(NameOf[r], pc[r], claim[r], tx[r], due[r], ktx[r], result[r])
  <2> TAKE r \in Runner
  <2>1. pc[r] = "idle" /\ ~due[r] /\ ~ktx[r].open /\ result[r] = "throw"
    BY ClosedTx DEF Init
  <2> QED
    BY <2>1 DEF LoopInv
<1>6. \A a \in Api : ~apiTx[a].open
  BY ClosedTx DEF Init
<1> QED
  BY <1>1, <1>3, <1>4, <1>5, <1>6 DEF RunInv

\* Every step keeps the invariant, and takes executions forward.
LEMMA NextKeeps == RunInv /\ [Next]_vars => RunInv' /\ Forward
<1> SUFFICES ASSUME RunInv, [Next]_vars PROVE RunInv' /\ Forward
  OBVIOUS
<1> USE DEF Runs, KeepsAlive
<1>1. ASSUME NEW r \in Runner, ClaimSteps(r) PROVE RunInv' /\ Forward
  BY <1>1, ClaimStepsKeeps, Unchanged DEF ClaimSteps
<1>2. ASSUME NEW r \in Runner, CommitClaim(r) PROVE RunInv' /\ Forward
  BY <1>2, CommitClaimKeeps
<1>3. ASSUME NEW r \in Runner, ConflictClaim(r) \/ GiveUp(r) \/ ConflictResult(r) \/ Crash(r)
      PROVE  RunInv' /\ Forward
  <2>1. Idle(r) /\ UNCHANGED <<records, versions, now, apiTx>>
    BY <1>3 DEF ConflictClaim, GiveUp, ConflictResult, Crash
  <2> QED
    BY <2>1, IdleSteps, Unchanged
<1>4. ASSUME NEW r \in Runner, Revalidate(r) PROVE RunInv' /\ Forward
  BY <1>4, RevalidateKeeps, Unchanged DEF Revalidate
<1>5. ASSUME NEW r \in Runner, NEW res \in {"complete", "fail", "cancel"}, HandlerReturns(r, res)
      PROVE  RunInv' /\ Forward
  BY <1>5, HandlerReturnsKeeps, Unchanged DEF HandlerReturns
<1>6. ASSUME NEW r \in Runner, Finalize(r) PROVE RunInv' /\ Forward
  BY <1>6, FinalizeKeeps, Unchanged DEF Finalize
<1>7. ASSUME NEW r \in Runner, CommitResult(r) PROVE RunInv' /\ Forward
  BY <1>7, CommitResultKeeps
<1>8. ASSUME NEW r \in Runner, KeepAliveDue(r) PROVE RunInv' /\ Forward
  BY <1>8, KeepAliveDueKeeps, Unchanged DEF KeepAliveDue
<1>9. ASSUME NEW r \in Runner, KeepAlive(r) PROVE RunInv' /\ Forward
  BY <1>9, KeepAliveKeeps, Unchanged DEF KeepAlive
<1>10. ASSUME NEW r \in Runner, CommitKeepAlive(r) PROVE RunInv' /\ Forward
  BY <1>10, CommitKeepAliveKeeps
<1>11. ASSUME NEW r \in Runner, KeepAliveFails(r) PROVE RunInv' /\ Forward
  BY <1>11, KeepAliveFailsKeeps, Unchanged DEF KeepAliveFails
<1>12. ASSUME NEW a \in Api, NEW d \in Definition, RegisterDefinition(a, d)
       PROVE  RunInv' /\ Forward
  BY <1>12, RegisterDefinitionKeeps, Unchanged DEF RegisterDefinition, Call
<1>13. ASSUME NEW a \in Api, NEW e \in Execution, Start(a, e) PROVE RunInv' /\ Forward
  BY <1>13, StartKeeps, Unchanged DEF Start, Call
<1>14. ASSUME NEW a \in Api, NEW e \in Execution, Cancel(a, e) PROVE RunInv' /\ Forward
  BY <1>14, CancelKeeps, Unchanged DEF Cancel, Call
<1>15. ASSUME NEW a \in Api, CommitApi(a) PROVE RunInv' /\ Forward
  BY <1>15, CommitApiKeeps
<1>16. ASSUME NEW a \in Api, ConflictApi(a) PROVE RunInv' /\ Forward
  BY <1>16, ConflictApiKeeps, Unchanged DEF ConflictApi
<1>17. CASE Tick
  BY <1>17, TickKeeps, Unchanged DEF Tick
<1>18. CASE UNCHANGED vars
  <2>1. UNCHANGED <<records, versions, now, local, apiTx>>
    BY <1>18 DEF vars
  <2>2. TypeOK'
    BY <2>1 DEF RunInv, TypeOK, local
  <2>3. RecordInv' /\ Forward /\ NoBeat
    BY <2>1, Unchanged
  <2>4. \A a \in Api : apiTx'[a].open => ApiInv(apiTx[a])'
    BY <2>1, <2>3, ApiKeeps DEF RunInv
  <2> QED
    BY <2>1, <2>2, <2>3, <2>4, ApiSteps
<1> QED
  BY <1>1, <1>2, <1>3, <1>4, <1>5, <1>6, <1>7, <1>8, <1>9, <1>10, <1>11, <1>12, <1>13, <1>14,
     <1>15, <1>16, <1>17, <1>18 DEF Next

\* RunInv is an invariant: the claims, their heartbeats and the transactions
\* of every loop and API call agree, whatever is interleaved, crashes or loses.
THEOREM RunInvariant == Spec => []RunInv
<1>1. Init => RunInv
  BY InitInv
<1>2. RunInv /\ [Next]_vars => RunInv'
  BY NextKeeps
<1> QED
  BY <1>1, <1>2, PTL DEF Spec

\* The loops, their transactions and the records keep their types.
THEOREM WorkflowRunnerTypeOK == Spec => []TypeOK
<1>1. RunInv => TypeOK
  BY DEF RunInv
<1> QED
  BY <1>1, RunInvariant, PTL

\* Two loops that believe in a claim hold different ones, also when they share
\* a worker name: claim_token_for numbers the attempts of the execution.
THEOREM WorkflowRunnerTokensUnique == Spec => []TokensUnique
<1>1. RunInv => TokensUnique
  <2> SUFFICES ASSUME ClaimsDiffer, NEW q \in Runner, NEW r \in Runner, q # r, Owns(q), Owns(r)
               PROVE  claim[q] # claim[r]
    BY DEF RunInv, TokensUnique
  <2> QED
    BY DEF ClaimsDiffer
<1> QED
  BY <1>1, RunInvariant, PTL

\* The newest claim of an execution has a heartbeat exactly as long as it is
\* held: keep_alive_stepTx brings no erased heartbeat back.
THEOREM WorkflowRunnerHeartbeatFollowsClaim == Spec => []HeartbeatFollowsClaim
<1>1. RunInv => HeartbeatFollowsClaim
  <2> SUFFICES ASSUME RunInv, NEW e \in Execution, Exists(e), NEW n \in Name,
                      Token(n, Exec(e).attempt) \in Tokens
               PROVE  Live(records, HeartbeatKey(e, Token(n, Exec(e).attempt)))
                          <=> Exec(e).claim_token = Token(n, Exec(e).attempt)
    BY DEF HeartbeatFollowsClaim
  <2>1. Token(n, Exec(e).attempt)[2] = Exec(e).attempt
    BY DEF Token
  <2>2. ExecutionInv(e)
    BY DEF RunInv, RecordInv
  <2> QED
    BY <2>1, <2>2 DEF ExecutionInv
<1> QED
  BY <1>1, RunInvariant, PTL

\* While a loop still has its claim, its result passes the validation of
\* commit(): it has read the execution, which the keep-alive never writes, and
\* the heartbeat only once the keep-alive thread was joined.
THEOREM WorkflowRunnerKeepAliveSparesResult == Spec => []KeepAliveSparesResult
<1>1. RunInv => KeepAliveSparesResult
  <2> SUFFICES ASSUME RunInv, NEW r \in Runner, pc[r] = "finalizing",
                      OwnExec(r).claim_token = claim[r].token
               PROVE  Validates(versions, tx[r])
    BY DEF KeepAliveSparesResult
  <2>1. FinalizesTx(tx[r], claim[r])
    BY DEF RunInv, LoopInv
  <2>2. Current(tx[r], ExecutionOf(claim[r]))
    BY <2>1 DEF FinalizesTx, Watches, OwnExec
  <2>3. /\ Current(tx[r], HeartbeatOf(claim[r]))
        /\ \A k \in StoreKey : tx[r].reads[k] # Unread
              => k \in {ExecutionOf(claim[r]), HeartbeatOf(claim[r])}
    BY <2>1, <2>2 DEF FinalizesTx
  <2> QED
    BY <2>2, <2>3 DEF Validates, Current
<1> QED
  BY <1>1, RunInvariant, PTL

\* Only the commit of its own result takes a loop from finalizing to idle and
\* changes a record.
LEMMA OnlyOwnCommit ==
    ASSUME RunInv, [Next]_vars, NEW r \in Runner, pc[r] = "finalizing", records' # records,
           pc'[r] = "idle"
    PROVE  CommitResult(r)
<1>1. TypeOK
  BY DEF RunInv
<1>2. ASSUME NEW q \in Runner, CommitClaim(q) PROVE FALSE
  BY <1>1, <1>2 DEF CommitClaim, TypeOK
<1>3. ASSUME NEW q \in Runner, CommitKeepAlive(q) PROVE FALSE
  BY <1>1, <1>3, KeptIs DEF CommitKeepAlive
<1>4. ASSUME NEW q \in Runner \ {r}, CommitResult(q) PROVE FALSE
  BY <1>1, <1>4 DEF CommitResult, Idle, TypeOK
<1>5. ASSUME NEW a \in Api, CommitApi(a) PROVE FALSE
  BY <1>5 DEF CommitApi, local
<1>6. \A q \in Runner : ~(ClaimSteps(q) \/ ConflictClaim(q) \/ Revalidate(q) \/ Finalize(q)
                          \/ GiveUp(q) \/ ConflictResult(q) \/ Crash(q) \/ KeepAliveDue(q)
                          \/ KeepAlive(q) \/ KeepAliveFails(q))
  BY DEF ClaimSteps, ConflictClaim, Revalidate, Finalize, GiveUp, ConflictResult, Crash,
     KeepAliveDue, KeepAlive, KeepAliveFails
<1>7. \A q \in Runner, res \in {"complete", "fail", "cancel"} : ~HandlerReturns(q, res)
  BY DEF HandlerReturns
<1>8. \A a \in Api : /\ \A d \in Definition : ~RegisterDefinition(a, d)
                     /\ \A e \in Execution : ~Start(a, e) /\ ~Cancel(a, e)
                     /\ ~ConflictApi(a)
  BY DEF RegisterDefinition, Start, Cancel, Call, ConflictApi
<1>9. ~Tick /\ ~UNCHANGED vars
  BY DEF Tick, vars
<1> QED
  BY <1>2, <1>3, <1>4, <1>5, <1>6, <1>7, <1>8, <1>9 DEF Next, Runs, KeepsAlive

\* A result is committed only while the record carries the token of the loop
\* that commits it: it has read the execution of its claim, and any takeover,
\* cancel or result since then has written that execution.
THEOREM WorkflowRunnerOnlyClaimantFinalizes == Spec => OnlyClaimantFinalizes
<1> DEFINE Body == \A r \in Runner : pc[r] = "finalizing" /\ records' # records /\ pc'[r] = "idle"
                       => OwnExec(r).claim_token = claim[r].token
<1>1. RunInv /\ [Next]_vars => Body
  <2> SUFFICES ASSUME RunInv, [Next]_vars, NEW r \in Runner, pc[r] = "finalizing",
                      records' # records, pc'[r] = "idle"
               PROVE  OwnExec(r).claim_token = claim[r].token
    OBVIOUS
  <2>1. Held(claim[r])
    BY OnlyOwnCommit, CommitResultKeeps
  <2> QED
    BY <2>1 DEF Held, OwnExec
<1>2. RunInv /\ [Next]_vars => [Body]_vars
  BY <1>1
<1>3. Spec => [][Body]_vars
  BY <1>2, RunInvariant, PTL DEF Spec
<1> QED
  BY <1>3 DEF OnlyClaimantFinalizes

\* An execution goes forward: no late start, claim or result puts back its
\* step, its attempt or a terminal status.
THEOREM WorkflowRunnerExecutionAdvances == Spec => ExecutionAdvances
<1> DEFINE Body == \A e \in Execution : Exists(e) =>
            /\ Exists(e)'
            /\ Exec(e)'.current_step \in {Exec(e).current_step, NextStep[Exec(e).current_step]}
            /\ Exec(e)'.attempt \in Exec(e).attempt .. Exec(e).attempt + 1
            /\ Ended(Exec(e)) => Ended(Exec(e)')
<1>1. RunInv /\ [Next]_vars => Body
  BY NextKeeps DEF Forward, Advances
<1>2. RunInv /\ [Next]_vars => [Body]_vars
  BY <1>1
<1>3. Spec => [][Body]_vars
  BY <1>2, RunInvariant, PTL DEF Spec
<1> QED
  BY <1>3 DEF ExecutionAdvances

================================================================================
