--------------------------- MODULE WorkerProcessProofs --------------------------
(***************************************************************************)
(* Proofs about the Worker process, for every set of polling loops, GC     *)
(* tasks and threads that ask it to stop.                                  *)
(***************************************************************************)
EXTENDS WorkerProcess, TLAPS

NotBegun(ps) == \A p \in DOMAIN ps : ps[p] = "none"

Threads == loops \in [Loop -> Polling] /\ gcs \in [Gc -> Polling]

\* What the location of the process thread says of the threads it creates and
\* joins.
Located ==
    /\ started <=> process # "none"
    /\ process \in {"none", "bootstrap", "start gc"} => NotBegun(loops) /\ NotBegun(gcs)
    /\ process \in {"join gc", "failed: join gc", "ended"} => Over(loops)
    /\ process = "ended" => Over(gcs)

\* Without a catalog the process can only end, and has created no thread.
Unbooted ==
    ~booted =>
        /\ process \in {"none", "bootstrap", "failed", "failed: join loops",
                        "failed: join gc", "ended"}
        /\ NotBegun(loops) /\ NotBegun(gcs)

\* The inductive invariant.
ProcessInv ==
    /\ Threads
    /\ Located
    /\ Unbooted
    /\ status # None => process = "ended"

--------------------------------------------------------------------------------

\* A notification begins no thread and resumes none that has ended.
LEMMA NotifiedKeeps ==
    ASSUME NEW S, NEW ps \in [S -> Polling]
    PROVE  /\ Notified(ps) \in [S -> Polling]
           /\ NotBegun(ps) => NotBegun(Notified(ps))
           /\ Over(ps) => Over(Notified(ps))
BY DEF Notified, Polling, NotBegun, Over

\* What the process thread, start() and the callers of request_stop() do with
\* the threads: they begin them where the location allows it.
LEMMA ProcessKeeps ==
    ASSUME ProcessInv, Start \/ ProcessStep \/ SpuriousWakeup
    PROVE  ProcessInv'
<1> USE DEF ProcessInv, Threads, Located, Unbooted, flags
<1>1. CASE Start
  BY <1>1 DEF Start, NotBegun
<1>2. CASE Bootstrap \/ BootstrapFails
  BY <1>2 DEF Bootstrap, BootstrapFails, At, NotBegun
<1>3. CASE StartGc
  BY <1>3 DEF StartGc, At, NotBegun, Polling
<1>4. CASE StartLoop
  BY <1>4 DEF StartLoop, Polling
<1>5. CASE LoopsStarted \/ StartLoopFails
  BY <1>5 DEF LoopsStarted, StartLoopFails, At, NotBegun
<1>6. CASE CheckStop \/ Block \/ SpuriousWakeup
  BY <1>6 DEF CheckStop, Block, SpuriousWakeup, At
<1>7. CASE StopGc
  BY <1>7, NotifiedKeeps DEF StopGc, At
<1>8. CASE StopAfterFailure
  BY <1>8, NotifiedKeeps DEF StopAfterFailure, At
<1>9. CASE JoinLoops
  BY <1>9 DEF JoinLoops, At, NotBegun, Over
<1>10. CASE JoinGc
  BY <1>10 DEF JoinGc, NotBegun, Over
<1> QED
  BY <1>1, <1>2, <1>3, <1>4, <1>5, <1>6, <1>7, <1>8, <1>9, <1>10 DEF ProcessStep

\* A polling loop that takes a step has begun and has not ended.
LEMMA LoopKeeps ==
    ASSUME ProcessInv, NEW l \in Loop, LoopStep(l)
    PROVE  ProcessInv'
<1> USE DEF ProcessInv
<1>1. UNCHANGED <<flags, process, gcs>> /\ Polls(loops, l, stop)
  BY DEF LoopStep
<1>2. loops' \in [Loop -> Polling] /\ ~NotBegun(loops) /\ ~Over(loops)
  BY <1>1 DEF Threads, Polls, Polling, NotBegun, Over
<1> QED
  BY <1>1, <1>2 DEF flags, Threads, Located, Unbooted

\* So has a GC thread.
LEMMA GcKeeps ==
    ASSUME ProcessInv, NEW g \in Gc, GcStep(g)
    PROVE  ProcessInv'
<1> USE DEF ProcessInv
<1>1. UNCHANGED <<flags, process, loops>> /\ Polls(gcs, g, gcStop)
  BY DEF GcStep
<1>2. gcs' \in [Gc -> Polling] /\ ~NotBegun(gcs) /\ ~Over(gcs)
  BY <1>1 DEF Threads, Polls, Polling, NotBegun, Over
<1> QED
  BY <1>1, <1>2 DEF flags, Threads, Located, Unbooted

\* request_stop(), whenever it comes, only sets flags and wakes threads.
LEMMA RequestStopKeeps ==
    ASSUME ProcessInv, NEW s \in Stopper, RequestStop(s)
    PROVE  ProcessInv'
<1> USE DEF ProcessInv
<1>1. /\ UNCHANGED <<started, status, booted>>
      /\ loops' = loops \/ loops' = Notified(loops)
      /\ gcs' = gcs \/ gcs' = Notified(gcs)
      /\ process' = process \/ (process = "waiting" /\ process' = "check")
  BY DEF RequestStop, flags
<1>2. Threads' /\ (NotBegun(loops) => NotBegun(loops)') /\ (NotBegun(gcs) => NotBegun(gcs)')
  BY <1>1, NotifiedKeeps DEF Threads
<1>3. (Over(loops) => Over(loops)') /\ (Over(gcs) => Over(gcs)')
  BY <1>1, NotifiedKeeps DEF Threads
<1> QED
  BY <1>1, <1>2, <1>3 DEF Located, Unbooted

--------------------------------------------------------------------------------
\* The theorems.

\* worker_process.hpp: whatever thread takes the next step, the invariant holds.
THEOREM ProcessInvariant == Spec => []ProcessInv
<1>1. Init => ProcessInv
  BY DEF Init, ProcessInv, Threads, Located, Unbooted, NotBegun, Over, Polling
<1>2. ASSUME ProcessInv, [Next]_vars
      PROVE  ProcessInv'
  <2>1. CASE UNCHANGED vars
    BY <1>2, <2>1 DEF vars, flags, ProcessInv, Threads, Located, Unbooted, NotBegun, Over
  <2>2. CASE Start \/ ProcessStep \/ SpuriousWakeup
    BY <1>2, <2>2, ProcessKeeps
  <2>3. ASSUME NEW l \in Loop, LoopStep(l)
        PROVE  ProcessInv'
    BY <1>2, <2>3, LoopKeeps
  <2>4. ASSUME NEW g \in Gc, GcStep(g)
        PROVE  ProcessInv'
    BY <1>2, <2>4, GcKeeps
  <2>5. ASSUME NEW s \in Stopper, RequestStop(s)
        PROVE  ProcessInv'
    BY <1>2, <2>5, RequestStopKeeps
  <2> QED
    BY <1>2, <2>1, <2>2, <2>3, <2>4, <2>5 DEF Next
<1> QED
  BY <1>1, <1>2, PTL DEF Spec

\* When join() reports a status, no polling loop and no GC thread is left.
THEOREM WorkerProcessFinishedIsQuiet == Spec => []FinishedIsQuiet
<1>1. ProcessInv => FinishedIsQuiet
  BY DEF ProcessInv, Located, FinishedIsQuiet
<1> QED
  BY <1>1, ProcessInvariant, PTL

\* No polling loop and no GC thread exists before bootstrap() has committed.
THEOREM WorkerProcessNoWorkBeforeBootstrap == Spec => []NoWorkBeforeBootstrap
<1>1. ProcessInv => NoWorkBeforeBootstrap
  BY DEF ProcessInv, Threads, Unbooted, NotBegun, NoWorkBeforeBootstrap
<1> QED
  BY <1>1, ProcessInvariant, PTL

================================================================================
