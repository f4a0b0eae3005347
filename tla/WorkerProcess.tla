------------------------------ MODULE WorkerProcess ----------------------------
(***************************************************************************)
(* The lifecycle of a generated Worker application: WorkerProcess with its *)
(* process thread and polling loops, WorkerRuntime with its entity GC      *)
(* threads, and whoever starts the process and asks it to stop (main, the  *)
(* signal handler, the destructor).                                        *)
(*                                                                         *)
(* Waiting on a condition variable takes two steps: the thread finds its   *)
(* predicate false ("blocking", with the mutex), and is then registered as *)
(* a waiter ("waiting").  notify_all reaches only registered waiters, and  *)
(* request_stop() does not take the mutex.  Spurious wake-ups may happen   *)
(* but cannot be relied on.                                                *)
(***************************************************************************)
EXTENDS Naturals

CONSTANTS
    Loop,     \* polling loops: worker contexts times their concurrency
    Gc,       \* entity GC tasks
    Stopper,  \* threads and handlers that call request_stop(), once each
    None      \* status_ without a value

VARIABLES
    started, running, status,  \* WorkerProcess, under lifecycle_mutex_
    stop,     \* stop_requested_
    gcStop,   \* WorkerRuntime::entity_gc_stop_requested_
    booted,   \* observed: bootstrap() has committed the runtime catalog
    process,  \* the process thread: where it is
    loops,    \* the polling loops
    gcs,      \* the entity GC threads
    stoppers  \* the calls of request_stop()

flags == <<started, running, status, stop, gcStop, booted>>
vars == <<flags, process, loops, gcs, stoppers>>

\* The life of a thread that polls: `top` is the loop condition.
Polling == {"none", "top", "working", "blocking", "waiting", "ended"}

Init ==
    /\ started = FALSE /\ running = FALSE /\ status = None
    /\ stop = FALSE /\ gcStop = FALSE /\ booted = FALSE
    /\ process = "none"
    /\ loops = [l \in Loop |-> "none"]
    /\ gcs = [g \in Gc |-> "none"]
    /\ stoppers = [s \in Stopper |-> "none"]

--------------------------------------------------------------------------------

\* start(); a second one finds started_ and returns 1.
Start ==
    /\ ~started
    /\ started' = TRUE /\ running' = TRUE /\ status' = None /\ stop' = FALSE
    /\ process' = "bootstrap"
    /\ UNCHANGED <<gcStop, booted, loops, gcs, stoppers>>

At(here, there) == process = here /\ process' = there

Bootstrap ==
    /\ At("bootstrap", "start gc")
    /\ booted' = TRUE
    /\ UNCHANGED <<started, running, status, stop, gcStop, loops, gcs, stoppers>>

\* Faulty variant of BootstrapFails: the process carries on without a catalog.
BootstrapIgnored ==
    /\ At("bootstrap", "start gc")
    /\ UNCHANGED <<flags, loops, gcs, stoppers>>

\* bootstrap() throws: its transaction fails to commit.
BootstrapFails ==
    /\ At("bootstrap", "failed")
    /\ UNCHANGED <<flags, loops, gcs, stoppers>>

\* start_entity_gc_workers takes back a stop request that came before it.
StartGc ==
    /\ At("start gc", "start loops")
    /\ gcStop' = FALSE
    /\ gcs' = [g \in Gc |-> "top"]
    /\ UNCHANGED <<started, running, status, stop, booted, loops, stoppers>>

StartLoop ==
    /\ process = "start loops"
    /\ \E l \in Loop : loops[l] = "none" /\ loops' = [loops EXCEPT ![l] = "top"]
    /\ UNCHANGED <<flags, process, gcs, stoppers>>

LoopsStarted ==
    /\ At("start loops", "check")
    /\ \A l \in Loop : loops[l] # "none"
    /\ UNCHANGED <<flags, loops, gcs, stoppers>>

\* A thread cannot be created: std::thread throws, some loops already run.
StartLoopFails ==
    /\ At("start loops", "failed")
    /\ \E l \in Loop : loops[l] = "none"
    /\ UNCHANGED <<flags, loops, gcs, stoppers>>

\* stop_cv_.wait(lock, predicate) of run().
CheckStop ==
    /\ process = "check"
    /\ process' = IF stop THEN "stopping" ELSE "blocking"
    /\ UNCHANGED <<flags, loops, gcs, stoppers>>

Block ==
    /\ At("blocking", "waiting")
    /\ UNCHANGED <<flags, loops, gcs, stoppers>>

SpuriousWakeup ==
    /\ At("waiting", "check")
    /\ UNCHANGED <<flags, loops, gcs, stoppers>>

\* notify_all on a condition variable with the waiters of a set of threads.
Notified(ps) == [p \in DOMAIN ps |-> IF ps[p] = "waiting" THEN "top" ELSE ps[p]]

\* runtime_.request_stop() at the end of run(): the flag, then the notification.
\* A GC thread that blocks in between is woken by its time-out.
StopGc ==
    /\ At("stopping", "join loops")
    /\ gcStop' = TRUE
    /\ gcs' = Notified(gcs)
    /\ UNCHANGED <<started, running, status, stop, booted, loops, stoppers>>

\* Faulty variant of StopAfterFailure: stop_requested_ is not set.
StopGcAfterFailure ==
    /\ At("failed", "failed: join loops")
    /\ gcStop' = TRUE
    /\ gcs' = Notified(gcs)
    /\ loops' = Notified(loops)
    /\ UNCHANGED <<started, running, status, stop, booted, stoppers>>

\* The handler of the process thread: stop_requested_, request_stop(), and a
\* notification of the polling loops.
StopAfterFailure ==
    /\ At("failed", "failed: join loops")
    /\ stop' = TRUE /\ gcStop' = TRUE
    /\ gcs' = Notified(gcs)
    /\ loops' = Notified(loops)
    /\ UNCHANGED <<started, running, status, booted, stoppers>>

Over(ps) == \A p \in DOMAIN ps : ps[p] \in {"none", "ended"}

\* Faulty variant of JoinLoops: the loops are left running after a failure.
JoinLoopsOnSuccess ==
    /\ \/ At("join loops", "join gc") /\ Over(loops)
       \/ At("failed: join loops", "failed: join gc")
    /\ UNCHANGED <<flags, loops, gcs, stoppers>>

JoinLoops ==
    /\ At("join loops", "join gc") \/ At("failed: join loops", "failed: join gc")
    /\ Over(loops)
    /\ UNCHANGED <<flags, loops, gcs, stoppers>>

JoinGc ==
    /\ process \in {"join gc", "failed: join gc"}
    /\ Over(gcs)
    /\ process' = "ended"
    /\ status' = IF process = "join gc" THEN 0 ELSE 1
    /\ running' = FALSE
    /\ UNCHANGED <<started, stop, gcStop, booted, loops, gcs, stoppers>>

--------------------------------------------------------------------------------

\* Faulty variant of Polls: the wait has no time-out.
PollsUntimed(ps, p, flag) ==
    \/ ps[p] = "top" /\ ps' = [ps EXCEPT ![p] = IF flag THEN "ended" ELSE "working"]
    \/ ps[p] = "working" /\ ps' = [ps EXCEPT ![p] = IF flag THEN "top" ELSE "blocking"]
    \/ ps[p] = "blocking" /\ ps' = [ps EXCEPT ![p] = "waiting"]

\* One step of a polling thread, given the flag it looks at.  wait_for is
\* left when it is notified or times out; the loop condition decides.
Polls(ps, p, flag) ==
    \/ ps[p] = "top" /\ ps' = [ps EXCEPT ![p] = IF flag THEN "ended" ELSE "working"]
    \/ ps[p] = "working" /\ ps' = [ps EXCEPT ![p] = IF flag THEN "top" ELSE "blocking"]
    \/ ps[p] = "blocking" /\ ps' = [ps EXCEPT ![p] = "waiting"]
    \/ ps[p] = "waiting" /\ ps' = [ps EXCEPT ![p] = "top"]

LoopStep(l) == Polls(loops, l, stop) /\ UNCHANGED <<flags, process, gcs, stoppers>>

GcStep(g) == Polls(gcs, g, gcStop) /\ UNCHANGED <<flags, process, loops, stoppers>>

\* request_stop(), from any thread, also before start(): set stop_requested_;
\* set entity_gc_stop_requested_ and notify the GC threads; notify the rest.
RequestStop(s) ==
    \/ /\ stoppers[s] = "none"
       /\ stop' = TRUE
       /\ stoppers' = [stoppers EXCEPT ![s] = "gc"]
       /\ UNCHANGED <<started, running, status, gcStop, booted, process, loops, gcs>>
    \/ /\ stoppers[s] = "gc"
       /\ gcStop' = TRUE
       /\ stoppers' = [stoppers EXCEPT ![s] = "notify gc"]
       /\ UNCHANGED <<started, running, status, stop, booted, process, loops, gcs>>
    \/ /\ stoppers[s] = "notify gc"
       /\ gcs' = Notified(gcs)
       /\ stoppers' = [stoppers EXCEPT ![s] = "notify"]
       /\ UNCHANGED <<flags, process, loops>>
    \/ /\ stoppers[s] = "notify"
       /\ process' = IF process = "waiting" THEN "check" ELSE process
       /\ loops' = Notified(loops)
       /\ stoppers' = [stoppers EXCEPT ![s] = "done"]
       /\ UNCHANGED <<flags, gcs>>

\* What the process thread does by itself.
ProcessStep ==
    \/ Bootstrap \/ BootstrapFails
    \/ StartGc \/ StartLoop \/ LoopsStarted \/ StartLoopFails
    \/ CheckStop \/ Block
    \/ StopGc \/ StopAfterFailure \/ JoinLoops \/ JoinGc

Next ==
    \/ Start
    \/ ProcessStep
    \/ SpuriousWakeup
    \/ \E l \in Loop : LoopStep(l)
    \/ \E g \in Gc : GcStep(g)
    \/ \E s \in Stopper : RequestStop(s)

Spec == Init /\ [][Next]_vars

\* The scheduler runs every thread, the timed waits of the polling threads
\* end, and a request_stop() that was begun is carried out.  Nobody has to
\* start or stop the process.
Fairness ==
    /\ WF_vars(ProcessStep)
    /\ \A l \in Loop : WF_vars(LoopStep(l))
    /\ \A g \in Gc : WF_vars(GcStep(g))
    /\ \A s \in Stopper : WF_vars(stoppers[s] # "none" /\ RequestStop(s))

FairSpec == Spec /\ Fairness

--------------------------------------------------------------------------------

\* When the process has a status, which join() reports, no polling loop and no
\* GC thread is left, whichever start-up step failed and whenever the stop
\* request came.
FinishedIsQuiet == status # None => Over(loops) /\ Over(gcs)

\* No workflow step is claimed and no entity collected before bootstrap() has
\* registered the runtime catalog.
NoWorkBeforeBootstrap ==
    ~booted => \A p \in Loop : loops[p] = "none" /\ \A g \in Gc : gcs[g] = "none"

\* A stop request reaches every loop, although request_stop() notifies without
\* the mutex: their waits are timed.
StopEndsLoops == started /\ stop ~> Over(loops)

\* An exception in start-up ends the process with status 1: the loops and GC
\* threads that were already started are stopped and joined.
FailureIsReported == process = "failed" ~> status = 1

\* "Stop workflow loops and GC workers on request_stop() ... Wait for all
\* generated background work to finish in join()"
\* (docs/worker-process-lifecycle.md:19): after a stop request the process ends.
StopFinishes == started /\ stop ~> status # None

================================================================================
