---------------------------- MODULE MCWorkflowRunner ---------------------------
(***************************************************************************)
(* Instances of the workflow runner for TLC.                               *)
(***************************************************************************)
EXTENDS WorkflowRunner, TLC

CONSTANTS r1, r2, a1, a2, s1, s2

\* Two steps in a row, and one step.
TwoSteps == s1 :> s2 @@ s2 :> NoStep
OneStep == s1 :> NoStep

\* Two loops of one worker.
OneWorker == r1 :> "w" @@ r2 :> "w"

Loops == Permutations({r1, r2})

================================================================================
