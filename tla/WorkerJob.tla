----------------------------- MODULE WorkerJob -----------------------------
(***************************************************************************)
(* The workers keep the promise of Job.tla: seen from the job's rows, the  *)
(* hand-overs, retries and deaths of Worker.tla cannot be told from one    *)
(* unhurried author.                                                       *)
(***************************************************************************)
EXTENDS Worker

TheJob == INSTANCE Job WITH
  step <- jobState.step,
  text <- jobState.partial_output,
  findings <- events

(* Every write to job_state and memory_events is a step of Job: no word is *)
(* lost, repeated or mixed, no step is set back, concluded twice, or       *)
(* concluded with less than all of its text.                               *)
KeepsTheJob == TheJob!Spec
=============================================================================
