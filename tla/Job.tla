-------------------------------- MODULE Job --------------------------------
(***************************************************************************)
(* What one research job promises to its reader, with no process, lease or *)
(* transaction in sight: the steps are worked through one at a time, the   *)
(* text of the step in hand only ever grows by its next words, and a step  *)
(* that is concluded leaves exactly one finding, holding all of its text.  *)
(*                                                                         *)
(* Worker.tla is the program that is meant to keep this promise; the       *)
(* refinement mapping is in WorkerJob.tla.                                 *)
(***************************************************************************)
EXTENDS Naturals, Sequences

CONSTANTS
  TotalSteps,   \* job_state.total_steps
  MaxLen        \* longest text of one step, in words

VARIABLES
  step,         \* the step in hand, TotalSteps + 1 when there is none left
  text,         \* its text so far
  findings,     \* findings[s]: the findings recorded for step s
  status        \* "running" or "done"

jobVars == <<step, text, findings, status>>

(***************************************************************************)
(* A word is its position in the text the model writes, so unbroken text   *)
(* of length n is <<1, ..., n>>: a word repeated, dropped or out of order  *)
(* shows as a number in the wrong place.                                   *)
(***************************************************************************)
Unbroken(n) == [i \in 1 .. n |-> i]

Init ==
  /\ step = 1
  /\ text = <<>>
  /\ findings = [s \in 1 .. TotalSteps |-> <<>>]
  /\ status = "running"

Think ==
  /\ step <= TotalSteps
  /\ \E n \in Len(text) + 1 .. MaxLen : text' = Unbroken(n)
  /\ UNCHANGED <<step, findings, status>>

Conclude ==
  /\ step <= TotalSteps
  /\ findings' = [findings EXCEPT ![step] = <<text>>]
  /\ step' = step + 1
  /\ text' = <<>>
  /\ status' = IF step = TotalSteps THEN "done" ELSE status

Next == Think \/ Conclude

Spec == Init /\ [][Next]_jobVars
=============================================================================
