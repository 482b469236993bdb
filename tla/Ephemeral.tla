----------------------------- MODULE Ephemeral -----------------------------
(***************************************************************************)
(* worker.run_ephemeral, the mode without a memory: one process that keeps *)
(* the plan and the findings in two locals and puts them into the prompt   *)
(* of the next step.  It is what the persistent mode, of which every step  *)
(* may be done by another process, is compared with.  A text is named by   *)
(* its step.                                                               *)
(***************************************************************************)
EXTENDS Research

VARIABLES
  docs,         \* documents in the corpus
  total,        \* config.TOTAL_STEPS
  step,         \* the step that comes next
  plan,         \* plan_text # ""
  findings      \* findings

vars == <<docs, total, step, plan, findings>>

Init ==
  /\ docs \in Nat
  /\ total \in Nat
  /\ step = 1
  /\ plan = FALSE
  /\ findings = <<>>

(* build_prompt raises for a step that is not in the plan.                 *)
DoStep ==
  /\ step <= total
  /\ HasStep(docs, step)
  /\ step' = step + 1
  /\ IF StepKind(docs, step) = "plan"
     THEN plan' = TRUE /\ UNCHANGED findings
     ELSE findings' = Append(findings, step) /\ UNCHANGED plan
  /\ UNCHANGED <<docs, total>>

Spec == Init /\ [][DoStep]_vars
=============================================================================
