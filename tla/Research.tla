------------------------------ MODULE Research ------------------------------
(***************************************************************************)
(* The step plan of research.py: a first step that plans, one step for     *)
(* each document of the corpus, syntheses, and a final synthesis as the    *)
(* last step of a plan that is meant to have PlanLength steps however many *)
(* documents there are.                                                    *)
(***************************************************************************)
EXTENDS Integers, Sequences

CONSTANT PlanLength   \* 20 in the code

ASSUME PlanAssumption == PlanLength \in Nat \ {0, 1}

Entry(n, t, d) == [index |-> n, type |-> t, doc |-> d]

Syntheses(first) ==
  SubSeq([n \in 1 .. PlanLength |-> Entry(n, "synthesize", 0)], first, PlanLength - 1)

(* Mutant of StepPlan: the syntheses begin one step late.                  *)
StepPlanGap(docs) ==
  <<Entry(1, "plan", 0)>> \o [i \in 1 .. docs |-> Entry(i + 1, "read", i)]
    \o Syntheses(docs + 3) \o <<Entry(PlanLength, "synthesize_final", 0)>>

(* build_step_plan.  A corpus that does not fit leaves no synthesis, and   *)
(* reading steps beside and beyond the final one.                          *)
StepPlan(docs) ==
  <<Entry(1, "plan", 0)>> \o [i \in 1 .. docs |-> Entry(i + 1, "read", i)]
    \o Syntheses(docs + 2) \o <<Entry(PlanLength, "synthesize_final", 0)>>

HasStep(docs, n) == \E i \in DOMAIN StepPlan(docs) : StepPlan(docs)[i].index = n

(* step_type: the first entry with that index; without one it raises.      *)
StepType(docs, n) ==
  LET plan == StepPlan(docs)
  IN  plan[CHOOSE i \in DOMAIN plan : /\ plan[i].index = n
                                      /\ \A j \in 1 .. i - 1 : plan[j].index # n]

(* worker.step_kind_for.                                                   *)
StepKind(docs, n) ==
  [plan |-> "plan", read |-> "finding", synthesize |-> "synthesis",
   synthesize_final |-> "synthesis"][StepType(docs, n).type]
=============================================================================
