----------------------------- MODULE Persistent -----------------------------
(***************************************************************************)
(* What the steps of a job are told of each other in the persistent mode:  *)
(* read_state takes the plan and the findings from the rows that           *)
(* finalize_step has left, build_prompt makes the prompt of the step.      *)
(*                                                                         *)
(* The lease, the chunks and the stream are the subject of Worker.tla; a   *)
(* step is done here, by any process, or its process dies.  A process that *)
(* lost its lease goes on with the step it has read, next to its successor *)
(* - "exclusive" behaviours are those without.  A text is named by its     *)
(* step.                                                                   *)
(***************************************************************************)
EXTENDS Research, FiniteSets

CONSTANTS
  Worker,       \* the worker processes
  Corpora,      \* numbers of documents
  Totals,       \* values of TOTAL_STEPS
  MaxFaults     \* bound on the deaths and evictions

ASSUME SizeAssumption ==
  /\ Corpora \subseteq Nat /\ Totals \subseteq Nat \ {0}
  /\ MaxFaults \in Nat
  /\ \E m \in Totals : \A n \in Totals : n <= m

VARIABLES
  docs,         \* documents in the corpus
  total,        \* job_state.total_steps
  exclusive,    \* nobody is evicted
  step,         \* job_state.step
  memory,       \* memory[n]: number of memory_events of step n
  done,         \* jobs.status
  pc,           \* "idle", "step" or "dead"
  prompt,       \* the prompt of a process in a step
  faults        \* faults so far

jobVars == <<docs, total, exclusive>>
rowVars == <<step, memory, done>>
workVars == <<jobVars, rowVars, pc, prompt, faults>>

Steps == 1 .. (CHOOSE m \in Totals : \A n \in Totals : n <= m)

NoPrompt == [step |-> 0, plan |-> FALSE, findings |-> <<>>]

WorkTypeOK ==
  /\ docs \in Corpora /\ total \in Totals /\ exclusive \in BOOLEAN
  /\ step \in Steps \cup {total + 1}
  /\ memory \in [Steps -> 0 .. MaxFaults + 1]
  /\ done \in BOOLEAN
  /\ pc \in [Worker -> {"idle", "step", "dead"}]
  /\ \A w \in Worker :
       /\ prompt[w].step \in Steps \cup {0}
       /\ prompt[w].plan \in BOOLEAN
       /\ prompt[w].findings \in Seq(Steps)
  /\ faults \in 0 .. MaxFaults

WorkInit ==
  /\ docs \in Corpora /\ total \in Totals /\ exclusive \in BOOLEAN
  /\ step = 1
  /\ memory = [n \in Steps |-> 0]
  /\ done = FALSE
  /\ pc = [w \in Worker |-> "idle"]
  /\ prompt = [w \in Worker |-> NoPrompt]
  /\ faults = 0

Fault == faults < MaxFaults /\ faults' = faults + 1

-----------------------------------------------------------------------------
(* read_state: the events of kind finding or synthesis, ordered by step.   *)
OfKind(kinds) == {n \in Steps : memory[n] > 0 /\ StepKind(docs, n) \in kinds}

Rows(S) == UNION {{n} \X (1 .. memory[n]) : n \in S}

UpTo(rows, n) == Cardinality({r \in rows : r[1] <= n})

StepAt(rows, i) == CHOOSE n \in Steps : i <= UpTo(rows, n) /\ UpTo(rows, n - 1) < i

(* The steps of the rows; bound to r, they are computed once by TLC.       *)
InOrder(rows) ==
  CHOOSE f \in {[i \in 1 .. Cardinality(r) |-> StepAt(r, i)] : r \in {rows}} : TRUE

(* Mutant of Findings: of the findings only, not of the syntheses.         *)
FindingsOnly == InOrder(Rows(OfKind({"finding"})))

(* Mutant of Findings: those before the step that was done last.           *)
FindingsBefore ==
  InOrder({r \in Rows(OfKind({"finding", "synthesis"})) : r[1] < step - 1})

Findings == InOrder(Rows(OfKind({"finding", "synthesis"})))

PlanText == OfKind({"plan"}) # {}

(* build_prompt, by what it is given.                                      *)
Prompt == [step |-> step, plan |-> PlanText, findings |-> Findings]

Alone(w) == \A v \in Worker \ {w} : pc[v] # "step"

(* Mutant of Begin: it goes on after the last step.                        *)
BeginPast(w) ==
  /\ pc[w] = "idle"
  /\ HasStep(docs, step)
  /\ \/ Alone(w) /\ UNCHANGED faults
     \/ ~Alone(w) /\ ~exclusive /\ Fault
  /\ pc' = [pc EXCEPT ![w] = "step"]
  /\ prompt' = [prompt EXCEPT ![w] = Prompt]
  /\ UNCHANGED <<jobVars, rowVars>>

(* A process begins or resumes the step of the row.  With another one in a *)
(* step, that one has lost its lease.                                      *)
Begin(w) ==
  /\ pc[w] = "idle"
  /\ step <= total
  /\ HasStep(docs, step)
  /\ \/ Alone(w) /\ UNCHANGED faults
     \/ ~Alone(w) /\ ~exclusive /\ Fault
  /\ pc' = [pc EXCEPT ![w] = "step"]
  /\ prompt' = [prompt EXCEPT ![w] = Prompt]
  /\ UNCHANGED <<jobVars, rowVars>>

(* step_type raises IndexError, which nobody catches.                      *)
Raise(w) ==
  /\ pc[w] = "idle"
  /\ step <= total
  /\ ~HasStep(docs, step)
  /\ pc' = [pc EXCEPT ![w] = "dead"]
  /\ UNCHANGED <<jobVars, rowVars, prompt, faults>>

(* Mutant of Finalize: the job ends when its last step begins.             *)
FinalizeEarly(w) ==
  /\ pc[w] = "step"
  /\ memory' = [memory EXCEPT ![prompt[w].step] = @ + 1]
  /\ step' = prompt[w].step + 1
  /\ done' = (done \/ prompt[w].step + 1 >= total)
  /\ pc' = [pc EXCEPT ![w] = "idle"]
  /\ prompt' = [prompt EXCEPT ![w] = NoPrompt]
  /\ UNCHANGED <<jobVars, faults>>

(* finalize_step, of an evicted process too.                               *)
Finalize(w) ==
  /\ pc[w] = "step"
  /\ memory' = [memory EXCEPT ![prompt[w].step] = @ + 1]
  /\ step' = prompt[w].step + 1
  /\ done' = (done \/ prompt[w].step >= total)
  /\ pc' = [pc EXCEPT ![w] = "idle"]
  /\ prompt' = [prompt EXCEPT ![w] = NoPrompt]
  /\ UNCHANGED <<jobVars, faults>>

Die(w) ==
  /\ pc[w] # "dead"
  /\ Fault
  /\ pc' = [pc EXCEPT ![w] = "dead"]
  /\ prompt' = [prompt EXCEPT ![w] = NoPrompt]
  /\ UNCHANGED <<jobVars, rowVars>>

Start(w) ==
  /\ pc[w] = "dead"
  /\ pc' = [pc EXCEPT ![w] = "idle"]
  /\ UNCHANGED <<jobVars, rowVars, prompt, faults>>

Work(w) == Begin(w) \/ Raise(w) \/ Finalize(w) \/ Start(w)

WorkNext == \E w \in Worker : Work(w) \/ Die(w)

-----------------------------------------------------------------------------
(* A corpus that leaves room for the plan and the final synthesis.         *)
Fits == docs + 2 <= PlanLength

(* However often a step was begun, and by whomever: the prompt of a step   *)
(* has the text of every step before it, in their order, and without       *)
(* evictions nothing else.  A late finalize_step may leave a text twice,   *)
(* or one of a later step.                                                 *)
PromptCoversPast ==
  \A w \in Worker : pc[w] = "step" =>
    LET p == prompt[w]  f == p.findings IN
    /\ p.step > 1 => p.plan
    /\ 2 .. p.step - 1 \subseteq {f[i] : i \in DOMAIN f}
    /\ \A i, j \in DOMAIN f : i <= j => f[i] <= f[j]
    /\ exclusive => f = [i \in 1 .. p.step - 2 |-> i + 1]

(* The prompt has the text that the reading of document d left.            *)
HasFinding(p, d) ==
  \E i \in DOMAIN p.findings : StepType(docs, p.findings[i]) = Entry(p.findings[i], "read", d)

(* A job over the whole plan becomes done in one way only, whoever died or *)
(* came late before: by a process that ends a final synthesis which had a  *)
(* finding of every document in its prompt.                                *)
DoneMeansRead ==
  [][~done /\ done' /\ Fits /\ total = PlanLength =>
       \E w \in Worker :
         /\ pc[w] = "step" /\ pc'[w] = "idle"
         /\ StepType(docs, prompt[w].step).type = "synthesize_final"
         /\ \A d \in 1 .. docs : HasFinding(prompt[w], d)]_workVars

(* Without evictions, what a job does with its memory cannot be told from  *)
(* one process that never dies and keeps everything in its locals: the two *)
(* modes give the same prompts.                                            *)
Amnesia == INSTANCE Ephemeral WITH plan <- PlanText, findings <- Findings

LikeEphemeral ==
  /\ exclusive => Amnesia!Init
  /\ [][exclusive => Amnesia!DoStep \/ UNCHANGED Amnesia!vars]_workVars

(* A job ends as long as its steps are in the plan; with TOTAL_STEPS       *)
(* beyond it every process that takes the job up dies of it.               *)
EndsWithinPlan == (total <= PlanLength) ~> done
=============================================================================
