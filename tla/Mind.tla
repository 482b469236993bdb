-------------------------------- MODULE Mind --------------------------------
(***************************************************************************)
(* The rows of one job in CockroachDB, which is where the agent's mind     *)
(* lives (schema/schema.sql): jobs.status, job_state, output_chunks and    *)
(* memory_events, with the transactions worker.py runs on them.  A         *)
(* transaction of db.run_txn is serializable and is re-run from the start  *)
(* on a serialization failure, so what is left of it is one atomic step.   *)
(*                                                                         *)
(* A word is its position in the text of its step: the model continues     *)
(* text of length n with word n + 1 (research.build_prompt asks it to      *)
(* continue from the last character, repeating nothing).  Text that was    *)
(* repeated, dropped or mixed is then a sequence other than <<1, 2, ...>>. *)
(***************************************************************************)
EXTENDS Integers, Sequences, FiniteSets

CONSTANT TotalSteps       \* config.TOTAL_STEPS

ASSUME TotalStepsAssumption == TotalSteps \in Nat \ {0}

VARIABLES
  status,       \* jobs.status
  jobState,     \* job_state: step and partial_output
  chunks,       \* output_chunks: chunks[s] maps seq to text, keyed (step, seq)
  events        \* memory_events: events[s] lists the contents written for s

mindVars == <<status, jobState, chunks, events>>

Step == 1 .. TotalSteps
Text == Seq(Nat)

MindTypeOK ==
  /\ status \in {"running", "done"}
  /\ jobState \in [step : 1 .. TotalSteps + 1, partial_output : Text]
  /\ DOMAIN chunks = Step
  /\ \A s \in Step :
       /\ IsFiniteSet(DOMAIN chunks[s])
       /\ \A q \in DOMAIN chunks[s] : q \in Nat /\ chunks[s][q] \in Text
  /\ events \in [Step -> Seq(Text)]

(* create_job *)
MindInit ==
  /\ status = "running"
  /\ jobState = [step |-> 1, partial_output |-> <<>>]
  /\ chunks = [s \in Step |-> <<>>]
  /\ events = [s \in Step |-> <<>>]

(* next_chunk_seq: SELECT count of the chunks of the step.                *)
NextChunkSeq(s) == Cardinality(DOMAIN chunks[s])

(* The primary key (job_id, step, seq) refuses a second row.              *)
ChunkExists(s, q) == q \in DOMAIN chunks[s]

(* INSERT INTO output_chunks, then UPDATE job_state: the partial output   *)
(* of the job is extended whatever step it has reached.                   *)
AppendChunk(s, q, text) ==
  /\ ~ChunkExists(s, q)
  /\ chunks' = [chunks EXCEPT ![s] =
       [r \in DOMAIN chunks[s] \cup {q} |->
          IF r = q THEN text ELSE chunks[s][r]]]
  /\ jobState' = [jobState EXCEPT !.partial_output = @ \o text]
  /\ UNCHANGED <<status, events>>

(* Mutants of RecordStep: step = step + 1 in SQL instead of the caller's   *)
(* step plus one, and the last step taken for passed one step early.       *)
RecordStepRelative(s, text) ==
  /\ events' = [events EXCEPT ![s] = Append(@, text)]
  /\ jobState' = [step |-> jobState.step + 1, partial_output |-> <<>>]
  /\ status' = IF s >= TotalSteps THEN "done" ELSE status
  /\ UNCHANGED chunks

RecordStepDoneEarly(s, text) ==
  /\ events' = [events EXCEPT ![s] = Append(@, text)]
  /\ jobState' = [step |-> s + 1, partial_output |-> <<>>]
  /\ status' = IF s + 1 >= TotalSteps THEN "done" ELSE status
  /\ UNCHANGED chunks

(* The transaction of finalize_step: the memory event, the next step with *)
(* an empty partial output, and the end of the job after its last step.   *)
RecordStep(s, text) ==
  /\ events' = [events EXCEPT ![s] = Append(@, text)]
  /\ jobState' = [step |-> s + 1, partial_output |-> <<>>]
  /\ status' = IF s >= TotalSteps THEN "done" ELSE status
  /\ UNCHANGED chunks
=============================================================================
