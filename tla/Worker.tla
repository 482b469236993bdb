------------------------------- MODULE Worker -------------------------------
(***************************************************************************)
(* worker.py working on one job: run_persistent, run_persistent_step and   *)
(* the thread _lease_heartbeat, in the worker services of several regions  *)
(* that share nothing but the rows of Lease.tla and Mind.tla.              *)
(*                                                                         *)
(* Every call of db.run_txn is one step, its commit, with an age where the *)
(* lease is written (Lease.tla); what a process does between two           *)
(* calls touches only its locals and is merged into the step of a call     *)
(* unless it can be interrupted with an effect.  The heartbeat is a second *)
(* thread of the process and interleaves with the first.  A process dies   *)
(* at any point, and with it every local; its replacement starts over.     *)
(***************************************************************************)
EXTENDS Lease, Mind

CONSTANTS
  Worker,       \* the worker services, each running one process at a time
  OwnersOf,     \* OwnersOf[w]: the owner strings a process of w may have,
                \*   its region and any pid
  MaxSilence,   \* longest a process inside a step goes without a heartbeat
                \*   that came back, in time units
  MaxLen,       \* longest text of one step, in words
  MaxRetries,   \* config.STEP_MAX_RETRIES
  MaxFaults     \* bound on the faults of a behaviour

ASSUME OwnersOfAssumption == OwnersOf \in [Worker -> (SUBSET Owner) \ {{}}]
ASSUME BoundsAssumption ==
  /\ MaxSilence \in Nat \ {0}
  /\ MaxLen \in Nat
  /\ MaxRetries \in Nat
  /\ MaxFaults \in Nat

VARIABLES
  pc,           \* where the main thread of each worker is
  owner,        \* the owner string of its process
  frame,        \* the locals of run_persistent_step
  idle,         \* time units its main thread has been there, up to MaxTxn
  silence,      \* time units since its claim or last heartbeat
  late,         \* ages of the last claims of its former heartbeat threads
  faults        \* faults so far

threadVars == <<pc, owner, frame, idle, silence, late>>
vars == <<lease, mindVars, threadVars, faults>>

(* The program points between transactions:                               *)
(*   dead      no process                                                 *)
(*   claim     about to call claim_or_renew_lease                         *)
(*   read      about to call read_state                                   *)
(*   seq       about to call next_chunk_seq                               *)
(*   stream    in the loop over llm.step_stream                           *)
(*   rescue    at the start of the except branch                          *)
(*   finalize  about to call finalize_step                                *)
(*   exit      run_persistent returned                                    *)
PC == {"dead", "claim", "read", "seq", "stream", "rescue", "finalize", "exit"}

Frame == [step : 0 .. TotalSteps, seq : Nat, full_text : Text,
          buffer : Text, attempt : 0 .. MaxRetries]

Blank == [step |-> 0, seq |-> 0, full_text |-> <<>>, buffer |-> <<>>,
          attempt |-> 0]

InStep(w) == pc[w] \in {"read", "seq", "stream", "rescue", "finalize"}

WorkerTypeOK ==
  /\ pc \in [Worker -> PC]
  /\ owner \in [Worker -> Owner]
  /\ frame \in [Worker -> Frame]
  /\ idle \in [Worker -> 0 .. MaxTxn]
  /\ silence \in [Worker -> 0 .. MaxSilence]
  /\ late \in [Worker -> SUBSET (0 .. MaxTxn)]
  /\ faults \in 0 .. MaxFaults

-----------------------------------------------------------------------------
Init ==
  /\ LeaseInit
  /\ MindInit
  /\ pc = [w \in Worker |-> "claim"]
  /\ owner \in {o \in [Worker -> Owner] : \A w \in Worker : o[w] \in OwnersOf[w]}
  /\ frame = [w \in Worker |-> Blank]
  /\ idle = [w \in Worker |-> 0]
  /\ silence = [w \in Worker |-> 0]
  /\ late = [w \in Worker |-> {}]
  /\ faults = 0

(***************************************************************************)
(* Moves of the main thread.                                               *)
(***************************************************************************)
GoTo(w, p) ==
  /\ pc' = [pc EXCEPT ![w] = p]
  /\ idle' = [idle EXCEPT ![w] = 0]

(* How long ago the transaction that ends the main thread's wait, or that  *)
(* of its heartbeat, may have started.                                     *)
Age(w) == 0 .. idle[w]

HeartbeatAge(w) == {age \in 0 .. MaxTxn : age <= silence[w]}

(* run_persistent_step returned: stop_event.set(), and join(timeout=1) may *)
(* give up on a heartbeat that is still inside its last claim.             *)
LeaveStep(w, p) ==
  /\ GoTo(w, p)
  /\ frame' = [frame EXCEPT ![w] = Blank]
  /\ silence' = [silence EXCEPT ![w] = 0]
  /\ \/ UNCHANGED late
     \/ \E age \in HeartbeatAge(w) : late' = [late EXCEPT ![w] = @ \cup {age}]
  /\ UNCHANGED <<owner, faults>>

(* The process is gone, and its daemon thread with it.                     *)
Vanish(w) ==
  /\ GoTo(w, "dead")
  /\ frame' = [frame EXCEPT ![w] = Blank]
  /\ silence' = [silence EXCEPT ![w] = 0]
  /\ late' = [late EXCEPT ![w] = {}]
  /\ UNCHANGED owner

(* One of the faults a behaviour may have.                                 *)
Fault == faults < MaxFaults /\ faults' = faults + 1

-----------------------------------------------------------------------------
(***************************************************************************)
(* The steps of run_persistent.                                            *)
(***************************************************************************)

(* A claim that is refused or timed out changes nothing: the worker sleeps *)
(* STANDBY_POLL_SECONDS and asks again.                                    *)
Claim(w) ==
  /\ pc[w] = "claim"
  /\ \E age \in Age(w) : ClaimOrRenewLease(owner[w], age)
  /\ GoTo(w, "read")
  /\ silence' = [silence EXCEPT ![w] = 0]
  /\ UNCHANGED <<mindVars, owner, frame, late, faults>>

ReadState(w) ==
  /\ pc[w] = "read"
  /\ jobState.step <= TotalSteps
  /\ GoTo(w, "seq")
  /\ frame' = [frame EXCEPT ![w] =
       [step |-> jobState.step, seq |-> 0,
        full_text |-> jobState.partial_output, buffer |-> <<>>,
        attempt |-> 0]]
  /\ UNCHANGED <<lease, mindVars, owner, silence, late, faults>>

(* if step > total_steps: return False                                     *)
FindDone(w) ==
  /\ pc[w] = "read"
  /\ jobState.step > TotalSteps
  /\ LeaveStep(w, "exit")
  /\ UNCHANGED <<lease, mindVars>>

CountChunks(w) ==
  /\ pc[w] = "seq"
  /\ GoTo(w, "stream")
  /\ frame' = [frame EXCEPT ![w].seq = NextChunkSeq(frame[w].step)]
  /\ UNCHANGED <<lease, mindVars, owner, silence, late, faults>>

(***************************************************************************)
(* The loop over the streamed answer.                                      *)
(***************************************************************************)

(* The next word of the answer arrives.                                    *)
Delta(w) ==
  /\ pc[w] = "stream"
  /\ Len(frame[w].full_text) < MaxLen
  /\ GoTo(w, "stream")
  /\ LET word == Len(frame[w].full_text) + 1
     IN  frame' = [frame EXCEPT ![w].full_text = Append(@, word),
                                ![w].buffer = Append(@, word)]
  /\ UNCHANGED <<lease, mindVars, owner, silence, late, faults>>

(* The transaction of flush_chunk.                                         *)
Flush(w) ==
  /\ frame[w].buffer # <<>>
  /\ AppendChunk(frame[w].step, frame[w].seq, frame[w].buffer)
  /\ \E age \in Age(w) : RenewIfOwner(owner[w], age)

Conflict(w) ==
  frame[w].buffer # <<>> /\ ChunkExists(frame[w].step, frame[w].seq)

FlushChunk(w) ==
  /\ pc[w] = "stream"
  /\ Flush(w)
  /\ GoTo(w, "stream")
  /\ frame' = [frame EXCEPT ![w].seq = @ + 1, ![w].buffer = <<>>]
  /\ UNCHANGED <<owner, silence, late, faults>>

(* The insert hits the primary key and raises UniqueViolation.             *)
FlushRefused(w) ==
  /\ pc[w] = "stream"
  /\ Conflict(w)
  /\ GoTo(w, "rescue")
  /\ UNCHANGED <<lease, mindVars, owner, frame, silence, late, faults>>

(* The transaction fails: timeout, lost connection, retries used up.       *)
FlushFails(w) ==
  /\ pc[w] = "stream"
  /\ frame[w].buffer # <<>>
  /\ Fault
  /\ GoTo(w, "rescue")
  /\ UNCHANGED <<lease, mindVars, owner, frame, silence, late>>

(* The transaction commits and its acknowledgement is lost.                *)
FlushUnacknowledged(w) ==
  /\ pc[w] = "stream"
  /\ Flush(w)
  /\ Fault
  /\ GoTo(w, "rescue")
  /\ UNCHANGED <<owner, frame, silence, late>>

(* Mutant of EndStream: the flush after the loop is left out.              *)
EndStreamUnflushed(w) ==
  /\ pc[w] = "stream"
  /\ GoTo(w, "finalize")
  /\ UNCHANGED <<lease, mindVars, owner, frame, silence, late, faults>>

(* The answer ends, its last words flushed.                                *)
EndStream(w) ==
  /\ pc[w] = "stream"
  /\ frame[w].buffer = <<>>
  /\ GoTo(w, "finalize")
  /\ UNCHANGED <<lease, mindVars, owner, frame, silence, late, faults>>

(* llm.step_stream raises.                                                 *)
StreamError(w) ==
  /\ pc[w] = "stream"
  /\ Fault
  /\ GoTo(w, "rescue")
  /\ UNCHANGED <<lease, mindVars, owner, frame, silence, late>>

-----------------------------------------------------------------------------
(***************************************************************************)
(* The except branch: flush what is buffered, then raise after the last    *)
(* attempt, or sleep and ask for the rest of the answer.                   *)
(***************************************************************************)
Salvage(w) ==
  \/ frame[w].buffer = <<>> /\ UNCHANGED <<lease, mindVars>>
  \/ Flush(w)

(* Mutants of Retry: seq += 1 outside the if, and no new buffer for the    *)
(* next attempt.                                                           *)
RetrySkipsSeq(w) ==
  /\ pc[w] = "rescue"
  /\ frame[w].attempt < MaxRetries
  /\ Salvage(w)
  /\ GoTo(w, "stream")
  /\ frame' = [frame EXCEPT
       ![w].seq = @ + 1, ![w].buffer = <<>>, ![w].attempt = @ + 1]
  /\ UNCHANGED <<owner, silence, late, faults>>

RetryKeepsBuffer(w) ==
  /\ pc[w] = "rescue"
  /\ frame[w].attempt < MaxRetries
  /\ Salvage(w)
  /\ GoTo(w, "stream")
  /\ frame' = [frame EXCEPT
       ![w].seq = IF frame[w].buffer = <<>> THEN @ ELSE @ + 1,
       ![w].attempt = @ + 1]
  /\ UNCHANGED <<owner, silence, late, faults>>

Retry(w) ==
  /\ pc[w] = "rescue"
  /\ frame[w].attempt < MaxRetries
  /\ Salvage(w)
  /\ GoTo(w, "stream")
  /\ frame' = [frame EXCEPT
       ![w].seq = IF frame[w].buffer = <<>> THEN @ ELSE @ + 1,
       ![w].buffer = <<>>,
       ![w].attempt = @ + 1]
  /\ UNCHANGED <<owner, silence, late, faults>>

(* The exception leaves the step, and with it the process: attempts are    *)
(* used up, or the flush of the except branch itself is refused.           *)
GiveUp(w) ==
  /\ pc[w] = "rescue"
  /\ \/ frame[w].attempt >= MaxRetries /\ Salvage(w)
     \/ Conflict(w) /\ UNCHANGED <<lease, mindVars>>
  /\ Vanish(w)
  /\ UNCHANGED faults

(* finalize_step does not look at the lease.                               *)
FinalizeStep(w) ==
  /\ pc[w] = "finalize"
  /\ RecordStep(frame[w].step, frame[w].full_text)
  /\ LeaveStep(w, IF frame[w].step < TotalSteps THEN "claim" ELSE "exit")
  /\ UNCHANGED lease

-----------------------------------------------------------------------------
(***************************************************************************)
(* The heartbeat thread, the platform and the clock.                       *)
(***************************************************************************)

(* Mutant of Heartbeat: a thread that wakes up and renews nothing.         *)
HeartbeatMute(w) ==
  /\ InStep(w)
  /\ silence' = [silence EXCEPT ![w] = 0]
  /\ UNCHANGED <<lease, mindVars, pc, owner, frame, idle, late, faults>>

(* _lease_heartbeat ignores the answer, and claims back a lease that has   *)
(* expired in the meantime.                                                *)
Renewal(w, age) ==
  \/ ClaimOrRenewLease(owner[w], age)
  \/ ~Claimable(owner[w], age) /\ UNCHANGED lease

Heartbeat(w) ==
  /\ InStep(w)
  /\ \E age \in HeartbeatAge(w) : Renewal(w, age)
  /\ silence' = [silence EXCEPT ![w] = 0]
  /\ UNCHANGED <<mindVars, pc, owner, frame, idle, late, faults>>

(* The last claim of a thread that was told to stop, which may come after  *)
(* those of its successor.                                                 *)
LateClaim(w) ==
  \E age \in late[w] :
    /\ Renewal(w, age)
    /\ late' = [late EXCEPT ![w] = @ \ {age}]
    /\ UNCHANGED <<mindVars, pc, owner, frame, idle, silence, faults>>

(* SIGKILL, or an exception out of claim_or_renew_lease, read_state,       *)
(* next_chunk_seq or finalize_step; one raised after the commit is this    *)
(* step right after the other.                                             *)
Die(w) ==
  /\ pc[w] # "dead"
  /\ Fault
  /\ Vanish(w)
  /\ UNCHANGED <<lease, mindVars>>

(* ECS replaces the task of the service.                                   *)
Start(w) ==
  /\ pc[w] = "dead"
  /\ GoTo(w, "claim")
  /\ \E o \in OwnersOf[w] : owner' = [owner EXCEPT ![w] = o]
  /\ UNCHANGED <<lease, mindVars, frame, silence, late, faults>>

(* The main thread's next step may be a transaction that writes the lease. *)
MayWrite(w) == pc[w] = "claim" \/ frame[w].buffer # <<>>

(* Time passes, but never past the silence a live process can keep.  A     *)
(* claim that takes longer than MaxTxn fails, which nobody looks at.       *)
Tick ==
  /\ \A w \in Worker : InStep(w) => silence[w] < MaxSilence
  /\ LeaseTick
  /\ idle' = [w \in Worker |-> IF MayWrite(w) /\ idle[w] < MaxTxn
                               THEN idle[w] + 1 ELSE idle[w]]
  /\ silence' = [w \in Worker |-> IF InStep(w) THEN silence[w] + 1 ELSE 0]
  /\ late' = [w \in Worker |-> {age \in 1 .. MaxTxn : age - 1 \in late[w]}]
  /\ UNCHANGED <<mindVars, pc, owner, frame, faults>>

-----------------------------------------------------------------------------
(* What the main thread does when nothing goes wrong around it.            *)
MainThread(w) ==
  \/ Claim(w) \/ ReadState(w) \/ FindDone(w) \/ CountChunks(w)
  \/ Delta(w) \/ FlushChunk(w) \/ FlushRefused(w) \/ EndStream(w)
  \/ Retry(w) \/ GiveUp(w) \/ FinalizeStep(w)

Misfortune(w) ==
  FlushFails(w) \/ FlushUnacknowledged(w) \/ StreamError(w) \/ Die(w)

Next ==
  \/ \E w \in Worker :
       \/ MainThread(w) \/ Misfortune(w) \/ Start(w)
       \/ Heartbeat(w) \/ LateClaim(w)
  \/ Tick

Spec == Init /\ [][Next]_vars

(***************************************************************************)
(* Both threads of a live process keep being scheduled, the platform keeps *)
(* replacing dead tasks and time keeps passing.  Misfortune is never due.  *)
(***************************************************************************)
Fairness ==
  /\ \A w \in Worker : /\ WF_vars(MainThread(w))
                       /\ WF_vars(Heartbeat(w))
                       /\ WF_vars(Start(w))
  /\ WF_vars(Tick)

FairSpec == Spec /\ Fairness

-----------------------------------------------------------------------------
(***************************************************************************)
(* Properties.                                                             *)
(***************************************************************************)

(* Every variable stays in its type, in particular job_state.step, which a *)
(* late finalize_step may set back, and the sequence numbers.              *)
TypeOK == LeaseTypeOK /\ MindTypeOK /\ WorkerTypeOK

(* The two things failover rests on: a heartbeat that comes back before    *)
(* what the one before it wrote has expired, counted from its start, and   *)
(* owner strings that tell processes apart.                                *)
Timely == MaxSilence + MaxTxn <= TTL

DistinctOwners ==
  \A v, w \in Worker : v # w => OwnersOf[v] \cap OwnersOf[w] = {}

(* The job never moves past a step that left no memory event, however many *)
(* evicted workers go on writing without the lease.                        *)
NoStepSkipped ==
  \A s \in Step : s < jobState.step => events[s] # <<>>

(* jobs.status is done only when every step has its memory event, even if  *)
(* a late finalize_step has set job_state.step back since.                 *)
DoneMeansComplete ==
  status = "done" => \A s \in Step : events[s] # <<>>

(* The chunks of a step are numbered from 0 without a gap, or else the     *)
(* count that next_chunk_seq takes for the next number would not be free.  *)
GapFree ==
  \A s \in Step : DOMAIN chunks[s] = 0 .. Cardinality(DOMAIN chunks[s]) - 1

(* At most one process is inside a step of the job.                        *)
ExclusiveStep ==
  \A v, w \in Worker : InStep(v) /\ InStep(w) => v = w

(* "a live-but-thinking primary is never falsely evicted" (config.py): the *)
(* lease changes hands only when no process inside a step has it.          *)
NoFalseEviction ==
  [][lease # NoLease /\ lease'.owner # lease.owner =>
       ~\E w \in Worker : InStep(w) /\ owner[w] = lease.owner]_vars

(* The rows of output_chunks spell the text the job shows: partial_output  *)
(* for the step in hand, the memory event for a step that is finished.     *)
(* Cut at the right places, the text falls apart into the rows.            *)
ShownText(s) ==
  IF s = jobState.step THEN jobState.partial_output
  ELSE IF s < jobState.step THEN events[s][1]
  ELSE <<>>

Cuts(n, len) ==
  {cut \in [0 .. n -> 0 .. len] :
     cut[0] = 0 /\ cut[n] = len /\ \A q \in 0 .. n - 1 : cut[q] <= cut[q + 1]}

Spells(rows, text) ==
  \E cut \in Cuts(Cardinality(DOMAIN rows), Len(text)) :
    \A q \in DOMAIN rows : rows[q] = SubSeq(text, cut[q] + 1, cut[q + 1])

ChunksSpellText == \A s \in Step : Spells(chunks[s], ShownText(s))

(* read_state and next_chunk_seq are two transactions, and a chunk written  *)
(* in between would leave a process with a text and a number that do not   *)
(* belong together.  They do: the chunks numbered below the next one spell *)
(* the text the process has, less its buffer.                              *)
Numbered(w) ==
  [q \in 0 .. frame[w].seq - 1 |-> chunks[frame[w].step][q]]

Flushed(w) ==
  SubSeq(frame[w].full_text, 1, Len(frame[w].full_text) - Len(frame[w].buffer))

NumberFitsText ==
  \A w \in Worker :
    pc[w] \in {"stream", "rescue", "finalize"} =>
      /\ 0 .. frame[w].seq - 1 \subseteq DOMAIN chunks[frame[w].step]
      /\ Spells(Numbered(w), Flushed(w))

(* The job is finished in the end, whoever dies on the way.                *)
Completes == <>(status = "done")
=============================================================================
