-------------------------------- MODULE Demo --------------------------------
(***************************************************************************)
(* The continuous demo (worker.run_auto): the worker services of all       *)
(* regions agree, through the one row of demo_pointer, on the job to work  *)
(* on and on the pause between two jobs (state.get_or_create_demo_job).    *)
(*                                                                         *)
(* How the workers share the work of one job is the subject of Worker.tla; *)
(* here run_persistent is the time between getting a job and seeing it     *)
(* done.  A job nobody refers to any more is forgotten, and its name then  *)
(* stands for the next uuid.                                               *)
(***************************************************************************)
EXTENDS Integers

CONSTANTS
  Worker,       \* the worker services
  JobId,        \* the ids of jobs
  NoJob,        \* no job: a worker that has none, a pointer row not written yet
  MinPause,     \* config.IDLE_PAUSE_MIN_SECONDS, in time units
  MaxPause,     \* config.IDLE_PAUSE_MAX_SECONDS
  NoRest,       \* demo_pointer.resting_until is NULL
  MaxFaults     \* bound on the deaths and resets of a behaviour

ASSUME NoJobAssumption == NoJob \notin JobId
ASSUME NoRestAssumption == NoRest \notin Int
ASSUME PauseAssumption ==
  /\ MinPause \in Nat \ {0}
  /\ MaxPause \in Nat
  /\ MinPause <= MaxPause
ASSUME FaultAssumption == MaxFaults \in Nat

VARIABLES
  jobs,         \* jobs[j]: the status of the row, or "absent"
  pointer,      \* demo_pointer: the job, and the time left until resting_until
  pc,           \* each worker: "dead", "ask" or "work"
  target,       \* the job run_persistent was called with
  idle,         \* history: time units since the last job was finished
  faults        \* faults so far

vars == <<jobs, pointer, pc, target, idle, faults>>

TypeOK ==
  /\ jobs \in [JobId -> {"absent", "running", "done"}]
  /\ pointer \in [job : JobId \cup {NoJob}, resting : (0 .. MaxPause) \cup {NoRest}]
  /\ pc \in [Worker -> {"dead", "ask", "work"}]
  /\ target \in [Worker -> JobId \cup {NoJob}]
  /\ idle \in 0 .. MaxPause
  /\ faults \in 0 .. MaxFaults

Init ==
  /\ jobs = [j \in JobId |-> "absent"]
  /\ pointer = [job |-> NoJob, resting |-> NoRest]
  /\ pc = [w \in Worker |-> "ask"]
  /\ target = [w \in Worker |-> NoJob]
  /\ idle = 0
  /\ faults = 0

-----------------------------------------------------------------------------
(***************************************************************************)
(* state.get_or_create_demo_job, one transaction on the pointer row.       *)
(***************************************************************************)
PointedStatus == IF pointer.job = NoJob THEN "absent" ELSE jobs[pointer.job]

GetToWork(w, j) ==
  /\ pc' = [pc EXCEPT ![w] = "work"]
  /\ target' = [target EXCEPT ![w] = j]

Join(w) ==
  /\ pc[w] = "ask"
  /\ PointedStatus = "running"
  /\ GetToWork(w, pointer.job)
  /\ UNCHANGED <<jobs, pointer, idle, faults>>

(* Mutant of StartPause: resting_until is not looked at, and every caller  *)
(* starts the pause anew.                                                  *)
StartPauseAgain(w) ==
  /\ pc[w] = "ask"
  /\ PointedStatus = "done"
  /\ \E pause \in MinPause .. MaxPause : pointer' = [pointer EXCEPT !.resting = pause]
  /\ UNCHANGED <<jobs, pc, target, idle, faults>>

(* The first caller to see the job done starts the pause, of its own       *)
(* random length, and comes back later.                                    *)
StartPause(w) ==
  /\ pc[w] = "ask"
  /\ PointedStatus = "done"
  /\ pointer.resting = NoRest
  /\ \E pause \in MinPause .. MaxPause : pointer' = [pointer EXCEPT !.resting = pause]
  /\ UNCHANGED <<jobs, pc, target, idle, faults>>

(* Mutant of MayCreate: the caller that finds a pause does not ask how     *)
(* much of it is left.                                                     *)
MayCreateEarly ==
  \/ PointedStatus = "absent"
  \/ PointedStatus = "done" /\ pointer.resting # NoRest

(* A pause that has run out and a job that has vanished both lead to a new *)
(* job; a pause that has not is only looked at.                            *)
MayCreate ==
  \/ PointedStatus = "absent"
  \/ PointedStatus = "done" /\ pointer.resting = 0

Unused(j) ==
  /\ jobs[j] # "running"
  /\ j # pointer.job
  /\ \A w \in Worker : target[w] # j

(* Mutants of Create: an UPDATE that relies on a row which is not there on *)
(* the first call, and one that leaves resting_until as it is.             *)
CreateUpdateOnly(w) ==
  /\ pc[w] = "ask"
  /\ MayCreate
  /\ \E j \in JobId :
       /\ Unused(j)
       /\ jobs' = [jobs EXCEPT ![j] = "running"]
       /\ pointer' = IF pointer.job = NoJob THEN pointer
                     ELSE [job |-> j, resting |-> NoRest]
       /\ GetToWork(w, j)
  /\ UNCHANGED <<idle, faults>>

CreateKeepsPause(w) ==
  /\ pc[w] = "ask"
  /\ MayCreate
  /\ \E j \in JobId :
       /\ Unused(j)
       /\ jobs' = [jobs EXCEPT ![j] = "running"]
       /\ pointer' = [pointer EXCEPT !.job = j]
       /\ GetToWork(w, j)
  /\ UNCHANGED <<idle, faults>>

Create(w) ==
  /\ pc[w] = "ask"
  /\ MayCreate
  /\ \E j \in JobId :
       /\ Unused(j)
       /\ jobs' = [jobs EXCEPT ![j] = "running"]
       /\ pointer' = [job |-> j, resting |-> NoRest]
       /\ GetToWork(w, j)
  /\ UNCHANGED <<idle, faults>>

-----------------------------------------------------------------------------
(***************************************************************************)
(* The work on a job, and what becomes of the workers.                     *)
(***************************************************************************)
AskAgain(w) ==
  /\ pc' = [pc EXCEPT ![w] = "ask"]
  /\ target' = [target EXCEPT ![w] = NoJob]

Vanish(w) ==
  /\ pc' = [pc EXCEPT ![w] = "dead"]
  /\ target' = [target EXCEPT ![w] = NoJob]

Fault == faults < MaxFaults /\ faults' = faults + 1

(* finalize_step of the last step, after which run_persistent returns.     *)
Finish(w) ==
  /\ pc[w] = "work"
  /\ jobs[target[w]] = "running"
  /\ jobs' = [jobs EXCEPT ![target[w]] = "done"]
  /\ idle' = 0
  /\ AskAgain(w)
  /\ UNCHANGED <<pointer, faults>>

(* The standby gets the lease of a finished job, finds no step left and    *)
(* run_persistent returns.                                                 *)
Leave(w) ==
  /\ pc[w] = "work"
  /\ jobs[target[w]] = "done"
  /\ AskAgain(w)
  /\ UNCHANGED <<jobs, pointer, idle, faults>>

(* The next statement on a job that was reset away raises: there is no row *)
(* to reference, or none to read.                                          *)
Crash(w) ==
  /\ pc[w] = "work"
  /\ jobs[target[w]] = "absent"
  /\ Vanish(w)
  /\ UNCHANGED <<jobs, pointer, idle, faults>>

Die(w) ==
  /\ pc[w] # "dead"
  /\ Fault
  /\ Vanish(w)
  /\ UNCHANGED <<jobs, pointer, idle>>

(* ECS replaces the task.                                                  *)
Start(w) ==
  /\ pc[w] = "dead"
  /\ pc' = [pc EXCEPT ![w] = "ask"]
  /\ UNCHANGED <<jobs, pointer, target, idle, faults>>

(* scripts/reset_demo.py drops jobs and its children, not demo_pointer.    *)
Reset ==
  /\ Fault
  /\ jobs' = [j \in JobId |-> "absent"]
  /\ UNCHANGED <<pointer, pc, target, idle>>

(* Mutant of Tick: seconds_left without GREATEST(..., 0).                  *)
TickBelowZero ==
  /\ pointer' = IF pointer.resting = NoRest THEN pointer
                ELSE [pointer EXCEPT !.resting = @ - 1]
  /\ idle' = IF idle < MaxPause THEN idle + 1 ELSE idle
  /\ UNCHANGED <<jobs, pc, target, faults>>

(* Seconds go by; resting counts down to GREATEST(resting_until - now(), 0). *)
Tick ==
  /\ pointer' = IF pointer.resting = NoRest \/ pointer.resting = 0 THEN pointer
                ELSE [pointer EXCEPT !.resting = @ - 1]
  /\ idle' = IF idle < MaxPause THEN idle + 1 ELSE idle
  /\ UNCHANGED <<jobs, pc, target, faults>>

-----------------------------------------------------------------------------
Ask(w) == Join(w) \/ StartPause(w) \/ Create(w)

Work(w) == Finish(w) \/ Leave(w) \/ Crash(w)

Next ==
  \/ \E w \in Worker : Ask(w) \/ Work(w) \/ Die(w) \/ Start(w)
  \/ Reset
  \/ Tick

Spec == Init /\ [][Next]_vars

(* Every worker goes on asking and working, a dead one is replaced, and    *)
(* time passes.                                                            *)
Fairness ==
  /\ \A w \in Worker : WF_vars(Ask(w)) /\ WF_vars(Work(w)) /\ WF_vars(Start(w))
  /\ WF_vars(Tick)

FairSpec == Spec /\ Fairness

-----------------------------------------------------------------------------
(***************************************************************************)
(* What the arena reads (state.get_demo_job_id, state.get_resting_status). *)
(***************************************************************************)
DemoJobId == IF PointedStatus = "running" THEN pointer.job ELSE NoJob

RestingStatus == pointer.resting

(***************************************************************************)
(* Properties.                                                             *)
(***************************************************************************)

(* There is never more than one running job, and it is the one the pointer *)
(* row names: two regions that ask at the same time do not each create one.*)
OneRunningJob ==
  \A j \in JobId : jobs[j] = "running" => pointer.job = j

(* The arena is never told of a pause while there is a job to kill.        *)
NoPauseWhileRunning ==
  DemoJobId # NoJob => RestingStatus = NoRest

(* After a job that was finished no other starts before the shortest pause *)
(* has gone by, whichever worker asks (the burn-rate throttle).            *)
PauseHonoured ==
  [][\A j \in JobId :
       jobs[j] # "running" /\ jobs'[j] = "running" /\ PointedStatus = "done"
         => idle >= MinPause]_vars

(* There is a job running again and again: pauses, deaths and resets end.  *)
AlwaysAnotherJob == []<>(DemoJobId # NoJob)

(* get_resting_status: "None while a job is running (or none has ever been *)
(* created yet). Otherwise" the pause, so that the page never looks dead   *)
(* between two jobs.                                                       *)
RestingIsTold ==
  DemoJobId = NoJob /\ pointer.job # NoJob => RestingStatus # NoRest
=============================================================================
