------------------------------- MODULE Arena -------------------------------
(***************************************************************************)
(* The kill button: arena.api_kill, the control server of each worker      *)
(* process (control.py) and the platform that replaces a killed task.      *)
(* A request is a sequence of separate calls - the cooldown gate, the read *)
(* of the demo job, the read of its lease, the POST - and everything else  *)
(* may happen in between.                                                  *)
(*                                                                         *)
(* Time counts here: what the button may do rests on how long a task is    *)
(* away, how long a request takes and how long the cooldown lasts.  How a  *)
(* process works on the job is the subject of Worker.tla, how the next job *)
(* comes about that of Demo.tla; here the job is running or resting.  In   *)
(* the punctual behaviours no process that works goes without a renewal    *)
(* for longer than MaxSilence; in the others one may be evicted alive, and *)
(* go on working next to its successor.                                    *)
(***************************************************************************)
EXTENDS Lease

CONSTANTS
  Worker,       \* the worker services; an owner string for each
  Request,      \* the requests to /api/kill that may be open at one time
  Gone,         \* the control address of a process that is no more
  Poll,         \* longest time between two answers to a standby: the sleep of
                \*   config.STANDBY_POLL_SECONDS and a transaction
  MaxSilence,   \* longest time between two renewals, as in Worker.tla
  Nap,          \* latest wake-up of a resting worker after the pause
  Pause,        \* length of the pause between two jobs
  MaxRequest,   \* longest time from the gate to the SIGKILL of a request
  Replacement,  \* longest time the platform takes to replace a task
  Cooldown,     \* config.KILL_COOLDOWN_SECONDS
  MaxFaults     \* bound on the crashes and arena restarts of a behaviour

ASSUME WorkerAssumption == Worker = Owner /\ Gone \notin Worker
ASSUME TimeAssumption ==
  /\ Poll \in Nat \ {0} /\ Nap \in Nat \ {0} /\ MaxRequest \in Nat \ {0}
  /\ Replacement \in Nat \ {0} /\ Cooldown \in Nat /\ MaxFaults \in Nat
  /\ MaxSilence \in Nat \ {0}
  /\ Pause \in Nat /\ Pause > MaxRequest

VARIABLES
  job,          \* the demo job: "running" or "resting" until the next one
  rested,       \* time units of the pause gone by
  punctual,     \* no process that works is silent for longer than MaxSilence
  pc,           \* each worker: "dead", "rest", "contend", "work", or "astray",
                \*   on a job that another one has followed
  timer,        \* time units since it last did what pc says it does
  tenure,       \* time units it has worked, up to MaxTxn
  stale,        \* control_addr of the lease row is that of a dead process
  req,          \* each request: where it is, whom it will POST to, its age
  since,        \* time units since _last_kill_ts
  waiting,      \* history: how long each standby has been kept from a job
  faults        \* faults so far

workerVars == <<pc, timer, tenure>>
vars == <<lease, job, rested, punctual, workerVars, stale, req, since, waiting,
          faults>>

\* From the last renewal to the next claim: a claim that started before the
\* row expired is refused, however late.
Longest == TTL + MaxTxn + Poll

PC == {"dead", "rest", "contend", "work", "astray"}

(* What a worker does in each state it does within this time.              *)
Limit(w) ==
  CASE pc[w] = "dead"    -> Replacement
    [] pc[w] = "contend" -> Poll
    [] pc[w] = "work"    -> MaxSilence
    [] OTHER             -> Nap

(* It does so but for a process that does not renew in time, and one on an *)
(* old job, of which nothing is asked; their timers stop there.            *)
Bound(w) == pc[w] # "astray" /\ (pc[w] = "work" => punctual)

NoRequest == [at |-> "idle", addr |-> Gone, age |-> 0]

TypeOK ==
  /\ LeaseTypeOK
  /\ job \in {"running", "resting"}
  /\ rested \in 0 .. Pause
  /\ punctual \in BOOLEAN
  /\ pc \in [Worker -> PC]
  /\ timer \in [Worker -> Nat] /\ \A w \in Worker : timer[w] <= Limit(w)
  /\ tenure \in [Worker -> 0 .. MaxTxn]
  /\ stale \in BOOLEAN
  /\ req \in [Request -> [at : {"idle", "job", "lease", "post"},
                          addr : Worker \cup {Gone}, age : 0 .. MaxRequest]]
  /\ since \in 0 .. Cooldown
  /\ waiting \in [Worker -> 0 .. Longest + 1]
  /\ faults \in 0 .. MaxFaults

(* _last_kill_ts = 0.0 is compared with time.monotonic(), whose zero is    *)
(* the start of the host: a new arena may find any time since.             *)
Init ==
  /\ LeaseInit
  /\ job = "running"
  /\ rested = 0
  /\ punctual \in BOOLEAN
  /\ pc = [w \in Worker |-> "contend"]
  /\ timer = [w \in Worker |-> 0]
  /\ tenure = [w \in Worker |-> 0]
  /\ stale = FALSE
  /\ req = [r \in Request |-> NoRequest]
  /\ since \in 0 .. Cooldown
  /\ waiting = [w \in Worker |-> 0]
  /\ faults = 0

-----------------------------------------------------------------------------
(***************************************************************************)
(* The workers.                                                            *)
(***************************************************************************)
Becomes(w, p) ==
  /\ pc' = [pc EXCEPT ![w] = p]
  /\ timer' = [timer EXCEPT ![w] = 0]
  /\ tenure' = [tenure EXCEPT ![w] = 0]

(* The transaction of a claim or renewal may have started since the answer *)
(* before it.                                                              *)
Age(w) == {age \in 0 .. MaxTxn : age <= timer[w]}

(* A claim that succeeds writes this process's control_addr.  On a job     *)
(* that is done there is no step left and run_persistent returns, unless a *)
(* process that was evicted has set its step back.                         *)
Claim(w) ==
  /\ pc[w] = "contend"
  /\ \E age \in Age(w) : ClaimOrRenewLease(w, age)
  /\ \/ job = "running" /\ Becomes(w, "work")
     \/ job = "resting" /\ Becomes(w, "rest")
     \/ job = "resting" /\ ~punctual /\ Becomes(w, "work")
  /\ stale' = FALSE
  /\ waiting' = [v \in Worker |-> 0]
  /\ UNCHANGED <<job, rested, punctual, req, since, faults>>

(* Refused, the standby sleeps STANDBY_POLL_SECONDS.                       *)
Standby(w) ==
  /\ pc[w] = "contend"
  /\ \E age \in Age(w) : ~Claimable(w, age)
  /\ Becomes(w, "contend")
  /\ UNCHANGED <<lease, job, rested, punctual, stale, req, since, waiting, faults>>

(* A claim of a process that works, whose answer nobody looks at.          *)
Renewal(w, age) ==
  \/ ClaimOrRenewLease(w, age) /\ stale' = FALSE
  \/ ~Claimable(w, age) /\ UNCHANGED <<lease, stale>>

Renew(w) ==
  /\ pc[w] = "work"
  /\ \E age \in Age(w) : Renewal(w, age)
  /\ timer' = [timer EXCEPT ![w] = 0]
  /\ UNCHANGED <<job, rested, punctual, pc, tenure, req, since, waiting, faults>>

(* What else a process that works writes to the row, as old as its work:   *)
(* flush_chunk, and the last claim of a heartbeat that was told to stop.   *)
Flush(w) ==
  /\ pc[w] = "work"
  /\ \E age \in 0 .. tenure[w] :
       \/ RenewIfOwner(w, age) /\ UNCHANGED stale
       \/ Renewal(w, age)
  /\ UNCHANGED <<job, rested, punctual, workerVars, req, since, waiting, faults>>

(* The claim between two steps is refused: the process has been evicted.   *)
StandDown(w) ==
  /\ pc[w] = "work"
  /\ \E age \in 0 .. tenure[w] : ~Claimable(w, age)
  /\ Becomes(w, "contend")
  /\ UNCHANGED <<lease, job, rested, punctual, stale, req, since, waiting, faults>>

(* The last step is finalized: the job is done and, the first time it is,  *)
(* the pause begins.                                                       *)
Finish(w) ==
  /\ pc[w] = "work"
  /\ job' = "resting"
  /\ rested' = IF job = "running" THEN 0 ELSE rested
  /\ Becomes(w, "rest")
  /\ UNCHANGED <<lease, punctual, stale, req, since, waiting, faults>>

(* run_auto wakes up: it makes the next job, which has no lease row, or    *)
(* joins the one that is running.  A worker that was on the old job stays  *)
(* there, until there is nothing left to do.                               *)
NewJob(w) ==
  /\ pc[w] = "rest"
  /\ job = "resting"
  /\ rested = Pause
  /\ job' = "running"
  /\ lease' = NoLease
  /\ stale' = FALSE
  /\ LET moves == [v \in Worker |->
                     CASE v = w                       -> "contend"
                       [] pc[v] \in {"work", "contend"} -> "astray"
                       [] OTHER                       -> pc[v]]
     IN  /\ pc' = moves
         /\ timer' = [v \in Worker |-> IF moves[v] = pc[v] THEN timer[v] ELSE 0]
         /\ tenure' = [v \in Worker |-> 0]
  /\ UNCHANGED <<rested, punctual, req, since, waiting, faults>>

Join(w) ==
  /\ pc[w] = "rest"
  /\ job = "running"
  /\ Becomes(w, "contend")
  /\ UNCHANGED <<lease, job, rested, punctual, stale, req, since, waiting, faults>>

Leave(w) ==
  /\ pc[w] = "astray"
  /\ Becomes(w, "rest")
  /\ UNCHANGED <<lease, job, rested, punctual, stale, req, since, waiting, faults>>

(* A process dies: its address, in the row or in a request, leads nowhere  *)
(* from now on, for the replacement gets another one.  The mutant gives it *)
(* the same one.                                                           *)
HangUpNever(w) == req

HangUp(w) ==
  [r \in Request |-> IF req[r].addr = w THEN [req[r] EXCEPT !.addr = Gone]
                     ELSE req[r]]

Dies(w) ==
  /\ Becomes(w, "dead")
  /\ stale' = (stale \/ (lease # NoLease /\ lease.owner = w))
  /\ waiting' = [waiting EXCEPT ![w] = 0]
  /\ UNCHANGED <<lease, job, rested, punctual, since>>

Start(w) ==
  /\ pc[w] = "dead"
  /\ Becomes(w, "rest")
  /\ UNCHANGED <<lease, job, rested, punctual, stale, req, since, waiting, faults>>

-----------------------------------------------------------------------------
(***************************************************************************)
(* api_kill, one action per call, in the order of its lines.               *)
(***************************************************************************)

(* Mutant of Gate: a cooldown that ends one unit early.                    *)
GateEarly(r) ==
  /\ req[r].at = "idle"
  /\ since + 1 >= Cooldown
  /\ since' = 0
  /\ req' = [req EXCEPT ![r].at = "job"]
  /\ UNCHANGED <<lease, job, rested, punctual, workerVars, stale, waiting, faults>>

(* The gate, under _kill_lock: the cooldown starts with the request,       *)
(* whatever becomes of it.  A request that is refused changes nothing.     *)
Gate(r) ==
  /\ req[r].at = "idle"
  /\ since >= Cooldown
  /\ since' = 0
  /\ req' = [req EXCEPT ![r].at = "job"]
  /\ UNCHANGED <<lease, job, rested, punctual, workerVars, stale, waiting, faults>>

End(r) == [req EXCEPT ![r] = NoRequest]

ReadJob(r) ==
  /\ req[r].at = "job"
  /\ req' = IF job = "running" THEN [req EXCEPT ![r].at = "lease"] ELSE End(r)
  /\ UNCHANGED <<lease, job, rested, punctual, workerVars, stale, since, waiting, faults>>

(* The row is read as it is: expired or not.                               *)
ReadLease(r) ==
  /\ req[r].at = "lease"
  /\ req' = IF lease = NoLease THEN End(r)
            ELSE [req EXCEPT ![r].at = "post",
                             ![r].addr = IF stale THEN Gone ELSE lease.owner]
  /\ UNCHANGED <<lease, job, rested, punctual, workerVars, stale, since, waiting, faults>>

(* The control server gets the POST and sends its own process SIGKILL.     *)
Kill(r) ==
  \E w \in Worker :
    /\ req[r].at = "post"
    /\ req[r].addr = w
    /\ Dies(w)
    /\ req' = [HangUp(w) EXCEPT ![r] = NoRequest]
    /\ UNCHANGED faults

(* The POST reaches nobody, or one of the reads raised.                    *)
Fail(r) ==
  /\ req[r].at # "idle"
  /\ req' = End(r)
  /\ UNCHANGED <<lease, job, rested, punctual, workerVars, stale, since, waiting, faults>>

-----------------------------------------------------------------------------
(***************************************************************************)
(* Faults and time.                                                        *)
(***************************************************************************)
Fault == faults < MaxFaults /\ faults' = faults + 1

Crash(w) ==
  /\ pc[w] # "dead"
  /\ Fault
  /\ Dies(w)
  /\ req' = HangUp(w)

(* _last_kill_ts lives in the arena's memory.  A rolling deployment lets   *)
(* the old arena finish its requests, a crash does not.                    *)
ArenaRestart ==
  /\ Fault
  /\ req' \in {req, [r \in Request |-> NoRequest]}
  /\ since' \in 0 .. Cooldown
  /\ UNCHANGED <<lease, job, rested, punctual, workerVars, stale, waiting>>

(* A resting worker's time runs once there is something to wake up for.    *)
Runs(w) == pc[w] # "rest" \/ job = "running" \/ rested = Pause

KeptWaiting(w) ==
  /\ pc[w] = "contend"
  /\ job = "running"
  /\ \A v \in Worker : pc[v] # "work"

UpTo(n, max) == IF n < max THEN n + 1 ELSE n

Tick ==
  /\ \A w \in Worker : Runs(w) /\ Bound(w) => timer[w] < Limit(w)
  /\ \A r \in Request : req[r].at # "idle" => req[r].age < MaxRequest
  /\ LeaseTick
  /\ rested' = IF job = "resting" THEN UpTo(rested, Pause) ELSE rested
  /\ timer' = [w \in Worker |-> IF Runs(w) THEN UpTo(timer[w], Limit(w)) ELSE timer[w]]
  /\ tenure' = [w \in Worker |-> IF pc[w] = "work" THEN UpTo(tenure[w], MaxTxn)
                                 ELSE tenure[w]]
  /\ req' = [r \in Request |->
               IF req[r].at = "idle" THEN req[r] ELSE [req[r] EXCEPT !.age = @ + 1]]
  /\ since' = UpTo(since, Cooldown)
  /\ waiting' = [w \in Worker |->
       IF KeptWaiting(w) THEN UpTo(waiting[w], Longest + 1) ELSE 0]
  /\ UNCHANGED <<job, punctual, pc, stale, faults>>

-----------------------------------------------------------------------------
Works(w) ==
  \/ Claim(w) \/ Standby(w) \/ Renew(w) \/ Flush(w) \/ StandDown(w)
  \/ Finish(w) \/ NewJob(w) \/ Join(w) \/ Leave(w) \/ Start(w) \/ Crash(w)

ApiKill(r) == Gate(r) \/ ReadJob(r) \/ ReadLease(r) \/ Kill(r) \/ Fail(r)

Next ==
  \/ \E w \in Worker : Works(w)
  \/ \E r \in Request : ApiKill(r)
  \/ ArenaRestart
  \/ Tick

Spec == Init /\ [][Next]_vars

-----------------------------------------------------------------------------
(***************************************************************************)
(* Properties.                                                             *)
(***************************************************************************)
Killed(w) ==
  \E r \in Request : req[r].addr = w /\ pc'[w] = "dead" /\ req'[r].at = "idle"

(* The cooldown is long enough: while the button is the only thing that    *)
(* kills, and one arena has it, there is always a process left to take     *)
(* over (config.py, where 120 s was too short for a replacement of 170 s). *)
SomeoneIsAlive == faults = 0 => \E w \in Worker : pc[w] # "dead"

(* The failover budget: a process that is waiting for a running job which  *)
(* nobody works on gets it within the TTL, one transaction and one poll    *)
(* (config.py: "Worst case is TTL + poll"), evictions or not.              *)
ClaimedInTime == \A w \in Worker : waiting[w] <= Longest

(* The hypothesis of the next property about the time limits, as it is in  *)
(* Worker.tla: what a renewal wrote lasts until the next one.              *)
RenewsInTime == MaxSilence + MaxTxn <= TTL

(* api_kill "SIGKILLs whichever worker currently holds the demo job's      *)
(* lease": however old its answers are by then, while the job runs it      *)
(* never kills the other worker, nor the replacement of the one it meant,  *)
(* if renewals are punctual.  One that was evicted alive after its address *)
(* was read is killed in the place of its successor.                       *)
KillsTheHolder ==
  [][\A w \in Worker : Killed(w) /\ job = "running" /\ punctual =>
       lease # NoLease /\ lease.owner = w]_vars

(* "During the pause there is genuinely no active job - /api/kill honestly *)
(* returns 409 "no active job" rather than reaching a resting worker."     *)
RestingIsSpared ==
  [][\A w \in Worker : Killed(w) => job = "running"]_vars
=============================================================================
