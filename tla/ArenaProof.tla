----------------------------- MODULE ArenaProof -----------------------------
(***************************************************************************)
(* What Arena.tla keeps for every number of workers and requests and every *)
(* length of the time limits, proved with TLAPS.                           *)
(***************************************************************************)
EXTENDS Arena, TLAPS

(***************************************************************************)
(* The inductive invariants.                                               *)
(***************************************************************************)

(* A request that is not open is a blank one.                              *)
IdleIsBlank == \A r \in Request : req[r].at = "idle" => req[r] = NoRequest

TypeInv == TypeOK /\ IdleIsBlank

(* What TypeOK says of the workers.                                        *)
WorkersTypeOK ==
  /\ pc \in [Worker -> PC]
  /\ timer \in [Worker -> Nat]
  /\ \A w \in Worker : timer[w] <= Limit(w)
  /\ tenure \in [Worker -> 0 .. MaxTxn]

(* While the button is the only thing that kills, a request is as old as   *)
(* the cooldown it started, so that there is one at a time; the process it *)
(* killed is away no longer than that cooldown, so that no request is open *)
(* while a process is away, and no second process is.                      *)
OneKillAtATime ==
  faults = 0 =>
    /\ \A r \in Request : req[r].at # "idle" =>
         /\ since = req[r].age
         /\ \A q \in Request : req[q].at # "idle" => q = r
         /\ \A w \in Worker : pc[w] # "dead"
    /\ \A w \in Worker : pc[w] = "dead" =>
         /\ since <= timer[w] + MaxRequest
         /\ \A v \in Worker : pc[v] = "dead" => v = w

(* If renewals are punctual, whoever works on the job has a lease with     *)
(* what is left of the TTL since the last renewal started, and the row     *)
(* tells who works unless it is stale.                                     *)
HolderInv ==
  punctual =>
    /\ \A w \in Worker : pc[w] = "work" =>
         /\ job = "running"
         /\ lease # NoLease
         /\ lease.owner = w
         /\ lease.left + timer[w] >= TTL - MaxTxn
    /\ job = "running" /\ lease # NoLease /\ ~stale => pc[lease.owner] = "work"

(* Where a request will POST to: while the job runs, to the process that   *)
(* works on it, if renewals are punctual.  A request from before the pause *)
(* is as old as the pause.                                                 *)
TargetInv ==
  \A r \in Request :
    /\ req[r].addr # Gone =>
         /\ req[r].at = "post"
         /\ punctual /\ job = "running" => pc[req[r].addr] = "work"
    /\ req[r].at \in {"lease", "post"} /\ job = "resting" =>
         req[r].age >= rested

(* A wait is over as soon as somebody works; until the lease has expired   *)
(* for every transaction, the oldest included, it is no longer than the    *)
(* lease has been running down, and from then on the poll that is left     *)
(* fits into the budget.                                                   *)
WaitInv ==
  \A w \in Worker :
    waiting[w] > 0 =>
      /\ KeptWaiting(w)
      /\ IF Claimable(w, MaxTxn) THEN waiting[w] + Poll <= Longest + timer[w]
         ELSE waiting[w] + lease.left <= TTL

-----------------------------------------------------------------------------
(***************************************************************************)
(* Types.                                                                  *)
(***************************************************************************)
ReqRow == [at : {"idle", "job", "lease", "post"},
           addr : Worker \cup {Gone}, age : 0 .. MaxRequest]

LEMMA BlankRow == NoRequest \in ReqRow
  BY TimeAssumption DEF NoRequest, ReqRow

(* The statements of Lease keep the row in type.                           *)
LEMMA LeaseTypes ==
  ASSUME LeaseTypeOK,
         \/ \E o \in Owner, age \in 0 .. MaxTxn :
              ClaimOrRenewLease(o, age) \/ RenewIfOwner(o, age)
         \/ LeaseTick
  PROVE  LeaseTypeOK'
  BY TTLAssumption, NoLeaseAssumption
  DEF LeaseTypeOK, LeaseRow, ClaimOrRenewLease, RenewIfOwner, LeaseTick

(* A process that goes on to something else starts its time from 0.        *)
LEMMA BecomesTypes ==
  ASSUME TypeInv, NEW w \in Worker, NEW p \in PC, Becomes(w, p)
  PROVE  WorkersTypeOK'
  BY TTLAssumption, TimeAssumption
  DEF TypeInv, TypeOK, WorkersTypeOK, Limit, PC, Becomes

(* A process that works writes to the row in transactions no older than    *)
(* MaxTxn.                                                                 *)
Writes(w, age) == Renewal(w, age) \/ (RenewIfOwner(w, age) /\ UNCHANGED stale)

LEMMA WorkerWrites ==
  ASSUME TypeInv, NEW w \in Worker, Renew(w) \/ Flush(w)
  PROVE  /\ pc[w] = "work"
         /\ \E age \in 0 .. MaxTxn : Writes(w, age)
         /\ UNCHANGED <<job, rested, punctual, pc, tenure, req, since, waiting,
                        faults>>
         /\ timer' = timer \/ timer' = [timer EXCEPT ![w] = 0]
<1>1. CASE Renew(w)
  BY <1>1 DEF Renew, Age, Writes
<1>2. CASE Flush(w)
  <2>1. 0 .. tenure[w] \subseteq 0 .. MaxTxn
    BY TTLAssumption DEF TypeInv, TypeOK
  <2>2. \E age \in 0 .. MaxTxn : Writes(w, age)
    BY <1>2, <2>1 DEF Flush, Writes
  <2> QED
    BY <1>2, <2>2 DEF Flush, workerVars
<1> QED
  BY <1>1, <1>2

LEMMA RenewalTypes ==
  ASSUME TypeInv, NEW w \in Worker, NEW age \in 0 .. MaxTxn, Writes(w, age)
  PROVE  LeaseTypeOK' /\ stale' \in BOOLEAN
<1>1. CASE UNCHANGED <<lease, stale>>
  BY <1>1 DEF TypeInv, TypeOK, LeaseTypeOK, LeaseRow
<1>2. CASE ClaimOrRenewLease(w, age) /\ stale' = FALSE
  BY <1>2, LeaseTypes, WorkerAssumption DEF TypeInv, TypeOK
<1>3. CASE RenewIfOwner(w, age) /\ UNCHANGED stale
  BY <1>3, LeaseTypes, WorkerAssumption DEF TypeInv, TypeOK
<1> QED
  BY <1>1, <1>2, <1>3 DEF Writes, Renewal

(* A death leaves no address of the process behind.                        *)
LEMMA HangUpTypes ==
  ASSUME TypeInv, NEW w \in Worker
  PROVE  /\ HangUp(w) \in [Request -> ReqRow]
         /\ \A r \in Request : /\ HangUp(w)[r].at = req[r].at
                               /\ HangUp(w)[r].age = req[r].age
                               /\ HangUp(w)[r].addr =
                                    IF req[r].addr = w THEN Gone ELSE req[r].addr
                               /\ req[r].at = "idle" =>
                                    HangUp(w)[r] = NoRequest
  BY WorkerAssumption DEF TypeInv, TypeOK, IdleIsBlank, HangUp, ReqRow, NoRequest

LEMMA DiesTypes ==
  ASSUME TypeInv, NEW w \in Worker, Dies(w)
  PROVE  /\ LeaseTypeOK'
         /\ job' \in {"running", "resting"}
         /\ rested' \in 0 .. Pause
         /\ punctual' \in BOOLEAN
         /\ WorkersTypeOK'
         /\ stale' \in BOOLEAN
         /\ since' \in 0 .. Cooldown
         /\ waiting' \in [Worker -> 0 .. Longest + 1]
<1>1. LeaseTypeOK'
  BY DEF Dies, TypeInv, TypeOK, LeaseTypeOK, LeaseRow
<1>2. WorkersTypeOK'
  BY BecomesTypes DEF Dies, PC
<1>3. waiting' \in [Worker -> 0 .. Longest + 1]
  BY TTLAssumption, TimeAssumption DEF Dies, TypeInv, TypeOK, Longest
<1> QED
  BY <1>1, <1>2, <1>3 DEF Dies, TypeInv, TypeOK

LEMMA InitTypeInv == Init => TypeInv
<1> SUFFICES ASSUME Init PROVE TypeInv
  OBVIOUS
<1> USE DEF Init
<1>1. LeaseTypeOK
  BY DEF LeaseInit, LeaseTypeOK
<1>2. req \in [Request -> ReqRow] /\ IdleIsBlank
  BY BlankRow DEF IdleIsBlank
<1>3. waiting \in [Worker -> 0 .. Longest + 1]
  BY TTLAssumption, TimeAssumption DEF Longest
<1>4. WorkersTypeOK
  BY TTLAssumption, TimeAssumption DEF WorkersTypeOK, Limit, PC
<1>5. rested \in 0 .. Pause /\ faults \in 0 .. MaxFaults
  BY TimeAssumption
<1>6. job \in {"running", "resting"} /\ stale \in BOOLEAN
  OBVIOUS
<1> QED
  BY <1>1, <1>2, <1>3, <1>4, <1>5, <1>6 DEF TypeInv, TypeOK, WorkersTypeOK, ReqRow

LEMMA NextTypeInv == TypeInv /\ [Next]_vars => TypeInv'
<1> SUFFICES ASSUME TypeInv, [Next]_vars PROVE TypeInv'
  OBVIOUS
<1> USE DEF TypeInv
<1>1. ASSUME NEW w \in Worker, Claim(w)
      PROVE  TypeInv'
  <2>1. LeaseTypeOK'
    BY <1>1, LeaseTypes, WorkerAssumption DEF Claim, Age, TypeOK
  <2>2. WorkersTypeOK'
    BY <1>1, BecomesTypes DEF Claim, PC
  <2>3. waiting' \in [Worker -> 0 .. Longest + 1]
    BY <1>1, TTLAssumption, TimeAssumption DEF Claim, Longest
  <2> QED
    BY <1>1, <2>1, <2>2, <2>3 DEF Claim, TypeOK, WorkersTypeOK, IdleIsBlank
<1>2. ASSUME NEW w \in Worker,
             Standby(w) \/ StandDown(w) \/ Join(w) \/ Leave(w) \/ Start(w)
      PROVE  TypeInv'
  <2>1. WorkersTypeOK'
    BY <1>2, BecomesTypes DEF Standby, StandDown, Join, Leave, Start, PC
  <2>2. UNCHANGED <<lease, job, rested, punctual, stale, req, since, waiting, faults>>
    BY <1>2 DEF Standby, StandDown, Join, Leave, Start
  <2> QED
    BY <2>1, <2>2 DEF TypeOK, WorkersTypeOK, IdleIsBlank, LeaseTypeOK, LeaseRow
<1>3. ASSUME NEW w \in Worker, Renew(w) \/ Flush(w)
      PROVE  TypeInv'
  <2>1. LeaseTypeOK' /\ stale' \in BOOLEAN
    BY <1>3, WorkerWrites, RenewalTypes
  <2>2. WorkersTypeOK'
    <3>1. /\ UNCHANGED <<pc, tenure>>
          /\ timer' = timer \/ timer' = [timer EXCEPT ![w] = 0]
      BY <1>3, WorkerWrites
    <3> QED
      BY <3>1, TTLAssumption, TimeAssumption
      DEF TypeOK, WorkersTypeOK, Limit, PC
  <2>3. UNCHANGED <<job, rested, punctual, req, since, waiting, faults>>
    BY <1>3, WorkerWrites
  <2> QED
    BY <2>1, <2>2, <2>3 DEF TypeOK, WorkersTypeOK, IdleIsBlank
<1>4. ASSUME NEW w \in Worker, Finish(w) \/ NewJob(w)
      PROVE  TypeInv'
  <2>1. LeaseTypeOK'
    BY <1>4 DEF Finish, NewJob, TypeOK, LeaseTypeOK, LeaseRow
  <2>2. ASSUME Finish(w)
        PROVE  WorkersTypeOK'
    BY <2>2, BecomesTypes DEF Finish, PC
  <2>3. ASSUME NewJob(w)
        PROVE  WorkersTypeOK'
    BY <2>3, TTLAssumption, TimeAssumption
    DEF NewJob, TypeOK, WorkersTypeOK, Limit, PC
  <2>4. job' \in {"running", "resting"} /\ rested' \in 0 .. Pause
    BY <1>4, TimeAssumption DEF Finish, NewJob, TypeOK
  <2>5. stale' \in BOOLEAN
    BY <1>4 DEF Finish, NewJob, TypeOK
  <2>6. UNCHANGED <<punctual, req, since, waiting, faults>>
    BY <1>4 DEF Finish, NewJob
  <2> QED
    BY <1>4, <2>1, <2>2, <2>3, <2>4, <2>5, <2>6
    DEF TypeOK, WorkersTypeOK, IdleIsBlank
<1>5. ASSUME NEW w \in Worker, Crash(w)
      PROVE  TypeInv'
  <2>1. Dies(w) /\ req' = HangUp(w) /\ Fault
    BY <1>5 DEF Crash
  <2>2. faults' \in 0 .. MaxFaults
    BY <2>1, TimeAssumption DEF Fault, TypeOK
  <2>3. req' \in [Request -> ReqRow] /\ IdleIsBlank'
    BY <2>1, HangUpTypes DEF IdleIsBlank
  <2> QED
    BY <2>1, <2>2, <2>3, DiesTypes DEF TypeOK, WorkersTypeOK, ReqRow
<1>6. ASSUME NEW r \in Request, Gate(r) \/ ReadJob(r) \/ Fail(r)
      PROVE  TypeInv'
  <2>1. req' \in [Request -> ReqRow] /\ IdleIsBlank'
    BY <1>6, BlankRow
    DEF Gate, ReadJob, Fail, End, TypeOK, IdleIsBlank, ReqRow, NoRequest
  <2>2. since' \in 0 .. Cooldown
    BY <1>6, TimeAssumption DEF Gate, ReadJob, Fail, TypeOK
  <2>3. UNCHANGED <<lease, job, rested, punctual, workerVars, stale, waiting, faults>>
    BY <1>6 DEF Gate, ReadJob, Fail
  <2> QED
    BY <2>1, <2>2, <2>3
    DEF TypeOK, workerVars, Limit, LeaseTypeOK, LeaseRow, ReqRow
<1>7. ASSUME NEW r \in Request, ReadLease(r)
      PROVE  TypeInv'
  <2>1. lease # NoLease => lease.owner \in Worker
    BY WorkerAssumption DEF TypeOK, LeaseTypeOK, LeaseRow
  <2>2. req' \in [Request -> ReqRow] /\ IdleIsBlank'
    BY <1>7, <2>1, BlankRow
    DEF ReadLease, End, TypeOK, IdleIsBlank, ReqRow, NoRequest
  <2> QED
    BY <1>7, <2>2 DEF ReadLease, workerVars, TypeOK, Limit, LeaseTypeOK,
                      LeaseRow, ReqRow
<1>8. ASSUME NEW r \in Request, Kill(r)
      PROVE  TypeInv'
  <2>1. PICK w \in Worker : /\ Dies(w)
                            /\ req' = [HangUp(w) EXCEPT ![r] = NoRequest]
                            /\ UNCHANGED faults
    BY <1>8 DEF Kill
  <2>2. req' \in [Request -> ReqRow] /\ IdleIsBlank'
    BY <2>1, HangUpTypes, BlankRow DEF IdleIsBlank
  <2> QED
    BY <2>1, <2>2, DiesTypes DEF TypeOK, WorkersTypeOK, ReqRow
<1>9. ASSUME ArenaRestart
      PROVE  TypeInv'
  <2>1. faults' \in 0 .. MaxFaults
    BY <1>9, TimeAssumption DEF ArenaRestart, Fault, TypeOK
  <2>2. req' \in [Request -> ReqRow] /\ IdleIsBlank'
    BY <1>9, BlankRow DEF ArenaRestart, TypeOK, IdleIsBlank, ReqRow
  <2> QED
    BY <1>9, <2>1, <2>2 DEF ArenaRestart, workerVars, TypeOK, Limit,
                            LeaseTypeOK, LeaseRow, ReqRow
<1>10. ASSUME Tick
       PROVE  TypeInv'
  <2>1. LeaseTypeOK'
    BY <1>10, LeaseTypes DEF Tick, TypeOK
  <2>2. timer' \in [Worker -> Nat] /\ \A w \in Worker : timer'[w] <= Limit(w)'
    BY <1>10, TTLAssumption, TimeAssumption DEF Tick, TypeOK, Limit, UpTo
  <2>3. tenure' \in [Worker -> 0 .. MaxTxn]
    BY <1>10, TTLAssumption DEF Tick, TypeOK, UpTo
  <2>4. req' \in [Request -> ReqRow] /\ IdleIsBlank'
    BY <1>10, TimeAssumption DEF Tick, TypeOK, IdleIsBlank, ReqRow, NoRequest
  <2>5. rested' \in 0 .. Pause /\ since' \in 0 .. Cooldown
    BY <1>10, TimeAssumption DEF Tick, TypeOK, UpTo
  <2>6. waiting' \in [Worker -> 0 .. Longest + 1]
    BY <1>10, TTLAssumption, TimeAssumption DEF Tick, TypeOK, UpTo, Longest
  <2> QED
    BY <1>10, <2>1, <2>2, <2>3, <2>4, <2>5, <2>6 DEF Tick, TypeOK, ReqRow
<1>11. ASSUME UNCHANGED vars
       PROVE  TypeInv'
  BY <1>11 DEF vars, workerVars, TypeOK, Limit, IdleIsBlank, LeaseTypeOK,
               LeaseRow
<1> QED
  BY <1>1, <1>2, <1>3, <1>4, <1>5, <1>6, <1>7, <1>8, <1>9, <1>10, <1>11
  DEF Next, Works, ApiKill

LEMMA Typing == Spec => []TypeInv
  BY InitTypeInv, NextTypeInv, PTL DEF Spec

(* Every variable of the kill button keeps its type: the row counts down   *)
(* within its bounds, no request is older than MaxRequest, and no timer    *)
(* runs past the limit of what its process does.                           *)
THEOREM TypeCorrect == Spec => []TypeOK
BY Typing, PTL DEF TypeInv

-----------------------------------------------------------------------------
(***************************************************************************)
(* The cooldown.  Its hypothesis is what config.py asks of the number: a   *)
(* request and a replacement fit into it.                                  *)
(***************************************************************************)
CooldownCoversReplacement == Cooldown > Replacement + MaxRequest

SpareWorker == \E v, w \in Worker : v # w

LEMMA NextOneKill ==
  ASSUME CooldownCoversReplacement, TypeInv, OneKillAtATime, [Next]_vars
  PROVE  OneKillAtATime'
<1> SUFFICES ASSUME faults' = 0
             PROVE  OneKillAtATime'
  BY DEF OneKillAtATime
<1> USE DEF OneKillAtATime, TypeInv
<1>1. faults = 0 /\ ~Fault
  <2>1. ASSUME NEW w \in Worker, Works(w)
        PROVE  faults' = faults \/ faults' = faults + 1
    BY <2>1 DEF Works, Claim, Standby, Renew, Flush, StandDown, Finish,
                NewJob, Join, Leave, Start, Crash, Fault
  <2>2. ASSUME NEW r \in Request, ApiKill(r)
        PROVE  faults' = faults
    BY <2>2 DEF ApiKill, Gate, ReadJob, ReadLease, Kill, Fail
  <2>3. faults' = faults \/ faults' = faults + 1
    BY <2>1, <2>2 DEF Next, ArenaRestart, Fault, Tick, vars
  <2>4. faults \in Nat
    BY TimeAssumption DEF TypeOK
  <2> QED
    BY <2>3, <2>4 DEF Fault
<1>2. ASSUME NEW w \in Worker, NEW p \in {"rest", "contend", "work"},
             Becomes(w, p), UNCHANGED <<req, since, faults>>
      PROVE  OneKillAtATime'
  BY <1>1, <1>2 DEF Becomes, TypeOK
<1>3. ASSUME NEW w \in Worker, Works(w)
      PROVE  OneKillAtATime'
  <2>1. CASE Renew(w) \/ Flush(w)
    BY <1>1, <2>1 DEF Renew, Flush, workerVars, TypeOK
  <2>2. CASE NewJob(w)
    <3>1. /\ \A v \in Worker : pc'[v] = "dead" <=> pc[v] = "dead"
          /\ \A v \in Worker : pc[v] = "dead" => timer'[v] = timer[v]
      BY <2>2 DEF NewJob, TypeOK
    <3> QED
      BY <1>1, <2>2, <3>1 DEF NewJob
  <2> QED
    BY <1>1, <1>2, <1>3, <2>1, <2>2
    DEF Works, Claim, Standby, StandDown, Finish, Join, Leave, Start, Crash
<1>4. ASSUME NEW r \in Request, Gate(r)
      PROVE  OneKillAtATime'
  <2>1. \A q \in Request : req[q].at = "idle"
    BY <1>1, <1>4, TimeAssumption DEF Gate, TypeOK, CooldownCoversReplacement
  <2>2. \A w \in Worker : pc[w] # "dead"
    BY <1>1, <1>4, TimeAssumption
    DEF Gate, TypeOK, Limit, CooldownCoversReplacement
  <2>3. req[r].age = 0
    BY <2>1 DEF IdleIsBlank, NoRequest
  <2>4. /\ \A q \in Request : q # r => req'[q].at = "idle"
        /\ req'[r].age = 0 /\ since' = 0
    BY <1>4, <2>1, <2>3 DEF Gate, TypeOK
  <2> QED
    BY <1>4, <2>2, <2>4 DEF Gate, workerVars
<1>5. ASSUME NEW r \in Request, ReadJob(r) \/ ReadLease(r) \/ Fail(r)
      PROVE  OneKillAtATime'
  <2>1. UNCHANGED <<pc, timer, since>>
    BY <1>5 DEF ReadJob, ReadLease, Fail, workerVars
  <2>2. \A q \in Request : req'[q].at # "idle" =>
          req[q].at # "idle" /\ req'[q].age = req[q].age
    BY <1>5 DEF ReadJob, ReadLease, Fail, End, NoRequest, TypeOK
  <2> QED
    BY <1>1, <2>1, <2>2
<1>6. ASSUME NEW r \in Request, Kill(r)
      PROVE  OneKillAtATime'
  <2>1. PICK w \in Worker : /\ Dies(w)
                            /\ req[r].at = "post"
                            /\ req' = [HangUp(w) EXCEPT ![r] = NoRequest]
    BY <1>6 DEF Kill
  <2>2. /\ \A v \in Worker : pc[v] # "dead"
        /\ since = req[r].age
        /\ \A q \in Request : q # r => req[q].at = "idle"
    BY <1>1, <2>1
  <2>3. \A q \in Request : req'[q].at = "idle"
    BY <2>1, <2>2, HangUpTypes DEF NoRequest
  <2>4. /\ timer'[w] = 0 /\ since' <= MaxRequest
        /\ \A v \in Worker : pc'[v] = "dead" => v = w
    BY <2>1, <2>2 DEF Dies, Becomes, TypeOK
  <2> QED
    BY <2>3, <2>4, TimeAssumption
<1>7. CASE Tick
  <2>1. UNCHANGED pc /\ \A w \in Worker : pc[w] = "dead" => timer'[w] = timer[w] + 1
    BY <1>7, TimeAssumption DEF Tick, Runs, Bound, Limit, UpTo, TypeOK
  <2>2. \A q \in Request : req'[q].at # "idle" =>
          /\ req[q].at # "idle"
          /\ req[q].age < MaxRequest
          /\ req'[q].age = req[q].age + 1
    BY <1>7 DEF Tick, TypeOK
  <2>3. since' = UpTo(since, Cooldown)
    BY <1>7 DEF Tick
  <2> QED
    BY <1>1, <2>1, <2>2, <2>3, TimeAssumption
    DEF UpTo, TypeOK, CooldownCoversReplacement
<1>8. CASE UNCHANGED vars
  BY <1>1, <1>8 DEF vars, workerVars
<1> QED
  BY <1>1, <1>3, <1>4, <1>5, <1>6, <1>7, <1>8
  DEF Next, ApiKill, ArenaRestart

(* While the button is the only thing that kills, there is always a        *)
(* process left to take over: the cooldown of api_kill outlasts a request  *)
(* and the replacement of the process it killed.                           *)
THEOREM SomeoneStaysAlive ==
  ASSUME CooldownCoversReplacement, SpareWorker
  PROVE  Spec => []SomeoneIsAlive
<1>1. Init => OneKillAtATime
  BY DEF Init, OneKillAtATime, NoRequest
<1>2. TypeInv /\ OneKillAtATime /\ [Next]_vars => OneKillAtATime'
  BY NextOneKill
<1>3. OneKillAtATime => SomeoneIsAlive
  BY DEF OneKillAtATime, SomeoneIsAlive, SpareWorker
<1> QED
  BY <1>1, <1>2, <1>3, Typing, PTL DEF Spec

-----------------------------------------------------------------------------
(***************************************************************************)
(* The lease tells who works.                                              *)
(***************************************************************************)

(* A process that renews in time loses the lease to nobody, whenever the   *)
(* transaction of the other one started.                                   *)
LEMMA HeldIsNotClaimable ==
  ASSUME TypeInv, HolderInv, RenewsInTime, punctual,
         NEW v \in Worker, pc[v] = "work",
         NEW w \in Worker, w # v, NEW age \in 0 .. MaxTxn
  PROVE  ~Claimable(w, age)
<1>1. timer[v] \in Nat /\ timer[v] <= MaxSilence
  BY DEF TypeInv, TypeOK, Limit
<1>2. lease # NoLease /\ lease.owner = v /\ lease.left \in Int
  BY DEF HolderInv, TypeInv, TypeOK, LeaseTypeOK, LeaseRow
<1> QED
  BY <1>1, <1>2, TTLAssumption, TimeAssumption
  DEF HolderInv, Claimable, RenewsInTime

(* A process with another state than "work" before and after a step leaves *)
(* the row as true as it was.                                              *)
LEMMA MoveHolder ==
  ASSUME TypeInv, HolderInv, NEW w \in Worker,
         NEW p \in {"dead", "rest", "contend"}, pc[w] # "work",
         Becomes(w, p), UNCHANGED <<lease, job, punctual, stale>>
  PROVE  HolderInv'
<1>1. /\ pc'[w] = p
      /\ \A v \in Worker \ {w} : pc'[v] = pc[v] /\ timer'[v] = timer[v]
  BY DEF TypeInv, TypeOK, Becomes
<1>2. lease # NoLease => lease.owner \in Worker
  BY WorkerAssumption DEF TypeInv, TypeOK, LeaseTypeOK, LeaseRow
<1> QED
  BY <1>1, <1>2 DEF HolderInv

LEMMA DiesHolder ==
  ASSUME TypeInv, HolderInv, NEW w \in Worker, Dies(w)
  PROVE  HolderInv'
<1>1. /\ pc'[w] = "dead"
      /\ \A v \in Worker \ {w} : pc'[v] = pc[v] /\ timer'[v] = timer[v]
  BY DEF TypeInv, TypeOK, Dies, Becomes
<1>2. lease # NoLease => lease.owner \in Worker
  BY WorkerAssumption DEF TypeInv, TypeOK, LeaseTypeOK, LeaseRow
<1> QED
  BY <1>1, <1>2 DEF HolderInv, Dies

(* Whatever the holder writes to the row, it stays the holder, for what is *)
(* left of the TTL since the transaction started.                          *)
LEMMA HolderWrites ==
  ASSUME TypeInv, HolderInv, punctual, NEW w \in Worker, pc[w] = "work",
         NEW age \in 0 .. MaxTxn, Writes(w, age)
  PROVE  /\ lease' # NoLease /\ lease'.owner = w
         /\ lease'.left = TTL - age
<1>1. lease # NoLease /\ lease.owner = w /\ lease \in LeaseRow
  BY DEF HolderInv, TypeInv, TypeOK, LeaseTypeOK
<1>2. lease' = [owner |-> w, left |-> TTL - age]
  BY <1>1 DEF Writes, Renewal, ClaimOrRenewLease, RenewIfOwner, Claimable, LeaseRow
<1> QED
  BY <1>2, WorkerAssumption, TTLAssumption, NoLeaseAssumption

LEMMA NextHolder ==
  ASSUME RenewsInTime, TypeInv, HolderInv, [Next]_vars
  PROVE  HolderInv'
<1> SUFFICES ASSUME punctual'
             PROVE  HolderInv'
  BY DEF HolderInv
<1>0. punctual
  <2>1. ASSUME NEW w \in Worker, Works(w)
        PROVE  UNCHANGED punctual
    BY <2>1 DEF Works, Claim, Standby, Renew, Flush, StandDown, Finish,
                NewJob, Join, Leave, Start, Crash, Dies
  <2>2. ASSUME NEW r \in Request, ApiKill(r)
        PROVE  UNCHANGED punctual
    BY <2>2 DEF ApiKill, Gate, ReadJob, ReadLease, Kill, Fail, Dies
  <2> QED
    BY <2>1, <2>2 DEF Next, ArenaRestart, Tick, vars
<1>1. ASSUME NEW w \in Worker, Claim(w)
      PROVE  HolderInv'
  <2>1. PICK age \in Age(w) : ClaimOrRenewLease(w, age)
    BY <1>1 DEF Claim
  <2>2. age \in 0 .. MaxTxn
    BY <2>1 DEF Age
  <2>3. \A v \in Worker : pc[v] # "work"
    BY <1>0, <1>1, <2>1, <2>2, HeldIsNotClaimable DEF Claim, ClaimOrRenewLease
  <2>4. /\ pc'[w] = IF job = "running" THEN "work" ELSE "rest"
        /\ timer'[w] = 0
        /\ \A v \in Worker \ {w} : pc'[v] = pc[v]
    BY <1>0, <1>1 DEF Claim, Becomes, TypeInv, TypeOK
  <2>5. /\ lease' # NoLease /\ lease'.owner = w /\ lease'.left = TTL - age
        /\ UNCHANGED job
    BY <1>1, <2>1, <2>2, WorkerAssumption, TTLAssumption, NoLeaseAssumption
    DEF Claim, ClaimOrRenewLease
  <2> QED
    BY <2>2, <2>3, <2>4, <2>5, TTLAssumption DEF HolderInv, TypeInv, TypeOK
<1>2. ASSUME NEW w \in Worker, Standby(w) \/ Join(w) \/ Leave(w) \/ Start(w)
      PROVE  HolderInv'
  BY <1>2, MoveHolder DEF Standby, Join, Leave, Start
<1>3. ASSUME NEW w \in Worker, Renew(w) \/ Flush(w)
      PROVE  HolderInv'
  <2>1. /\ pc[w] = "work"
        /\ UNCHANGED <<job, pc>>
    BY <1>3, WorkerWrites
  <2>2. PICK age \in 0 .. MaxTxn : Writes(w, age)
    BY <1>3, WorkerWrites
  <2>3. /\ lease' # NoLease /\ lease'.owner = w /\ lease'.left = TTL - age
    BY <1>0, <2>1, <2>2, HolderWrites
  <2>4. timer'[w] \in Nat
    <3>1. timer' = timer \/ timer' = [timer EXCEPT ![w] = 0]
      BY <1>3, WorkerWrites
    <3> QED
      BY <3>1 DEF TypeInv, TypeOK
  <2>5. \A v \in Worker \ {w} : pc[v] # "work"
    BY <1>0, <2>1 DEF HolderInv
  <2> QED
    BY <1>0, <2>1, <2>2, <2>3, <2>4, <2>5, TTLAssumption DEF HolderInv
<1>4. ASSUME NEW w \in Worker, StandDown(w)
      PROVE  FALSE
  BY <1>0, <1>4 DEF StandDown, HolderInv, Claimable
<1>5. ASSUME NEW w \in Worker, Finish(w)
      PROVE  HolderInv'
  <2>1. /\ job' = "resting" /\ pc'[w] = "rest"
        /\ \A v \in Worker \ {w} : pc'[v] = pc[v]
    BY <1>5 DEF Finish, Becomes, TypeInv, TypeOK
  <2>2. \A v \in Worker \ {w} : pc[v] # "work"
    BY <1>0, <1>5 DEF HolderInv, Finish
  <2> QED
    BY <2>1, <2>2 DEF HolderInv
<1>6. ASSUME NEW w \in Worker, NewJob(w)
      PROVE  HolderInv'
  <2>1. lease' = NoLease /\ \A v \in Worker : pc'[v] # "work"
    BY <1>6 DEF NewJob, TypeInv, TypeOK
  <2> QED
    BY <2>1 DEF HolderInv
<1>7. ASSUME NEW w \in Worker, Crash(w)
      PROVE  HolderInv'
  BY <1>7, DiesHolder DEF Crash
<1>8. ASSUME NEW r \in Request, Kill(r)
      PROVE  HolderInv'
  BY <1>8, DiesHolder DEF Kill
<1>9. ASSUME \/ \E r \in Request : Gate(r) \/ ReadJob(r) \/ ReadLease(r) \/ Fail(r)
             \/ ArenaRestart
             \/ UNCHANGED vars
      PROVE  HolderInv'
  <2>1. UNCHANGED <<lease, job, punctual, pc, timer, stale>>
    BY <1>9 DEF Gate, ReadJob, ReadLease, Fail, ArenaRestart, workerVars, vars
  <2> QED
    BY <2>1 DEF HolderInv
<1>10. CASE Tick
  <2>1. UNCHANGED <<job, pc, stale>>
    BY <1>10 DEF Tick
  <2>2. ASSUME NEW w \in Worker, pc[w] = "work"
        PROVE  /\ lease' # NoLease
               /\ lease'.owner = w
               /\ lease'.left + timer'[w] >= TTL - MaxTxn
    <3>1. timer[w] \in Nat /\ timer[w] < MaxSilence /\ timer'[w] = timer[w] + 1
      BY <1>0, <1>10, <2>2 DEF Tick, Runs, Bound, Limit, UpTo, TypeInv, TypeOK
    <3>2. /\ lease # NoLease /\ lease.owner = w
          /\ lease.left + timer[w] >= TTL - MaxTxn
      BY <1>0, <2>2 DEF HolderInv
    <3>3. lease \in LeaseRow
      BY <3>2 DEF TypeInv, TypeOK, LeaseTypeOK
    <3>4. lease' = [lease EXCEPT !.left = @ - 1]
      BY <1>10, <3>1, <3>2, <3>3, TTLAssumption, TimeAssumption
      DEF Tick, LeaseTick, LeaseRow, RenewsInTime
    <3>5. lease' \in [owner : Owner, left : Int] /\ lease'.owner = w
          /\ lease'.left = lease.left - 1
      BY <3>2, <3>3, <3>4 DEF LeaseRow
    <3> QED
      BY <3>1, <3>2, <3>3, <3>5, TTLAssumption, NoLeaseAssumption DEF LeaseRow
  <2>3. lease' # NoLease => lease # NoLease /\ lease'.owner = lease.owner
    BY <1>10 DEF Tick, LeaseTick, TypeInv, TypeOK, LeaseTypeOK, LeaseRow
  <2> QED
    BY <1>0, <2>1, <2>2, <2>3 DEF HolderInv
<1> QED
  BY <1>1, <1>2, <1>3, <1>4, <1>5, <1>6, <1>7, <1>8, <1>9, <1>10
  DEF Next, Works, ApiKill

LEMMA Holding ==
  ASSUME RenewsInTime
  PROVE  Spec => []HolderInv
<1>1. Init => HolderInv
  BY DEF Init, LeaseInit, HolderInv
<1>2. TypeInv /\ HolderInv /\ [Next]_vars => HolderInv'
  BY NextHolder
<1> QED
  BY <1>1, <1>2, Typing, PTL DEF Spec

-----------------------------------------------------------------------------
(***************************************************************************)
(* Where a request POSTs to.                                               *)
(***************************************************************************)
LEMMA RequestTypes ==
  ASSUME TypeInv, NEW r \in Request
  PROVE  /\ req[r].age \in 0 .. MaxRequest
         /\ req[r].addr # Gone => req[r].addr \in Worker
         /\ req[r].at = "idle" => req[r].addr = Gone
  BY DEF TypeInv, TypeOK, IdleIsBlank, NoRequest

(* A worker that moves while no request is meant for it.                   *)
LEMMA MoveTarget ==
  ASSUME TypeInv, TargetInv, NEW w \in Worker, NEW p \in PC,
         pc[w] # "work" \/ p = "work",
         Becomes(w, p), UNCHANGED <<job, rested, punctual, req>>
  PROVE  TargetInv'
<1>1. \A v \in Worker : pc[v] = "work" => pc'[v] = "work"
  BY DEF TypeInv, TypeOK, Becomes
<1> QED
  BY <1>1, RequestTypes DEF TargetInv

(* A death takes the requests that were meant for it off their target.     *)
LEMMA DiesTarget ==
  ASSUME TypeInv, TargetInv, NEW w \in Worker, Dies(w),
         \A r \in Request : req'[r] = HangUp(w)[r] \/ req'[r] = NoRequest
  PROVE  TargetInv'
<1>1. \A v \in Worker \ {w} : pc'[v] = pc[v]
  BY DEF TypeInv, TypeOK, Dies, Becomes
<1>2. \A r \in Request :
        /\ req'[r].addr # Gone => /\ req[r].addr # w
                                 /\ req'[r].addr = req[r].addr
                                 /\ req'[r].at = req[r].at
        /\ req'[r].at # "idle" => /\ req'[r].at = req[r].at
                                  /\ req'[r].age = req[r].age
  BY HangUpTypes DEF NoRequest
<1> QED
  BY <1>1, <1>2, RequestTypes DEF TargetInv, Dies

LEMMA NextTarget ==
  ASSUME RenewsInTime, TypeInv, HolderInv, TargetInv, [Next]_vars
  PROVE  TargetInv'
<1>1. ASSUME NEW w \in Worker, Claim(w)
      PROVE  TargetInv'
  BY <1>1, MoveTarget DEF Claim, PC
<1>2. ASSUME NEW w \in Worker, Standby(w) \/ Join(w) \/ Leave(w) \/ Start(w)
      PROVE  TargetInv'
  BY <1>2, MoveTarget DEF Standby, Join, Leave, Start, PC
<1>3. ASSUME NEW w \in Worker, Finish(w)
      PROVE  TargetInv'
  <2>1. /\ job' = "resting" /\ UNCHANGED req
        /\ job = "running" => rested' = 0
        /\ job = "resting" => rested' = rested
    BY <1>3 DEF Finish, TypeInv, TypeOK
  <2> QED
    BY <2>1, RequestTypes DEF TargetInv, TypeInv, TypeOK
<1>4. ASSUME NEW w \in Worker, Renew(w) \/ Flush(w)
      PROVE  TargetInv'
  BY <1>4 DEF Renew, Flush, workerVars, TargetInv
<1>5. ASSUME NEW w \in Worker, StandDown(w)
      PROVE  TargetInv'
  <2>1. ~punctual
    BY <1>5 DEF StandDown, HolderInv, Claimable
  <2> QED
    BY <1>5, <2>1 DEF StandDown, TargetInv
<1>6. ASSUME NEW w \in Worker, NewJob(w)
      PROVE  TargetInv'
  <2>1. \A r \in Request : req[r].addr = Gone /\ req'[r] = req[r]
    BY <1>6, RequestTypes, TimeAssumption DEF TargetInv, NewJob
  <2> QED
    BY <1>6, <2>1 DEF TargetInv, NewJob
<1>7. ASSUME NEW w \in Worker, Crash(w)
      PROVE  TargetInv'
  BY <1>7, DiesTarget DEF Crash
<1>8. ASSUME NEW r \in Request, Kill(r)
      PROVE  TargetInv'
  <2>1. PICK w \in Worker : Dies(w) /\ req' = [HangUp(w) EXCEPT ![r] = NoRequest]
    BY <1>8 DEF Kill
  <2>2. \A q \in Request : req'[q] = HangUp(w)[q] \/ req'[q] = NoRequest
    BY <2>1, HangUpTypes
  <2> QED
    BY <2>1, <2>2, DiesTarget
<1>9. ASSUME NEW r \in Request, Gate(r) \/ ReadJob(r) \/ Fail(r)
      PROVE  TargetInv'
  <2>1. /\ UNCHANGED <<job, rested, punctual, pc>>
        /\ \A q \in Request \ {r} : req'[q] = req[q]
    BY <1>9 DEF Gate, ReadJob, Fail, End, workerVars, TypeInv, TypeOK
  <2>2. /\ req'[r].addr = Gone
        /\ req'[r].at \in {"lease", "post"} => job = "running"
    BY <1>9, RequestTypes
    DEF TargetInv, Gate, ReadJob, Fail, End, NoRequest, TypeInv, TypeOK
  <2> QED
    BY <2>1, <2>2 DEF TargetInv
<1>10. ASSUME NEW r \in Request, ReadLease(r)
      PROVE  TargetInv'
  <2>1. /\ UNCHANGED <<job, rested, punctual, pc>>
        /\ \A q \in Request \ {r} : req'[q] = req[q]
    BY <1>10 DEF ReadLease, End, workerVars, TypeInv, TypeOK
  <2>2. CASE lease = NoLease
    BY <1>10, <2>1, <2>2
    DEF TargetInv, ReadLease, End, NoRequest, TypeInv, TypeOK
  <2>3. CASE lease # NoLease
    <3>1. /\ req'[r].at = "post" /\ req'[r].age = req[r].age
          /\ req'[r].addr = IF stale THEN Gone ELSE lease.owner
      BY <1>10, <2>3 DEF ReadLease, TypeInv, TypeOK
    <3>2. punctual /\ job = "running" /\ ~stale => pc[lease.owner] = "work"
      BY <2>3 DEF HolderInv
    <3>3. req[r].at = "lease" /\ stale' = stale
      BY <1>10 DEF ReadLease
    <3> QED
      BY <2>1, <3>1, <3>2, <3>3 DEF TargetInv
  <2> QED
    BY <2>2, <2>3
<1>11. CASE ArenaRestart
  BY <1>11 DEF TargetInv, ArenaRestart, workerVars, NoRequest
<1>12. CASE Tick
  <2>1. /\ UNCHANGED <<job, punctual, pc>>
        /\ job = "resting" => rested' <= rested + 1
        /\ \A r \in Request :
             /\ req'[r].at = req[r].at /\ req'[r].addr = req[r].addr
             /\ req[r].at # "idle" => req'[r].age = req[r].age + 1
    BY <1>12, TimeAssumption DEF Tick, UpTo, TypeInv, TypeOK
  <2>2. rested \in Nat /\ rested' \in Nat
    BY NextTypeInv, TimeAssumption DEF TypeInv, TypeOK
  <2> QED
    BY <2>1, <2>2, RequestTypes DEF TargetInv
<1>13. CASE UNCHANGED vars
  BY <1>13 DEF vars, workerVars, TargetInv
<1> QED
  BY <1>1, <1>2, <1>3, <1>4, <1>5, <1>6, <1>7, <1>8, <1>9, <1>10, <1>11,
     <1>12, <1>13
  DEF Next, Works, ApiKill

LEMMA Targeting ==
  ASSUME RenewsInTime
  PROVE  Spec => []TargetInv
<1>1. Init => TargetInv
  BY DEF Init, TargetInv, NoRequest
<1>2. TypeInv /\ HolderInv /\ TargetInv /\ [Next]_vars => TargetInv'
  BY NextTarget
<1> QED
  BY <1>1, <1>2, Typing, Holding, PTL DEF Spec

(* However old its answers are by then, a request of api_kill kills nobody *)
(* but the holder of the lease of the running job, which api_kill promises *)
(* in its docstring, provided that processes renew the lease punctually    *)
(* and that a renewal and its transaction fit into the TTL: a stale        *)
(* address leads nowhere, such a holder cannot lose the lease while it     *)
(* lives, and the pause outlasts every request.                            *)
THEOREM OnlyTheHolderIsKilled ==
  ASSUME RenewsInTime
  PROVE  Spec => KillsTheHolder
<1>1. TypeInv /\ HolderInv /\ TargetInv =>
        [\A w \in Worker : Killed(w) /\ job = "running" /\ punctual =>
           lease # NoLease /\ lease.owner = w]_vars
  BY WorkerAssumption DEF Killed, TargetInv, HolderInv
<1> QED
  BY <1>1, Typing, Holding, Targeting, PTL DEF KillsTheHolder

-----------------------------------------------------------------------------
(***************************************************************************)
(* The failover budget.                                                    *)
(***************************************************************************)

(* The budget of one standby as a formula of its own, to be primed.        *)
InBudget(v) ==
  /\ KeptWaiting(v)
  /\ IF Claimable(v, MaxTxn) THEN waiting[v] + Poll <= Longest + timer[v]
     ELSE waiting[v] + lease.left <= TTL

(* Steps that touch neither the row nor the time of the standby.           *)
LEMMA StillInBudget ==
  ASSUME NEW v \in Worker, InBudget(v), UNCHANGED <<lease, job, pc[v], waiting[v]>>,
         UNCHANGED timer[v] \/ ~Claimable(v, MaxTxn),
         \A u \in Worker : pc'[u] # "work"
  PROVE  InBudget(v)'
BY DEF InBudget, KeptWaiting, Claimable

LEMMA NextWait == TypeInv /\ WaitInv /\ [Next]_vars => WaitInv'
<1> SUFFICES ASSUME TypeInv, WaitInv, [Next]_vars, NEW v \in Worker,
                    waiting'[v] > 0
             PROVE  InBudget(v)'
  BY DEF WaitInv, InBudget
<1>1. waiting[v] > 0 => InBudget(v)
  BY DEF WaitInv, InBudget
<1>2. ASSUME NEW w \in Worker, Claim(w)
      PROVE  FALSE
  BY <1>2 DEF Claim
<1>3. ASSUME NEW w \in Worker,
             \/ Standby(w) \/ Renew(w) \/ Flush(w) \/ StandDown(w)
             \/ Finish(w) \/ NewJob(w) \/ Join(w) \/ Leave(w) \/ Start(w)
      PROVE  InBudget(v)'
  <2>1. waiting[v] > 0 /\ UNCHANGED waiting[v]
    BY <1>3 DEF Standby, Renew, Flush, StandDown, Finish, NewJob, Join, Leave,
                Start
  <2>2. /\ pc[v] = "contend" /\ job = "running"
        /\ \A u \in Worker : pc[u] # "work"
    BY <1>1, <2>1 DEF InBudget, KeptWaiting
  <2>3. Standby(w) \/ Join(w) \/ Leave(w) \/ Start(w)
    BY <1>3, <2>2 DEF Renew, Flush, StandDown, Finish, NewJob
  <2>4. \A u \in Worker : pc'[u] # "work"
    BY <2>2, <2>3 DEF Standby, Join, Leave, Start, Becomes, TypeInv, TypeOK
  <2>5. UNCHANGED <<lease, job>>
    BY <2>3 DEF Standby, Join, Leave, Start
  <2>6. CASE w = v
    <3>1. Standby(v)
      BY <2>2, <2>3, <2>6 DEF Join, Leave, Start
    <3>2. PICK age \in 0 .. MaxTxn : ~Claimable(v, age)
      BY <3>1 DEF Standby, Age
    <3>3. ~Claimable(v, MaxTxn)
      BY <3>2, TTLAssumption
      DEF Claimable, TypeInv, TypeOK, LeaseTypeOK, LeaseRow
    <3>4. pc'[v] = "contend"
      BY <3>1 DEF Standby, Becomes, TypeInv, TypeOK
    <3> QED
      BY <1>1, <2>1, <2>2, <2>4, <2>5, <3>3, <3>4, StillInBudget
  <2>7. CASE w # v
    <3>1. UNCHANGED <<pc[v], timer[v]>>
      BY <2>3, <2>7 DEF Standby, Join, Leave, Start, Becomes, TypeInv, TypeOK
    <3> QED
      BY <1>1, <2>1, <2>4, <2>5, <3>1, StillInBudget
  <2> QED
    BY <2>6, <2>7
<1>4. ASSUME NEW w \in Worker, Dies(w)
      PROVE  InBudget(v)'
  <2>1. w # v /\ waiting[v] > 0 /\ UNCHANGED <<waiting[v], pc[v], timer[v], lease, job>>
    BY <1>4 DEF Dies, Becomes, TypeInv, TypeOK
  <2>2. \A u \in Worker : pc'[u] # "work"
    BY <1>1, <1>4, <2>1 DEF InBudget, KeptWaiting, Dies, Becomes, TypeInv, TypeOK
  <2> QED
    BY <1>1, <2>1, <2>2, StillInBudget
<1>5. ASSUME \/ \E r \in Request : Gate(r) \/ ReadJob(r) \/ ReadLease(r) \/ Fail(r)
             \/ ArenaRestart
             \/ UNCHANGED vars
      PROVE  InBudget(v)'
  <2>1. UNCHANGED <<lease, job, pc, timer, waiting>>
    BY <1>5 DEF Gate, ReadJob, ReadLease, Fail, ArenaRestart, workerVars, vars
  <2> QED
    BY <1>1, <2>1, StillInBudget DEF InBudget, KeptWaiting
<1>6. CASE Tick
  <2>1. KeptWaiting(v) /\ UNCHANGED <<pc, job>>
    BY <1>6 DEF Tick
  <2>2. KeptWaiting(v)'
    BY <2>1 DEF KeptWaiting
  <2>3. /\ waiting[v] \in Nat /\ waiting'[v] \in Nat
        /\ waiting'[v] <= waiting[v] + 1
    BY <1>6, <2>1, NextTypeInv, TTLAssumption, TimeAssumption
    DEF Tick, UpTo, TypeInv, TypeOK, Longest
  <2>4. timer[v] \in Nat /\ timer'[v] = timer[v] + 1
    BY <1>6, <2>1, TimeAssumption
    DEF Tick, Runs, Bound, Limit, UpTo, KeptWaiting, TypeInv, TypeOK
  <2>5. CASE Claimable(v, MaxTxn)
    <3>1. Claimable(v, MaxTxn)'
      BY <1>6, <2>5, TTLAssumption
      DEF Tick, LeaseTick, Claimable, TypeInv, TypeOK, LeaseTypeOK, LeaseRow
    <3>2. waiting[v] + Poll <= Longest + timer[v]
      BY <1>1, <2>3, <2>4, <2>5, TTLAssumption, TimeAssumption DEF InBudget, Longest
    <3> QED
      BY <2>2, <2>3, <2>4, <3>1, <3>2, TTLAssumption, TimeAssumption
      DEF InBudget, Longest
  <2>6. CASE ~Claimable(v, MaxTxn)
    <3>1. /\ lease # NoLease /\ lease.owner # v
          /\ lease.left \in -MaxTxn .. TTL
      BY <2>6, TTLAssumption
      DEF Claimable, TypeInv, TypeOK, LeaseTypeOK, LeaseRow
    <3>2. lease' \in LeaseRow /\ lease'.left = lease.left - 1
      BY <1>6, <3>1, TTLAssumption
      DEF Tick, LeaseTick, TypeInv, TypeOK, LeaseTypeOK, LeaseRow
    <3>3. waiting[v] + lease.left <= TTL
      BY <1>1, <2>3, <2>6, <3>1, TTLAssumption DEF InBudget
    <3>4. waiting'[v] + lease'.left <= TTL
      BY <2>3, <3>1, <3>2, <3>3, TTLAssumption
    <3>5. Claimable(v, MaxTxn)' => lease'.left = -1 - MaxTxn
      <4>1. lease' # NoLease /\ lease'.owner = lease.owner
        BY <1>6, <3>1, <3>2, TTLAssumption, NoLeaseAssumption
        DEF Tick, LeaseTick, TypeInv, TypeOK, LeaseTypeOK, LeaseRow
      <4> QED
        BY <3>1, <3>2, <4>1, TTLAssumption DEF Claimable
    <3>6. Claimable(v, MaxTxn)' => waiting'[v] + Poll <= Longest + timer'[v]
      BY <2>3, <2>4, <3>4, <3>5, TTLAssumption, TimeAssumption DEF Longest
    <3> QED
      BY <2>2, <3>4, <3>6 DEF InBudget
  <2> QED
    BY <2>5, <2>6
<1> QED
  BY <1>2, <1>3, <1>4, <1>5, <1>6 DEF Next, Works, ApiKill, Crash, Kill

(* A process that waits for a job nobody works on has the job within the   *)
(* TTL, one transaction and one poll, whoever died, was evicted, came      *)
(* back, or asked for the job in between (config.py: TTL + poll).          *)
THEOREM FailoverInBudget == Spec => []ClaimedInTime
<1>1. Init => WaitInv
  BY DEF Init, WaitInv
<1>2. TypeInv /\ WaitInv => ClaimedInTime
  <2> SUFFICES ASSUME TypeInv, WaitInv, NEW w \in Worker, waiting[w] > 0
               PROVE  waiting[w] <= Longest
    BY TTLAssumption, TimeAssumption
    DEF ClaimedInTime, Longest, TypeInv, TypeOK
  <2>1. timer[w] \in Nat /\ waiting[w] \in Nat
    BY TTLAssumption, TimeAssumption DEF TypeInv, TypeOK, Longest
  <2>2. CASE Claimable(w, MaxTxn)
    <3>1. timer[w] <= Poll
      BY <2>1 DEF WaitInv, KeptWaiting, TypeInv, TypeOK, Limit
    <3> QED
      BY <2>1, <2>2, <3>1, TTLAssumption, TimeAssumption DEF WaitInv, Longest
  <2>3. CASE ~Claimable(w, MaxTxn)
    <3>1. lease.left \in Int /\ lease.left >= -MaxTxn
      BY <2>3, TTLAssumption
      DEF Claimable, TypeInv, TypeOK, LeaseTypeOK, LeaseRow
    <3> QED
      BY <2>1, <2>3, <3>1, TTLAssumption, TimeAssumption DEF WaitInv, Longest
  <2> QED
    BY <2>2, <2>3
<1> QED
  BY <1>1, <1>2, NextWait, Typing, PTL DEF Spec
=============================================================================
