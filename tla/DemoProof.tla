------------------------------ MODULE DemoProof ------------------------------
(***************************************************************************)
(* The agreement on the demo job, for every number of workers, jobs and    *)
(* faults and every pair of pause lengths: proofs of the safety properties *)
(* of Demo.tla.                                                            *)
(***************************************************************************)
EXTENDS Demo, TLAPS

USE NoJobAssumption, NoRestAssumption, PauseAssumption, FaultAssumption

-----------------------------------------------------------------------------
(* Every action keeps the types.                                           *)
LEMMA TypeStep ==
  ASSUME TypeOK, [Next]_vars
  PROVE  TypeOK'
<1>1. CASE UNCHANGED vars
  BY <1>1 DEF TypeOK, vars
<1>2. ASSUME NEW w \in Worker, Join(w)
      PROVE  TypeOK'
  BY <1>2 DEF TypeOK, Join, GetToWork, PointedStatus
<1>3. ASSUME NEW w \in Worker, StartPause(w)
      PROVE  TypeOK'
  <2>1. PICK pause \in MinPause .. MaxPause : pointer' = [pointer EXCEPT !.resting = pause]
    BY <1>3 DEF StartPause
  <2>2. pause \in 0 .. MaxPause
    BY <2>1
  <2>3. pointer' \in [job : JobId \cup {NoJob}, resting : (0 .. MaxPause) \cup {NoRest}]
    BY <2>1, <2>2 DEF TypeOK
  <2> QED
    BY <1>3, <2>3 DEF TypeOK, StartPause
<1>4. ASSUME NEW w \in Worker, Create(w)
      PROVE  TypeOK'
  BY <1>4 DEF TypeOK, Create, GetToWork
<1>5. ASSUME NEW w \in Worker, Finish(w)
      PROVE  TypeOK'
  <2>1. jobs' \in [JobId -> {"absent", "running", "done"}]
    BY <1>5 DEF TypeOK, Finish
  <2>2. pc' \in [Worker -> {"dead", "ask", "work"}]
    BY <1>5 DEF TypeOK, Finish, AskAgain
  <2>3. target' \in [Worker -> JobId \cup {NoJob}]
    BY <1>5 DEF TypeOK, Finish, AskAgain
  <2> QED
    BY <1>5, <2>1, <2>2, <2>3 DEF TypeOK, Finish
<1>6. ASSUME NEW w \in Worker, Leave(w)
      PROVE  TypeOK'
  BY <1>6 DEF TypeOK, Leave, AskAgain
<1>7. ASSUME NEW w \in Worker, Crash(w)
      PROVE  TypeOK'
  BY <1>7 DEF TypeOK, Crash, Vanish
<1>8. ASSUME NEW w \in Worker, Die(w)
      PROVE  TypeOK'
  BY <1>8 DEF TypeOK, Die, Vanish, Fault
<1>9. ASSUME NEW w \in Worker, Start(w)
      PROVE  TypeOK'
  BY <1>9 DEF TypeOK, Start
<1>10. CASE Reset
  BY <1>10 DEF TypeOK, Reset, Fault
<1>11. CASE Tick
  <2>1. idle' \in 0 .. MaxPause
    BY <1>11 DEF TypeOK, Tick
  <2>2. pointer' \in [job : JobId \cup {NoJob}, resting : (0 .. MaxPause) \cup {NoRest}]
    BY <1>11 DEF TypeOK, Tick
  <2> QED
    BY <1>11, <2>1, <2>2 DEF TypeOK, Tick
<1> QED
  BY <1>1, <1>2, <1>3, <1>4, <1>5, <1>6, <1>7, <1>8, <1>9, <1>10, <1>11
  DEF Next, Ask, Work

(* Every variable stays in its type; seconds_left is never negative.       *)
THEOREM TypeCorrect == Spec => []TypeOK
<1>1. Init => TypeOK
  BY DEF Init, TypeOK
<1> QED
  BY <1>1, TypeStep, PTL DEF Spec

-----------------------------------------------------------------------------
(***************************************************************************)
(* The pointer row tells the whole truth: the running job is the one it    *)
(* names, resting_until is only set when there is none, and until it runs  *)
(* out the time since the end of the last job makes up for the time that   *)
(* is left.  The third conjunct needs the second (a job that ends leaves   *)
(* no old pause behind), and the second needs the first (the running job   *)
(* that ends is the one the pause would belong to).                        *)
(***************************************************************************)
PauseAccounted ==
  PointedStatus = "done" /\ pointer.resting # NoRest
    => idle + pointer.resting >= MinPause

PointerInv == OneRunningJob /\ NoPauseWhileRunning /\ PauseAccounted

(* The pointer is only written by the transaction that has just read it,   *)
(* and by nothing while the job runs.                                      *)
LEMMA PointerStep ==
  ASSUME TypeOK, PointerInv, [Next]_vars
  PROVE  PointerInv'
<1> USE DEF PointerInv, OneRunningJob, NoPauseWhileRunning, PauseAccounted,
            PointedStatus, DemoJobId, RestingStatus
<1>1. CASE UNCHANGED vars
  BY <1>1 DEF TypeOK, vars
<1>2. ASSUME NEW w \in Worker, Join(w) \/ Leave(w) \/ Crash(w) \/ Die(w) \/ Start(w)
      PROVE  PointerInv'
  BY <1>2 DEF TypeOK, Join, Leave, Crash, Die, Start
<1>3. ASSUME NEW w \in Worker, StartPause(w)
      PROVE  PointerInv'
  <2>1. PICK pause \in MinPause .. MaxPause : pointer' = [pointer EXCEPT !.resting = pause]
    BY <1>3 DEF StartPause
  <2>2. /\ pointer'.job = pointer.job
        /\ pointer'.resting = pause
        /\ pause >= MinPause
    BY <2>1 DEF TypeOK
  <2>3. jobs' = jobs /\ idle' = idle /\ idle \in 0 .. MaxPause
    BY <1>3 DEF TypeOK, StartPause
  <2>4. pointer.job # NoJob /\ jobs[pointer.job] = "done"
    BY <1>3 DEF StartPause
  <2> QED
    BY <2>2, <2>3, <2>4 DEF TypeOK
<1>4. ASSUME NEW w \in Worker, Create(w)
      PROVE  PointerInv'
  <2>1. PICK j \in JobId : /\ jobs' = [jobs EXCEPT ![j] = "running"]
                           /\ pointer' = [job |-> j, resting |-> NoRest]
    BY <1>4 DEF Create
  <2>2. \A i \in JobId : jobs[i] # "running"
    BY <1>4 DEF Create, MayCreate, TypeOK
  <2>3. pointer'.job = j /\ pointer'.resting = NoRest /\ j # NoJob
    BY <2>1
  <2>4. \A i \in JobId : jobs'[i] = IF i = j THEN "running" ELSE jobs[i]
    BY <2>1 DEF TypeOK
  <2> QED
    BY <2>2, <2>3, <2>4
<1>5. ASSUME NEW w \in Worker, Finish(w)
      PROVE  PointerInv'
  <2>1. pointer' = pointer /\ jobs' = [jobs EXCEPT ![target[w]] = "done"]
    BY <1>5 DEF Finish
  <2>2. CASE target[w] \in JobId
    <3>1. pointer.job = target[w] /\ pointer.resting = NoRest
      BY <1>5, <2>2 DEF Finish
    <3>2. \A i \in JobId : jobs'[i] # "running"
      BY <2>1, <3>1 DEF TypeOK
    <3> QED
      BY <2>1, <2>2, <3>1, <3>2 DEF TypeOK
  <2>3. CASE target[w] \notin JobId
    <3>1. jobs' = jobs
      BY <2>1, <2>3 DEF TypeOK
    <3>2. target[w] = NoJob
      BY <2>3 DEF TypeOK
    <3> QED
      BY <2>1, <3>1, <3>2, <1>5 DEF TypeOK, Finish
  <2> QED
    BY <2>2, <2>3
<1>6. CASE Reset
  <2>1. \A i \in JobId : jobs'[i] = "absent"
    BY <1>6 DEF Reset
  <2>2. pointer' = pointer /\ (pointer.job # NoJob => pointer.job \in JobId)
    BY <1>6 DEF Reset, TypeOK
  <2> QED
    BY <2>1, <2>2
<1>7. CASE Tick
  <2>1. jobs' = jobs /\ pointer'.job = pointer.job
    BY <1>7 DEF Tick, TypeOK
  <2>2. pointer'.resting = NoRest <=> pointer.resting = NoRest
    BY <1>7 DEF Tick, TypeOK
  <2>3. pointer.resting # NoRest /\ idle + pointer.resting >= MinPause
          => idle' + pointer'.resting >= MinPause
    BY <1>7 DEF Tick, TypeOK
  <2> QED
    BY <2>1, <2>2, <2>3
<1> QED
  BY <1>1, <1>2, <1>3, <1>4, <1>5, <1>6, <1>7 DEF Next, Ask, Work

THEOREM PointerCorrect == Spec => []PointerInv
<1>1. Init => PointerInv
  BY DEF Init, PointerInv, OneRunningJob, NoPauseWhileRunning, PauseAccounted,
         PointedStatus, DemoJobId
<1> QED
  BY <1>1, TypeCorrect, PointerStep, PTL DEF Spec

-----------------------------------------------------------------------------
(* Regions that ask at the same time agree on one running job, the one the *)
(* pointer row names.                                                      *)
THEOREM OneJobRuns == Spec => []OneRunningJob
BY PointerCorrect, PTL DEF PointerInv

(* The arena is never told of a pause while there is a job to kill.        *)
THEOREM NoPauseTold == Spec => []NoPauseWhileRunning
BY PointerCorrect, PTL DEF PointerInv

(* A job that starts after one that was finished starts at least the       *)
(* shortest pause later, whichever workers asked, died or were reset.      *)
THEOREM PauseIsHonoured == Spec => PauseHonoured
<1>1. ASSUME TypeOK, PointerInv, [Next]_vars
      PROVE  [\A j \in JobId :
                jobs[j] # "running" /\ jobs'[j] = "running" /\ PointedStatus = "done"
                  => idle >= MinPause]_vars
  <2> SUFFICES ASSUME Next, NEW j \in JobId,
                      jobs[j] # "running", jobs'[j] = "running", PointedStatus = "done"
               PROVE  idle >= MinPause
    BY <1>1
  <2>1. PICK w \in Worker : Create(w)
    <3>1. jobs' # jobs
      OBVIOUS
    <3>2. ASSUME NEW w \in Worker, Finish(w)
          PROVE  FALSE
      BY <1>1, <3>2 DEF Finish, TypeOK
    <3>3. CASE Reset
      BY <3>3 DEF Reset
    <3> QED
      BY <3>1, <3>2, <3>3 DEF Next, Ask, Work, Join, StartPause, Leave, Crash,
         Die, Start, Tick
  <2>2. pointer.resting = 0 /\ pointer.resting # NoRest
    BY <2>1 DEF Create, MayCreate
  <2> QED
    BY <1>1, <2>2 DEF PointerInv, PauseAccounted, TypeOK
<1> QED
  BY <1>1, TypeCorrect, PointerCorrect, PTL DEF Spec, PauseHonoured
=============================================================================
