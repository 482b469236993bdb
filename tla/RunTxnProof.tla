---------------------------- MODULE RunTxnProof ----------------------------
(***************************************************************************)
(* For any number of calls, retries and failures: run_txn is the atomic    *)
(* step of Txn.tla, and gives up only when it was overtaken often enough.  *)
(***************************************************************************)
EXTENDS RunTxn, TLAPS

USE RetriesAssumption

-----------------------------------------------------------------------------
(* Every action keeps the types; the attempts stay below MAX_RETRIES as    *)
(* long as another one is to come.                                         *)
Open == {"idle", "connect", "fn", "commit"}

TypeInv ==
  /\ TypeOK
  /\ \A c \in Call : pc[c] \in Open => attempt[c] < MaxRetries

LEMMA TypeStep ==
  ASSUME TypeInv, [Next]_vars
  PROVE  TypeInv'
<1> USE DEF TypeInv, TypeOK, Open
<1>1. CASE UNCHANGED vars
  BY <1>1 DEF vars
<1>2. ASSUME NEW c \in Call, Begin(c)
      PROVE  TypeInv'
  BY <1>2 DEF Begin, GoTo
<1>3. ASSUME NEW c \in Call, Connect(c)
      PROVE  TypeInv'
  BY <1>3 DEF Connect, GoTo
<1>4. ASSUME NEW c \in Call, RunFn(c)
      PROVE  TypeInv'
  BY <1>4 DEF RunFn, GoTo
<1>5. ASSUME NEW c \in Call, Commit(c)
      PROVE  TypeInv'
  BY <1>5 DEF Commit, GoTo
<1>6. ASSUME NEW c \in Call, Return(c)
      PROVE  TypeInv'
  BY <1>6 DEF Return, GoTo
<1>7. ASSUME NEW c \in Call, Conflict(c)
      PROVE  TypeInv'
  BY <1>7 DEF Conflict, RollBack, GoTo
<1>8. ASSUME NEW c \in Call, Restarted(c)
      PROVE  TypeInv'
  BY <1>8 DEF Restarted, RollBack, GoTo, Fault
<1>9. ASSUME NEW c \in Call, Again(c)
      PROVE  TypeInv'
  BY <1>9 DEF Again, GoTo
<1>10. ASSUME NEW c \in Call, Lose(c)
       PROVE  TypeInv'
  BY <1>10 DEF Lose, GoTo, Fault
<1> QED
  BY <1>1, <1>2, <1>3, <1>4, <1>5, <1>6, <1>7, <1>8, <1>9, <1>10 DEF Next, Attempt

(* Every variable stays in its type, the number of attempts included.      *)
THEOREM TypeCorrect == Spec => []TypeOK
<1>1. Init => TypeInv
  BY DEF Init, TypeInv, TypeOK
<1>2. TypeInv /\ [Next]_vars => TypeInv'
  BY TypeStep
<1>3. TypeInv => TypeOK
  BY DEF TypeInv
<1> QED
  BY <1>1, <1>2, <1>3, PTL DEF Spec, SafeSpec

-----------------------------------------------------------------------------
(* Giving up: a call that has failed n times stands behind n commits or    *)
(* failures, those it had seen when it read the rows.                      *)
Behind(c, n) == n + faults >= attempt[c]

OvertakenInv ==
  \A c \in Call :
    /\ Behind(c, Len(log))
    /\ pc[c] = "commit" => Behind(c, Len(seen[c])) /\ Len(seen[c]) <= Len(log)
    /\ pc[c] = "commit" /\ seen[c] # log => Len(seen[c]) < Len(log)
    /\ pc[c] = "refused" => attempt[c] >= MaxRetries

(* A commit leaves everybody else further behind.                          *)
LEMMA OvertakenStep ==
  ASSUME TypeInv, OvertakenInv, [Next]_vars
  PROVE  OvertakenInv'
<1> USE DEF TypeInv, TypeOK, OvertakenInv, Behind
<1>1. CASE UNCHANGED vars
  BY <1>1 DEF vars
<1>2. ASSUME NEW c \in Call, Begin(c)
      PROVE  OvertakenInv'
  BY <1>2 DEF Begin, GoTo
<1>3. ASSUME NEW c \in Call, Connect(c)
      PROVE  OvertakenInv'
  BY <1>3 DEF Connect, GoTo
<1>4. ASSUME NEW c \in Call, RunFn(c)
      PROVE  OvertakenInv'
  BY <1>4 DEF RunFn, GoTo
<1>5. ASSUME NEW c \in Call, Commit(c)
      PROVE  OvertakenInv'
  <2>1. log' = Append(log, c) /\ Len(log') = Len(log) + 1 /\ Len(log) \in Nat
    BY <1>5 DEF Commit
  <2>2. \A d \in Call : Len(seen[d]) \in Nat
    OBVIOUS
  <2>3. attempt' = attempt /\ seen' = seen /\ faults' = faults
    BY <1>5 DEF Commit
  <2>4. \A d \in Call : pc'[d] \in {"commit", "refused"} => pc'[d] = pc[d]
    BY <1>5 DEF Commit, GoTo
  <2> QED
    BY <2>1, <2>2, <2>3, <2>4
<1>6. ASSUME NEW c \in Call, Return(c)
      PROVE  OvertakenInv'
  BY <1>6 DEF Return, GoTo
<1>7. ASSUME NEW c \in Call, Conflict(c)
      PROVE  OvertakenInv'
  BY <1>7 DEF Conflict, RollBack, GoTo
<1>8. ASSUME NEW c \in Call, Restarted(c)
      PROVE  OvertakenInv'
  BY <1>8 DEF Restarted, RollBack, GoTo, Fault
<1>9. ASSUME NEW c \in Call, Again(c)
      PROVE  OvertakenInv'
  BY <1>9 DEF Again, GoTo
<1>10. ASSUME NEW c \in Call, Lose(c)
       PROVE  OvertakenInv'
  BY <1>10 DEF Lose, GoTo, Fault
<1> QED
  BY <1>1, <1>2, <1>3, <1>4, <1>5, <1>6, <1>7, <1>8, <1>9, <1>10 DEF Next, Attempt

(* A call raises the serialization failure only after as many commits of   *)
(* others, or refusals of the database's own, as it has attempts.          *)
THEOREM GivesUpOnlyOvertaken == Spec => []GivesUpOvertaken
<1>1. Init => TypeInv /\ OvertakenInv
  BY DEF Init, TypeInv, TypeOK, OvertakenInv, Behind
<1>2. TypeInv /\ OvertakenInv /\ [Next]_vars => (TypeInv /\ OvertakenInv)'
  BY TypeStep, OvertakenStep
<1>3. TypeInv /\ OvertakenInv => GivesUpOvertaken
  BY DEF TypeInv, TypeOK, OvertakenInv, Behind, GivesUpOvertaken
<1> QED
  BY <1>1, <1>2, <1>3, PTL DEF Spec, SafeSpec

-----------------------------------------------------------------------------
(***************************************************************************)
(* The refinement.  The entry of a call is in the rows only once it has    *)
(* committed, so what a call has read before does not count.               *)
(***************************************************************************)
Absent == \A c \in Call : InLog(c) => pc[c] \in {"committed", "returned", "broken"}

LEMMA LogGrows ==
  ASSUME log \in Seq(Call), NEW c \in Call, log' = Append(log, c), NEW d \in Call
  PROVE  InLog(d)' <=> InLog(d) \/ d = c
<1>1. DOMAIN log = 1 .. Len(log) /\ DOMAIN log' = 1 .. Len(log) + 1 /\ Len(log) \in Nat
  OBVIOUS
<1>2. \A i \in 1 .. Len(log) : log'[i] = log[i]
  OBVIOUS
<1>3. log'[Len(log) + 1] = c
  OBVIOUS
<1>4. ASSUME InLog(d)' PROVE InLog(d) \/ d = c
  <2>1. PICK i \in 1 .. Len(log) + 1 : log'[i] = d
    BY <1>1, <1>4 DEF InLog
  <2>2. CASE i = Len(log) + 1
    BY <1>3, <2>1, <2>2
  <2>3. CASE i \in 1 .. Len(log)
    BY <1>1, <1>2, <2>1, <2>3 DEF InLog
  <2> QED
    BY <1>1, <2>1, <2>2, <2>3
<1>5. ASSUME InLog(d) PROVE InLog(d)'
  BY <1>1, <1>2, <1>5 DEF InLog
<1>6. ASSUME d = c PROVE InLog(d)'
  BY <1>1, <1>3, <1>6 DEF InLog
<1> QED
  BY <1>4, <1>5, <1>6

LEMMA LogStays ==
  ASSUME log' = log, NEW d \in Call
  PROVE  InLog(d)' <=> InLog(d)
BY DEF InLog

LEMMA AbsentStep ==
  ASSUME TypeInv, Absent, [Next]_vars
  PROVE  Absent'
<1> USE DEF TypeInv, TypeOK, Absent
<1>1. CASE UNCHANGED vars
  BY <1>1, LogStays DEF vars
<1>2. ASSUME NEW c \in Call, Commit(c)
      PROVE  Absent'
  <2>1. log' = Append(log, c)
    BY <1>2 DEF Commit
  <2>2. pc' = [pc EXCEPT ![c] = "committed"]
    BY <1>2 DEF Commit, GoTo
  <2> QED
    BY <2>1, <2>2, LogGrows
<1>3. ASSUME NEW c \in Call,
             Begin(c) \/ Connect(c) \/ RunFn(c) \/ Return(c) \/ Conflict(c)
               \/ Restarted(c) \/ Again(c) \/ Lose(c)
      PROVE  Absent'
  <2>1. log' = log
    BY <1>3 DEF Begin, Connect, RunFn, Return, Conflict, Restarted, Again, Lose, RollBack
  <2>2. PICK p : pc' = [pc EXCEPT ![c] = p] /\
                 (pc[c] \in {"committed", "returned", "broken"} => p \in {"returned", "broken"})
    BY <1>3 DEF Begin, Connect, RunFn, Return, Conflict, Restarted, Again, Lose, RollBack, GoTo
  <2> QED
    BY <2>1, <2>2, LogStays
<1> QED
  BY <1>1, <1>2, <1>3 DEF Next, Attempt

(* Begin, Commit, Return and the two ends map to the steps of Txn, the     *)
(* attempts to stutters.                                                   *)
LEMMA Simulation ==
  ASSUME TypeInv, Absent, [Next]_vars
  PROVE  [Promise!Next]_(Promise!vars)
<1> USE DEF TypeInv, TypeOK
<1> DEFINE states == [c \in Call |-> State(pc[c])]
           results == [c \in Call |-> Result(c)]
<1>1. ASSUME log' = log, \A d \in Call : InLog(d) => seen'[d] = seen[d]
      PROVE  results' = results
  BY <1>1, LogStays DEF Result
<1>2. CASE UNCHANGED vars
  BY <1>2 DEF vars, Promise!vars, Result, InLog
<1>3. ASSUME NEW c \in Call, Begin(c)
      PROVE  Promise!Begin(c)
  <2>1. states[c] = "idle" /\ states' = [states EXCEPT ![c] = "open"]
    BY <1>3 DEF Begin, GoTo, State
  <2>2. log' = log /\ results' = results
    BY <1>1, <1>3 DEF Begin
  <2> QED
    BY <2>1, <2>2 DEF Promise!Begin, Promise!Becomes
<1>4. ASSUME NEW c \in Call,
             Connect(c) \/ RunFn(c) \/ Conflict(c) \/ Restarted(c)
               \/ (Again(c) /\ attempt[c] < MaxRetries)
      PROVE  UNCHANGED Promise!vars
  <2>1. pc[c] \in {"connect", "fn", "commit", "sleep"}
    BY <1>4 DEF Connect, RunFn, Conflict, Restarted, Again
  <2>2. PICK p \in {"connect", "fn", "commit", "sleep"} : pc' = [pc EXCEPT ![c] = p]
    BY <1>4 DEF Connect, RunFn, Conflict, Restarted, Again, RollBack, GoTo
  <2>3. states' = states
    BY <2>1, <2>2 DEF State
  <2>4. ~InLog(c)
    BY <2>1 DEF Absent
  <2>5. log' = log /\ \A d \in Call \ {c} : seen'[d] = seen[d]
    BY <1>4 DEF Connect, RunFn, Conflict, Restarted, Again, RollBack
  <2>6. results' = results
    BY <1>1, <2>4, <2>5
  <2> QED
    BY <2>3, <2>5, <2>6 DEF Promise!vars
<1>5. ASSUME NEW c \in Call, Commit(c)
      PROVE  Promise!Apply(c)
  <2>1. states[c] = "open" /\ states' = [states EXCEPT ![c] = "applied"]
    BY <1>5 DEF Commit, GoTo, State
  <2>2. log' = Append(log, c) /\ seen' = seen /\ seen[c] = log
    BY <1>5 DEF Commit
  <2>3. \A d \in Call : Result(d)' = IF d = c THEN log ELSE Result(d)
    BY <2>2, LogGrows DEF Result
  <2>4. results' = [results EXCEPT ![c] = log]
    BY <2>3
  <2> QED
    BY <2>1, <2>2, <2>4 DEF Promise!Apply, Promise!Becomes
<1>6. ASSUME NEW c \in Call, Return(c)
      PROVE  Promise!Return(c)
  <2>1. states[c] = "applied" /\ states' = [states EXCEPT ![c] = "returned"]
    BY <1>6 DEF Return, GoTo, State
  <2>2. log' = log /\ results' = results
    BY <1>1, <1>6 DEF Return
  <2> QED
    BY <2>1, <2>2 DEF Promise!Return, Promise!Becomes
<1>7. ASSUME NEW c \in Call, Again(c), ~(attempt[c] < MaxRetries)
      PROVE  Promise!Refuse(c)
  <2>1. states[c] = "open" /\ states' = [states EXCEPT ![c] = "refused"]
    BY <1>7 DEF Again, GoTo, State
  <2>2. log' = log /\ results' = results
    BY <1>1, <1>7 DEF Again
  <2> QED
    BY <2>1, <2>2 DEF Promise!Refuse, Promise!Becomes
<1>8. ASSUME NEW c \in Call, Lose(c)
      PROVE  Promise!Break(c)
  <2>1. states[c] \in {"open", "applied"} /\ states' = [states EXCEPT ![c] = "broken"]
    BY <1>8 DEF Lose, GoTo, State
  <2>2. log' = log /\ results' = results
    BY <1>1, <1>8 DEF Lose
  <2> QED
    BY <2>1, <2>2 DEF Promise!Break, Promise!Becomes
<1> QED
  BY <1>2, <1>3, <1>4, <1>5, <1>6, <1>7, <1>8
     DEF Next, Attempt, Promise!Next, Promise!Step

(* Whatever attempts a call takes and wherever it fails, it is applied     *)
(* once and at one moment, or not at all, as its answer says.              *)
THEOREM RunTxnIsAtomic == SafeSpec => Promise!SafeSpec
<1>1. Init => TypeInv /\ Absent /\ Promise!Init
  BY DEF Init, TypeInv, TypeOK, Absent, InLog, Promise!Init, State, Result
<1>2. TypeInv /\ Absent /\ [Next]_vars => (TypeInv /\ Absent)' /\ [Promise!Next]_(Promise!vars)
  BY TypeStep, AbsentStep, Simulation
<1> QED
  BY <1>1, <1>2, PTL DEF SafeSpec, Promise!SafeSpec
=============================================================================
