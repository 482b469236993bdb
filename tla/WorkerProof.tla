---------------------------- MODULE WorkerProof ----------------------------
(***************************************************************************)
(* What Worker.tla keeps for every number of workers, steps, words and     *)
(* faults, proved with TLAPS.                                              *)
(***************************************************************************)
EXTENDS Worker, FiniteSetTheorems, SequenceTheorems, TLAPS

(***************************************************************************)
(* Types.                                                                  *)
(***************************************************************************)

(* A process that has read the state is working on a step of the job.      *)
MidStep(w) == pc[w] \in {"seq", "stream", "rescue", "finalize"}

FrameOK == \A w \in Worker : MidStep(w) => frame[w].step \in Step

TypeInv == TypeOK /\ FrameOK

LEMMA BlankFrame == Blank \in Frame
  BY TotalStepsAssumption, BoundsAssumption DEF Blank, Frame, Text

(* The transactions of Lease and Mind keep their rows in type.             *)
LEMMA LeaseTypes ==
  ASSUME LeaseTypeOK,
         \/ \E o \in Owner, age \in 0 .. MaxTxn :
              ClaimOrRenewLease(o, age) \/ RenewIfOwner(o, age)
         \/ LeaseTick
  PROVE  LeaseTypeOK'
  BY TTLAssumption, NoLeaseAssumption
  DEF LeaseTypeOK, LeaseRow, ClaimOrRenewLease, RenewIfOwner, LeaseTick

LEMMA AppendChunkTypes ==
  ASSUME MindTypeOK, NEW s \in Step, NEW q \in Nat, NEW text \in Text,
         AppendChunk(s, q, text)
  PROVE  MindTypeOK'
<1>1. jobState' \in [step : 1 .. TotalSteps + 1, partial_output : Text]
  <2> DEFINE longer == jobState.partial_output \o text
  <2>1. jobState' = [jobState EXCEPT !.partial_output = longer]
    BY DEF AppendChunk
  <2>2. longer \in Text
    BY ConcatProperties DEF MindTypeOK, Text
  <2> HIDE DEF longer
  <2> QED
    BY <2>1, <2>2 DEF MindTypeOK
<1>2. DOMAIN chunks' = Step
  BY DEF MindTypeOK, AppendChunk
<1>3. ASSUME NEW r \in Step
      PROVE  /\ IsFiniteSet(DOMAIN chunks'[r])
             /\ \A n \in DOMAIN chunks'[r] : n \in Nat /\ chunks'[r][n] \in Text
  <2>1. CASE r = s
    <3>1. DOMAIN chunks'[s] = DOMAIN chunks[s] \cup {q}
      BY DEF MindTypeOK, AppendChunk
    <3>2. IsFiniteSet(DOMAIN chunks[s] \cup {q})
      BY FS_AddElement DEF MindTypeOK
    <3>3. \A n \in DOMAIN chunks'[s] :
            chunks'[s][n] = IF n = q THEN text ELSE chunks[s][n]
      BY DEF MindTypeOK, AppendChunk
    <3> QED
      BY <2>1, <3>1, <3>2, <3>3 DEF MindTypeOK
  <2>2. CASE r # s
    BY <2>2 DEF MindTypeOK, AppendChunk
  <2> QED
    BY <2>1, <2>2
<1> QED
  BY <1>1, <1>2, <1>3 DEF MindTypeOK, AppendChunk

LEMMA RecordStepTypes ==
  ASSUME MindTypeOK, NEW s \in Step, NEW text \in Text, RecordStep(s, text)
  PROVE  MindTypeOK'
<1>1. jobState' \in [step : 1 .. TotalSteps + 1, partial_output : Text]
  BY TotalStepsAssumption DEF RecordStep, Step, Text
<1>2. events' \in [Step -> Seq(Text)]
  BY DEF MindTypeOK, RecordStep
<1> QED
  BY <1>1, <1>2 DEF MindTypeOK, RecordStep

LEMMA InitTypeInv == Init => TypeInv
<1> SUFFICES ASSUME Init PROVE TypeInv
  OBVIOUS
<1> USE DEF Init
<1>1. LeaseTypeOK
  BY DEF LeaseInit, LeaseTypeOK
<1>2. MindTypeOK
  <2>1. jobState \in [step : 1 .. TotalSteps + 1, partial_output : Text]
    BY TotalStepsAssumption DEF MindInit, Text
  <2>2. ASSUME NEW s \in Step
        PROVE  DOMAIN chunks[s] = {}
    BY DEF MindInit
  <2>3. events \in [Step -> Seq(Text)]
    BY DEF MindInit
  <2> QED
    BY <2>1, <2>2, <2>3, FS_EmptySet DEF MindInit, MindTypeOK
<1>3. WorkerTypeOK
  <2>1. pc \in [Worker -> PC]
    BY DEF PC
  <2>2. frame \in [Worker -> Frame]
    BY BlankFrame
  <2>3. silence \in [Worker -> 0 .. MaxSilence] /\ faults \in 0 .. MaxFaults
    BY BoundsAssumption
  <2>4. idle \in [Worker -> 0 .. MaxTxn]
    BY TTLAssumption
  <2>5. late \in [Worker -> SUBSET (0 .. MaxTxn)]
    OBVIOUS
  <2> QED
    BY <2>1, <2>2, <2>3, <2>4, <2>5 DEF WorkerTypeOK
<1>4. FrameOK
  BY DEF FrameOK, MidStep
<1> QED
  BY <1>1, <1>2, <1>3, <1>4 DEF TypeInv, TypeOK

(* Claims and renewals are as old as a transaction on the row may be.      *)
LEMMA AgeTypes ==
  ASSUME WorkerTypeOK, NEW w \in Worker
  PROVE  Age(w) \subseteq 0 .. MaxTxn /\ HeartbeatAge(w) \subseteq 0 .. MaxTxn
BY TTLAssumption DEF WorkerTypeOK, Age, HeartbeatAge

(* A call of flush_chunk from a worker that is inside its step.            *)
LEMMA FlushTypes ==
  ASSUME TypeInv, NEW w \in Worker, MidStep(w), Flush(w)
  PROVE  LeaseTypeOK' /\ MindTypeOK'
<1>1. frame[w] \in Frame /\ frame[w].step \in Step /\ owner[w] \in Owner
  BY DEF TypeInv, TypeOK, WorkerTypeOK, FrameOK
<1>2. frame[w].seq \in Nat /\ frame[w].buffer \in Text
  BY <1>1 DEF Frame
<1>3. LeaseTypeOK'
  BY <1>1, AgeTypes, LeaseTypes DEF TypeInv, TypeOK, Flush
<1>4. MindTypeOK'
  BY <1>1, <1>2, AppendChunkTypes DEF TypeInv, TypeOK, Flush
<1> QED
  BY <1>3, <1>4

(* The locals a step of worker w may leave behind: those of the others are *)
(* as they were, and so is the place of their main threads.                *)
OthersKeep(w) ==
  \A v \in Worker : v # w => pc'[v] = pc[v] /\ frame'[v] = frame[v]

LEMMA FrameStep ==
  ASSUME FrameOK, NEW w \in Worker, OthersKeep(w),
         MidStep(w)' => frame'[w].step \in Step
  PROVE  FrameOK'
BY DEF FrameOK, OthersKeep, MidStep, Step

LEMMA GoToTypes ==
  ASSUME WorkerTypeOK, NEW w \in Worker, NEW p \in PC, GoTo(w, p)
  PROVE  /\ pc' \in [Worker -> PC]
         /\ pc'[w] = p
         /\ \A v \in Worker : v # w => pc'[v] = pc[v]
         /\ idle' \in [Worker -> 0 .. MaxTxn]
BY TTLAssumption DEF WorkerTypeOK, GoTo

LEMMA LeaveStepTypes ==
  ASSUME TypeInv, NEW w \in Worker, NEW p \in {"claim", "exit"}, LeaveStep(w, p)
  PROVE  WorkerTypeOK' /\ FrameOK'
<1>1. /\ pc' \in [Worker -> PC] /\ pc'[w] = p /\ OthersKeep(w)
      /\ idle' \in [Worker -> 0 .. MaxTxn]
  BY GoToTypes DEF TypeInv, TypeOK, LeaveStep, WorkerTypeOK, OthersKeep, PC
<1>2. frame' \in [Worker -> Frame] /\ silence' \in [Worker -> 0 .. MaxSilence]
  BY BlankFrame, BoundsAssumption DEF TypeInv, TypeOK, LeaveStep, WorkerTypeOK
<1>3. late' \in [Worker -> SUBSET (0 .. MaxTxn)]
  <2>1. CASE UNCHANGED late
    BY <2>1 DEF TypeInv, TypeOK, WorkerTypeOK
  <2>2. ASSUME NEW age \in HeartbeatAge(w), late' = [late EXCEPT ![w] = @ \cup {age}]
        PROVE  late' \in [Worker -> SUBSET (0 .. MaxTxn)]
    <3>1. late[w] \cup {age} \in SUBSET (0 .. MaxTxn)
      BY AgeTypes DEF TypeInv, TypeOK, WorkerTypeOK
    <3> QED
      BY <2>2, <3>1 DEF TypeInv, TypeOK, WorkerTypeOK
  <2> QED
    BY <2>1, <2>2 DEF LeaveStep
<1>4. FrameOK'
  BY <1>1, FrameStep DEF TypeInv, MidStep
<1> QED
  BY <1>1, <1>2, <1>3, <1>4 DEF TypeInv, TypeOK, LeaveStep, WorkerTypeOK

LEMMA VanishTypes ==
  ASSUME TypeInv, NEW w \in Worker, Vanish(w), UNCHANGED faults \/ Fault
  PROVE  WorkerTypeOK' /\ FrameOK'
<1>1. /\ pc' \in [Worker -> PC] /\ pc'[w] = "dead" /\ OthersKeep(w)
      /\ idle' \in [Worker -> 0 .. MaxTxn]
  BY GoToTypes DEF TypeInv, TypeOK, Vanish, WorkerTypeOK, OthersKeep, PC
<1>2. frame' \in [Worker -> Frame] /\ silence' \in [Worker -> 0 .. MaxSilence]
  BY BlankFrame, BoundsAssumption DEF TypeInv, TypeOK, Vanish, WorkerTypeOK
<1>3. late' \in [Worker -> SUBSET (0 .. MaxTxn)]
  BY DEF TypeInv, TypeOK, Vanish, WorkerTypeOK
<1>4. FrameOK'
  BY <1>1, FrameStep DEF TypeInv, MidStep
<1>5. faults' \in 0 .. MaxFaults
  BY BoundsAssumption DEF TypeInv, TypeOK, WorkerTypeOK, Fault
<1> QED
  BY <1>1, <1>2, <1>3, <1>4, <1>5 DEF TypeInv, TypeOK, Vanish, WorkerTypeOK

(* A move of w that leaves owner, silence and the late claims alone.       *)
LEMMA MoveTypes ==
  ASSUME TypeInv, NEW w \in Worker, NEW p \in PC, GoTo(w, p),
         NEW f \in Frame, frame' = [frame EXCEPT ![w] = f],
         p \in {"seq", "stream", "rescue", "finalize"} => f.step \in Step,
         UNCHANGED <<owner, silence, late>>, UNCHANGED faults \/ Fault
  PROVE  WorkerTypeOK' /\ FrameOK'
<1>1. frame' \in [Worker -> Frame] /\ frame'[w] = f
  BY DEF TypeInv, TypeOK, WorkerTypeOK
<1>2. /\ pc' \in [Worker -> PC] /\ pc'[w] = p /\ OthersKeep(w)
      /\ idle' \in [Worker -> 0 .. MaxTxn]
  BY GoToTypes DEF TypeInv, TypeOK, WorkerTypeOK, OthersKeep
<1>3. FrameOK'
  BY <1>1, <1>2, FrameStep DEF TypeInv, MidStep
<1>4. faults' \in 0 .. MaxFaults
  BY BoundsAssumption DEF TypeInv, TypeOK, WorkerTypeOK, Fault
<1> QED
  BY <1>1, <1>2, <1>3, <1>4 DEF TypeInv, TypeOK, WorkerTypeOK

LEMMA KeepFrame ==
  ASSUME WorkerTypeOK, NEW w \in Worker, UNCHANGED frame
  PROVE  frame' = [frame EXCEPT ![w] = frame[w]]
BY DEF WorkerTypeOK

LEMMA NextTypeInv == TypeInv /\ [Next]_vars => TypeInv'
<1> SUFFICES ASSUME TypeInv, [Next]_vars PROVE TypeInv'
  OBVIOUS
<1> USE DEF TypeInv, TypeOK
<1>1. ASSUME NEW w \in Worker, Claim(w) PROVE TypeInv'
  <2>1. LeaseTypeOK'
    <3>1. owner[w] \in Owner
      BY DEF WorkerTypeOK
    <3>2. PICK age \in 0 .. MaxTxn : ClaimOrRenewLease(owner[w], age)
      BY <1>1, AgeTypes DEF Claim
    <3> QED
      BY <3>1, <3>2, LeaseTypes
  <2>2. MindTypeOK'
    BY <1>1 DEF Claim, mindVars, MindTypeOK, Step
  <2>3. /\ pc' \in [Worker -> PC] /\ pc'[w] = "read" /\ OthersKeep(w)
        /\ idle' \in [Worker -> 0 .. MaxTxn]
    BY <1>1, GoToTypes DEF Claim, WorkerTypeOK, PC, OthersKeep
  <2>4. silence' \in [Worker -> 0 .. MaxSilence]
    BY <1>1, BoundsAssumption DEF Claim, WorkerTypeOK
  <2>5. FrameOK'
    BY <2>3, FrameStep DEF MidStep
  <2> QED
    BY <1>1, <2>1, <2>2, <2>3, <2>4, <2>5 DEF Claim, WorkerTypeOK
<1>2. ASSUME NEW w \in Worker, ReadState(w) PROVE TypeInv'
  <2> DEFINE s == jobState.step
             text == jobState.partial_output
             f == [step |-> s, seq |-> 0, full_text |-> text, buffer |-> <<>>,
                   attempt |-> 0]
  <2>1. s \in Step /\ text \in Text
    BY <1>2, TotalStepsAssumption DEF ReadState, MindTypeOK, Step
  <2>2. frame' = [frame EXCEPT ![w] = f] /\ GoTo(w, "seq")
        /\ UNCHANGED <<lease, mindVars, owner, silence, late, faults>>
    BY <1>2 DEF ReadState
  <2> HIDE DEF s, text
  <2>3. f \in Frame /\ f.step \in Step
    BY <2>1, TotalStepsAssumption, BoundsAssumption DEF Step, Frame, Text
  <2> HIDE DEF f
  <2>4. WorkerTypeOK' /\ FrameOK'
    BY <2>2, <2>3, MoveTypes DEF PC
  <2> QED
    BY <2>2, <2>4 DEF LeaseTypeOK, MindTypeOK, mindVars
<1>3. ASSUME NEW w \in Worker, FindDone(w) PROVE TypeInv'
  BY <1>3, LeaveStepTypes DEF FindDone, LeaseTypeOK, MindTypeOK, mindVars
<1>4. ASSUME NEW w \in Worker, CountChunks(w) PROVE TypeInv'
  <2> DEFINE f == [frame[w] EXCEPT !.seq = NextChunkSeq(frame[w].step)]
  <2>1. frame[w] \in Frame /\ frame[w].step \in Step
    BY <1>4 DEF CountChunks, WorkerTypeOK, FrameOK, MidStep
  <2>2. NextChunkSeq(frame[w].step) \in Nat
    BY <2>1, FS_CardinalityType DEF NextChunkSeq, MindTypeOK
  <2>3. f \in Frame /\ f.step \in Step
    BY <2>1, <2>2 DEF Frame
  <2>4. frame' = [frame EXCEPT ![w] = f]
    BY <1>4 DEF CountChunks, WorkerTypeOK
  <2> HIDE DEF f
  <2>5. WorkerTypeOK' /\ FrameOK'
    BY <1>4, <2>3, <2>4, MoveTypes DEF CountChunks, PC
  <2> QED
    BY <1>4, <2>5 DEF CountChunks, LeaseTypeOK, MindTypeOK, mindVars
<1>5. ASSUME NEW w \in Worker, Delta(w) PROVE TypeInv'
  <2> DEFINE word == Len(frame[w].full_text) + 1
             longer == Append(frame[w].full_text, word)
             pending == Append(frame[w].buffer, word)
             f == [frame[w] EXCEPT !.full_text = longer, !.buffer = pending]
  <2>1. frame[w] \in Frame /\ frame[w].step \in Step
    BY <1>5 DEF Delta, WorkerTypeOK, FrameOK, MidStep
  <2>2. longer \in Text /\ pending \in Text
    BY <2>1, LenProperties, AppendProperties DEF Frame, Text
  <2>3. frame' = [frame EXCEPT ![w] = f]
    BY <1>5 DEF Delta, WorkerTypeOK
  <2> HIDE DEF longer, pending
  <2>4. f \in Frame /\ f.step \in Step
    BY <2>1, <2>2 DEF Frame
  <2> HIDE DEF f
  <2>5. WorkerTypeOK' /\ FrameOK'
    BY <1>5, <2>3, <2>4, MoveTypes DEF Delta, PC
  <2> QED
    BY <1>5, <2>5 DEF Delta, LeaseTypeOK, MindTypeOK, mindVars
<1>6. ASSUME NEW w \in Worker, FlushChunk(w) PROVE TypeInv'
  <2> DEFINE n == frame[w].seq + 1
             none == <<>>
             f == [frame[w] EXCEPT !.seq = n, !.buffer = none]
  <2>1. frame[w] \in Frame /\ frame[w].step \in Step
    BY <1>6 DEF FlushChunk, WorkerTypeOK, FrameOK, MidStep
  <2>2. n \in Nat /\ none \in Text
    BY <2>1 DEF Frame, Text
  <2>3. frame' = [frame EXCEPT ![w] = f] /\ GoTo(w, "stream")
    BY <1>6 DEF FlushChunk, WorkerTypeOK
  <2> HIDE DEF n, none
  <2>4. f \in Frame /\ f.step \in Step
    BY <2>1, <2>2 DEF Frame
  <2> HIDE DEF f
  <2>5. WorkerTypeOK' /\ FrameOK'
    BY <1>6, <2>3, <2>4, MoveTypes DEF FlushChunk, PC
  <2> QED
    BY <1>6, <2>5, FlushTypes DEF FlushChunk, MidStep
<1>7. ASSUME NEW w \in Worker,
             FlushRefused(w) \/ FlushFails(w) \/ EndStream(w) \/ StreamError(w)
      PROVE  TypeInv'
  <2> DEFINE p == pc'[w]
  <2>1. frame[w] \in Frame /\ frame[w].step \in Step
    BY <1>7 DEF FlushRefused, FlushFails, EndStream, StreamError, WorkerTypeOK,
                FrameOK, MidStep
  <2>2. p \in PC /\ GoTo(w, p)
    BY <1>7 DEF FlushRefused, FlushFails, EndStream, StreamError, GoTo,
                WorkerTypeOK, PC
  <2>3. UNCHANGED faults \/ Fault
    BY <1>7 DEF FlushRefused, FlushFails, EndStream, StreamError
  <2>4. UNCHANGED <<lease, mindVars, owner, frame, silence, late>>
    BY <1>7 DEF FlushRefused, FlushFails, EndStream, StreamError
  <2> HIDE DEF p
  <2>5. frame' = [frame EXCEPT ![w] = frame[w]]
    BY <2>4, KeepFrame
  <2>6. WorkerTypeOK' /\ FrameOK'
    BY <2>1, <2>2, <2>3, <2>4, <2>5, MoveTypes
  <2> QED
    BY <2>4, <2>6 DEF LeaseTypeOK, MindTypeOK, mindVars
<1>8. ASSUME NEW w \in Worker, FlushUnacknowledged(w) PROVE TypeInv'
  <2>1. frame[w] \in Frame /\ frame[w].step \in Step
    BY <1>8 DEF FlushUnacknowledged, WorkerTypeOK, FrameOK, MidStep
  <2>2. frame' = [frame EXCEPT ![w] = frame[w]]
    BY <1>8, KeepFrame DEF FlushUnacknowledged
  <2>3. WorkerTypeOK' /\ FrameOK'
    BY <1>8, <2>1, <2>2, MoveTypes DEF FlushUnacknowledged, PC
  <2> QED
    BY <1>8, <2>3, FlushTypes DEF FlushUnacknowledged, MidStep
<1>9. ASSUME NEW w \in Worker, Retry(w) PROVE TypeInv'
  <2> DEFINE n == IF frame[w].buffer = <<>> THEN frame[w].seq ELSE frame[w].seq + 1
             a == frame[w].attempt + 1
             none == <<>>
             f == [frame[w] EXCEPT !.seq = n, !.buffer = none, !.attempt = a]
  <2>1. frame[w] \in Frame /\ frame[w].step \in Step
    BY <1>9 DEF Retry, WorkerTypeOK, FrameOK, MidStep
  <2>2. n \in Nat /\ none \in Text /\ a \in 0 .. MaxRetries
    <3>1. frame[w].attempt \in 0 .. MaxRetries /\ frame[w].seq \in Nat
      BY <2>1 DEF Frame
    <3>2. frame[w].attempt < MaxRetries
      BY <1>9 DEF Retry
    <3> QED
      BY <3>1, <3>2, BoundsAssumption DEF Text
  <2>3. frame' = [frame EXCEPT ![w] = f]
    BY <1>9 DEF Retry, WorkerTypeOK
  <2> HIDE DEF n, a, none
  <2>4. f \in Frame /\ f.step \in Step
    BY <2>1, <2>2 DEF Frame
  <2> HIDE DEF f
  <2>5. WorkerTypeOK' /\ FrameOK'
    BY <1>9, <2>3, <2>4, MoveTypes DEF Retry, PC
  <2>6. LeaseTypeOK' /\ MindTypeOK'
    BY <1>9, FlushTypes DEF Retry, Salvage, MidStep, LeaseTypeOK, MindTypeOK, mindVars
  <2> QED
    BY <2>5, <2>6
<1>10. ASSUME NEW w \in Worker, GiveUp(w) PROVE TypeInv'
  <2>1. LeaseTypeOK' /\ MindTypeOK'
    BY <1>10, FlushTypes DEF GiveUp, Salvage, MidStep, LeaseTypeOK, MindTypeOK, mindVars
  <2> QED
    BY <1>10, <2>1, VanishTypes DEF GiveUp
<1>11. ASSUME NEW w \in Worker, FinalizeStep(w) PROVE TypeInv'
  <2>1. frame[w].full_text \in Text /\ frame[w].step \in Step
    BY <1>11 DEF FinalizeStep, WorkerTypeOK, FrameOK, MidStep, Frame
  <2>2. MindTypeOK'
    BY <1>11, <2>1, RecordStepTypes DEF FinalizeStep
  <2>3. WorkerTypeOK' /\ FrameOK'
    BY <1>11, LeaveStepTypes DEF FinalizeStep
  <2> QED
    BY <1>11, <2>2, <2>3 DEF FinalizeStep, LeaseTypeOK
<1>12. ASSUME NEW w \in Worker, Heartbeat(w) \/ LateClaim(w) PROVE TypeInv'
  <2>1. LeaseTypeOK'
    <3>1. owner[w] \in Owner /\ late[w] \subseteq 0 .. MaxTxn
      BY DEF WorkerTypeOK
    <3>2. PICK age \in 0 .. MaxTxn : Renewal(w, age)
      BY <1>12, <3>1, AgeTypes DEF Heartbeat, LateClaim
    <3>3. CASE ClaimOrRenewLease(owner[w], age)
      BY <3>1, <3>3, LeaseTypes
    <3>4. CASE UNCHANGED lease
      BY <3>4 DEF LeaseTypeOK
    <3> QED
      BY <3>2, <3>3, <3>4 DEF Renewal
  <2>2. late' \in [Worker -> SUBSET (0 .. MaxTxn)]
    BY <1>12 DEF Heartbeat, LateClaim, WorkerTypeOK
  <2>3. silence' \in [Worker -> 0 .. MaxSilence]
    BY <1>12, BoundsAssumption DEF Heartbeat, LateClaim, WorkerTypeOK
  <2>4. UNCHANGED <<mindVars, pc, owner, frame, idle, faults>>
    BY <1>12 DEF Heartbeat, LateClaim
  <2> QED
    BY <2>1, <2>2, <2>3, <2>4
    DEF WorkerTypeOK, MindTypeOK, mindVars, FrameOK, MidStep, Step
<1>13. ASSUME NEW w \in Worker, Die(w) PROVE TypeInv'
  BY <1>13, VanishTypes DEF Die, LeaseTypeOK, MindTypeOK, mindVars
<1>14. ASSUME NEW w \in Worker, Start(w) PROVE TypeInv'
  <2>1. /\ pc' \in [Worker -> PC] /\ pc'[w] = "claim" /\ OthersKeep(w)
        /\ idle' \in [Worker -> 0 .. MaxTxn]
    BY <1>14, GoToTypes DEF Start, WorkerTypeOK, PC, OthersKeep
  <2>2. owner' \in [Worker -> Owner]
    BY <1>14, OwnersOfAssumption DEF Start, WorkerTypeOK
  <2>3. FrameOK'
    BY <2>1, FrameStep DEF MidStep
  <2> QED
    BY <1>14, <2>1, <2>2, <2>3
    DEF Start, WorkerTypeOK, LeaseTypeOK, MindTypeOK, mindVars
<1>15. CASE Tick
  <2>1. LeaseTypeOK'
    BY <1>15, LeaseTypes DEF Tick
  <2>2. silence' \in [Worker -> 0 .. MaxSilence]
    BY <1>15, BoundsAssumption DEF Tick, WorkerTypeOK
  <2>3. idle' \in [Worker -> 0 .. MaxTxn]
    BY <1>15, TTLAssumption DEF Tick, WorkerTypeOK
  <2>4. late' \in [Worker -> SUBSET (0 .. MaxTxn)]
    BY <1>15, TTLAssumption DEF Tick
  <2> QED
    BY <1>15, <2>1, <2>2, <2>3, <2>4
    DEF Tick, WorkerTypeOK, MindTypeOK, mindVars, FrameOK, MidStep, Step
<1>16. CASE UNCHANGED vars
  BY <1>16 DEF vars, threadVars, mindVars, LeaseTypeOK, MindTypeOK, WorkerTypeOK,
               FrameOK, MidStep, Step
<1> QED
  BY <1>1, <1>2, <1>3, <1>4, <1>5, <1>6, <1>7, <1>8, <1>9, <1>10, <1>11, <1>12,
     <1>13, <1>14, <1>15, <1>16 DEF Next, MainThread, Misfortune

(* Every variable stays in its type, and a process past read_state has a   *)
(* step of the job in its frame.                                           *)
THEOREM Typing == Spec => []TypeInv
<1>1. Init => TypeInv
  BY InitTypeInv
<1>2. TypeInv /\ [Next]_vars => TypeInv'
  BY NextTypeInv
<1> QED
  BY <1>1, <1>2, PTL DEF Spec

(* Every variable of the workers and of their rows stays in its type.      *)
THEOREM TypeCorrect == Spec => []TypeOK
BY Typing, PTL DEF TypeInv

-----------------------------------------------------------------------------
(***************************************************************************)
(* No step is skipped.  A late finalize_step may set job_state.step to any *)
(* step its worker once read plus one, so the invariant has to speak of    *)
(* the steps that the workers have in hand as well.                        *)
(***************************************************************************)
Recorded(n) == \A s \in Step : s < n => events[s] # <<>>

RecordedInv ==
  /\ Recorded(jobState.step)
  /\ \A w \in Worker : MidStep(w) => Recorded(frame[w].step)
  /\ status = "done" => Recorded(TotalSteps + 1)

(* A step that records nothing only has to say where its step in hand      *)
(* comes from.                                                             *)
LEMMA RecordsNothing ==
  ASSUME RecordedInv, UNCHANGED <<events, status>>, jobState'.step = jobState.step,
         \A w \in Worker : MidStep(w)' =>
           \/ MidStep(w) /\ frame'[w].step = frame[w].step
           \/ frame'[w].step = jobState.step
  PROVE  RecordedInv'
<1>1. \A n : Recorded(n) <=> Recorded(n)'
  BY DEF Recorded, Step
<1>2. Recorded(jobState.step)' /\ (status = "done" => Recorded(TotalSteps + 1))'
  BY DEF RecordedInv, Recorded, Step
<1>3. ASSUME NEW w \in Worker, MidStep(w)'
      PROVE  Recorded(frame[w].step)'
  BY <1>3 DEF RecordedInv, Recorded, Step
<1> QED
  BY <1>2, <1>3 DEF RecordedInv

(* The chunks leave the step of the job alone.                             *)
LEMMA FlushKeepsStep ==
  ASSUME MindTypeOK, NEW w \in Worker, Salvage(w) \/ Flush(w)
  PROVE  UNCHANGED <<events, status>> /\ jobState'.step = jobState.step
<1>1. CASE UNCHANGED mindVars
  BY <1>1 DEF mindVars
<1>2. CASE Flush(w)
  <2> DEFINE longer == jobState.partial_output \o frame[w].buffer
  <2>1. jobState' = [jobState EXCEPT !.partial_output = longer]
    BY <1>2 DEF Flush, AppendChunk
  <2> HIDE DEF longer
  <2>2. jobState'.step = jobState.step
    BY <2>1 DEF MindTypeOK
  <2> QED
    BY <1>2, <2>2 DEF Flush, AppendChunk
<1> QED
  BY <1>1, <1>2 DEF Salvage

LEMMA RecordStepRecords ==
  ASSUME TypeInv, RecordedInv, NEW w \in Worker, FinalizeStep(w)
  PROVE  RecordedInv'
<1>1. PICK n \in Step : n = frame[w].step
  BY DEF TypeInv, FrameOK, MidStep, FinalizeStep
<1>2. n \in Nat /\ Recorded(n)
  BY <1>1, TotalStepsAssumption DEF MidStep, FinalizeStep, RecordedInv, Step
<1>3. PICK longer :
        /\ longer # <<>>
        /\ events' = [events EXCEPT ![n] = longer]
        /\ jobState'.step = n + 1
        /\ status' = IF n >= TotalSteps THEN "done" ELSE status
  <2> DEFINE longer == Append(events[n], frame[w].full_text)
  <2>1. events[n] \in Seq(Text) /\ frame[w].full_text \in Text
    BY DEF TypeInv, TypeOK, MindTypeOK, WorkerTypeOK, Frame
  <2>2. longer # <<>>
    BY <2>1, AppendProperties
  <2>3. /\ events' = [events EXCEPT ![n] = longer]
        /\ jobState'.step = n + 1
        /\ status' = IF n >= TotalSteps THEN "done" ELSE status
    BY <1>1 DEF FinalizeStep, RecordStep
  <2> HIDE DEF longer
  <2> QED
    BY <2>2, <2>3
<1>4. \A s \in Step : events'[s] = IF s = n THEN longer ELSE events[s]
  BY <1>3 DEF TypeInv, TypeOK, MindTypeOK
<1>5. \A m : Recorded(m) => Recorded(m)'
  BY <1>3, <1>4 DEF Recorded, Step
<1>6. Recorded(n + 1)'
  <2> SUFFICES ASSUME NEW s \in Step, s < n + 1 PROVE events'[s] # <<>>
    BY DEF Recorded, Step
  <2>1. s < n \/ s = n
    BY <1>2, TotalStepsAssumption DEF Step
  <2> QED
    BY <1>2, <1>3, <1>4, <2>1 DEF Recorded
<1>7. Recorded(jobState.step)'
  BY <1>3, <1>6 DEF Recorded, Step
<1>8. ASSUME NEW v \in Worker, MidStep(v)' PROVE Recorded(frame[v].step)'
  <2>1. MidStep(v) /\ frame'[v] = frame[v]
    BY <1>8 DEF FinalizeStep, LeaveStep, GoTo, MidStep, TypeInv, TypeOK, WorkerTypeOK
  <2> QED
    BY <2>1, <1>5 DEF RecordedInv, Recorded, Step
<1>9. ASSUME status' = "done" PROVE Recorded(TotalSteps + 1)'
  <2>1. CASE n >= TotalSteps
    <3>1. n = TotalSteps
      BY <1>1, <2>1, TotalStepsAssumption DEF Step
    <3> QED
      BY <1>6, <3>1
  <2>2. CASE ~(n >= TotalSteps)
    BY <1>3, <1>5, <1>9, <2>2 DEF RecordedInv, Recorded, Step
  <2> QED
    BY <2>1, <2>2
<1> QED
  BY <1>7, <1>8, <1>9 DEF RecordedInv

(* What the moves inside a step do to the step and sequence number at hand. *)
LEMMA StepLocals ==
  ASSUME TypeInv, NEW w \in Worker
  PROVE  /\ CountChunks(w) => frame'[w].step = frame[w].step
              /\ frame'[w].seq = NextChunkSeq(frame[w].step)
         /\ Delta(w) => frame'[w].step = frame[w].step /\ frame'[w].seq = frame[w].seq
         /\ FlushChunk(w) => frame'[w].step = frame[w].step
              /\ frame'[w].seq = frame[w].seq + 1
         /\ Retry(w) => frame'[w].step = frame[w].step
              /\ frame'[w].seq = IF frame[w].buffer = <<>> THEN frame[w].seq
                                 ELSE frame[w].seq + 1
<1>1. frame[w] \in Frame /\ frame \in [Worker -> Frame]
  BY DEF TypeInv, TypeOK, WorkerTypeOK
<1>2. ASSUME CountChunks(w)
      PROVE  frame'[w].step = frame[w].step
              /\ frame'[w].seq = NextChunkSeq(frame[w].step)
  <2> DEFINE s == NextChunkSeq(frame[w].step)
  <2>1. frame'[w] = [frame[w] EXCEPT !.seq = s]
    BY <1>1, <1>2 DEF CountChunks
  <2> HIDE DEF s
  <2>2. frame'[w].step = frame[w].step /\ frame'[w].seq = s
    BY <1>1, <2>1 DEF Frame
  <2> QED
    BY <2>2 DEF s
<1>3. ASSUME Delta(w)
      PROVE  frame'[w].step = frame[w].step /\ frame'[w].seq = frame[w].seq
  <2> DEFINE t == Append(frame[w].full_text, Len(frame[w].full_text) + 1)
             b == Append(frame[w].buffer, Len(frame[w].full_text) + 1)
  <2>1. frame'[w] = [frame[w] EXCEPT !.full_text = t, !.buffer = b]
    BY <1>1, <1>3 DEF Delta
  <2> HIDE DEF t, b
  <2> QED
    BY <1>1, <2>1 DEF Frame
<1>4. ASSUME FlushChunk(w)
      PROVE  frame'[w].step = frame[w].step /\ frame'[w].seq = frame[w].seq + 1
  <2> DEFINE s == frame[w].seq + 1
             b == <<>>
  <2>1. frame'[w] = [frame[w] EXCEPT !.seq = s, !.buffer = b]
    BY <1>1, <1>4 DEF FlushChunk
  <2> HIDE DEF s, b
  <2>2. frame'[w].step = frame[w].step /\ frame'[w].seq = s
    BY <1>1, <2>1 DEF Frame
  <2> QED
    BY <2>2 DEF s
<1>5. ASSUME Retry(w)
      PROVE  frame'[w].step = frame[w].step
              /\ frame'[w].seq = IF frame[w].buffer = <<>> THEN frame[w].seq
                                 ELSE frame[w].seq + 1
  <2> DEFINE s == IF frame[w].buffer = <<>> THEN frame[w].seq ELSE frame[w].seq + 1
             b == <<>>
             a == frame[w].attempt + 1
  <2>1. frame'[w] = [frame[w] EXCEPT !.seq = s, !.buffer = b, !.attempt = a]
    BY <1>1, <1>5 DEF Retry
  <2> HIDE DEF s, b, a
  <2>2. frame'[w].step = frame[w].step /\ frame'[w].seq = s
    BY <1>1, <2>1 DEF Frame
  <2> QED
    BY <2>2 DEF s
<1> QED
  BY <1>2, <1>3, <1>4, <1>5

(* Where the step in hand comes from: read_state gets it from the job and  *)
(* nothing else changes it.                                                *)
LEMMA StepInHand ==
  ASSUME TypeInv, [Next]_vars, NEW v \in Worker, MidStep(v)'
  PROVE  \/ MidStep(v) /\ frame'[v].step = frame[v].step
         \/ ReadState(v)
<1> USE DEF TypeInv, TypeOK, WorkerTypeOK, MidStep
<1>1. ASSUME NEW w \in Worker, Claim(w) \/ Start(w) PROVE MidStep(v)
  BY <1>1 DEF Claim, Start, GoTo
<1>2. ASSUME NEW w \in Worker, Claim(w) \/ Start(w) PROVE frame' = frame
  BY <1>2 DEF Claim, Start
<1>3. ASSUME NEW w \in Worker, FindDone(w) \/ FinalizeStep(w)
      PROVE  MidStep(v) /\ frame'[v] = frame[v]
  BY <1>3 DEF FindDone, FinalizeStep, LeaveStep, GoTo
<1>4. ASSUME NEW w \in Worker, GiveUp(w) \/ Die(w)
      PROVE  MidStep(v) /\ frame'[v] = frame[v]
  BY <1>4 DEF GiveUp, Die, Vanish, GoTo
<1>5. ASSUME NEW w \in Worker, ReadState(w), v # w
      PROVE  MidStep(v) /\ frame'[v] = frame[v]
  BY <1>5 DEF ReadState, GoTo
<1>6. ASSUME NEW w \in Worker,
             FlushRefused(w) \/ FlushFails(w) \/ FlushUnacknowledged(w)
               \/ EndStream(w) \/ StreamError(w)
      PROVE  MidStep(v) /\ frame' = frame
  BY <1>6 DEF FlushRefused, FlushFails, FlushUnacknowledged, EndStream, StreamError,
              GoTo
<1>7. ASSUME NEW w \in Worker,
             CountChunks(w) \/ Delta(w) \/ FlushChunk(w) \/ Retry(w)
      PROVE  MidStep(v) /\ frame'[v].step = frame[v].step
  <2>1. MidStep(v)
    BY <1>7 DEF CountChunks, Delta, FlushChunk, Retry, GoTo
  <2>2. frame'[w].step = frame[w].step
    BY <1>7, StepLocals
  <2>3. v # w => frame'[v] = frame[v]
    BY <1>7 DEF CountChunks, Delta, FlushChunk, Retry
  <2> QED
    BY <2>1, <2>2, <2>3
<1>8. ASSUME Tick \/ UNCHANGED vars \/ \E w \in Worker : Heartbeat(w) \/ LateClaim(w)
      PROVE  MidStep(v) /\ frame' = frame
  BY <1>8 DEF Tick, Heartbeat, LateClaim, vars, threadVars
<1> QED
  BY <1>1, <1>2, <1>3, <1>4, <1>5, <1>6, <1>7, <1>8
  DEF Next, MainThread, Misfortune

LEMMA NextRecordedInv == TypeInv /\ RecordedInv /\ [Next]_vars => RecordedInv'
<1> SUFFICES ASSUME TypeInv, RecordedInv, [Next]_vars PROVE RecordedInv'
  OBVIOUS
<1>1. ASSUME NEW w \in Worker, FinalizeStep(w) PROVE RecordedInv'
  BY <1>1, RecordStepRecords
<1>2. ASSUME UNCHANGED <<events, status>>, jobState'.step = jobState.step
      PROVE  RecordedInv'
  <2>1. ASSUME NEW v \in Worker, MidStep(v)'
        PROVE  \/ MidStep(v) /\ frame'[v].step = frame[v].step
               \/ frame'[v].step = jobState.step
    <3>1. CASE ReadState(v)
      BY <3>1 DEF ReadState, TypeInv, TypeOK, WorkerTypeOK
    <3> QED
      BY <2>1, <3>1, StepInHand
  <2> QED
    BY <1>2, <2>1, RecordsNothing
<1>3. ASSUME NEW w \in Worker,
             FlushChunk(w) \/ FlushUnacknowledged(w) \/ Retry(w) \/ GiveUp(w)
      PROVE  UNCHANGED <<events, status>> /\ jobState'.step = jobState.step
  BY <1>3, FlushKeepsStep
  DEF FlushChunk, FlushUnacknowledged, Retry, GiveUp, mindVars, TypeInv, TypeOK
<1>4. ASSUME UNCHANGED mindVars
      PROVE  UNCHANGED <<events, status>> /\ jobState'.step = jobState.step
  BY <1>4 DEF mindVars
<1>5. ASSUME NEW w \in Worker,
             \/ Claim(w) \/ ReadState(w) \/ FindDone(w) \/ CountChunks(w)
             \/ Delta(w) \/ FlushRefused(w) \/ EndStream(w) \/ FlushFails(w)
             \/ StreamError(w) \/ Die(w) \/ Heartbeat(w) \/ LateClaim(w)
             \/ Start(w)
      PROVE  UNCHANGED mindVars
  BY <1>5 DEF Claim, ReadState, FindDone, CountChunks, Delta, FlushRefused,
              EndStream, FlushFails, StreamError, Die, Heartbeat, LateClaim, Start
<1>6. ASSUME Tick \/ UNCHANGED vars PROVE UNCHANGED mindVars
  BY <1>6 DEF Tick, vars
<1> QED
  BY <1>1, <1>2, <1>3, <1>4, <1>5, <1>6 DEF Next, MainThread, Misfortune

LEMMA InitRecordedInv == Init => RecordedInv
BY DEF Init, MindInit, RecordedInv, Recorded, MidStep, Step

LEMMA Recording == Spec => []RecordedInv
<1>1. TypeInv /\ RecordedInv /\ [Next]_vars => RecordedInv'
  BY NextRecordedInv
<1> QED
  BY <1>1, InitRecordedInv, Typing, PTL DEF Spec

(* Whatever evicted workers still write, the job never moves past a step   *)
(* that has left no memory event.                                          *)
THEOREM StepsRecorded == Spec => []NoStepSkipped
<1>1. RecordedInv => NoStepSkipped
  BY DEF RecordedInv, Recorded, NoStepSkipped
<1> QED
  BY <1>1, Recording, PTL

(* A job that is done has a memory event for every step.                   *)
THEOREM DoneIsComplete == Spec => []DoneMeansComplete
<1>1. RecordedInv => DoneMeansComplete
  BY TotalStepsAssumption DEF RecordedInv, Recorded, DoneMeansComplete, Step
<1> QED
  BY <1>1, Recording, PTL

-----------------------------------------------------------------------------
(***************************************************************************)
(* The lease keeps processes apart.  What makes "one process inside a      *)
(* step" inductive is the reason for it: a process inside a step has the   *)
(* lease, and the row has lost no more of its TTL than the process has     *)
(* been silent and a transaction that renewed it may have taken.           *)
(***************************************************************************)
Holds(w) ==
  /\ lease # NoLease
  /\ lease.owner = owner[w]
  /\ lease.left >= TTL - MaxTxn - silence[w]

HeldInv ==
  /\ \A w \in Worker : owner[w] \in OwnersOf[w]
  /\ \A w \in Worker : InStep(w) => Holds(w)

(* Nobody else can claim a lease that is held in time.                     *)
LEMMA HeldIsNotClaimable ==
  ASSUME Timely, DistinctOwners, TypeInv, HeldInv,
         NEW v \in Worker, InStep(v), NEW w \in Worker, w # v,
         NEW age \in 0 .. MaxTxn
  PROVE  ~Claimable(owner[w], age) /\ owner[w] # owner[v]
<1>1. owner[w] # owner[v]
  BY DEF HeldInv, DistinctOwners
<1>2. Holds(v) /\ lease \in LeaseRow
  BY DEF HeldInv, Holds, TypeInv, TypeOK, LeaseTypeOK
<1>3. ~(lease.left + age < 0)
  <2>1. silence[v] \in 0 .. MaxSilence /\ lease.left \in Int
    BY <1>2 DEF TypeInv, TypeOK, WorkerTypeOK, LeaseRow
  <2> QED
    BY <1>2, <2>1, TTLAssumption, BoundsAssumption DEF Timely, Holds
<1> QED
  BY <1>1, <1>2, <1>3 DEF Claimable, Holds

(* A flush leaves the lease in place, or renews the caller's own.          *)
LEMMA FlushHolds ==
  ASSUME TypeInv, HeldInv, NEW w \in Worker, Salvage(w) \/ Flush(w),
         NEW v \in Worker, InStep(v), owner'[v] = owner[v], silence'[v] = silence[v]
  PROVE  Holds(v)'
<1>1. lease \in LeaseRow /\ Holds(v) /\ silence[v] \in Nat
  BY BoundsAssumption
  DEF HeldInv, Holds, TypeInv, TypeOK, LeaseTypeOK, WorkerTypeOK
<1>2. CASE UNCHANGED lease
  BY <1>1, <1>2 DEF Holds
<1>3. CASE Flush(w)
  <2>1. PICK age \in 0 .. MaxTxn : RenewIfOwner(owner[w], age)
    BY <1>3, AgeTypes DEF Flush, TypeInv, TypeOK
  <2> DEFINE left == TTL - age
  <2>2. lease' = lease \/ lease' = [lease EXCEPT !.left = left]
    BY <2>1 DEF RenewIfOwner
  <2>3. left \in -1 - MaxTxn .. TTL /\ left >= TTL - MaxTxn - silence[v]
    BY <1>1, TTLAssumption
  <2> HIDE DEF left
  <2>4. CASE lease' = [lease EXCEPT !.left = left]
    <3>1. lease' \in LeaseRow /\ lease'.owner = lease.owner /\ lease'.left = left
      BY <1>1, <2>3, <2>4 DEF LeaseRow
    <3>2. lease' # NoLease
      BY <3>1, NoLeaseAssumption DEF LeaseRow
    <3> QED
      BY <1>1, <2>3, <3>1, <3>2 DEF Holds
  <2> QED
    BY <1>2, <2>2, <2>4
<1> QED
  BY <1>2, <1>3 DEF Salvage

LEMMA ClaimHolds ==
  ASSUME NEW w \in Worker, owner[w] \in Owner, NEW age \in 0 .. MaxTxn,
         ClaimOrRenewLease(owner[w], age), owner'[w] = owner[w], silence'[w] \in Nat
  PROVE  Holds(w)'
<1>1. lease' = [owner |-> owner[w], left |-> TTL - age]
  BY DEF ClaimOrRenewLease
<1>2. lease' # NoLease
  BY <1>1, NoLeaseAssumption, TTLAssumption
<1> QED
  BY <1>1, <1>2, TTLAssumption DEF Holds

(* Who is inside a step was there before, or has just claimed the lease.   *)
LEMMA StillInside ==
  ASSUME TypeInv, [Next]_vars, NEW v \in Worker, InStep(v)'
  PROVE  InStep(v) \/ Claim(v)
<1> USE DEF TypeInv, TypeOK, WorkerTypeOK, InStep
<1>1. ASSUME NEW w \in Worker,
             ReadState(w) \/ CountChunks(w) \/ Delta(w) \/ FlushChunk(w) \/ Retry(w)
      PROVE  InStep(v)
  BY <1>1 DEF ReadState, CountChunks, Delta, FlushChunk, Retry, GoTo
<1>2. ASSUME NEW w \in Worker,
             FlushRefused(w) \/ FlushFails(w) \/ FlushUnacknowledged(w)
               \/ EndStream(w) \/ StreamError(w)
      PROVE  InStep(v)
  BY <1>2 DEF FlushRefused, FlushFails, FlushUnacknowledged, EndStream, StreamError,
              GoTo
<1>3. ASSUME NEW w \in Worker, FindDone(w) \/ FinalizeStep(w) PROVE InStep(v)
  BY <1>3 DEF FindDone, FinalizeStep, LeaveStep, GoTo
<1>4. ASSUME NEW w \in Worker, GiveUp(w) \/ Die(w) PROVE InStep(v)
  BY <1>4 DEF GiveUp, Die, Vanish, GoTo
<1>5. ASSUME NEW w \in Worker, Start(w) \/ (Claim(w) /\ w # v) PROVE InStep(v)
  BY <1>5 DEF Start, Claim, GoTo
<1>6. ASSUME UNCHANGED pc PROVE InStep(v)
  BY <1>6
<1>7. ASSUME NEW w \in Worker, Heartbeat(w) \/ LateClaim(w) PROVE UNCHANGED pc
  BY <1>7 DEF Heartbeat, LateClaim
<1>8. ASSUME Tick \/ UNCHANGED vars PROVE UNCHANGED pc
  BY <1>8 DEF Tick, vars, threadVars
<1> QED
  BY <1>1, <1>2, <1>3, <1>4, <1>5, <1>6, <1>7, <1>8 DEF Next, MainThread, Misfortune

LEMMA OwnersStay ==
  ASSUME TypeInv, HeldInv, [Next]_vars, NEW v \in Worker
  PROVE  owner'[v] \in OwnersOf[v] /\ (InStep(v)' => owner'[v] = owner[v])
<1> USE DEF TypeInv, TypeOK, WorkerTypeOK, HeldInv
<1>1. ASSUME NEW w \in Worker, Start(w)
      PROVE  owner'[v] \in OwnersOf[v] /\ (InStep(v)' => owner'[v] = owner[v])
  BY <1>1 DEF Start, GoTo, InStep
<1>2. ASSUME NEW w \in Worker,
             \/ Claim(w) \/ ReadState(w) \/ FindDone(w) \/ CountChunks(w)
             \/ Delta(w) \/ FlushChunk(w) \/ FlushRefused(w) \/ EndStream(w)
             \/ Retry(w) \/ GiveUp(w) \/ FinalizeStep(w) \/ FlushFails(w)
             \/ FlushUnacknowledged(w) \/ StreamError(w) \/ Die(w) \/ Heartbeat(w)
             \/ LateClaim(w)
      PROVE  UNCHANGED owner
  BY <1>2 DEF Claim, ReadState, FindDone, CountChunks, Delta, FlushChunk,
              FlushRefused, EndStream, Retry, GiveUp, FinalizeStep, FlushFails,
              FlushUnacknowledged, StreamError, Die, Heartbeat, LateClaim,
              LeaveStep, Vanish
<1>3. ASSUME Tick \/ UNCHANGED vars PROVE UNCHANGED owner
  BY <1>3 DEF Tick, vars, threadVars
<1> QED
  BY <1>1, <1>2, <1>3 DEF Next, MainThread, Misfortune

LEMMA NextHeldInv ==
  ASSUME Timely, DistinctOwners, TypeInv, HeldInv, [Next]_vars
  PROVE  HeldInv'
<1> SUFFICES ASSUME NEW v \in Worker, InStep(v)' PROVE Holds(v)'
  BY OwnersStay DEF HeldInv
<1>1. owner'[v] = owner[v] /\ owner[v] \in Owner
  BY OwnersStay DEF TypeInv, TypeOK, WorkerTypeOK
<1>2. InStep(v) => Holds(v) /\ lease \in LeaseRow /\ silence[v] \in 0 .. MaxSilence
  BY DEF HeldInv, Holds, TypeInv, TypeOK, LeaseTypeOK, WorkerTypeOK
<1>3. CASE Claim(v)
  <2>1. silence'[v] = 0
    BY <1>3 DEF Claim, TypeInv, TypeOK, WorkerTypeOK
  <2>2. PICK age \in 0 .. MaxTxn : ClaimOrRenewLease(owner[v], age)
    BY <1>3, AgeTypes DEF Claim, TypeInv, TypeOK
  <2> QED
    BY <1>1, <2>1, <2>2, ClaimHolds
<1>4. ASSUME InStep(v), NEW w \in Worker, w # v, Claim(w) PROVE FALSE
  <2>1. PICK age \in 0 .. MaxTxn : ClaimOrRenewLease(owner[w], age)
    BY <1>4, AgeTypes DEF Claim, TypeInv, TypeOK
  <2> QED
    BY <1>4, <2>1, HeldIsNotClaimable DEF ClaimOrRenewLease
<1>5. ASSUME InStep(v), NEW w \in Worker, Heartbeat(w) \/ LateClaim(w)
      PROVE  Holds(v)'
  <2>1. PICK age \in 0 .. MaxTxn : Renewal(w, age)
    BY <1>5, AgeTypes DEF Heartbeat, LateClaim, TypeInv, TypeOK, WorkerTypeOK
  <2>2. silence'[v] = IF v = w /\ Heartbeat(w) THEN 0 ELSE silence[v]
    BY <1>2, <1>5 DEF Heartbeat, LateClaim, TypeInv, TypeOK, WorkerTypeOK
  <2>3. CASE w = v
    <3>1. Claimable(owner[v], age)
      BY <1>2, <1>5 DEF Holds, Claimable
    <3>2. silence'[v] \in Nat
      BY <1>2, <1>5, <2>2
    <3> QED
      BY <1>1, <2>1, <2>3, <3>1, <3>2, ClaimHolds DEF Renewal
  <2>4. CASE w # v
    <3>1. UNCHANGED lease
      BY <1>5, <2>1, <2>4, HeldIsNotClaimable DEF Renewal, ClaimOrRenewLease
    <3> QED
      BY <1>1, <1>2, <1>5, <2>2, <2>4, <3>1 DEF Holds
  <2> QED
    BY <2>3, <2>4
<1>6. ASSUME InStep(v), NEW w \in Worker, FlushChunk(w) \/ FlushUnacknowledged(w) \/ Retry(w)
      PROVE  Holds(v)'
  BY <1>6, FlushHolds DEF FlushChunk, FlushUnacknowledged, Retry
<1>7. ASSUME InStep(v), NEW w \in Worker, GiveUp(w) PROVE Holds(v)'
  <2>1. w # v
    BY <1>7 DEF GiveUp, Vanish, GoTo, InStep, TypeInv, TypeOK, WorkerTypeOK
  <2>2. silence'[v] = silence[v]
    BY <1>7, <2>1 DEF GiveUp, Vanish, TypeInv, TypeOK, WorkerTypeOK
  <2>3. UNCHANGED lease \/ Salvage(w)
    BY <1>7 DEF GiveUp
  <2> QED
    BY <1>1, <1>2, <1>7, <2>2, <2>3, FlushHolds DEF Holds
<1>8. ASSUME InStep(v), NEW w \in Worker,
             \/ ReadState(w) \/ FindDone(w) \/ CountChunks(w) \/ Delta(w)
             \/ FlushRefused(w) \/ EndStream(w) \/ FinalizeStep(w) \/ FlushFails(w)
             \/ StreamError(w) \/ Die(w) \/ Start(w)
      PROVE  Holds(v)'
  <2>1. UNCHANGED lease
    BY <1>8 DEF ReadState, FindDone, CountChunks, Delta, FlushRefused, EndStream,
                FinalizeStep, FlushFails, StreamError, Die, Start
  <2>2. silence'[v] = silence[v]
    BY <1>8 DEF ReadState, FindDone, CountChunks, Delta, FlushRefused, EndStream,
                FinalizeStep, FlushFails, StreamError, Die, Start, LeaveStep, Vanish,
                TypeInv, TypeOK, WorkerTypeOK, InStep, GoTo
  <2> QED
    BY <1>1, <1>2, <1>8, <2>1, <2>2 DEF Holds
<1>9. ASSUME InStep(v), Tick PROVE Holds(v)'
  <2>1. silence[v] < MaxSilence /\ silence'[v] = silence[v] + 1
    BY <1>9 DEF Tick, TypeInv, TypeOK, WorkerTypeOK
  <2>2. /\ lease.left \in Int /\ lease.left > 0
        /\ lease.left >= TTL - MaxTxn - silence[v]
    BY <1>2, <1>9, <2>1, TTLAssumption, BoundsAssumption DEF Timely, Holds, LeaseRow
  <2>3. lease' = [lease EXCEPT !.left = lease.left - 1]
    BY <1>2, <1>9, <2>2, TTLAssumption DEF Tick, LeaseTick, Holds
  <2> DEFINE left == lease.left - 1
  <2>4. left \in -1 - MaxTxn .. TTL /\ left >= TTL - MaxTxn - (silence[v] + 1)
    BY <1>2, <1>9, <2>2, TTLAssumption, BoundsAssumption DEF LeaseRow
  <2>5. lease' = [lease EXCEPT !.left = left]
    BY <2>3
  <2> HIDE DEF left
  <2>6. lease' \in LeaseRow /\ lease'.owner = lease.owner /\ lease'.left = left
    BY <1>2, <1>9, <2>4, <2>5 DEF LeaseRow
  <2>7. lease' # NoLease
    BY <2>6, NoLeaseAssumption DEF LeaseRow
  <2> QED
    BY <1>1, <1>2, <1>9, <2>1, <2>4, <2>6, <2>7 DEF Holds
<1>10. ASSUME InStep(v), UNCHANGED vars PROVE Holds(v)'
  BY <1>2, <1>10 DEF vars, threadVars, Holds
<1> QED
  BY <1>3, <1>4, <1>5, <1>6, <1>7, <1>8, <1>9, <1>10, StillInside
  DEF Next, MainThread, Misfortune

LEMMA InitHeldInv == Init => HeldInv
BY DEF Init, HeldInv, InStep

LEMMA Holding ==
  ASSUME Timely, DistinctOwners
  PROVE  Spec => []HeldInv
<1>1. TypeInv /\ HeldInv /\ [Next]_vars => HeldInv'
  BY NextHeldInv
<1> QED
  BY <1>1, InitHeldInv, Typing, PTL DEF Spec

(* As long as a heartbeat comes back before what the one before it wrote   *)
(* has expired, the time its transaction took taken off, and owner strings *)
(* tell processes apart, no two processes are ever inside a step.          *)
THEOREM StepsAreExclusive ==
  ASSUME Timely, DistinctOwners
  PROVE  Spec => []ExclusiveStep
<1>1. HeldInv => ExclusiveStep
  BY DEF HeldInv, Holds, ExclusiveStep, DistinctOwners
<1> QED
  BY <1>1, Holding, PTL

(* The only way to another owner is a claim.                               *)
LEMMA OwnerChangesByClaim ==
  ASSUME TypeInv, [Next]_vars, lease # NoLease, lease'.owner # lease.owner
  PROVE  \E w \in Worker, age \in 0 .. MaxTxn : ClaimOrRenewLease(owner[w], age)
<1>1. lease \in LeaseRow
  BY DEF TypeInv, TypeOK, LeaseTypeOK
<1>2. ASSUME NEW w \in Worker,
             \/ FlushChunk(w) \/ FlushUnacknowledged(w) \/ Retry(w) \/ GiveUp(w)
      PROVE  UNCHANGED lease \/ \E age \in Int : RenewIfOwner(owner[w], age)
  BY <1>2 DEF FlushChunk, FlushUnacknowledged, Retry, GiveUp, Salvage, Flush, Age
<1>3. ASSUME NEW w \in Worker, NEW age \in Int, RenewIfOwner(owner[w], age)
      PROVE  lease'.owner = lease.owner
  <2> DEFINE left == TTL - age
  <2>1. UNCHANGED lease \/ lease' = [lease EXCEPT !.left = left]
    BY <1>3 DEF RenewIfOwner
  <2> HIDE DEF left
  <2> QED
    BY <1>1, <2>1 DEF LeaseRow
<1>4. ASSUME LeaseTick PROVE lease'.owner = lease.owner
  <2> DEFINE left == lease.left - 1
  <2>1. UNCHANGED lease \/ lease' = [lease EXCEPT !.left = left]
    BY <1>4 DEF LeaseTick
  <2> HIDE DEF left
  <2> QED
    BY <1>1, <2>1 DEF LeaseRow
<1>5. ASSUME NEW w \in Worker,
             \/ ReadState(w) \/ FindDone(w) \/ CountChunks(w) \/ Delta(w)
             \/ FlushRefused(w) \/ EndStream(w) \/ FinalizeStep(w) \/ FlushFails(w)
             \/ StreamError(w) \/ Die(w) \/ Start(w)
      PROVE  UNCHANGED lease
  BY <1>5 DEF ReadState, FindDone, CountChunks, Delta, FlushRefused, EndStream,
              FinalizeStep, FlushFails, StreamError, Die, Start
<1>6. ASSUME NEW w \in Worker, Claim(w) \/ Heartbeat(w) \/ LateClaim(w)
      PROVE  \/ UNCHANGED lease
             \/ \E age \in 0 .. MaxTxn : ClaimOrRenewLease(owner[w], age)
  BY <1>6, AgeTypes
  DEF Claim, Heartbeat, LateClaim, Renewal, TypeInv, TypeOK, WorkerTypeOK
<1> QED
  BY <1>2, <1>3, <1>4, <1>5, <1>6 DEF Next, MainThread, Misfortune, Tick, vars

(* A process that is alive inside a step keeps the lease if it is in time: *)
(* the longest it goes without a heartbeat that came back, and the longest *)
(* a transaction on the row takes to commit, together are within the TTL.  *)
(* That heartbeats come back within the TTL alone is not enough.           *)
THEOREM NobodyIsEvicted ==
  ASSUME Timely, DistinctOwners
  PROVE  Spec => NoFalseEviction
<1>1. ASSUME TypeInv, HeldInv, [Next]_vars,
             lease # NoLease, lease'.owner # lease.owner,
             NEW v \in Worker, InStep(v), owner[v] = lease.owner
      PROVE  FALSE
  <2>1. PICK w \in Worker, age \in 0 .. MaxTxn : ClaimOrRenewLease(owner[w], age)
    BY <1>1, OwnerChangesByClaim
  <2>2. w # v
    BY <1>1, <2>1 DEF ClaimOrRenewLease
  <2> QED
    BY <1>1, <2>1, <2>2, HeldIsNotClaimable DEF ClaimOrRenewLease
<1>2. TypeInv /\ HeldInv /\ [Next]_vars =>
        [lease # NoLease /\ lease'.owner # lease.owner =>
           ~\E w \in Worker : InStep(w) /\ owner[w] = lease.owner]_vars
  BY <1>1
<1> QED
  BY <1>2, Typing, Holding, PTL DEF Spec, NoFalseEviction

-----------------------------------------------------------------------------
(***************************************************************************)
(* Chunk numbers have no gaps.  next_chunk_seq counts rows, so a number    *)
(* that a worker keeps in its locals is never beyond the next free one,    *)
(* and the primary key turns away every number below it.                   *)
(***************************************************************************)
Numbering(w) == pc[w] \in {"stream", "rescue"}

SeqInv ==
  /\ GapFree
  /\ \A w \in Worker :
       Numbering(w) => frame[w].seq <= NextChunkSeq(frame[w].step)

LEMMA SeqTypes ==
  ASSUME TypeInv
  PROVE  /\ \A s \in Step : NextChunkSeq(s) \in Nat
         /\ \A w \in Worker : frame[w] \in Frame /\ frame[w].seq \in Nat
         /\ \A w \in Worker : Numbering(w) => MidStep(w) /\ frame[w].step \in Step
BY FS_CardinalityType
DEF TypeInv, TypeOK, MindTypeOK, WorkerTypeOK, FrameOK, NextChunkSeq, Frame,
    Numbering, MidStep

(* A chunk that is accepted gets the next free number.                     *)
LEMMA AppendGapFree ==
  ASSUME TypeInv, SeqInv, NEW w \in Worker, Numbering(w), Flush(w)
  PROVE  /\ GapFree'
         /\ \A s \in Step : s = frame[w].step =>
              NextChunkSeq(s)' = frame[w].seq + 1
         /\ \A r \in Step : NextChunkSeq(r) <= NextChunkSeq(r)'
<1>1. PICK s \in Step : s = frame[w].step
  BY SeqTypes
<1>2. PICK q \in Nat : q = frame[w].seq
  BY SeqTypes
<1>3. PICK n \in Nat : n = Cardinality(DOMAIN chunks[s])
  BY SeqTypes DEF NextChunkSeq
<1>4. q <= n /\ DOMAIN chunks[s] = 0 .. n - 1
  BY <1>1, <1>2, <1>3 DEF SeqInv, GapFree, NextChunkSeq
<1>5. q = n
  <2>1. q \notin DOMAIN chunks[s]
    BY <1>1, <1>2 DEF Flush, AppendChunk, ChunkExists
  <2> QED
    BY <1>4, <2>1
<1>6. DOMAIN chunks = Step /\ DOMAIN chunks' = Step
      /\ DOMAIN chunks'[s] = DOMAIN chunks[s] \cup {q}
      /\ \A r \in Step : r # s => chunks'[r] = chunks[r]
  BY <1>1, <1>2 DEF Flush, AppendChunk, TypeInv, TypeOK, MindTypeOK
<1>7. DOMAIN chunks'[s] = 0 .. n
  BY <1>4, <1>5, <1>6
<1>8. Cardinality(DOMAIN chunks'[s]) = n + 1
  BY <1>7, FS_Interval
<1>9. GapFree'
  <2> SUFFICES ASSUME NEW r \in Step
               PROVE  DOMAIN chunks'[r] = 0 .. Cardinality(DOMAIN chunks'[r]) - 1
    BY DEF GapFree, Step
  <2>1. CASE r = s
    BY <1>7, <1>8, <2>1
  <2>2. CASE r # s
    BY <1>6, <2>2 DEF SeqInv, GapFree
  <2> QED
    BY <2>1, <2>2
<1>10. \A r \in Step : NextChunkSeq(r) <= NextChunkSeq(r)'
  <2> SUFFICES ASSUME NEW r \in Step
               PROVE  Cardinality(DOMAIN chunks[r]) <= Cardinality(DOMAIN chunks'[r])
    BY DEF NextChunkSeq
  <2>1. CASE r = s
    BY <1>3, <1>8, <2>1
  <2>2. CASE r # s
    <3>1. Cardinality(DOMAIN chunks[r]) \in Nat
      BY SeqTypes DEF NextChunkSeq
    <3> QED
      BY <1>6, <2>2, <3>1
  <2> QED
    BY <2>1, <2>2
<1> QED
  BY <1>1, <1>2, <1>5, <1>8, <1>9, <1>10 DEF NextChunkSeq

(* Steps that add no chunk, or one by the rules above, keep the numbers of *)
(* the workers whose locals they leave alone.                              *)
LEMMA SeqStep ==
  ASSUME TypeInv, SeqInv, [Next]_vars,
         GapFree', \A r \in Step : NextChunkSeq(r) <= NextChunkSeq(r)',
         \A v \in Worker : Numbering(v)' =>
           \/ Numbering(v) /\ frame'[v].step = frame[v].step
                /\ frame'[v].seq = frame[v].seq
           \/ \A s \in Step : s = frame'[v].step => frame'[v].seq <= NextChunkSeq(s)'
  PROVE  SeqInv'
<1> SUFFICES ASSUME NEW v \in Worker, Numbering(v)'
             PROVE  (frame[v].seq <= NextChunkSeq(frame[v].step))'
  BY DEF SeqInv
<1>1. TypeInv'
  BY NextTypeInv
<1>2. PICK s \in Step : s = frame'[v].step
  BY <1>1 DEF TypeInv, FrameOK, Numbering, MidStep, Step
<1>3. frame'[v].seq <= NextChunkSeq(s)'
  <2>1. CASE Numbering(v) /\ frame'[v].step = frame[v].step
                /\ frame'[v].seq = frame[v].seq
    <3>1. frame[v].seq <= NextChunkSeq(s)
      BY <1>2, <2>1 DEF SeqInv
    <3>2. frame[v].seq \in Nat /\ NextChunkSeq(s) \in Nat
      BY SeqTypes
    <3>3. NextChunkSeq(s)' \in Nat
      BY <1>1, FS_CardinalityType DEF TypeInv, TypeOK, MindTypeOK, NextChunkSeq, Step
    <3> QED
      BY <2>1, <3>1, <3>2, <3>3
  <2> QED
    BY <1>2, <2>1
<1> QED
  BY <1>2, <1>3 DEF NextChunkSeq

LEMMA NextSeqInv == TypeInv /\ SeqInv /\ [Next]_vars => SeqInv'
<1> SUFFICES ASSUME TypeInv, SeqInv, [Next]_vars PROVE SeqInv'
  OBVIOUS
<1> DEFINE Free(v) == \A s \in Step : s = frame'[v].step => frame'[v].seq <= NextChunkSeq(s)'
           Kept(v) == Numbering(v) /\ frame'[v].step = frame[v].step
                        /\ frame'[v].seq = frame[v].seq
<1>1. ASSUME UNCHANGED chunks
      PROVE  GapFree' /\ \A r \in Step : NextChunkSeq(r) <= NextChunkSeq(r)'
  BY <1>1, SeqTypes DEF SeqInv, GapFree, NextChunkSeq, Step
<1>2. ASSUME NEW w \in Worker, CountChunks(w) PROVE SeqInv'
  <2>1. UNCHANGED chunks
    BY <1>2 DEF CountChunks, mindVars
  <2>2. Free(w)
    BY <1>2, <2>1, StepLocals, SeqTypes DEF NextChunkSeq
  <2>3. ASSUME NEW v \in Worker, v # w, Numbering(v)' PROVE Kept(v)
    BY <1>2, <2>3 DEF CountChunks, GoTo, Numbering, TypeInv, TypeOK, WorkerTypeOK
  <2> QED
    BY <1>1, <2>1, <2>2, <2>3, SeqStep
<1>3. ASSUME NEW w \in Worker, FlushChunk(w) \/ (Retry(w) /\ Flush(w))
      PROVE  SeqInv'
  <2>1. Numbering(w) /\ Flush(w)
    BY <1>3 DEF FlushChunk, Retry, Numbering
  <2>2. Free(w)
    <3>1. frame'[w].seq = frame[w].seq + 1 /\ frame'[w].step = frame[w].step
      BY <1>3, StepLocals DEF Flush
    <3>2. \A s \in Step : s = frame[w].step => NextChunkSeq(s)' = frame[w].seq + 1
      BY <2>1, AppendGapFree
    <3>3. frame[w].seq \in Nat
      BY SeqTypes
    <3> QED
      BY <3>1, <3>2, <3>3
  <2>3. ASSUME NEW v \in Worker, v # w, Numbering(v)' PROVE Kept(v)
    BY <1>3, <2>3
    DEF FlushChunk, Retry, GoTo, Numbering, TypeInv, TypeOK, WorkerTypeOK
  <2> QED
    BY <2>1, <2>2, <2>3, AppendGapFree, SeqStep
<1>4. ASSUME NEW w \in Worker, FlushUnacknowledged(w) \/ (GiveUp(w) /\ Flush(w))
      PROVE  SeqInv'
  <2>1. Numbering(w) /\ Flush(w)
    BY <1>4 DEF FlushUnacknowledged, GiveUp, Numbering
  <2>2. ASSUME NEW v \in Worker, Numbering(v)' PROVE Kept(v)
    BY <1>4, <2>2 DEF FlushUnacknowledged, GiveUp, Vanish, GoTo, Numbering,
                     TypeInv, TypeOK, WorkerTypeOK
  <2> QED
    BY <2>1, <2>2, AppendGapFree, SeqStep
<1>5. ASSUME UNCHANGED chunks, \A v \in Worker : Numbering(v)' => Kept(v)
      PROVE  SeqInv'
  BY <1>1, <1>5, SeqStep
<1>6. ASSUME NEW w \in Worker,
             \/ Delta(w) \/ (Retry(w) /\ frame[w].buffer = <<>> /\ UNCHANGED mindVars)
      PROVE  SeqInv'
  <2>1. UNCHANGED chunks
    BY <1>6 DEF Delta, mindVars
  <2>2. ASSUME NEW v \in Worker, Numbering(v)' PROVE Kept(v)
    <3>1. CASE v = w
      BY <1>6, <3>1, StepLocals DEF Delta, Retry, Numbering
    <3>2. CASE v # w
      BY <1>6, <2>2, <3>2
      DEF Delta, Retry, GoTo, Numbering, TypeInv, TypeOK, WorkerTypeOK
    <3> QED
      BY <3>1, <3>2
  <2> QED
    BY <1>5, <2>1, <2>2
<1>7. ASSUME NEW w \in Worker,
             FlushRefused(w) \/ FlushFails(w) \/ EndStream(w) \/ StreamError(w)
      PROVE  SeqInv'
  <2>1. UNCHANGED <<mindVars, frame>>
    BY <1>7 DEF FlushRefused, FlushFails, EndStream, StreamError
  <2>2. \A v \in Worker : Numbering(v)' => Numbering(v)
    BY <1>7 DEF FlushRefused, FlushFails, EndStream, StreamError, GoTo, Numbering,
                TypeInv, TypeOK, WorkerTypeOK
  <2> QED
    BY <1>5, <2>1, <2>2 DEF mindVars
<1>8. ASSUME NEW w \in Worker,
             \/ Claim(w) \/ ReadState(w) \/ FindDone(w) \/ FinalizeStep(w)
             \/ Die(w) \/ Start(w) \/ (GiveUp(w) /\ UNCHANGED mindVars)
      PROVE  SeqInv'
  <2>1. UNCHANGED chunks
    BY <1>8 DEF Claim, ReadState, FindDone, FinalizeStep, RecordStep, Die, Start,
                mindVars
  <2>2. ASSUME NEW v \in Worker, Numbering(v)' PROVE Kept(v)
    BY <1>8, <2>2 DEF Claim, ReadState, FindDone, FinalizeStep, Die, Start, GiveUp,
                     LeaveStep, Vanish, GoTo, Numbering, TypeInv, TypeOK, WorkerTypeOK
  <2> QED
    BY <1>5, <2>1, <2>2
<1>9. ASSUME Tick \/ UNCHANGED vars \/ \E w \in Worker : Heartbeat(w) \/ LateClaim(w)
      PROVE  SeqInv'
  <2>1. UNCHANGED <<mindVars, pc, frame>>
    BY <1>9 DEF Tick, Heartbeat, LateClaim, vars, threadVars
  <2> QED
    BY <1>5, <2>1 DEF mindVars, Numbering
<1>10. ASSUME NEW w \in Worker, Retry(w)
       PROVE  Flush(w) \/ (frame[w].buffer = <<>> /\ UNCHANGED mindVars)
  BY <1>10 DEF Retry, Salvage
<1>11. ASSUME NEW w \in Worker, GiveUp(w) PROVE Flush(w) \/ UNCHANGED mindVars
  BY <1>11 DEF GiveUp, Salvage
<1> QED
  BY <1>2, <1>3, <1>4, <1>6, <1>7, <1>8, <1>9, <1>10, <1>11
  DEF Next, MainThread, Misfortune

LEMMA InitSeqInv == Init => SeqInv
<1> SUFFICES ASSUME Init PROVE SeqInv
  OBVIOUS
<1>1. \A s \in Step : DOMAIN chunks[s] = {}
  BY DEF Init, MindInit
<1>2. Cardinality({}) = 0
  BY FS_EmptySet
<1>3. 0 .. 0 - 1 = {}
  OBVIOUS
<1>4. GapFree
  BY <1>1, <1>2, <1>3 DEF GapFree
<1>5. \A w \in Worker : ~Numbering(w)
  BY DEF Init, Numbering
<1> QED
  BY <1>4, <1>5 DEF SeqInv

(* The next chunk number that is counted is always free in the end: chunks *)
(* are numbered without gaps, late writers, retries and lost               *)
(* acknowledgements included.                                              *)
THEOREM ChunksAreGapFree == Spec => []GapFree
<1>1. TypeInv /\ SeqInv /\ [Next]_vars => SeqInv'
  BY NextSeqInv
<1>2. SeqInv => GapFree
  BY DEF SeqInv
<1> QED
  BY <1>1, <1>2, InitSeqInv, Typing, PTL DEF Spec
=============================================================================
