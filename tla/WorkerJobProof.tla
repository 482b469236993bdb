--------------------------- MODULE WorkerJobProof ---------------------------
(***************************************************************************)
(* The workers implement Job.tla, and the rows of output_chunks spell its  *)
(* text, for every number of workers, steps, words and faults: proved with *)
(* TLAPS for heartbeats and transactions that are within the TTL together  *)
(* and owner strings that tell processes apart.                            *)
(***************************************************************************)
EXTENDS WorkerJob, WorkerProof

(***************************************************************************)
(* The inductive invariant.  The job's text is unbroken, and the one       *)
(* process inside a step has it in its locals with what it has not flushed *)
(* yet.  Only after a flush without an acknowledgement are the two at      *)
(* odds: then the number of the chunk is taken, and the process fails.     *)
(***************************************************************************)
IsUnbroken(text) == \A i \in 1 .. Len(text) : text[i] = i

InHand(w) ==
  /\ frame[w].step = jobState.step
  /\ IsUnbroken(frame[w].full_text) /\ Len(frame[w].full_text) <= MaxLen
  /\ \/ frame[w].full_text = jobState.partial_output \o frame[w].buffer
     \/ pc[w] = "rescue" /\ Conflict(w)
  /\ pc[w] \in {"seq", "finalize"} => frame[w].buffer = <<>>

JobInv ==
  /\ IsUnbroken(jobState.partial_output) /\ Len(jobState.partial_output) <= MaxLen
  /\ \A s \in Step : s >= jobState.step => events[s] = <<>>
  /\ \A w \in Worker : MidStep(w) => InHand(w)

-----------------------------------------------------------------------------
LEMMA ConcatLonger ==
  ASSUME NEW s \in Text, NEW t \in Text
  PROVE  /\ s \o t \in Text
         /\ Len(s) \in Nat /\ Len(t) \in Nat /\ Len(s \o t) = Len(s) + Len(t)
         /\ t # <<>> => Len(s \o t) > Len(s)
<1>1. s \in Seq(Nat) /\ t \in Seq(Nat)
  BY DEF Text
<1>2. s \o t \in Seq(Nat) /\ Len(s \o t) = Len(s) + Len(t)
  BY <1>1, ConcatProperties
<1>3. Len(s) \in Nat /\ Len(t) \in Nat /\ (t # <<>> => Len(t) # 0)
  BY <1>1, LenProperties
<1> QED
  BY <1>2, <1>3 DEF Text

LEMMA ConcatAppend ==
  ASSUME NEW s \in Text, NEW t \in Text, NEW e \in Nat
  PROVE  Append(s \o t, e) = s \o Append(t, e)
<1>1. s \in Seq(Nat) /\ t \in Seq(Nat) /\ <<e>> \in Seq(Nat)
  BY DEF Text
<1>2. (s \o t) \o <<e>> = s \o (t \o <<e>>)
  <2> DEFINE u == <<e>>
  <2>1. u \in Seq(Nat)
    BY <1>1
  <2> HIDE DEF u
  <2>2. (s \o t) \o u = s \o (t \o u)
    BY <1>1, <2>1, ConcatAssociative
  <2> QED
    BY <2>2 DEF u
<1>3. s \o t \in Seq(Nat)
  BY <1>1, ConcatProperties
<1>4. Append(s \o t, e) = (s \o t) \o <<e>> /\ Append(t, e) = t \o <<e>>
  BY <1>1, <1>3, AppendIsConcat, Zenon
<1> QED
  BY <1>2, <1>4

(***************************************************************************)
(* What the moves inside a step do to the text at hand and to the job.     *)
(***************************************************************************)
LEMMA TextTypes ==
  ASSUME TypeInv
  PROVE  /\ jobState.partial_output \in Text /\ Len(jobState.partial_output) \in Nat
         /\ jobState.step \in 1 .. TotalSteps + 1
         /\ \A w \in Worker :
              /\ frame[w] \in Frame
              /\ frame[w].full_text \in Text /\ Len(frame[w].full_text) \in Nat
              /\ frame[w].buffer \in Text /\ Len(frame[w].buffer) \in Nat
              /\ MidStep(w) => frame[w].step \in Step
<1>1. jobState.partial_output \in Text /\ jobState.step \in 1 .. TotalSteps + 1
  BY DEF TypeInv, TypeOK, MindTypeOK
<1>2. ASSUME NEW w \in Worker
      PROVE  /\ frame[w] \in Frame
             /\ frame[w].full_text \in Text /\ frame[w].buffer \in Text
             /\ MidStep(w) => frame[w].step \in Step
  BY DEF TypeInv, TypeOK, WorkerTypeOK, FrameOK, Frame
<1> QED
  BY <1>1, <1>2, LenProperties DEF Text

LEMMA TextLocals ==
  ASSUME TypeInv, NEW w \in Worker
  PROVE  /\ ReadState(w) =>
              /\ frame'[w].step = jobState.step
              /\ frame'[w].full_text = jobState.partial_output
              /\ frame'[w].buffer = <<>>
         /\ CountChunks(w) =>
              /\ frame'[w].full_text = frame[w].full_text
              /\ frame'[w].buffer = frame[w].buffer
         /\ Delta(w) =>
              LET word == Len(frame[w].full_text) + 1
              IN  /\ frame'[w].full_text = Append(frame[w].full_text, word)
                  /\ frame'[w].buffer = Append(frame[w].buffer, word)
         /\ FlushChunk(w) \/ Retry(w) =>
              /\ frame'[w].full_text = frame[w].full_text
              /\ frame'[w].buffer = <<>>
<1>1. frame[w] \in Frame /\ frame \in [Worker -> Frame]
  BY DEF TypeInv, TypeOK, WorkerTypeOK
<1>2. ASSUME ReadState(w)
      PROVE  /\ frame'[w].step = jobState.step
             /\ frame'[w].full_text = jobState.partial_output
             /\ frame'[w].buffer = <<>>
  <2> DEFINE f == [step |-> jobState.step, seq |-> 0,
                   full_text |-> jobState.partial_output, buffer |-> <<>>,
                   attempt |-> 0]
  <2>1. frame'[w] = f
    BY <1>1, <1>2 DEF ReadState
  <2> QED
    BY <2>1
<1>3. ASSUME CountChunks(w)
      PROVE  /\ frame'[w].full_text = frame[w].full_text
             /\ frame'[w].buffer = frame[w].buffer
  <2> DEFINE s == NextChunkSeq(frame[w].step)
  <2>1. frame'[w] = [frame[w] EXCEPT !.seq = s]
    BY <1>1, <1>3 DEF CountChunks
  <2> HIDE DEF s
  <2> QED
    BY <1>1, <2>1 DEF Frame
<1>4. ASSUME Delta(w)
      PROVE  LET word == Len(frame[w].full_text) + 1
             IN  /\ frame'[w].full_text = Append(frame[w].full_text, word)
                 /\ frame'[w].buffer = Append(frame[w].buffer, word)
  <2> DEFINE t == Append(frame[w].full_text, Len(frame[w].full_text) + 1)
             b == Append(frame[w].buffer, Len(frame[w].full_text) + 1)
  <2>1. frame'[w] = [frame[w] EXCEPT !.full_text = t, !.buffer = b]
    BY <1>1, <1>4 DEF Delta
  <2> HIDE DEF t, b
  <2>2. frame'[w].full_text = t /\ frame'[w].buffer = b
    BY <1>1, <2>1 DEF Frame
  <2> QED
    BY <2>2 DEF t, b
<1>5. ASSUME FlushChunk(w) \/ Retry(w)
      PROVE  frame'[w].full_text = frame[w].full_text /\ frame'[w].buffer = <<>>
  <2> DEFINE m == frame[w].seq + 1
             k == IF frame[w].buffer = <<>> THEN frame[w].seq ELSE m
             a == frame[w].attempt + 1
             b == <<>>
  <2>1. \/ frame'[w] = [frame[w] EXCEPT !.seq = m, !.buffer = b]
        \/ frame'[w] = [frame[w] EXCEPT !.seq = k, !.buffer = b, !.attempt = a]
    BY <1>1, <1>5 DEF FlushChunk, Retry
  <2> HIDE DEF m, k, a, b
  <2>2. frame'[w].full_text = frame[w].full_text /\ frame'[w].buffer = b
    BY <1>1, <2>1 DEF Frame
  <2> QED
    BY <2>2 DEF b
<1> QED
  BY <1>2, <1>3, <1>4, <1>5

(* A flush that is accepted leaves all of the worker's text in the job.    *)
LEMMA FlushExtends ==
  ASSUME TypeInv, JobInv, NEW w \in Worker, MidStep(w), Flush(w)
  PROVE  /\ UNCHANGED <<events, status>> /\ jobState'.step = jobState.step
         /\ frame[w].step = jobState.step
         /\ jobState'.partial_output = jobState.partial_output \o frame[w].buffer
         /\ jobState'.partial_output = frame[w].full_text
         /\ Len(frame[w].full_text) > Len(jobState.partial_output)
         /\ IsUnbroken(frame[w].full_text) /\ Len(frame[w].full_text) <= MaxLen
<1> DEFINE longer == jobState.partial_output \o frame[w].buffer
<1>1. jobState' = [jobState EXCEPT !.partial_output = longer]
  BY DEF Flush, AppendChunk
<1>2. InHand(w) /\ frame[w].full_text = longer
  BY DEF JobInv, InHand, Flush, AppendChunk, Conflict
<1>3. Len(longer) > Len(jobState.partial_output)
  BY TextTypes, ConcatLonger DEF Flush
<1> HIDE DEF longer
<1>4. jobState'.partial_output = longer /\ jobState'.step = jobState.step
  BY <1>1 DEF TypeInv, TypeOK, MindTypeOK
<1> QED
  BY <1>2, <1>3, <1>4 DEF InHand, Flush, AppendChunk, longer

(* In the step of a process inside its step no other process is inside.    *)
LEMMA Alone ==
  ASSUME TypeInv, ExclusiveStep, [Next]_vars, NEW w \in Worker, InStep(w),
         NEW v \in Worker, MidStep(v)'
  PROVE  v = w
<1>1. InStep(v)
  BY StepInHand DEF InStep, MidStep, ReadState
<1> QED
  BY <1>1 DEF ExclusiveStep

-----------------------------------------------------------------------------
(***************************************************************************)
(* The invariant is kept.                                                  *)
(***************************************************************************)
LEMMA SameMind ==
  ASSUME JobInv, UNCHANGED mindVars,
         \A v \in Worker : MidStep(v)' => InHand(v)'
  PROVE  JobInv'
BY DEF JobInv, mindVars, IsUnbroken, Step

(* Words that have arrived are in the locals only.                         *)
LEMMA DeltaInHand ==
  ASSUME TypeInv, JobInv, NEW w \in Worker, Delta(w)
  PROVE  InHand(w)'
<1> DEFINE text == frame[w].full_text
           word == Len(text) + 1
           buffer == frame[w].buffer
           part == jobState.partial_output
<1>1. text \in Seq(Nat) /\ buffer \in Seq(Nat) /\ part \in Seq(Nat) /\ word \in Nat
  BY TextTypes DEF Text
<1>2. InHand(w) /\ text = part \o buffer /\ Len(text) < MaxLen
  BY DEF JobInv, InHand, Delta, MidStep
<1>3. UNCHANGED jobState /\ pc'[w] = "stream"
  BY DEF Delta, GoTo, mindVars, TypeInv, TypeOK, WorkerTypeOK
<1>4. /\ frame'[w].full_text = Append(text, word)
      /\ frame'[w].buffer = Append(buffer, word)
      /\ frame'[w].step = frame[w].step
  BY TextLocals, StepLocals
<1> HIDE DEF text, buffer, part
<1>5. Append(text, word) = part \o Append(buffer, word)
  BY <1>1, <1>2, ConcatAppend DEF Text
<1>6. /\ Len(Append(text, word)) = word
      /\ \A i \in 1 .. word : Append(text, word)[i] = i
  <2>1. \A i \in 1 .. Len(text) : text[i] = i
    BY <1>2 DEF InHand, IsUnbroken, text
  <2> QED
    BY <1>1, <2>1, AppendProperties, LenProperties
<1>7. word <= MaxLen
  BY <1>1, <1>2, BoundsAssumption, LenProperties
<1>8. IsUnbroken(frame'[w].full_text) /\ Len(frame'[w].full_text) <= MaxLen
  BY <1>4, <1>6, <1>7 DEF IsUnbroken
<1>9. frame'[w].full_text = jobState'.partial_output \o frame'[w].buffer
  BY <1>3, <1>4, <1>5 DEF part
<1>10. frame'[w].step = jobState'.step
  BY <1>2, <1>3, <1>4 DEF InHand
<1> QED
  BY <1>3, <1>8, <1>9, <1>10 DEF InHand

(* A step is recorded once, with all of the job's text.                    *)
LEMMA FinalizeConcludes ==
  ASSUME TypeInv, JobInv, NEW w \in Worker, FinalizeStep(w)
  PROVE  /\ jobState.step \in Step
         /\ events' = [events EXCEPT ![jobState.step] = <<jobState.partial_output>>]
         /\ jobState'.step = jobState.step + 1 /\ jobState'.partial_output = <<>>
         /\ status' = IF jobState.step >= TotalSteps THEN "done" ELSE status
         /\ UNCHANGED chunks
<1> DEFINE n == frame[w].step
           text == frame[w].full_text
           part == jobState.partial_output
<1>1. InHand(w) /\ MidStep(w) /\ pc[w] = "finalize"
  BY DEF FinalizeStep, MidStep, JobInv
<1>2. n \in Step /\ n = jobState.step
  BY <1>1, TextTypes DEF InHand
<1>3. text = part
  <2>1. frame[w].buffer = <<>> /\ text = part \o <<>>
    BY <1>1 DEF InHand
  <2> QED
    BY <2>1, TextTypes, ConcatEmptySeq DEF Text
<1>4. events[n] = <<>>
  BY <1>2 DEF JobInv, Step
<1>5. /\ events' = [events EXCEPT ![n] = Append(events[n], text)]
      /\ jobState' = [step |-> n + 1, partial_output |-> <<>>]
      /\ status' = IF n >= TotalSteps THEN "done" ELSE status
      /\ UNCHANGED chunks
  BY DEF FinalizeStep, RecordStep
<1> HIDE DEF n, text, part
<1>6. Append(events[n], text) = <<text>>
  BY <1>4
<1>7. events' = [events EXCEPT ![n] = <<part>>]
  BY <1>3, <1>5, <1>6
<1> QED
  BY <1>2, <1>5, <1>7 DEF n, part

LEMMA NextJobInv ==
  ASSUME TypeInv, ExclusiveStep, JobInv, [Next]_vars
  PROVE  JobInv'
<1>1. ASSUME NEW w \in Worker, ReadState(w)
      PROVE  JobInv'
  <2>1. UNCHANGED mindVars /\ pc'[w] = "seq"
    BY <1>1 DEF ReadState, GoTo, TypeInv, TypeOK, WorkerTypeOK
  <2>2. jobState.partial_output = jobState.partial_output \o <<>>
    BY TextTypes, ConcatEmptySeq DEF Text
  <2>3. InHand(w)'
    BY <1>1, <2>1, <2>2, TextLocals DEF InHand, JobInv, mindVars, IsUnbroken
  <2> QED
    BY <1>1, <2>1, <2>3, Alone, SameMind DEF ReadState, InStep
<1>2. ASSUME NEW w \in Worker, CountChunks(w)
      PROVE  JobInv'
  <2>1. UNCHANGED mindVars /\ pc'[w] = "stream" /\ InHand(w) /\ pc[w] = "seq"
    BY <1>2 DEF CountChunks, GoTo, TypeInv, TypeOK, WorkerTypeOK, JobInv, MidStep
  <2>2. /\ frame'[w].step = frame[w].step
        /\ frame'[w].full_text = frame[w].full_text
        /\ frame'[w].buffer = frame[w].buffer
    BY <1>2, TextLocals, StepLocals
  <2>3. InHand(w)'
    BY <2>1, <2>2 DEF InHand, mindVars, IsUnbroken
  <2> QED
    BY <1>2, <2>1, <2>3, Alone, SameMind DEF InStep
<1>3. ASSUME NEW w \in Worker, Delta(w)
      PROVE  JobInv'
  <2>1. UNCHANGED mindVars /\ InStep(w)
    BY <1>3 DEF Delta, InStep
  <2> QED
    BY <1>3, <2>1, DeltaInHand, Alone, SameMind
<1>4. ASSUME NEW w \in Worker, FlushChunk(w) \/ (Retry(w) /\ Flush(w))
      PROVE  JobInv'
  <2>1. /\ MidStep(w) /\ InStep(w) /\ Flush(w) /\ pc'[w] = "stream"
    BY <1>4 DEF FlushChunk, Retry, GoTo, MidStep, InStep, TypeInv, TypeOK, WorkerTypeOK
  <2>2. /\ frame'[w].step = frame[w].step /\ frame'[w].buffer = <<>>
        /\ frame'[w].full_text = frame[w].full_text
    BY <1>4, TextLocals, StepLocals
  <2>3. frame[w].full_text = frame[w].full_text \o <<>>
    BY TextTypes, ConcatEmptySeq DEF Text
  <2>4. InHand(w)'
    BY <2>1, <2>2, <2>3, FlushExtends DEF InHand, IsUnbroken
  <2> QED
    BY <2>1, <2>4, FlushExtends, Alone DEF JobInv, IsUnbroken, Step
<1>5. ASSUME NEW w \in Worker, FlushUnacknowledged(w)
      PROVE  JobInv'
  <2>1. /\ MidStep(w) /\ InStep(w) /\ Flush(w) /\ pc'[w] = "rescue"
        /\ UNCHANGED frame
    BY <1>5 DEF FlushUnacknowledged, GoTo, MidStep, InStep, TypeInv, TypeOK, WorkerTypeOK
  <2>2. Conflict(w)'
    BY <2>1, FlushExtends, TextTypes
    DEF Conflict, ChunkExists, Flush, AppendChunk, TypeInv, TypeOK, MindTypeOK
  <2>3. InHand(w)'
    BY <2>1, <2>2, FlushExtends DEF InHand, IsUnbroken
  <2> QED
    BY <2>1, <2>3, FlushExtends, Alone DEF JobInv, IsUnbroken, Step
<1>6. ASSUME NEW w \in Worker, GiveUp(w) /\ Flush(w)
      PROVE  JobInv'
  <2>1. MidStep(w) /\ InStep(w) /\ Flush(w) /\ pc'[w] = "dead"
    BY <1>6 DEF GiveUp, Vanish, GoTo, MidStep, InStep, TypeInv, TypeOK, WorkerTypeOK
  <2>2. \A v \in Worker : ~MidStep(v)'
    BY <2>1, Alone DEF MidStep
  <2> QED
    BY <2>1, <2>2, FlushExtends DEF JobInv, IsUnbroken, Step
<1>7. ASSUME NEW w \in Worker, FinalizeStep(w)
      PROVE  JobInv'
  <2>1. InStep(w) /\ ~MidStep(w)'
    BY <1>7 DEF FinalizeStep, LeaveStep, GoTo, MidStep, InStep, TypeInv, TypeOK,
                WorkerTypeOK
  <2>2. \A v \in Worker : ~MidStep(v)'
    BY <2>1, Alone
  <2>3. \A s \in Step : s >= jobState'.step => events'[s] = <<>>
    <3> DEFINE n == jobState.step
               finding == <<jobState.partial_output>>
    <3>1. n \in Step /\ events' = [events EXCEPT ![n] = finding] /\ jobState'.step = n + 1
      BY <1>7, FinalizeConcludes
    <3>2. \A s \in Step : s >= n => events[s] = <<>>
      BY DEF JobInv
    <3>3. events \in [Step -> Seq(Text)]
      BY DEF TypeInv, TypeOK, MindTypeOK
    <3> HIDE DEF n, finding
    <3>4. \A s \in Step : s >= n + 1 => s >= n /\ s # n
      BY <3>1, TotalStepsAssumption DEF Step
    <3> QED
      BY <3>1, <3>2, <3>3, <3>4
  <2>4. IsUnbroken(jobState'.partial_output) /\ Len(jobState'.partial_output) <= MaxLen
    BY <1>7, FinalizeConcludes, BoundsAssumption DEF IsUnbroken
  <2> QED
    BY <2>2, <2>3, <2>4 DEF JobInv, IsUnbroken, Step
<1>8. ASSUME NEW w \in Worker, FlushRefused(w) \/ FlushFails(w) \/ StreamError(w)
      PROVE  JobInv'
  <2>1. UNCHANGED <<mindVars, frame>> /\ pc[w] = "stream" /\ pc'[w] = "rescue"
    BY <1>8 DEF FlushRefused, FlushFails, StreamError, GoTo, TypeInv, TypeOK, WorkerTypeOK
  <2>2. InStep(w) /\ InHand(w)
    BY <2>1 DEF InStep, JobInv, MidStep
  <2>3. InHand(w)'
    BY <2>1, <2>2 DEF InHand, mindVars, IsUnbroken
  <2> QED
    BY <2>1, <2>2, <2>3, Alone, SameMind
<1>9. ASSUME NEW w \in Worker, EndStream(w)
      PROVE  JobInv'
  <2>1. /\ UNCHANGED <<mindVars, frame>> /\ pc[w] = "stream" /\ pc'[w] = "finalize"
        /\ frame[w].buffer = <<>>
    BY <1>9 DEF EndStream, GoTo, TypeInv, TypeOK, WorkerTypeOK
  <2>2. InStep(w) /\ InHand(w)
    BY <2>1 DEF InStep, JobInv, MidStep
  <2>3. InHand(w)'
    BY <2>1, <2>2 DEF InHand, mindVars, IsUnbroken
  <2> QED
    BY <2>1, <2>2, <2>3, Alone, SameMind
<1>10. ASSUME NEW w \in Worker, Retry(w), frame[w].buffer = <<>>, UNCHANGED mindVars
       PROVE  JobInv'
  <2>1. pc[w] = "rescue" /\ pc'[w] = "stream"
    BY <1>10 DEF Retry, GoTo, TypeInv, TypeOK, WorkerTypeOK
  <2>2. InStep(w) /\ InHand(w) /\ ~Conflict(w)
    BY <1>10, <2>1 DEF InStep, JobInv, MidStep, Conflict
  <2>3. /\ frame'[w].step = frame[w].step /\ frame'[w].buffer = frame[w].buffer
        /\ frame'[w].full_text = frame[w].full_text
    BY <1>10, TextLocals, StepLocals
  <2>4. InHand(w)'
    BY <1>10, <2>1, <2>2, <2>3 DEF InHand, mindVars, IsUnbroken
  <2> QED
    BY <1>10, <2>2, <2>4, Alone, SameMind
<1>11. ASSUME UNCHANGED mindVars,
              \A v \in Worker : MidStep(v)' =>
                MidStep(v) /\ pc'[v] = pc[v] /\ frame'[v] = frame[v]
       PROVE  JobInv'
  <2>1. ASSUME NEW v \in Worker, MidStep(v)'
        PROVE  InHand(v)'
    <3>1. InHand(v) /\ pc'[v] = pc[v] /\ frame'[v] = frame[v]
      BY <1>11, <2>1 DEF JobInv
    <3> QED
      BY <1>11, <3>1 DEF InHand, Conflict, ChunkExists, IsUnbroken, mindVars
  <2> QED
    BY <1>11, <2>1, SameMind
<1>12. ASSUME NEW w \in Worker,
              \/ Claim(w) \/ FindDone(w) \/ Die(w) \/ Start(w)
              \/ (GiveUp(w) /\ UNCHANGED mindVars)
       PROVE  JobInv'
  <2>1. UNCHANGED mindVars
    BY <1>12 DEF Claim, FindDone, Die, Start
  <2>2. \A v \in Worker : MidStep(v)' =>
          MidStep(v) /\ pc'[v] = pc[v] /\ frame'[v] = frame[v]
    BY <1>12 DEF Claim, FindDone, Die, Start, GiveUp, LeaveStep, Vanish, GoTo, MidStep,
                 TypeInv, TypeOK, WorkerTypeOK
  <2> QED
    BY <1>11, <2>1, <2>2
<1>13. ASSUME \/ Tick \/ UNCHANGED vars
              \/ \E w \in Worker : Heartbeat(w) \/ LateClaim(w)
       PROVE  JobInv'
  BY <1>11, <1>13 DEF Tick, Heartbeat, LateClaim, vars, threadVars, MidStep
<1>14. ASSUME NEW w \in Worker, Retry(w)
       PROVE  Flush(w) \/ (frame[w].buffer = <<>> /\ UNCHANGED mindVars)
  BY <1>14 DEF Retry, Salvage
<1>15. ASSUME NEW w \in Worker, GiveUp(w) PROVE Flush(w) \/ UNCHANGED mindVars
  BY <1>15 DEF GiveUp, Salvage
<1> QED
  BY <1>1, <1>2, <1>3, <1>4, <1>5, <1>6, <1>7, <1>8, <1>9, <1>10, <1>12, <1>13,
     <1>14, <1>15 DEF Next, MainThread, Misfortune

LEMMA Writing ==
  ASSUME Timely, DistinctOwners
  PROVE  Spec => []JobInv
<1>1. Init => JobInv
  <2> SUFFICES ASSUME Init PROVE JobInv
    OBVIOUS
  <2>1. jobState.partial_output = <<>> /\ \A s \in Step : events[s] = <<>>
    BY DEF Init, MindInit
  <2>2. \A w \in Worker : ~MidStep(w)
    BY DEF Init, MidStep
  <2> QED
    BY <2>1, <2>2, BoundsAssumption DEF JobInv, IsUnbroken
<1>2. TypeInv /\ ExclusiveStep /\ JobInv /\ [Next]_vars => JobInv'
  BY NextJobInv
<1> QED
  BY <1>1, <1>2, Typing, StepsAreExclusive, PTL DEF Spec

-----------------------------------------------------------------------------
(***************************************************************************)
(* The refinement: an accepted flush is a Think, finalize_step a Conclude, *)
(* and every other step of the workers leaves the job as it is.            *)
(***************************************************************************)
LEMMA UnbrokenIs ==
  ASSUME NEW text \in Text, IsUnbroken(text)
  PROVE  text = TheJob!Unbroken(Len(text))
<1>1. text \in Seq(Nat) /\ Len(text) \in Nat /\ DOMAIN text = 1 .. Len(text)
  BY LenProperties DEF Text
<1>2. text = [i \in 1 .. Len(text) |-> text[i]]
  BY <1>1
<1> QED
  BY <1>1, <1>2 DEF IsUnbroken, TheJob!Unbroken

LEMMA FlushThinks ==
  ASSUME TypeInv, JobInv, NEW w \in Worker, MidStep(w), Flush(w)
  PROVE  TheJob!Think
<1> DEFINE text == frame[w].full_text
           n == Len(text)
<1>1. /\ text = TheJob!Unbroken(n) /\ n \in Nat
      /\ n > Len(jobState.partial_output) /\ n <= MaxLen
      /\ Len(jobState.partial_output) \in Nat
  BY TextTypes, FlushExtends, UnbrokenIs
<1>2. n \in Len(jobState.partial_output) + 1 .. MaxLen
  BY <1>1, BoundsAssumption
<1>3. jobState'.partial_output = TheJob!Unbroken(n)
  BY <1>1, FlushExtends
<1>4. jobState.step <= TotalSteps
  <2>1. frame[w].step \in Step /\ frame[w].step = jobState.step
    BY FlushExtends, TextTypes
  <2> QED
    BY <2>1, TotalStepsAssumption DEF Step
<1> QED
  BY <1>2, <1>3, <1>4, FlushExtends DEF TheJob!Think

LEMMA NextRefines ==
  ASSUME TypeInv, JobInv, [Next]_vars
  PROVE  [TheJob!Next]_(TheJob!jobVars)
<1>1. ASSUME NEW w \in Worker, FinalizeStep(w)
      PROVE  TheJob!Conclude
  <2>1. jobState.step <= TotalSteps /\ (jobState.step >= TotalSteps <=>
                                          jobState.step = TotalSteps)
    BY <1>1, FinalizeConcludes, TotalStepsAssumption DEF Step
  <2> QED
    BY <1>1, <2>1, FinalizeConcludes DEF TheJob!Conclude
<1>2. ASSUME NEW w \in Worker,
             FlushChunk(w) \/ FlushUnacknowledged(w) \/ Retry(w) \/ GiveUp(w)
      PROVE  UNCHANGED mindVars \/ (MidStep(w) /\ Flush(w))
  BY <1>2 DEF FlushChunk, FlushUnacknowledged, Retry, GiveUp, Salvage, MidStep
<1>3. ASSUME NEW w \in Worker,
             \/ Claim(w) \/ ReadState(w) \/ FindDone(w) \/ CountChunks(w)
             \/ Delta(w) \/ FlushRefused(w) \/ EndStream(w) \/ FlushFails(w)
             \/ StreamError(w) \/ Die(w) \/ Heartbeat(w) \/ LateClaim(w)
             \/ Start(w)
      PROVE  UNCHANGED mindVars
  BY <1>3 DEF Claim, ReadState, FindDone, CountChunks, Delta, FlushRefused,
              EndStream, FlushFails, StreamError, Die, Heartbeat, LateClaim, Start
<1>4. UNCHANGED mindVars => UNCHANGED TheJob!jobVars
  BY DEF mindVars, TheJob!jobVars
<1> QED
  BY <1>1, <1>2, <1>3, <1>4, FlushThinks
  DEF Next, MainThread, Misfortune, Tick, vars, TheJob!Next

(* While heartbeats and transactions are in time, as for NobodyIsEvicted,  *)
(* and owner strings tell processes apart, no word of the job is lost,     *)
(* repeated or mixed and no step is concluded twice or with less than its  *)
(* text, whatever fails or dies.                                           *)
THEOREM WorkersKeepTheJob ==
  ASSUME Timely, DistinctOwners
  PROVE  Spec => KeepsTheJob
<1>1. Init => TheJob!Init
  BY DEF Init, MindInit, TheJob!Init, Step
<1>2. TypeInv /\ JobInv /\ [Next]_vars => [TheJob!Next]_(TheJob!jobVars)
  BY NextRefines
<1> QED
  BY <1>1, <1>2, Typing, Writing, PTL DEF Spec, KeepsTheJob, TheJob!Spec

-----------------------------------------------------------------------------
(***************************************************************************)
(* The rows of output_chunks.  A row that is added is cut off at the end,  *)
(* and the text before it stays cut as it was.                             *)
(***************************************************************************)
LEMMA ConcatElements ==
  ASSUME NEW S, NEW s \in Seq(S), NEW t \in Seq(S)
  PROVE  /\ \A i \in 1 .. Len(s) : (s \o t)[i] = s[i]
         /\ \A i \in 1 .. Len(t) : (s \o t)[Len(s) + i] = t[i]
BY ConcatProperties, LenProperties

LEMMA SubSeqSame ==
  ASSUME NEW s \in Text, NEW t \in Text,
         NEW a \in Nat, NEW b \in Nat, b <= Len(s), b <= Len(t),
         \A i \in 1 .. b : s[i] = t[i]
  PROVE  SubSeq(s, a + 1, b) = SubSeq(t, a + 1, b)
<1>1. \A i \in a + 1 .. b : s[i] \in Nat /\ t[i] \in Nat
  BY LenProperties DEF Text
<1>2. /\ SubSeq(s, a + 1, b) \in Seq(Nat) /\ SubSeq(t, a + 1, b) \in Seq(Nat)
      /\ Len(SubSeq(s, a + 1, b)) = Len(SubSeq(t, a + 1, b))
      /\ Len(SubSeq(s, a + 1, b)) = IF a + 1 <= b THEN b - (a + 1) + 1 ELSE 0
      /\ \A i \in 1 .. b - (a + 1) + 1 :
           /\ SubSeq(s, a + 1, b)[i] = s[a + 1 + i - 1]
           /\ SubSeq(t, a + 1, b)[i] = t[a + 1 + i - 1]
  BY <1>1, SubSeqProperties
<1>3. \A i \in 1 .. Len(SubSeq(s, a + 1, b)) : SubSeq(s, a + 1, b)[i] = SubSeq(t, a + 1, b)[i]
  BY <1>2
<1> QED
  BY <1>2, <1>3, SeqEqual

LEMMA SubSeqEnd ==
  ASSUME NEW s \in Text, NEW t \in Text, NEW a \in Nat, Len(s) = a + Len(t),
         \A i \in 1 .. Len(t) : s[a + i] = t[i]
  PROVE  t = SubSeq(s, a + 1, Len(s))
<1>1. t \in Seq(Nat) /\ Len(t) \in Nat /\ \A i \in a + 1 .. Len(s) : s[i] \in Nat
  BY LenProperties DEF Text
<1>2. /\ SubSeq(s, a + 1, Len(s)) \in Seq(Nat)
      /\ Len(SubSeq(s, a + 1, Len(s))) = Len(t)
      /\ \A i \in 1 .. Len(t) : SubSeq(s, a + 1, Len(s))[i] = s[a + 1 + i - 1]
  BY <1>1, SubSeqProperties
<1>3. \A i \in 1 .. Len(t) : SubSeq(s, a + 1, Len(s))[i] = t[i]
  BY <1>1, <1>2
<1> QED
  BY <1>1, <1>2, <1>3, SeqEqual

LEMMA OneMoreCut ==
  ASSUME NEW n \in Nat, NEW rows, NEW more, NEW text \in Text, NEW part \in Text,
         DOMAIN rows = 0 .. n - 1, Spells(rows, text),
         DOMAIN more = 0 .. n, more[n] = part,
         \A q \in 0 .. n - 1 : more[q] = rows[q]
  PROVE  Spells(more, text \o part)
<1> DEFINE longer == text \o part
<1>1. /\ longer \in Text /\ Len(text) \in Nat /\ Len(part) \in Nat
      /\ Len(longer) = Len(text) + Len(part)
  BY ConcatLonger
<1>2. /\ \A i \in 1 .. Len(text) : longer[i] = text[i]
      /\ \A i \in 1 .. Len(part) : longer[Len(text) + i] = part[i]
  BY ConcatElements DEF Text
<1> HIDE DEF longer
<1>3. Cardinality(DOMAIN rows) = n /\ Cardinality(DOMAIN more) = n + 1
  BY FS_Interval
<1>4. PICK cut \in Cuts(n, Len(text)) :
        \A q \in 0 .. n - 1 : rows[q] = SubSeq(text, cut[q] + 1, cut[q + 1])
  BY <1>3 DEF Spells
<1>5. /\ cut \in [0 .. n -> 0 .. Len(text)] /\ cut[0] = 0 /\ cut[n] = Len(text)
      /\ \A q \in 0 .. n - 1 : cut[q] <= cut[q + 1]
  BY <1>4 DEF Cuts
<1> DEFINE new == [q \in 0 .. n + 1 |-> IF q <= n THEN cut[q] ELSE Len(longer)]
<1>6. new \in Cuts(n + 1, Len(longer))
  <2>1. new \in [0 .. n + 1 -> 0 .. Len(longer)]
    BY <1>1, <1>5
  <2>2. new[0] = 0 /\ new[n + 1] = Len(longer)
    BY <1>5
  <2>3. \A q \in 0 .. n : new[q] <= new[q + 1]
    BY <1>1, <1>5
  <2> QED
    BY <2>1, <2>2, <2>3 DEF Cuts
<1>7. /\ \A q \in 0 .. n : new[q] = cut[q] /\ cut[q] \in 0 .. Len(text)
      /\ new[n + 1] = Len(longer)
  BY <1>5
<1> HIDE DEF new
<1>8. ASSUME NEW q \in 0 .. n
      PROVE  more[q] = SubSeq(longer, new[q] + 1, new[q + 1])
  <2>1. CASE q < n
    <3> DEFINE a == cut[q]
               b == cut[q + 1]
    <3>1. q + 1 \in 0 .. n /\ q \in 0 .. n - 1
      BY <2>1
    <3>2. a \in Nat /\ b \in Nat /\ b <= Len(text) /\ new[q] = a /\ new[q + 1] = b
      BY <1>1, <1>7, <3>1
    <3>3. rows[q] = SubSeq(text, a + 1, b)
      BY <1>4, <3>1
    <3> HIDE DEF a, b
    <3>4. b <= Len(longer) /\ \A i \in 1 .. b : longer[i] = text[i]
      BY <1>1, <1>2, <3>2
    <3>5. SubSeq(longer, a + 1, b) = SubSeq(text, a + 1, b)
      BY <1>1, <3>2, <3>4, SubSeqSame
    <3> QED
      BY <3>1, <3>2, <3>3, <3>5
  <2>2. CASE q = n
    <3>1. new[q] = Len(text) /\ new[q + 1] = Len(longer)
      BY <1>5, <1>7, <2>2
    <3>2. part = SubSeq(longer, Len(text) + 1, Len(longer))
      BY <1>1, <1>2, SubSeqEnd
    <3> QED
      BY <2>2, <3>1, <3>2
  <2> QED
    BY <2>1, <2>2
<1> QED
  BY <1>3, <1>6, <1>8 DEF Spells, longer

LEMMA FlushSpells ==
  ASSUME TypeInv, SeqInv, JobInv, ChunksSpellText,
         NEW w \in Worker, Numbering(w), Flush(w)
  PROVE  ChunksSpellText'
<1> DEFINE q == frame[w].seq
           part == frame[w].buffer
           text == jobState.partial_output
<1>1. PICK s \in Step : s = jobState.step
  <2>1. MidStep(w) /\ frame[w].step = jobState.step
    BY SeqTypes, FlushExtends
  <2> QED
    BY <2>1, TextTypes
<1>2. /\ frame[w].step = s /\ q \in Nat /\ MidStep(w)
      /\ part \in Text /\ text \in Text
      /\ jobState'.step = s /\ jobState'.partial_output = text \o part
      /\ UNCHANGED events
  BY <1>1, SeqTypes, TextTypes, FlushExtends
<1>3. q = Cardinality(DOMAIN chunks[s]) /\ DOMAIN chunks[s] = 0 .. q - 1
  <2>1. PICK n \in Nat : n = Cardinality(DOMAIN chunks[s])
    BY SeqTypes DEF NextChunkSeq
  <2>2. DOMAIN chunks[s] = 0 .. n - 1 /\ q <= n
    BY <1>2, <2>1 DEF SeqInv, GapFree, NextChunkSeq
  <2>3. q \notin DOMAIN chunks[s]
    BY <1>2 DEF Flush, AppendChunk, ChunkExists
  <2> HIDE DEF q
  <2>4. q = n
    BY <1>2, <2>2, <2>3
  <2> QED
    BY <2>1, <2>2, <2>4
<1>4. /\ DOMAIN chunks'[s] = 0 .. q
      /\ chunks'[s][q] = part
      /\ \A r \in 0 .. q - 1 : chunks'[s][r] = chunks[s][r]
      /\ \A r \in Step : r # s => chunks'[r] = chunks[r]
  <2>1. DOMAIN chunks = Step
    BY DEF TypeInv, TypeOK, MindTypeOK
  <2>2. chunks' = [chunks EXCEPT ![s] =
           [r \in DOMAIN chunks[s] \cup {q} |-> IF r = q THEN part ELSE chunks[s][r]]]
    BY <1>2 DEF Flush, AppendChunk
  <2> HIDE DEF q, part
  <2>3. (0 .. q - 1) \cup {q} = 0 .. q /\ q \notin 0 .. q - 1
    BY <1>2
  <2>4. chunks'[s] = [r \in 0 .. q |-> IF r = q THEN part ELSE chunks[s][r]]
    BY <1>3, <2>1, <2>2, <2>3
  <2>5. \A r \in 0 .. q - 1 : r \in 0 .. q /\ r # q
    BY <1>2
  <2> QED
    BY <1>2, <2>1, <2>2, <2>4, <2>5
<1>5. Spells(chunks[s], text)
  BY <1>1 DEF ChunksSpellText, ShownText
<1>6. ShownText(s)' = text \o part
  BY <1>2 DEF ShownText
<1>7. \A r \in Step : r # s => ShownText(r)' = ShownText(r)
  BY <1>1, <1>2 DEF ShownText
<1> HIDE DEF q, part, text
<1>8. Spells(chunks'[s], text \o part)
  BY <1>2, <1>3, <1>4, <1>5, OneMoreCut
<1>9. \A r \in Step : r # s => Spells(chunks'[r], ShownText(r)')
  BY <1>4, <1>7 DEF ChunksSpellText
<1>10. \A r \in Step : Spells(chunks'[r], ShownText(r)')
  BY <1>6, <1>8, <1>9
<1> QED
  BY <1>10 DEF ChunksSpellText, Spells, Cuts, Step

LEMMA FinalizeSpells ==
  ASSUME TypeInv, JobInv, ChunksSpellText, NEW w \in Worker, FinalizeStep(w)
  PROVE  ChunksSpellText'
<1> DEFINE n == jobState.step
           text == jobState.partial_output
           finding == <<text>>
<1>1. /\ n \in Step /\ events' = [events EXCEPT ![n] = finding]
      /\ jobState'.step = n + 1 /\ jobState'.partial_output = <<>>
      /\ UNCHANGED chunks
  BY FinalizeConcludes
<1>2. finding[1] = text
  OBVIOUS
<1>3. events \in [Step -> Seq(Text)] /\ \A s \in Step : s \in Int
  BY TotalStepsAssumption DEF TypeInv, TypeOK, MindTypeOK, Step
<1>4. \A s \in Step : ShownText(s) = IF s = n THEN text
                                     ELSE IF s < n THEN events[s][1] ELSE <<>>
  BY DEF ShownText
<1>5. \A s \in Step : ShownText(s)' = IF s = n + 1 THEN <<>>
                                      ELSE IF s < n + 1 THEN events'[s][1] ELSE <<>>
  BY <1>1 DEF ShownText
<1> HIDE DEF n, text, finding
<1>6. \A s \in Step : ShownText(s)' = ShownText(s)
  BY <1>1, <1>2, <1>3, <1>4, <1>5
<1>7. \A s \in Step : Spells(chunks'[s], ShownText(s)')
  BY <1>1, <1>6 DEF ChunksSpellText
<1> QED
  BY <1>7 DEF ChunksSpellText, Spells, Cuts, Step

LEMMA NextSpells ==
  ASSUME TypeInv, SeqInv, JobInv, ChunksSpellText, [Next]_vars
  PROVE  ChunksSpellText'
<1>1. ASSUME UNCHANGED mindVars
      PROVE  ChunksSpellText'
  <2>1. UNCHANGED <<chunks, events, jobState>>
    BY <1>1 DEF mindVars
  <2> QED
    BY <2>1 DEF ChunksSpellText, Spells, Cuts, ShownText, Step
<1>2. ASSUME NEW w \in Worker,
             FlushChunk(w) \/ FlushUnacknowledged(w) \/ Retry(w) \/ GiveUp(w)
      PROVE  UNCHANGED mindVars \/ (Numbering(w) /\ Flush(w))
  BY <1>2 DEF FlushChunk, FlushUnacknowledged, Retry, GiveUp, Salvage, Numbering
<1>3. ASSUME NEW w \in Worker,
             \/ Claim(w) \/ ReadState(w) \/ FindDone(w) \/ CountChunks(w)
             \/ Delta(w) \/ FlushRefused(w) \/ EndStream(w) \/ FlushFails(w)
             \/ StreamError(w) \/ Die(w) \/ Heartbeat(w) \/ LateClaim(w)
             \/ Start(w)
      PROVE  UNCHANGED mindVars
  BY <1>3 DEF Claim, ReadState, FindDone, CountChunks, Delta, FlushRefused,
              EndStream, FlushFails, StreamError, Die, Heartbeat, LateClaim, Start
<1> QED
  BY <1>1, <1>2, <1>3, FlushSpells, FinalizeSpells
  DEF Next, MainThread, Misfortune, Tick, vars

LEMMA NumbersKept == Spec => []SeqInv
<1>1. TypeInv /\ SeqInv /\ [Next]_vars => SeqInv'
  BY NextSeqInv
<1> QED
  BY <1>1, InitSeqInv, Typing, PTL DEF Spec

(* Under the same two assumptions the rows of output_chunks, which the     *)
(* page shows, are the text of the job cut into pieces, step by step.      *)
THEOREM ChunksSpellTheText ==
  ASSUME Timely, DistinctOwners
  PROVE  Spec => []ChunksSpellText
<1>1. Init => ChunksSpellText
  <2> SUFFICES ASSUME Init, NEW s \in Step
               PROVE  Spells(chunks[s], ShownText(s))
    BY DEF ChunksSpellText
  <2>1. chunks[s] = <<>> /\ ShownText(s) = <<>>
    BY DEF Init, MindInit, ShownText, Step
  <2>2. DOMAIN chunks[s] = {} /\ Len(ShownText(s)) = 0
    BY <2>1
  <2> DEFINE cut == [q \in 0 .. 0 |-> 0]
  <2>3. cut \in Cuts(0, 0)
    BY DEF Cuts
  <2> QED
    BY <2>2, <2>3, FS_EmptySet DEF Spells
<1>2. TypeInv /\ SeqInv /\ JobInv /\ ChunksSpellText /\ [Next]_vars
        => ChunksSpellText'
  BY NextSpells
<1> QED
  BY <1>1, <1>2, NumbersKept, Typing, Writing, PTL DEF Spec

-----------------------------------------------------------------------------
(***************************************************************************)
(* The number a process counted and the text it read.  They were read in   *)
(* two transactions, but the number is still the next one whenever the     *)
(* text is that of the job; only after a flush without an acknowledgement  *)
(* is the number taken, and then by the process's own buffer.              *)
(***************************************************************************)
Counted(w) == pc[w] \in {"stream", "rescue", "finalize"}

Fit(w) ==
  /\ 0 .. frame[w].seq - 1 \subseteq DOMAIN chunks[frame[w].step]
  /\ Spells(Numbered(w), Flushed(w))

UpToDate(w) ==
  /\ frame[w].full_text = jobState.partial_output \o frame[w].buffer
  /\ \A s \in Step : s = frame[w].step => frame[w].seq = NextChunkSeq(s)

NumberInv ==
  \A w \in Worker : Counted(w) =>
    UpToDate(w) \/ (pc[w] = "rescue" /\ frame[w].buffer # <<>> /\ Fit(w))

LEMMA UpToDateFits ==
  ASSUME TypeInv, GapFree, JobInv, ChunksSpellText,
         NEW w \in Worker, Counted(w), UpToDate(w)
  PROVE  Fit(w)
<1> DEFINE part == jobState.partial_output
           buffer == frame[w].buffer
           text == frame[w].full_text
<1>1. PICK s \in Step : s = frame[w].step /\ s = jobState.step
  BY TextTypes DEF JobInv, InHand, MidStep, Counted
<1>2. PICK n \in Nat : n = Cardinality(DOMAIN chunks[s])
  BY SeqTypes DEF NextChunkSeq
<1>3. DOMAIN chunks[s] = 0 .. n - 1 /\ frame[w].seq = n
  BY <1>1, <1>2 DEF GapFree, UpToDate, NextChunkSeq
<1>4. part \in Text /\ buffer \in Text /\ text \in Text /\ text = part \o buffer
  BY TextTypes DEF UpToDate
<1> HIDE DEF part, buffer, text
<1>5. /\ Len(part) \in Nat /\ Len(buffer) \in Nat
      /\ Len(text) = Len(part) + Len(buffer)
      /\ \A i \in 1 .. Len(part) : text[i] = part[i]
  <2>1. \A i \in 1 .. Len(part) : (part \o buffer)[i] = part[i]
    BY <1>4, ConcatElements DEF Text
  <2> QED
    BY <1>4, <2>1, ConcatLonger
<1>6. SubSeq(text, 1, Len(text) - Len(buffer)) = part
  <2>1. SubSeq(text, 0 + 1, Len(part)) = SubSeq(part, 0 + 1, Len(part))
    BY <1>4, <1>5, SubSeqSame
  <2>2. part = SubSeq(part, 0 + 1, Len(part))
    BY <1>4, <1>5, SubSeqEnd
  <2>3. Len(text) - Len(buffer) = Len(part) /\ 0 + 1 = 1
    BY <1>5
  <2> QED
    BY <2>1, <2>2, <2>3
<1>7. Flushed(w) = part
  BY <1>6 DEF Flushed, text, buffer
<1>8. Spells(chunks[s], part)
  BY <1>1 DEF ChunksSpellText, ShownText, part
<1>9. /\ DOMAIN Numbered(w) = DOMAIN chunks[s]
      /\ \A q \in DOMAIN chunks[s] : Numbered(w)[q] = chunks[s][q]
  BY <1>1, <1>3 DEF Numbered
<1>10. Spells(Numbered(w), part)
  BY <1>8, <1>9 DEF Spells
<1> QED
  BY <1>1, <1>3, <1>7, <1>10 DEF Fit

(* The text of a process that is not about to fail is that of the job.     *)
LEMMA TextInHand ==
  ASSUME JobInv, NEW w \in Worker, pc[w] \in {"stream", "finalize"}
  PROVE  frame[w].full_text = jobState.partial_output \o frame[w].buffer
BY DEF JobInv, InHand, MidStep

LEMMA NextNumberInv ==
  ASSUME TypeInv, SeqInv, ExclusiveStep, JobInv, ChunksSpellText, NumberInv,
         [Next]_vars
  PROVE  NumberInv'
<1> DEFINE Good(v) == UpToDate(v) \/ (pc[v] = "rescue" /\ frame[v].buffer # <<>> /\ Fit(v))
<1>1. TypeInv' /\ JobInv'
  BY NextTypeInv, NextJobInv
<1>2. ASSUME NEW w \in Worker, InStep(w), Counted(w)' => Good(w)' PROVE NumberInv'
  BY <1>2, Alone DEF NumberInv, Counted, MidStep
<1>3. ASSUME NEW w \in Worker, CountChunks(w) \/ Delta(w) \/ (Retry(w) /\ UNCHANGED mindVars)
      PROVE  NumberInv'
  <2>1. InStep(w) /\ pc'[w] = "stream" /\ UNCHANGED chunks
    BY <1>3 DEF CountChunks, Delta, Retry, GoTo, InStep, TypeInv, TypeOK, WorkerTypeOK,
                mindVars
  <2>2. (frame[w].full_text = jobState.partial_output \o frame[w].buffer)'
    BY <1>1, <2>1, TextInHand DEF JobInv, InHand, MidStep
  <2>3. frame'[w].step = frame[w].step
    BY <1>3, StepLocals
  <2>4. ASSUME NEW s \in Step, s = frame[w].step
        PROVE  frame'[w].seq = NextChunkSeq(s)
    <3>1. CASE CountChunks(w)
      BY <2>4, <3>1, StepLocals
    <3>2. CASE Delta(w)
      BY <2>4, <3>2, StepLocals DEF NumberInv, Counted, UpToDate, Delta
    <3>3. CASE Retry(w) /\ UNCHANGED mindVars
      <4>1. frame[w].buffer = <<>> /\ frame'[w].seq = frame[w].seq
        <5>1. ASSUME Flush(w) PROVE FALSE
          <6>1. /\ jobState'.partial_output = frame[w].full_text
                /\ Len(frame[w].full_text) > Len(jobState.partial_output)
            BY <3>3, <5>1, FlushExtends DEF Retry, MidStep
          <6>2. jobState' = jobState
            BY <3>3 DEF mindVars
          <6> QED
            BY <6>1, <6>2, TextTypes
        <5> QED
          BY <3>3, <5>1, StepLocals DEF Retry, Salvage
      <4> QED
        BY <2>4, <3>3, <4>1 DEF NumberInv, Counted, UpToDate, Retry
    <3> QED
      BY <1>3, <3>1, <3>2, <3>3
  <2>5. UpToDate(w)'
    BY <2>1, <2>2, <2>3, <2>4 DEF UpToDate, NextChunkSeq, Step
  <2> QED
    BY <1>2, <2>1, <2>5
<1>4. ASSUME NEW w \in Worker, FlushChunk(w) \/ (Retry(w) /\ Flush(w))
      PROVE  NumberInv'
  <2>1. InStep(w) /\ Numbering(w) /\ Flush(w) /\ pc'[w] = "stream"
    BY <1>4 DEF FlushChunk, Retry, GoTo, InStep, Numbering, TypeInv, TypeOK, WorkerTypeOK
  <2>2. (frame[w].full_text = jobState.partial_output \o frame[w].buffer)'
    BY <1>1, <2>1 DEF JobInv, InHand, MidStep
  <2>3. frame'[w].step = frame[w].step /\ frame'[w].seq = frame[w].seq + 1
    BY <1>4, <2>1, StepLocals DEF Flush
  <2>4. \A s \in Step : s = frame[w].step => NextChunkSeq(s)' = frame[w].seq + 1
    BY <2>1, AppendGapFree
  <2>5. UpToDate(w)'
    BY <2>2, <2>3, <2>4 DEF UpToDate, Step
  <2> QED
    BY <1>2, <2>1, <2>5
<1>5. ASSUME NEW w \in Worker,
             FlushRefused(w) \/ FlushFails(w) \/ StreamError(w) \/ EndStream(w)
      PROVE  NumberInv'
  <2>1. UNCHANGED <<mindVars, frame>> /\ pc[w] = "stream" /\ InStep(w)
    BY <1>5 DEF FlushRefused, FlushFails, StreamError, EndStream, InStep
  <2>2. UpToDate(w)
    BY <2>1 DEF NumberInv, Counted
  <2>3. UpToDate(w)'
    BY <2>1, <2>2 DEF UpToDate, NextChunkSeq, Step, mindVars
  <2> QED
    BY <1>2, <2>1, <2>3
<1>6. ASSUME NEW w \in Worker, FlushUnacknowledged(w)
      PROVE  NumberInv'
  <2>1. /\ Flush(w) /\ pc[w] = "stream" /\ pc'[w] = "rescue" /\ UNCHANGED frame
        /\ InStep(w) /\ Counted(w) /\ Numbering(w)
    BY <1>6 DEF FlushUnacknowledged, GoTo, InStep, Counted, Numbering, TypeInv, TypeOK,
                WorkerTypeOK
  <2>2. Fit(w)
    BY <2>1, UpToDateFits DEF NumberInv, SeqInv
  <2> DEFINE s == frame[w].step
             q == frame[w].seq
             part == frame[w].buffer
  <2>3. s \in Step /\ q \in Nat /\ part # <<>>
    BY <2>1, SeqTypes DEF Flush
  <2>4. DOMAIN chunks = Step /\ q \notin DOMAIN chunks[s]
        /\ chunks' = [chunks EXCEPT ![s] =
             [r \in DOMAIN chunks[s] \cup {q} |-> IF r = q THEN part ELSE chunks[s][r]]]
    BY <2>1 DEF Flush, AppendChunk, ChunkExists, TypeInv, TypeOK, MindTypeOK
  <2>5. 0 .. q - 1 \subseteq DOMAIN chunks[s]
    BY <2>2 DEF Fit
  <2> HIDE DEF s, q, part
  <2>6. /\ 0 .. q - 1 \subseteq DOMAIN chunks'[s]
        /\ \A r \in 0 .. q - 1 : chunks'[s][r] = chunks[s][r]
    BY <2>3, <2>4, <2>5
  <2>7. Numbered(w)' = Numbered(w) /\ Flushed(w)' = Flushed(w)
    BY <2>1, <2>6 DEF Numbered, Flushed, s, q
  <2>8. Fit(w)'
    BY <2>1, <2>2, <2>6, <2>7 DEF Fit, Spells, Cuts, s, q
  <2> QED
    BY <1>2, <2>1, <2>3, <2>8 DEF part
<1>7. ASSUME NEW w \in Worker, InStep(w), ~Counted(w)' PROVE NumberInv'
  BY <1>2, <1>7
<1>8. ASSUME NEW w \in Worker,
             ReadState(w) \/ FindDone(w) \/ FinalizeStep(w) \/ GiveUp(w)
      PROVE  InStep(w) /\ ~Counted(w)'
  BY <1>8 DEF ReadState, FindDone, FinalizeStep, GiveUp, LeaveStep, Vanish, GoTo,
              InStep, Counted, TypeInv, TypeOK, WorkerTypeOK
<1>9. ASSUME UNCHANGED mindVars,
             \A v \in Worker : Counted(v)' =>
               Counted(v) /\ pc'[v] = pc[v] /\ frame'[v] = frame[v]
      PROVE  NumberInv'
  <2>1. ASSUME NEW v \in Worker, Counted(v)' PROVE Good(v)'
    <3>1. Good(v) /\ pc'[v] = pc[v] /\ frame'[v] = frame[v]
      BY <1>9, <2>1 DEF NumberInv
    <3>2. UNCHANGED <<chunks, jobState>>
      BY <1>9 DEF mindVars
    <3>3. UpToDate(v) => UpToDate(v)'
      BY <3>1, <3>2 DEF UpToDate, NextChunkSeq, Step
    <3>4. Fit(v) => Fit(v)'
      <4>1. Numbered(v)' = Numbered(v) /\ Flushed(v)' = Flushed(v)
        BY <3>1, <3>2 DEF Numbered, Flushed
      <4> QED
        BY <3>1, <3>2, <4>1 DEF Fit, Spells, Cuts
    <3> QED
      BY <3>1, <3>3, <3>4
  <2> QED
    BY <2>1 DEF NumberInv
<1>10. ASSUME NEW w \in Worker, Claim(w) \/ Die(w) \/ Start(w)
       PROVE  NumberInv'
  <2>1. \A v \in Worker : Counted(v)' =>
          Counted(v) /\ pc'[v] = pc[v] /\ frame'[v] = frame[v]
    BY <1>10 DEF Claim, Die, Start, Vanish, GoTo, Counted, TypeInv, TypeOK, WorkerTypeOK
  <2>2. UNCHANGED mindVars
    BY <1>10 DEF Claim, Die, Start
  <2> QED
    BY <1>9, <2>1, <2>2
<1>11. ASSUME \/ Tick \/ UNCHANGED vars
              \/ \E w \in Worker : Heartbeat(w) \/ LateClaim(w)
       PROVE  NumberInv'
  BY <1>9, <1>11 DEF Tick, Heartbeat, LateClaim, vars, threadVars, Counted
<1>12. ASSUME NEW w \in Worker, Retry(w) PROVE Flush(w) \/ UNCHANGED mindVars
  BY <1>12 DEF Retry, Salvage
<1> QED
  BY <1>3, <1>4, <1>5, <1>6, <1>7, <1>8, <1>10, <1>11, <1>12
  DEF Next, MainThread, Misfortune

(* Under the same two assumptions the number that next_chunk_seq returned  *)
(* goes with the text that read_state returned, although the two calls are *)
(* two transactions: the chunks below the number are the text the process  *)
(* has, less what it has not flushed.                                      *)
THEOREM NumbersFitTexts ==
  ASSUME Timely, DistinctOwners
  PROVE  Spec => []NumberFitsText
<1>1. Init => NumberInv
  BY DEF Init, NumberInv, Counted
<1>2. TypeInv /\ SeqInv /\ ExclusiveStep /\ JobInv /\ ChunksSpellText /\ NumberInv
        /\ [Next]_vars => NumberInv'
  BY NextNumberInv
<1>3. TypeInv /\ SeqInv /\ JobInv /\ ChunksSpellText /\ NumberInv => NumberFitsText
  BY UpToDateFits DEF SeqInv, NumberInv, NumberFitsText, Fit, Counted
<1> QED
  BY <1>1, <1>2, <1>3, Typing, NumbersKept, StepsAreExclusive, Writing,
     ChunksSpellTheText, PTL DEF Spec
=============================================================================
