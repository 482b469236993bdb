----------------------------- MODULE PageProof ------------------------------
(***************************************************************************)
(* What Page.tla and LeaseFeed.tla keep for every number of owners, events *)
(* and requests under way, proved with TLAPS.                              *)
(***************************************************************************)
EXTENDS Page, FiniteSetTheorems, SequenceTheorems, TLAPS

(***************************************************************************)
(* The feed of the lease.  A poll reads the owner of every row it finds,   *)
(* so that the rows written since the last poll must have one.             *)
(***************************************************************************)
FeedInv ==
  /\ FeedTypeOK
  /\ \A j \in fresh : holder[j] # Nobody

LEMMA NoRows ==
  /\ <<>> \in Seq(Owner)
  /\ Len(<<>>) <= MaxPending /\ Len(<<>>) <= MaxQueue
  BY FeedBounds

LEMMA AfterTypes ==
  ASSUME NEW p, NEW o \in Owner
  PROVE  After(p, o) \in Seq(Owner)
  BY DEF After

LEMMA ForwardTypes ==
  ASSUME FeedTypeOK, NEW rows \in Seq(Owner), NEW o \in Owner, Forward(rows, o)
  PROVE  /\ lastOwner' \in Owner \cup {Nobody}
         /\ queue' \in Seq(Owner) /\ Len(queue') <= MaxQueue
<1>1. queue \o rows \in Seq(Owner)
  BY ConcatProperties DEF FeedTypeOK
<1> QED
  BY <1>1 DEF Forward, FeedTypeOK

LEMMA FaultTypes ==
  ASSUME FeedTypeOK, Fault
  PROVE  faults' \in 0 .. MaxFaults
  BY FeedBounds DEF FeedTypeOK, Fault

LEMMA WriteLeaseTypes ==
  ASSUME FeedInv, NEW o \in Owner, WriteLease(o)
  PROVE  /\ holder' \in [Job -> Owner \cup {Nobody}]
         /\ pending' \in [Job -> Seq(Owner)]
         /\ \A j \in Job : Len(pending'[j]) <= MaxPending
         /\ fresh' \subseteq Job
         /\ \A j \in fresh' : holder'[j] # Nobody
<1> DEFINE more == Append(pending.this, o)
<1> USE DEF FeedInv, FeedTypeOK
<1>1. "this" \in Job
  BY DEF Job
<1>2. more \in Seq(Owner) /\ Len(more) = Len(pending.this) + 1
  BY <1>1, AppendProperties
<1>3. Len(pending.this) \in Nat
  BY <1>1, LenProperties
<1>4. pending' = [pending EXCEPT !.this = more] \/ pending' = pending
  BY DEF WriteLease
<1> HIDE DEF more
<1>5. /\ pending' \in [Job -> Seq(Owner)]
      /\ \A j \in Job : Len(pending'[j]) <= MaxPending
  <2>1. Len(more) <= MaxPending
    BY <1>2, <1>3, FeedBounds DEF WriteLease
  <2>2. \A j \in Job : pending'[j] = more \/ pending'[j] = pending[j]
    BY <1>4
  <2>3. DOMAIN pending' = Job /\ pending' = [j \in Job |-> pending'[j]]
    BY <1>4
  <2> QED
    BY <1>2, <2>1, <2>2, <2>3
<1>6. holder' \in [Job -> Owner \cup {Nobody}] /\ fresh' \subseteq Job
  BY <1>1 DEF WriteLease
<1>7. \A j \in fresh' : holder'[j] # Nobody
  BY <1>1, NobodyAssumption DEF WriteLease
<1> QED
  BY <1>5, <1>6, <1>7

(* The steps of LeaseFeed that Page takes as they are.                     *)
FeedStep ==
  \/ \E o \in Owner : Claim(o)
  \/ Renew \/ Finish \/ StartPause \/ NewJob
  \/ Stream \/ (\E j \in Job : EmitAgain(j))
  \/ FallBack \/ PollFails \/ Restart \/ Connect \/ Disconnect

LEMMA EmitTypes ==
  ASSUME FeedInv, NEW j \in Job, Emit(j)
  PROVE  FeedInv'
<1> USE DEF FeedInv
<1> DEFINE o == Head(pending[j])
           rest == Tail(pending[j])
<1>1. o \in Owner /\ rest \in Seq(Owner) /\ Len(rest) <= MaxPending
  <2>1. pending[j] \in Seq(Owner) /\ pending[j] # <<>> /\ Len(pending[j]) <= MaxPending
    BY DEF Emit, FeedTypeOK
  <2>2. Len(rest) = Len(pending[j]) - 1
    BY <2>1, HeadTailProperties
  <2> QED
    BY <2>1, <2>2, HeadTailProperties, LenProperties, FeedBounds
<1>2. Forward(After(lastOwner, o), o) /\ pending' = [pending EXCEPT ![j] = rest]
  BY DEF Emit
<1>3. /\ lastOwner' \in Owner \cup {Nobody}
      /\ queue' \in Seq(Owner) /\ Len(queue') <= MaxQueue
  <2> HIDE DEF o, rest
  <2> QED
    BY <1>1, <1>2, AfterTypes, ForwardTypes
<1>4. /\ pending' \in [Job -> Seq(Owner)]
      /\ \A i \in Job : Len(pending'[i]) <= MaxPending
  <2> HIDE DEF o, rest
  <2> QED
    BY <1>1, <1>2 DEF FeedTypeOK
<1> QED
  BY <1>3, <1>4 DEF Emit, FeedTypeOK, demoVars

LEMMA PollTypes ==
  ASSUME FeedInv, Poll
  PROVE  FeedInv'
<1> USE DEF FeedInv
<1>1. \A j \in Found : j \in Job /\ holder[j] \in Owner
  BY DEF Found, Rows, FeedTypeOK
<1>2. /\ lastOwner' \in Owner \cup {Nobody}
      /\ queue' \in Seq(Owner) /\ Len(queue') <= MaxQueue
  <2>1. CASE Found = Job /\ Forward(After(lastOwner, holder.last)
                                      \o After(holder.last, holder.this), holder.this)
    <3>1. holder.last \in Owner /\ holder.this \in Owner
      BY <1>1, <2>1 DEF Job
    <3>2. /\ After(lastOwner, holder.last) \in Seq(Owner)
          /\ After(holder.last, holder.this) \in Seq(Owner)
      BY <3>1, AfterTypes
    <3>3. After(lastOwner, holder.last) \o After(holder.last, holder.this) \in Seq(Owner)
      BY <3>2, ConcatProperties
    <3> QED
      BY <2>1, <3>1, <3>3, ForwardTypes
  <2>2. ASSUME NEW j \in Job, Found = {j}, Forward(After(lastOwner, holder[j]), holder[j])
        PROVE  /\ lastOwner' \in Owner \cup {Nobody}
               /\ queue' \in Seq(Owner) /\ Len(queue') <= MaxQueue
    BY <1>1, <2>2, AfterTypes, ForwardTypes
  <2> QED
    BY <2>1, <2>2 DEF Poll
<1> QED
  BY <1>2 DEF Poll, FeedTypeOK, demoVars

LEMMA FeedTypes ==
  ASSUME FeedInv, FeedStep
  PROVE  FeedInv'
<1> USE DEF FeedInv
<1>1. ASSUME NEW o \in Owner, Claim(o)
      PROVE  FeedInv'
  BY <1>1, WriteLeaseTypes DEF Claim, FeedTypeOK, threadVars
<1>2. CASE Renew
  <2>1. holder.this \in Owner
    BY <1>2 DEF Renew, FeedTypeOK, Job
  <2> QED
    BY <1>2, <2>1, WriteLeaseTypes DEF Renew, FeedTypeOK, demoVars, threadVars
<1>3. CASE Finish \/ StartPause
  BY <1>3 DEF Finish, StartPause, FeedTypeOK, rowVars, threadVars
<1>4. CASE NewJob
  <2>1. /\ holder.this \in Owner \cup {Nobody}
        /\ pending.this \in Seq(Owner) /\ Len(pending.this) <= MaxPending
    BY DEF FeedTypeOK, Job
  <2>2. holder' \in [Job -> Owner \cup {Nobody}]
    BY <1>4, <2>1 DEF NewJob, Job
  <2>3. /\ pending' \in [Job -> Seq(Owner)]
        /\ \A j \in Job : Len(pending'[j]) <= MaxPending
    <3> DEFINE seen == pending.this
    <3>1. pending' = [last |-> seen, this |-> <<>>]
      BY <1>4 DEF NewJob
    <3> HIDE DEF seen
    <3>2. /\ pending'["last"] = seen /\ pending'["this"] = <<>>
          /\ DOMAIN pending' = Job
          /\ pending' = [j \in Job |-> pending'[j]]
      BY <3>1 DEF Job
    <3>3. \A j \in Job : pending'[j] \in Seq(Owner) /\ Len(pending'[j]) <= MaxPending
      BY <2>1, <3>2, NoRows DEF Job, seen
    <3> QED
      BY <3>2, <3>3
  <2>4. fresh' \subseteq Job /\ \A j \in fresh' : holder'[j] # Nobody
    BY <1>4 DEF NewJob, Job
  <2> QED
    BY <1>4, <2>2, <2>3, <2>4 DEF NewJob, FeedTypeOK, threadVars
<1>5. CASE Stream
  BY <1>5, EmitTypes, PollTypes DEF Stream
<1>10. ASSUME NEW j \in Job, EmitAgain(j)
       PROVE  FeedInv'
  <2>1. /\ pending' \in [Job -> Seq(Owner)]
        /\ \A i \in Job : Len(pending'[i]) <= MaxPending
    BY <1>10, FeedBounds DEF EmitAgain, FeedTypeOK
  <2> QED
    BY <1>10, <2>1, FaultTypes DEF EmitAgain, FeedTypeOK, demoVars, threadVars
<1>6. CASE FallBack \/ PollFails
  <2>1. /\ pending' \in [Job -> Seq(Owner)]
        /\ \A j \in Job : Len(pending'[j]) <= MaxPending
    <3>1. pending' = [j \in Job |-> <<>>] \/ pending' = pending
      BY <1>6 DEF FallBack, PollFails
    <3> QED
      BY <3>1, NoRows DEF FeedTypeOK
  <2>2. Fault
    BY <1>6 DEF FallBack, PollFails
  <2> QED
    BY <1>6, <2>1, <2>2, FaultTypes DEF FallBack, PollFails, FeedTypeOK, demoVars
<1>7. CASE Restart
  <2>1. /\ pending' \in [Job -> Seq(Owner)]
        /\ \A j \in Job : Len(pending'[j]) <= MaxPending
    <3>1. \A j \in Job : holder[j] # Nobody =>
            <<holder[j]>> \in Seq(Owner) /\ Len(<<holder[j]>>) <= MaxPending
      BY FeedBounds DEF FeedTypeOK
    <3> QED
      BY <1>7, <3>1, NoRows DEF Restart
  <2>2. faults' \in 0 .. MaxFaults
    BY <1>7, FaultTypes DEF Restart
  <2>3. queue' \in Seq(Owner) /\ Len(queue') <= MaxQueue
    BY <1>7, NoRows DEF Restart
  <2> QED
    BY <1>7, <2>1, <2>2, <2>3 DEF Restart, FeedTypeOK, demoVars
<1>8. CASE Connect
  BY <1>8 DEF Connect, FeedTypeOK, demoVars, rowVars, threadVars
<1>9. CASE Disconnect
  BY <1>9, FaultTypes, NoRows
  DEF Disconnect, FeedTypeOK, demoVars, rowVars, threadVars
<1> QED
  BY <1>1, <1>2, <1>3, <1>4, <1>5, <1>6, <1>7, <1>8, <1>9, <1>10 DEF FeedStep

-----------------------------------------------------------------------------
(***************************************************************************)
(* The page.                                                               *)
(***************************************************************************)
PageInv ==
  /\ TypeOK
  /\ FeedInv
  /\ IsFiniteSet(statuses)

(* The requests of S and k more are within the bound.                      *)
StatusesOK(S, k) ==
  /\ S \subseteq Reading \cup Answer
  /\ IsFiniteSet(S) /\ Cardinality(S) + k <= MaxRequests

(* One request is over and at most one answer is under way for it.         *)
LEMMA AnswerOne ==
  ASSUME NEW k \in Nat, StatusesOK(statuses, k), NEW s \in statuses,
         NEW T \in SUBSET (Reading \cup Answer), T = {} \/ \E t : T = {t}
  PROVE  StatusesOK((statuses \ {s}) \cup T, k)
<1> DEFINE R == statuses \ {s}
<1>1. IsFiniteSet(R) /\ Cardinality(R) = Cardinality(statuses) - 1
  BY FS_RemoveElement DEF StatusesOK
<1>2. Cardinality(statuses) \in Nat
  BY FS_CardinalityType DEF StatusesOK
<1>3. IsFiniteSet(R \cup T) /\ Cardinality(R \cup T) <= Cardinality(statuses)
  <2>1. CASE T = {}
    <3>1. R \cup T = R
      BY <2>1
    <3> QED
      BY <1>1, <1>2, <3>1
  <2>2. ASSUME NEW t, T = {t}
        PROVE  IsFiniteSet(R \cup T) /\ Cardinality(R \cup T) <= Cardinality(statuses)
    BY <1>1, <1>2, <2>2, FS_AddElement
  <2> QED
    BY <2>1, <2>2
<1>4. Cardinality(R \cup T) \in Nat
  BY <1>3, FS_CardinalityType
<1> QED
  BY <1>2, <1>3, <1>4, OpenAssumption DEF StatusesOK

LEMMA OpenTypes ==
  ASSUME NEW k \in Nat, StatusesOK(statuses, k + 1), NEW s \in Reading, Open(s)
  PROVE  StatusesOK(statuses', k)
<1>1. /\ IsFiniteSet(statuses') /\ Cardinality(statuses') \in Nat
      /\ Cardinality(statuses) \in Nat
      /\ Cardinality(statuses') <= Cardinality(statuses) + 1
  BY FS_AddElement, FS_CardinalityType DEF StatusesOK, Open
<1> QED
  BY <1>1, OpenAssumption DEF StatusesOK, Open

LEMMA ToldTypes ==
  ASSUME FeedInv, NEW j \in Job \cup {NoJob}
  PROVE  /\ Told(j) \in SUBSET (Reading \cup Answer)
         /\ Told(j) = {} \/ \E t : Told(j) = {t}
<1>1. CASE j = NoJob
  BY <1>1 DEF Told, Answer
<1>2. CASE j # NoJob
  <2>1. holder[j] \in Owner \cup {Nobody}
    BY <1>2 DEF FeedInv, FeedTypeOK
  <2>2. CASE holder[j] = Nobody
    BY <1>2, <2>2 DEF Told
  <2>3. CASE holder[j] # Nobody
    <3>1. Told(j) = {[says |-> holder[j]]}
      BY <1>2, <2>3 DEF Told
    <3> QED
      BY <2>1, <2>3, <3>1 DEF Answer
  <2> QED
    BY <2>2, <2>3
<1> QED
  BY <1>1, <1>2

LEMMA DemoJobIdType == [job |-> DemoJobId] \in Reading
  BY DEF DemoJobId, Reading, Job

LEMMA InitPageInv == Init => PageInv
<1> SUFFICES ASSUME Init PROVE PageInv
  OBVIOUS
<1> USE DEF Init, FeedInit
<1>1. FeedTypeOK /\ fresh = {}
  <2>1. /\ pending \in [Job -> Seq(Owner)]
        /\ \A j \in Job : Len(pending[j]) <= MaxPending
    BY NoRows
  <2>2. holder \in [Job -> Owner \cup {Nobody}] /\ queue \in Seq(Owner)
    OBVIOUS
  <2>3. Len(queue) <= MaxQueue /\ faults \in 0 .. MaxFaults
    BY NoRows, FeedBounds
  <2> QED
    BY <2>1, <2>2, <2>3 DEF FeedTypeOK
<1>2. IsFiniteSet(statuses) /\ Cardinality(statuses) = 0
  BY FS_EmptySet
<1>3. Cardinality(statuses) + kills <= MaxRequests /\ kills \in 0 .. MaxKills
  BY <1>2, OpenAssumption
<1> QED
  BY <1>1, <1>2, <1>3 DEF PageInv, FeedInv, TypeOK

LEMMA NextPageInv == PageInv /\ [Next]_vars => PageInv'
<1> SUFFICES ASSUME PageInv, [Next]_vars PROVE PageInv'
  OBVIOUS
<1>1. StatusesOK(statuses, kills) /\ kills \in Nat
  BY OpenAssumption DEF PageInv, TypeOK, StatusesOK
<1>2. ASSUME FeedInv', StatusesOK(statuses', kills'),
             active' \in Owner \cup {Nobody}, resting' \in BOOLEAN,
             enabled' \in BOOLEAN, cooling' \in BOOLEAN, kills' \in 0 .. MaxKills
      PROVE  PageInv'
  BY <1>2 DEF PageInv, FeedInv, TypeOK, StatusesOK
<1>3. ASSUME UNCHANGED feedVars
      PROVE  FeedInv'
  BY <1>3 DEF PageInv, FeedInv, FeedTypeOK, feedVars, demoVars, rowVars, threadVars
<1>4. ASSUME NEW o \in Owner, SetActive(o)
      PROVE  /\ active' \in Owner \cup {Nobody} /\ resting' \in BOOLEAN
             /\ enabled' \in BOOLEAN
  BY <1>4 DEF SetActive
<1>5. CASE Elsewhere
  <2>1. FeedInv' /\ UNCHANGED <<active, resting, enabled, cooling, statuses, kills>>
    BY <1>5, FeedTypes DEF Elsewhere, FeedStep, PageInv, pageVars
  <2> QED
    BY <1>1, <1>2, <2>1 DEF PageInv, TypeOK
<1>6. CASE NextJob
  <2>1. FeedInv' /\ UNCHANGED <<active, resting, enabled, cooling, kills>>
    BY <1>6, FeedTypes DEF NextJob, FeedStep, PageInv
  <2>2. CASE [job |-> "this"] \in statuses
    <3>1. statuses' = (statuses \ {[job |-> "this"]}) \cup {[job |-> "last"]}
      BY <1>6, <2>2 DEF NextJob
    <3>2. [job |-> "last"] \in Reading
      BY DEF Reading, Job
    <3>3. StatusesOK(statuses', kills')
      BY <1>1, <2>1, <2>2, <3>1, <3>2, AnswerOne
    <3> QED
      BY <1>2, <2>1, <3>3 DEF PageInv, TypeOK
  <2>3. CASE [job |-> "this"] \notin statuses
    <3>1. statuses' = statuses
      BY <1>6, <2>3 DEF NextJob
    <3> QED
      BY <1>1, <1>2, <2>1, <3>1 DEF PageInv, TypeOK
  <2> QED
    BY <2>2, <2>3
<1>7. CASE LoadStatus
  <2>1. FeedInv' /\ UNCHANGED <<active, resting, enabled, cooling, kills>>
    BY <1>3, <1>7 DEF LoadStatus
  <2>2. StatusesOK(statuses', kills')
    <3>1. StatusesOK(statuses, kills + 1)
      <4>1. Cardinality(statuses) \in Nat
        BY <1>1, FS_CardinalityType DEF StatusesOK
      <4> QED
        BY <1>1, <1>7, <4>1, OpenAssumption DEF LoadStatus, Room, StatusesOK
    <3> QED
      BY <1>1, <1>7, <2>1, <3>1, OpenTypes, DemoJobIdType DEF LoadStatus
  <2> QED
    BY <1>2, <2>1, <2>2 DEF PageInv, TypeOK
<1>8. ASSUME NEW s \in statuses, ReadStatus(s)
      PROVE  PageInv'
  <2>1. FeedInv' /\ UNCHANGED <<active, resting, enabled, cooling, kills>>
    BY <1>3, <1>8 DEF ReadStatus
  <2>2. s.job \in Job \cup {NoJob}
    BY <1>8 DEF ReadStatus, Reading
  <2>3. StatusesOK(statuses', kills')
    BY <1>1, <1>8, <2>2, AnswerOne, ToldTypes DEF ReadStatus, PageInv
  <2> QED
    BY <1>2, <2>1, <2>3 DEF PageInv, TypeOK
<1>9. ASSUME NEW s \in statuses, ShowStatus(s)
      PROVE  PageInv'
  <2>1. FeedInv' /\ UNCHANGED <<cooling, kills>>
    BY <1>3, <1>9 DEF ShowStatus
  <2>2. /\ active' \in Owner \cup {Nobody} /\ resting' \in BOOLEAN
        /\ enabled' \in BOOLEAN
    BY <1>4, <1>9 DEF ShowStatus, ShowResting, Answer
  <2>3. StatusesOK(statuses', kills')
    <3>1. statuses' = (statuses \ {s}) \cup {}
      BY <1>9 DEF ShowStatus
    <3> QED
      BY <1>1, <2>1, <3>1, AnswerOne
  <2> QED
    BY <1>2, <2>1, <2>2, <2>3 DEF PageInv, TypeOK
<1>10. ASSUME NEW s \in statuses, LoseStatus(s)
       PROVE  PageInv'
  <2>1. UNCHANGED <<active, resting, enabled, cooling, kills>>
    BY <1>10 DEF LoseStatus
  <2>2. FeedInv'
    BY <1>10, FaultTypes
    DEF LoseStatus, PageInv, FeedInv, FeedTypeOK, demoVars, rowVars, threadVars
  <2>3. StatusesOK(statuses', kills')
    <3>1. statuses' = (statuses \ {s}) \cup {}
      BY <1>10 DEF LoseStatus
    <3> QED
      BY <1>1, <2>1, <3>1, AnswerOne
  <2> QED
    BY <1>2, <2>1, <2>2, <2>3 DEF PageInv, TypeOK
<1>11. CASE LeaseEvent
  <2> DEFINE o == Head(queue)
             rest == Tail(queue)
  <2>1. o \in Owner /\ rest \in Seq(Owner) /\ Len(rest) <= MaxQueue
    <3>1. queue \in Seq(Owner) /\ queue # <<>> /\ Len(queue) <= MaxQueue
      BY <1>11 DEF LeaseEvent, PageInv, FeedInv, FeedTypeOK
    <3>2. Len(rest) = Len(queue) - 1
      BY <3>1, HeadTailProperties
    <3> QED
      BY <3>1, <3>2, HeadTailProperties, LenProperties, FeedBounds
  <2>2. SetActive(o) /\ queue' = rest
    BY <1>11 DEF LeaseEvent
  <2> HIDE DEF o, rest
  <2>3. FeedInv'
    BY <1>11, <2>1, <2>2
    DEF LeaseEvent, PageInv, FeedInv, FeedTypeOK, demoVars, rowVars, threadVars
  <2> QED
    BY <1>1, <1>2, <1>4, <1>11, <2>1, <2>2, <2>3 DEF LeaseEvent, PageInv, TypeOK
<1>12. CASE Click
  <2>1. FeedInv' /\ UNCHANGED <<active, resting, cooling, statuses>>
    BY <1>3, <1>12 DEF Click
  <2>2. kills' \in 0 .. MaxKills
    BY <1>12, OpenAssumption DEF Click, PageInv, TypeOK
  <2>3. enabled' \in BOOLEAN
    BY <1>12 DEF Click
  <2>4. StatusesOK(statuses', kills')
    <3>1. Cardinality(statuses) \in Nat
      BY <1>1, FS_CardinalityType DEF StatusesOK
    <3> QED
      BY <1>1, <1>12, <3>1, OpenAssumption DEF Click, Room, StatusesOK
  <2> QED
    BY <1>2, <2>1, <2>2, <2>3, <2>4 DEF PageInv, TypeOK
<1>13. CASE KillAnswered
  <2>1. FeedInv' /\ UNCHANGED <<active, resting>>
    BY <1>3, <1>13 DEF KillAnswered
  <2>2. kills' \in 0 .. MaxKills
    BY <1>13, OpenAssumption DEF KillAnswered, PageInv, TypeOK
  <2>3. enabled' \in BOOLEAN /\ cooling' \in BOOLEAN
    BY <1>13 DEF KillAnswered, StartCooldown, PageInv, TypeOK
  <2>4. StatusesOK(statuses', kills')
    <3>1. /\ kills = kills' + 1 /\ kills' \in Nat
          /\ UNCHANGED statuses \/ Open([job |-> DemoJobId])
      BY <1>1, <1>13 DEF KillAnswered
    <3>2. CASE UNCHANGED statuses
      <4>1. Cardinality(statuses) \in Nat
        BY <1>1, FS_CardinalityType DEF StatusesOK
      <4> QED
        BY <1>1, <3>1, <3>2, <4>1, OpenAssumption DEF StatusesOK
    <3>3. CASE Open([job |-> DemoJobId])
      BY <1>1, <3>1, <3>3, OpenTypes, DemoJobIdType
    <3> QED
      BY <3>1, <3>2, <3>3
  <2> QED
    BY <1>2, <2>1, <2>2, <2>3, <2>4 DEF PageInv, TypeOK
<1>14. CASE CooldownEnds
  <2>1. FeedInv' /\ UNCHANGED <<active, resting, statuses, kills>>
    BY <1>3, <1>14 DEF CooldownEnds
  <2>2. enabled' \in BOOLEAN /\ cooling' \in BOOLEAN
    BY <1>14 DEF CooldownEnds
  <2> QED
    BY <1>1, <1>2, <2>1, <2>2 DEF PageInv, TypeOK
<1>15. CASE ArenaRestart
  <2>1. FeedInv' /\ UNCHANGED <<active, resting, cooling>>
    BY <1>15, FeedTypes DEF ArenaRestart, FeedStep, PageInv
  <2>2. enabled' \in BOOLEAN
    BY <1>15 DEF ArenaRestart, PageInv, TypeOK
  <2>4. kills' \in 0 .. MaxKills
    BY <1>15, OpenAssumption DEF ArenaRestart
  <2>3. StatusesOK(statuses', kills')
    BY <1>15, FS_EmptySet, OpenAssumption DEF ArenaRestart, StatusesOK
  <2> QED
    BY <1>2, <2>1, <2>2, <2>3, <2>4 DEF PageInv, TypeOK
<1>16. CASE UNCHANGED vars
  <2>1. FeedInv' /\ UNCHANGED <<active, resting, enabled, cooling, statuses, kills>>
    BY <1>3, <1>16 DEF vars, pageVars
  <2> QED
    BY <1>1, <1>2, <2>1 DEF PageInv, TypeOK
<1> QED
  BY <1>5, <1>6, <1>7, <1>8, <1>9, <1>10, <1>11, <1>12, <1>13, <1>14, <1>15, <1>16
  DEF Next, Status

LEMMA Typing == Spec => []PageInv
  BY InitPageInv, NextPageInv, PTL DEF Spec

(* The feed, the requests under way and the page keep their types and      *)
(* their bounds; an event or an answer never names a worker that is none.  *)
THEOREM TypeCorrect == Spec => []TypeOK
  BY Typing, PTL DEF PageInv

-----------------------------------------------------------------------------
(***************************************************************************)
(* The button.  That a handler is told of a region, and never of none, is  *)
(* what the types say of events and answers.                               *)
(***************************************************************************)
LEMMA NextButton ==
  ASSUME PageInv, ButtonMatchesPage, [Next]_vars
  PROVE  ButtonMatchesPage'
<1> USE DEF ButtonMatchesPage
<1>1. ASSUME NEW o \in Owner, SetActive(o)
      PROVE  ButtonMatchesPage'
  BY <1>1, NobodyAssumption DEF SetActive
<1>2. CASE LeaseEvent
  <2>1. Head(queue) \in Owner
    BY <1>2, HeadTailProperties
    DEF LeaseEvent, PageInv, FeedInv, FeedTypeOK
  <2> QED
    BY <1>1, <1>2, <2>1 DEF LeaseEvent
<1>3. ASSUME NEW s \in statuses, ShowStatus(s)
      PROVE  ButtonMatchesPage'
  BY <1>1, <1>3 DEF ShowStatus, ShowResting, Answer
<1>4. CASE Click \/ KillAnswered \/ CooldownEnds \/ ArenaRestart
  <2>1. UNCHANGED <<active, resting>>
    BY <1>4 DEF Click, KillAnswered, CooldownEnds, ArenaRestart
  <2>2. enabled' = FALSE \/ enabled' = enabled \/ enabled' = (active # Nobody)
    BY <1>4, Zenon DEF Click, KillAnswered, StartCooldown, CooldownEnds, ArenaRestart
  <2>3. enabled' => enabled \/ active # Nobody
    BY <2>2, Zenon
  <2> QED
    BY <2>1, <2>3, Zenon
<1>5. CASE UNCHANGED <<active, resting, enabled>>
  BY <1>5
<1> QED
  <2>1. Elsewhere \/ NextJob \/ LoadStatus \/ UNCHANGED vars =>
          UNCHANGED <<active, resting, enabled>>
    BY DEF Elsewhere, NextJob, LoadStatus, vars, pageVars
  <2>2. \A s \in statuses : ReadStatus(s) \/ LoseStatus(s) =>
          UNCHANGED <<active, resting, enabled>>
    BY DEF ReadStatus, LoseStatus
  <2> QED
    BY <1>2, <1>3, <1>4, <1>5, <2>1, <2>2 DEF Next, Status

(* Whichever of its handlers wrote last, for any number of events, answers *)
(* and clicks under way: an enabled kill button stands under a region at   *)
(* work and never next to the note of the pause.                           *)
THEOREM ButtonIsRight == Spec => []ButtonMatchesPage
<1>1. Init => ButtonMatchesPage
  BY DEF Init, ButtonMatchesPage
<1>2. PageInv /\ ButtonMatchesPage /\ [Next]_vars => ButtonMatchesPage'
  BY NextButton
<1> QED
  BY <1>1, <1>2, Typing, PTL DEF Spec
=============================================================================
