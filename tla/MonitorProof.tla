---------------------------- MODULE MonitorProof ----------------------------
(***************************************************************************)
(* What Monitor.tla keeps for every number of rows, pages and failures,    *)
(* proved with TLAPS.                                                      *)
(***************************************************************************)
EXTENDS Monitor, FiniteSetTheorems, SequenceTheorems, TLAPS

(***************************************************************************)
(* The inductive invariants.                                               *)
(***************************************************************************)

(* Time goes on with every transaction that begins.                        *)
RowsInv ==
  /\ \A r \in Row : row[r] = "none" <=> ts[r] = 0
  /\ \A r \in Row : ts[r] <= Cardinality(Open \cup Committed)

(* The last event is put to the queues once there is one.                  *)
TypeInv == TypeOK /\ RowsInv /\ (todo # {} => sent # <<>>)

(* Broadcast or about to be.                                               *)
Shown == sent \o batch

(* What has been shown was committed and is not newer than last_val, which *)
(* is None until the first poll and then the time of a committed row; up   *)
(* to then all that has been shown comes from the feed.                    *)
SignalInv ==
  /\ \A k \in DOMAIN Shown : Shown[k] \in Committed
  /\ lastVal # 0 => \A k \in DOMAIN Shown : ts[Shown[k]] <= lastVal
  /\ lastVal # 0 => \E r \in Committed : ts[r] = lastVal
  /\ since = 0 <=> lastVal = 0
  /\ mode = "feed" => lastVal = 0
  /\ lastVal = 0 => fed = Len(Shown)

(* With one transaction at a time the open one is the newest.              *)
TurnInv ==
  /\ \A r, q \in Open : r = q
  /\ \A r \in Open, q \in Committed : ts[q] < ts[r]

(* A queue is the piece of the signal since its page subscribed; it ends   *)
(* where the signal ends, or one event before while the last event is      *)
(* still to be put to it.                                                  *)
PieceOf(c) ==
  /\ joined[c] + Len(queue[c]) <= Len(sent)
  /\ \A k \in DOMAIN queue[c] : queue[c][k] = sent[joined[c] + k]
  /\ c \in subscribers \ todo => joined[c] + Len(queue[c]) = Len(sent)
  /\ c \in todo => joined[c] + Len(queue[c]) = Len(sent) - 1

PieceInv == \A c \in Client : PieceOf(c)

-----------------------------------------------------------------------------
(***************************************************************************)
(* Lemmas about the operators.                                             *)
(***************************************************************************)

LEMMA RowCount == Cardinality(Row) \in Nat
  BY MonitorAssumption, FS_CardinalityType

(* ORDER BY loses no row, repeats none and ends with the newest.           *)
LEMMA ByTsIsAll ==
  ASSUME TypeOK, NEW R \in SUBSET Row, NEW s \in ByTs(R)
  PROVE  /\ s \in Seq(Row) /\ Len(s) = Cardinality(R)
         /\ \A i \in DOMAIN s : s[i] \in R
         /\ \A r \in R : \E i \in DOMAIN s : s[i] = r
         /\ \A i, j \in DOMAIN s : i < j => ts[s[i]] < ts[s[j]]
         /\ \A i, j \in DOMAIN s : s[i] = s[j] => i = j
         /\ \A i \in DOMAIN s : ts[s[i]] <= ts[s[Len(s)]]
<1> DEFINE n == Cardinality(R)
<1>1. IsFiniteSet(R) /\ n \in Nat
  BY MonitorAssumption, FS_Subset, FS_CardinalityType
<1>2. /\ s \in [1 .. n -> R]
      /\ \A i, j \in 1 .. n : i < j => ts[s[i]] < ts[s[j]]
  BY DEF ByTs
<1>3. \A i \in 1 .. n : ts[s[i]] \in Int
  <2>1. \A i \in 1 .. n : s[i] \in Row
    BY <1>2
  <2>2. \A r \in Row : ts[r] \in Int
    BY RowCount DEF TypeOK
  <2> QED
    BY <2>1, <2>2
<1>4. s \in Injection(1 .. n, R)
  BY <1>1, <1>2, <1>3 DEF Injection, IsInjective
<1>5. IsFiniteSet(1 .. n) /\ Cardinality(1 .. n) = n
  BY <1>1, FS_Interval
<1>6. s \in Surjection(1 .. n, R)
  BY <1>1, <1>4, <1>5, FS_Injection
<1> HIDE DEF n
<1>7. s \in Seq(Row) /\ Len(s) = n
  BY <1>1, <1>2, IsASeq
<1> QED
  BY <1>1, <1>2, <1>3, <1>4, <1>6, <1>7 DEF Injection, IsInjective, Surjection, n

(* An event that is taken from the batch and broadcast stays where it was. *)
LEMMA ConcatElements ==
  ASSUME NEW S, NEW s \in Seq(S), NEW t \in Seq(S)
  PROVE  /\ s \o t \in Seq(S) /\ Len(s \o t) = Len(s) + Len(t)
         /\ Len(s) \in Nat /\ Len(t) \in Nat
         /\ DOMAIN (s \o t) = 1 .. Len(s) + Len(t)
         /\ \A k \in 1 .. Len(s) : (s \o t)[k] = s[k]
         /\ \A k \in 1 .. Len(t) : (s \o t)[Len(s) + k] = t[k]
BY ConcatProperties, LenProperties

LEMMA BroadcastKeepsShown ==
  ASSUME TypeOK, Broadcast
  PROVE  /\ sent' \in Seq(Row) /\ batch' \in Seq(Row)
         /\ Len(sent') = Len(sent) + 1 /\ Len(sent) \in Nat
         /\ \A k \in 1 .. Len(sent) : sent'[k] = sent[k]
         /\ Shown' = Shown
<1> DEFINE e == Head(batch)
           rest == Tail(batch)
<1>1. sent \in Seq(Row) /\ batch \in Seq(Row) /\ batch # <<>>
  BY DEF TypeOK, Broadcast
<1>2. /\ e \in Row /\ e = batch[1] /\ rest \in Seq(Row)
      /\ Len(batch) \in Nat \ {0} /\ Len(rest) = Len(batch) - 1
      /\ \A k \in 1 .. Len(rest) : rest[k] = batch[k + 1]
  BY <1>1, HeadTailProperties, LenProperties
<1>3. sent' = Append(sent, e) /\ batch' = rest
  BY DEF Broadcast
<1> HIDE DEF e, rest
<1>4. /\ sent' \in Seq(Row) /\ Len(sent') = Len(sent) + 1 /\ Len(sent) \in Nat
      /\ \A k \in 1 .. Len(sent) : sent'[k] = sent[k]
      /\ sent'[Len(sent) + 1] = e
  BY <1>1, <1>2, <1>3, AppendProperties, LenProperties
<1>5. batch' \in Seq(Row)
  BY <1>2, <1>3
<1>6. /\ Shown' \in Seq(Row) /\ Len(Shown') = Len(sent') + Len(batch')
      /\ \A k \in 1 .. Len(sent') : Shown'[k] = sent'[k]
      /\ \A k \in 1 .. Len(batch') : Shown'[Len(sent') + k] = batch'[k]
  <2> DEFINE s == sent'
             b == batch'
  <2>1. s \in Seq(Row) /\ b \in Seq(Row) /\ Shown' = s \o b
    BY <1>4, <1>5 DEF Shown
  <2> HIDE DEF s, b
  <2>2. /\ s \o b \in Seq(Row) /\ Len(s \o b) = Len(s) + Len(b)
        /\ \A k \in 1 .. Len(s) : (s \o b)[k] = s[k]
        /\ \A k \in 1 .. Len(b) : (s \o b)[Len(s) + k] = b[k]
    BY <2>1, ConcatElements
  <2> QED
    BY <2>1, <2>2 DEF s, b
<1>7. /\ Shown \in Seq(Row) /\ Len(Shown) = Len(sent) + Len(batch)
      /\ \A k \in 1 .. Len(sent) : Shown[k] = sent[k]
      /\ \A k \in 1 .. Len(batch) : Shown[Len(sent) + k] = batch[k]
  BY <1>1, ConcatElements DEF Shown
<1>8. Len(Shown') = Len(Shown)
  BY <1>2, <1>3, <1>4, <1>6, <1>7
<1>9. ASSUME NEW k \in 1 .. Len(Shown)
      PROVE  Shown'[k] = Shown[k]
  <2>1. CASE k <= Len(sent)
    BY <1>4, <1>6, <1>7, <2>1
  <2>2. CASE k = Len(sent) + 1
    BY <1>2, <1>4, <1>6, <1>7, <2>2
  <2>3. CASE k > Len(sent) + 1
    <3>1. /\ k - Len(sent) - 1 \in 1 .. Len(rest)
          /\ k - Len(sent) \in 1 .. Len(batch)
      BY <1>2, <1>4, <1>7, <2>3
    <3>2. Shown'[k] = rest[k - Len(sent) - 1]
      <4>1. k = Len(sent') + (k - Len(sent) - 1)
        BY <1>4, <3>1
      <4> QED
        BY <1>3, <1>6, <3>1, <4>1
    <3>3. Shown[k] = batch[k - Len(sent)]
      BY <1>4, <1>7, <3>1
    <3> QED
      BY <1>2, <1>4, <3>1, <3>2, <3>3
  <2> QED
    BY <1>4, <2>1, <2>2, <2>3
<1> QED
  BY <1>4, <1>5, <1>6, <1>7, <1>8, <1>9, SeqEqual

-----------------------------------------------------------------------------
(***************************************************************************)
(* Types.                                                                  *)
(***************************************************************************)
LEMMA StartedCount ==
  ASSUME TypeOK
  PROVE  /\ IsFiniteSet(Open \cup Committed)
         /\ Cardinality(Open \cup Committed) \in 0 .. Cardinality(Row)
<1>1. Open \cup Committed \in SUBSET Row
  BY DEF Open, Committed
<1> QED
  BY <1>1, RowCount, MonitorAssumption, FS_Subset, FS_CardinalityType

(* The clock: a row that begins is newer than all that began before.       *)
LEMMA BeginTypes ==
  ASSUME TypeInv, NEW r \in Row, Begin(r)
  PROVE  /\ row' \in [Row -> {"none", "open", "committed"}]
         /\ ts' \in [Row -> 0 .. Cardinality(Row)]
         /\ ts'[r] \in Nat /\ \A q \in Row : q # r => ts[q] < ts'[r]
         /\ RowsInv'
<1> DEFINE S == Open \cup Committed
<1>1. r \notin S /\ (Open \cup Committed)' = S \cup {r}
  BY DEF Begin, Open, Committed, TypeInv, TypeOK
<1>2. /\ IsFiniteSet(S) /\ Cardinality(S) \in Nat
      /\ Cardinality(S \cup {r}) = Cardinality(S) + 1
  <2>1. IsFiniteSet(S) /\ Cardinality(S) \in Nat
    BY StartedCount, RowCount DEF TypeInv
  <2> HIDE DEF S
  <2> QED
    BY <1>1, <2>1, FS_AddElement
<1>3. Cardinality(S) + 1 <= Cardinality(Row)
  <2>1. S \cup {r} \in SUBSET Row
    BY DEF Open, Committed
  <2> QED
    BY <1>2, <2>1, MonitorAssumption, FS_Subset
<1>4. /\ ts'[r] = Cardinality(S) + 1 /\ row'[r] = "open"
      /\ \A q \in Row : q # r => ts'[q] = ts[q] /\ row'[q] = row[q]
  BY DEF Begin, TypeInv, TypeOK
<1>5. \A q \in Row : ts[q] \in Nat /\ ts[q] <= Cardinality(S)
  <2>1. \A q \in Row : ts[q] \in Nat
    BY RowCount DEF TypeInv, TypeOK
  <2>2. \A q \in Row : ts[q] <= Cardinality(S)
    BY DEF TypeInv, RowsInv
  <2> QED
    BY <2>1, <2>2
<1>6. /\ row' \in [Row -> {"none", "open", "committed"}]
      /\ ts' \in [Row -> 0 .. Cardinality(Row)]
  BY <1>2, <1>3, RowCount DEF Begin, TypeInv, TypeOK
<1>7. \A q \in Row : ts'[q] <= Cardinality(Open \cup Committed)'
  <2> HIDE DEF S
  <2>1. Cardinality(Open \cup Committed)' = Cardinality(S) + 1
    BY <1>1, <1>2
  <2> QED
    BY <1>2, <1>4, <1>5, <2>1
<1>8. \A q \in Row : row'[q] = "none" <=> ts'[q] = 0
  BY <1>2, <1>4 DEF RowsInv, TypeInv
<1> QED
  BY <1>2, <1>4, <1>5, <1>6, <1>7, <1>8 DEF RowsInv

LEMMA PollTypes ==
  ASSUME TypeInv, Poll
  PROVE  /\ batch' \in Seq(Row) /\ Len(batch') \in Nat \ {0}
         /\ \A i \in DOMAIN batch' : batch'[i] \in NewRows
         /\ \A r \in NewRows : \E i \in DOMAIN batch' : batch'[i] = r
         /\ \A i, j \in DOMAIN batch' : i < j => ts[batch'[i]] < ts[batch'[j]]
         /\ \A i, j \in DOMAIN batch' : batch'[i] = batch'[j] => i = j
         /\ \A i \in DOMAIN batch' : ts[batch'[i]] <= lastVal'
         /\ lastVal' = ts[batch'[Len(batch')]]
         /\ batch'[Len(batch')] \in NewRows
         /\ lastVal' \in 1 .. Cardinality(Row)
<1>1. NewRows \in SUBSET Row /\ NewRows \subseteq Committed
  BY DEF NewRows, Committed
<1>2. batch' \in ByTs(NewRows) /\ NewRows # {} /\ TypeOK
  BY DEF Poll, TypeInv
<1>3. /\ batch' \in Seq(Row)
      /\ \A i \in DOMAIN batch' : batch'[i] \in NewRows
      /\ \A r \in NewRows : \E i \in DOMAIN batch' : batch'[i] = r
      /\ \A i, j \in DOMAIN batch' : i < j => ts[batch'[i]] < ts[batch'[j]]
      /\ \A i, j \in DOMAIN batch' : batch'[i] = batch'[j] => i = j
      /\ \A i \in DOMAIN batch' : ts[batch'[i]] <= ts[batch'[Len(batch')]]
  BY <1>1, <1>2, ByTsIsAll
<1>4. DOMAIN batch' = 1 .. Len(batch') /\ Len(batch') \in Nat
  BY <1>3, LenProperties
<1>5. Len(batch') # 0
  BY <1>2, <1>3, <1>4
<1>6. batch'[Len(batch')] \in NewRows
  BY <1>3, <1>4, <1>5
<1>7. lastVal' = ts[batch'[Len(batch')]]
  BY DEF Poll, Last
<1>8. lastVal' \in 1 .. Cardinality(Row)
  BY <1>1, <1>6, <1>7, RowCount DEF TypeInv, TypeOK, RowsInv, Committed
<1> QED
  BY <1>3, <1>4, <1>5, <1>6, <1>7, <1>8

LEMMA InitTypeInv == Init => TypeInv
<1> SUFFICES ASSUME Init PROVE TypeInv
  OBVIOUS
<1> USE DEF Init
<1>1. ts \in [Row -> 0 .. Cardinality(Row)] /\ lastVal \in 0 .. Cardinality(Row)
  BY RowCount
<1>2. /\ batch \in Seq(Row) /\ sent \in Seq(Row)
      /\ queue \in [Client -> Seq(Row)]
  OBVIOUS
<1>3. faults \in 0 .. MaxFaults
  BY MonitorAssumption
<1>4. TypeOK
  BY <1>1, <1>2, <1>3 DEF TypeOK
<1>5. RowsInv
  BY <1>4, StartedCount, RowCount DEF RowsInv
<1> QED
  BY <1>4, <1>5 DEF TypeInv

LEMMA NextTypeInv == TypeInv /\ [Next]_vars => TypeInv'
<1> SUFFICES ASSUME TypeInv, [Next]_vars PROVE TypeInv'
  OBVIOUS
<1> USE DEF TypeInv
<1>1. ASSUME UNCHANGED <<row, ts>>
      PROVE  RowsInv'
  BY <1>1 DEF RowsInv, Open, Committed
<1>2. ASSUME NEW r \in Row, Begin(r)
      PROVE  TypeInv'
  BY <1>2, BeginTypes DEF Begin, TypeOK, threadVars, clientVars
<1>3. ASSUME NEW r \in Row, Commit(r)
      PROVE  TypeInv'
  <2>1. row' \in [Row -> {"none", "open", "committed"}]
    BY <1>3 DEF Commit, TypeOK
  <2>2. (Open \cup Committed)' = Open \cup Committed
    BY <1>3 DEF Commit, Open, Committed, TypeOK
  <2>3. RowsInv'
    <3>1. Cardinality(Open \cup Committed)' = Cardinality(Open \cup Committed)
      BY <2>2
    <3> QED
      BY <1>3, <3>1 DEF Commit, RowsInv, TypeOK
  <2> QED
    BY <1>3, <2>1, <2>3 DEF Commit, TypeOK, threadVars, clientVars
<1>4. ASSUME NEW r \in Row, Emit(r)
      PROVE  TypeInv'
  <2>1. batch' \in Seq(Row) /\ fed' \in Nat
    BY <1>4 DEF Emit, TypeOK
  <2>2. faults' \in 0 .. MaxFaults
    BY <1>4, MonitorAssumption DEF Emit, Fault, TypeOK
  <2> QED
    BY <1>1, <1>4, <2>1, <2>2 DEF Emit, TypeOK, tableVars, clientVars
<1>5. CASE Poll
  <2>1. since' \in 0 .. Cardinality(Row)
    BY <1>5, PollTypes, RowCount DEF Poll, TypeOK
  <2>2. lastVal' \in 0 .. Cardinality(Row) /\ batch' \in Seq(Row)
    BY <1>5, PollTypes, RowCount
  <2> QED
    BY <1>1, <1>5, <2>1, <2>2 DEF Poll, TypeOK, tableVars, clientVars
<1>6. CASE FallBack \/ PollFails
  <2>1. faults' \in 0 .. MaxFaults
    BY <1>6, MonitorAssumption DEF FallBack, PollFails, Fault, TypeOK
  <2> QED
    BY <1>1, <1>6, <2>1 DEF FallBack, PollFails, TypeOK, tableVars, clientVars
<1>7. CASE Broadcast
  <2>1. sent' \in Seq(Row) /\ batch' \in Seq(Row)
    BY <1>7, BroadcastKeepsShown
  <2>2. sent' # <<>>
    BY <1>7, BroadcastKeepsShown
  <2> QED
    BY <1>1, <1>7, <2>1, <2>2 DEF Broadcast, TypeOK, tableVars
<1>8. ASSUME NEW c \in Client, Put(c)
      PROVE  TypeInv'
  <2> DEFINE e == Last(sent)
             more == Append(queue[c], e)
  <2>1. more \in Seq(Row)
    <3>1. e \in Row
      BY <1>8, LenProperties DEF Put, TypeOK, Last
    <3> QED
      BY <3>1, AppendProperties DEF TypeOK
  <2>2. queue' = [queue EXCEPT ![c] = more]
    BY <1>8 DEF Put
  <2> HIDE DEF more
  <2>3. queue' \in [Client -> Seq(Row)]
    BY <2>1, <2>2 DEF TypeOK
  <2> QED
    BY <1>1, <1>8, <2>3 DEF Put, TypeOK, tableVars, threadVars
<1>9. ASSUME NEW c \in Client, Subscribe(c) \/ Disconnect(c)
      PROVE  TypeInv'
  <2>1. joined' \in [Client -> Nat]
    <3>1. Len(sent) \in Nat
      BY LenProperties DEF TypeOK
    <3>2. joined' = [joined EXCEPT ![c] = Len(sent)] \/ joined' = joined
      BY <1>9 DEF Subscribe, Disconnect
    <3> QED
      BY <3>1, <3>2 DEF TypeOK
  <2>2. queue' \in [Client -> Seq(Row)]
    <3>1. queue' = [queue EXCEPT ![c] = <<>>] \/ queue' = queue
      BY <1>9 DEF Subscribe, Disconnect
    <3>2. <<>> \in Seq(Row)
      OBVIOUS
    <3> QED
      BY <3>1, <3>2 DEF TypeOK
  <2> QED
    BY <1>1, <1>9, <2>1, <2>2
    DEF Subscribe, Disconnect, TypeOK, tableVars, threadVars
<1>10. CASE UNCHANGED vars
  BY <1>1, <1>10 DEF vars, tableVars, threadVars, clientVars, TypeOK
<1> QED
  BY <1>2, <1>3, <1>4, <1>5, <1>6, <1>7, <1>8, <1>9, <1>10 DEF Next, Stream

LEMMA Typing == Spec => []TypeInv
  BY InitTypeInv, NextTypeInv, PTL DEF Spec

(* The table, the generator and the queues keep their types; no order      *)
(* column and no last_val is beyond the number of rows begun.              *)
THEOREM TypeCorrect == Spec => []TypeOK
  BY Typing, PTL DEF TypeInv

-----------------------------------------------------------------------------
(***************************************************************************)
(* What is shown, and how often.                                           *)
(***************************************************************************)
LEMMA ShownTypes ==
  ASSUME TypeOK
  PROVE  /\ Shown \in Seq(Row)
         /\ DOMAIN Shown = 1 .. Len(Shown) /\ Len(Shown) \in Nat
         /\ \A k \in DOMAIN Shown : Shown[k] \in Row /\ ts[Shown[k]] \in Nat
<1>1. Shown \in Seq(Row)
  BY ConcatProperties DEF Shown, TypeOK
<1>2. DOMAIN Shown = 1 .. Len(Shown) /\ Len(Shown) \in Nat
  BY <1>1, LenProperties
<1>3. \A k \in DOMAIN Shown : Shown[k] \in Row
  BY <1>1, <1>2, ElementOfSeq
<1> QED
  BY <1>1, <1>2, <1>3, RowCount DEF TypeOK

(* What the generator takes in hand follows all that has been broadcast.   *)
LEMMA ShownGrows ==
  ASSUME TypeOK, Resumed, batch' \in Seq(Row), UNCHANGED sent
  PROVE  /\ Shown = sent /\ Shown' \in Seq(Row)
         /\ Len(sent) \in Nat /\ Len(batch') \in Nat
         /\ DOMAIN Shown = 1 .. Len(sent) /\ DOMAIN batch' = 1 .. Len(batch')
         /\ DOMAIN Shown' = 1 .. Len(sent) + Len(batch')
         /\ \A k \in 1 .. Len(sent) : Shown'[k] = Shown[k]
         /\ \A k \in 1 .. Len(batch') : Shown'[Len(sent) + k] = batch'[k]
<1>1. sent \in Seq(Row) /\ Shown = sent
  BY ConcatEmptySeq DEF TypeOK, Resumed, Shown
<1>2. Shown' = sent \o batch'
  BY DEF Shown
<1> QED
  BY <1>1, <1>2, ConcatElements, LenProperties

LEMMA NextSignal ==
  TypeInv /\ SignalInv /\ ShownOnce /\ [Next]_vars => SignalInv' /\ ShownOnce'
<1> SUFFICES ASSUME TypeInv, SignalInv, ShownOnce, [Next]_vars
             PROVE  SignalInv' /\ ShownOnce'
  OBVIOUS
<1> USE DEF TypeInv
<1>1. Shown \in Seq(Row) /\ \A k \in DOMAIN Shown : Shown[k] \in Row
  BY ShownTypes
<1>2. ASSUME Shown' = Shown, UNCHANGED <<row, ts, lastVal, since, fed>>,
             mode' # "feed" \/ UNCHANGED mode
      PROVE  SignalInv' /\ ShownOnce'
  BY <1>2 DEF SignalInv, ShownOnce, Shown, Committed
<1>3. ASSUME NEW r \in Row, Begin(r) \/ Commit(r)
      PROVE  SignalInv' /\ ShownOnce'
  <2>1. /\ Shown' = Shown /\ UNCHANGED <<lastVal, since, fed, mode>>
        /\ \A q \in Committed : ts'[q] = ts[q] /\ q \in Committed'
    BY <1>3 DEF Begin, Commit, Committed, Shown, threadVars, clientVars, TypeOK
  <2> QED
    BY <1>1, <2>1 DEF SignalInv, ShownOnce, Shown
<1>4. ASSUME NEW r \in Row, Emit(r)
      PROVE  SignalInv' /\ ShownOnce'
  <2>1. /\ batch' = <<r>> /\ batch' \in Seq(Row) /\ Len(batch') = 1
        /\ UNCHANGED <<sent, row, ts, mode, lastVal, since>> /\ Resumed
        /\ r \in Committed /\ fed' = fed + 1
    BY <1>4 DEF Emit, tableVars, clientVars
  <2>2. /\ Shown = sent /\ Len(sent) \in Nat
        /\ DOMAIN Shown = 1 .. Len(sent) /\ DOMAIN Shown' = 1 .. Len(sent) + 1
        /\ \A k \in 1 .. Len(sent) : Shown'[k] = Shown[k]
        /\ Shown'[Len(sent) + 1] = r
        /\ Len(Shown') = Len(sent) + 1
    BY <2>1, ShownGrows, LenProperties
  <2>3. lastVal = 0 /\ since = 0 /\ fed = Len(sent)
    BY <1>4, <2>2 DEF Emit, SignalInv
  <2>4. SignalInv'
    BY <2>1, <2>2, <2>3 DEF SignalInv, Committed
  <2>5. \A i, j \in DOMAIN Shown' : j <= fed'
    BY <2>1, <2>2, <2>3
  <2>6. ShownOnce'
    BY <2>5 DEF ShownOnce, Shown
  <2> QED
    BY <2>4, <2>6
<1>5. CASE Poll
  <2>1. /\ Resumed /\ UNCHANGED <<sent, row, ts, mode, fed>> /\ mode = "poll"
        /\ since' = IF lastVal = 0 THEN lastVal' ELSE since
    BY <1>5 DEF Poll, tableVars, clientVars
  <2>2. /\ Shown = sent /\ Len(sent) \in Nat /\ Len(batch') \in Nat
        /\ DOMAIN Shown = 1 .. Len(sent) /\ DOMAIN batch' = 1 .. Len(batch')
        /\ DOMAIN Shown' = 1 .. Len(sent) + Len(batch')
        /\ \A k \in 1 .. Len(sent) : Shown'[k] = Shown[k]
        /\ \A k \in 1 .. Len(batch') : Shown'[Len(sent) + k] = batch'[k]
    BY <1>5, <2>1, PollTypes, ShownGrows
  <2>3. \A k \in DOMAIN Shown' :
          \/ k \in DOMAIN Shown /\ Shown'[k] = Shown[k]
          \/ k - Len(sent) \in DOMAIN batch' /\ Shown'[k] = batch'[k - Len(sent)]
    <3> SUFFICES ASSUME NEW k \in DOMAIN Shown', k \notin DOMAIN Shown
                 PROVE  /\ k - Len(sent) \in DOMAIN batch'
                        /\ Shown'[k] = batch'[k - Len(sent)]
      BY <2>2
    <3>1. k - Len(sent) \in 1 .. Len(batch') /\ k = Len(sent) + (k - Len(sent))
      BY <2>2
    <3> QED
      BY <2>2, <3>1
  <2>4. /\ lastVal' \in Nat \ {0}
        /\ \A i \in DOMAIN batch' : batch'[i] \in NewRows /\ ts[batch'[i]] <= lastVal'
        /\ \E r \in NewRows : ts[r] = lastVal'
        /\ \A i, j \in DOMAIN batch' : i < j => ts[batch'[i]] < ts[batch'[j]]
        /\ \A i, j \in DOMAIN batch' : batch'[i] = batch'[j] => i = j
    BY <1>5, PollTypes, RowCount
  <2>5. \A r \in NewRows : r \in Committed
    BY DEF NewRows
  <2>6. \A k \in DOMAIN Shown :
          /\ ts[Shown[k]] <= lastVal'
          /\ lastVal # 0 => Shown[k] \notin NewRows
    <3> SUFFICES ASSUME NEW k \in DOMAIN Shown
                 PROVE  /\ ts[Shown[k]] <= lastVal'
                        /\ lastVal # 0 => Shown[k] \notin NewRows
      OBVIOUS
    <3>1. Shown[k] \in Committed /\ ts[Shown[k]] \in Nat
      BY ShownTypes DEF SignalInv
    <3>2. PICK n \in NewRows : ts[n] = lastVal'
      BY <2>4
    <3>3. lastVal \in Nat
      BY RowCount DEF TypeOK
    <3>4. CASE lastVal = 0
      <4>1. \A q \in Committed : ts[q] <= ts[n]
        BY <3>2, <3>4 DEF NewRows
      <4> QED
        BY <3>1, <3>2, <3>4, <4>1
    <3>5. CASE lastVal # 0
      <4>1. \A r \in NewRows : ts[r] > lastVal
        BY <3>5 DEF NewRows
      <4>2. ts[Shown[k]] <= lastVal
        BY <3>5 DEF SignalInv
      <4> QED
        BY <2>4, <3>1, <3>2, <3>3, <4>1, <4>2
    <3> QED
      BY <3>4, <3>5
  <2>7. lastVal = 0 => \A i \in DOMAIN batch' : i = 1
    <3> SUFFICES ASSUME lastVal = 0, NEW i \in DOMAIN batch', i # 1
                 PROVE  FALSE
      OBVIOUS
    <3>1. 1 \in DOMAIN batch' /\ 1 < i
      BY <2>2
    <3>2. /\ ts[batch'[1]] < ts[batch'[i]]
          /\ batch'[1] \in NewRows /\ batch'[i] \in NewRows
      BY <2>4, <3>1
    <3>3. /\ ts[batch'[i]] <= ts[batch'[1]]
          /\ ts[batch'[i]] \in Nat /\ ts[batch'[1]] \in Nat
      BY <3>2, RowCount DEF NewRows, Committed, TypeOK
    <3> QED
      BY <3>2, <3>3
  <2>8. SignalInv'
    <3>1. since' = 0 <=> lastVal' = 0
      BY <2>1, <2>4 DEF SignalInv
    <3>2. Committed' = Committed
      BY <2>1 DEF Committed
    <3>3. \A k \in DOMAIN Shown' : Shown'[k] \in Committed /\ ts[Shown'[k]] <= lastVal'
      BY <2>3, <2>4, <2>5, <2>6 DEF SignalInv
    <3> QED
      BY <2>1, <2>4, <2>5, <3>1, <3>2, <3>3 DEF SignalInv
  <2>9. ShownOnce'
    <3> SUFFICES ASSUME NEW i \in DOMAIN Shown', NEW j \in DOMAIN Shown',
                        i < j, Shown'[i] = Shown'[j]
                 PROVE  j <= fed \/ (j = fed + 1 /\ i <= fed)
      BY <2>1 DEF ShownOnce, Shown
    <3>1. i \in Int /\ j \in Int
      BY <2>2
    <3>2. CASE j \in DOMAIN Shown
      <4>1. i \in DOMAIN Shown /\ Shown[i] = Shown[j]
        BY <2>2, <3>1, <3>2
      <4> QED
        BY <3>2, <4>1 DEF ShownOnce, Shown
    <3>3. CASE i \in DOMAIN Shown /\ j \notin DOMAIN Shown
      <4>1. j - Len(sent) \in DOMAIN batch' /\ Shown[i] \in NewRows
        BY <2>2, <2>3, <2>4, <3>3
      <4>2. lastVal = 0
        BY <2>6, <3>3, <4>1
      <4>3. fed = Len(sent) /\ j - Len(sent) = 1
        BY <2>2, <2>7, <4>1, <4>2, LenProperties DEF SignalInv, TypeOK
      <4> QED
        BY <2>2, <3>1, <3>3, <4>3
    <3>4. CASE i \notin DOMAIN Shown /\ j \notin DOMAIN Shown
      <4>1. i - Len(sent) = j - Len(sent)
        BY <2>3, <2>4, <3>4
      <4> QED
        BY <2>2, <3>1, <4>1
    <3> QED
      BY <3>2, <3>3, <3>4
  <2> QED
    BY <2>8, <2>9
<1>6. CASE FallBack \/ PollFails
  <2>1. /\ UNCHANGED <<sent, batch, row, ts, lastVal, since, fed>>
        /\ mode' # "feed"
    BY <1>6 DEF FallBack, PollFails, tableVars, clientVars
  <2> QED
    BY <1>2, <2>1 DEF Shown
<1>7. CASE Broadcast
  <2>1. UNCHANGED <<row, ts, lastVal, since, fed, mode>>
    BY <1>7 DEF Broadcast, tableVars
  <2> QED
    BY <1>2, <1>7, <2>1, BroadcastKeepsShown
<1>8. ASSUME NEW c \in Client, Put(c) \/ Subscribe(c) \/ Disconnect(c)
      PROVE  SignalInv' /\ ShownOnce'
  <2>1. UNCHANGED <<sent, batch, row, ts, lastVal, since, fed, mode>>
    BY <1>8 DEF Put, Subscribe, Disconnect, tableVars, threadVars
  <2> QED
    BY <1>2, <2>1 DEF Shown
<1>9. CASE UNCHANGED vars
  BY <1>2, <1>9 DEF vars, tableVars, threadVars, clientVars, Shown
<1> QED
  BY <1>3, <1>4, <1>5, <1>6, <1>7, <1>8, <1>9 DEF Next, Stream

LEMMA Signalling == Spec => [](SignalInv /\ ShownOnce)
<1>1. Init => SignalInv /\ ShownOnce
  <2> SUFFICES ASSUME Init PROVE SignalInv /\ ShownOnce
    OBVIOUS
  <2>1. Shown = <<>>
    BY DEF Init, Shown
  <2> QED
    BY <2>1 DEF Init, SignalInv, ShownOnce, Shown
<1> QED
  BY <1>1, NextSignal, Typing, PTL DEF Spec

(* Whatever the order of the transactions, and however often the feed      *)
(* repeats itself before it fails: polling shows no row again, neither one *)
(* of the feed's nor one of its own, but for the one it begins with.       *)
THEOREM NoRowTwice == Spec => []ShownOnce
  BY Signalling, PTL

-----------------------------------------------------------------------------
(***************************************************************************)
(* Polling by a timestamp passes over nothing if transactions come one at  *)
(* a time: the open one is newer than everything last_val may be.  With    *)
(* two open at a time the run monitor_overlap shows how a row is lost.     *)
(***************************************************************************)
OneAtATime == MaxOpen = 1

LEMMA NextTurn ==
  ASSUME OneAtATime, TypeInv, TurnInv, [Next]_vars
  PROVE  TurnInv'
<1> USE DEF TurnInv
<1>1. ASSUME NEW r \in Row, Begin(r)
      PROVE  TurnInv'
  <2>1. Open = {}
    <3>1. Open \in SUBSET Row
      BY DEF Open
    <3>2. IsFiniteSet(Open) /\ Cardinality(Open) \in Nat
      BY <3>1, MonitorAssumption, FS_Subset, FS_CardinalityType
    <3>3. Cardinality(Open) = 0
      BY <1>1, <3>2 DEF Begin, OneAtATime
    <3> QED
      BY <3>2, <3>3, FS_EmptySet
  <2>2. Open' = {r} /\ Committed' = Committed /\ r \notin Committed
    BY <1>1, <2>1 DEF Begin, Open, Committed, TypeInv, TypeOK
  <2>3. \A q \in Committed : ts'[q] = ts[q] /\ ts[q] < ts'[r]
    BY <1>1, <2>2, BeginTypes DEF Begin, Committed, TypeInv, TypeOK
  <2> QED
    BY <2>2, <2>3
<1>2. ASSUME NEW r \in Row, Commit(r)
      PROVE  TurnInv'
  <2>1. Open' = Open \ {r} /\ r \in Open
    BY <1>2 DEF Commit, Open, TypeInv, TypeOK
  <2> QED
    BY <2>1
<1>3. ASSUME UNCHANGED <<row, ts>>
      PROVE  TurnInv'
  BY <1>3 DEF Open, Committed
<1>4. \/ \E r \in Row : Begin(r) \/ Commit(r)
      \/ UNCHANGED <<row, ts>>
  BY DEF Next, Stream, Emit, Poll, FallBack, PollFails, Broadcast, Put,
         Subscribe, Disconnect, vars, tableVars
<1> QED
  BY <1>1, <1>2, <1>3, <1>4

LEMMA NextPassed ==
  ASSUME TypeInv, SignalInv, TurnInv, NothingPassedOver, [Next]_vars
  PROVE  NothingPassedOver'
<1> USE DEF TypeInv
<1>1. \A r \in Row : ts[r] \in Nat
  BY RowCount DEF TypeOK
<1>2. since \in Nat /\ lastVal \in Nat
  BY RowCount DEF TypeOK
<1>3. ASSUME Shown' = Shown, UNCHANGED <<row, ts, lastVal, since>>
      PROVE  NothingPassedOver'
  BY <1>3 DEF NothingPassedOver, Shown, Committed
<1>4. ASSUME NEW r \in Row, Begin(r)
      PROVE  NothingPassedOver'
  <2>1. /\ Shown' = Shown /\ UNCHANGED <<lastVal, since>>
        /\ Committed' = Committed /\ \A q \in Committed : ts'[q] = ts[q]
    BY <1>4 DEF Begin, Committed, Shown, threadVars, clientVars, TypeOK
  <2> QED
    BY <2>1 DEF NothingPassedOver, Shown
<1>5. ASSUME NEW r \in Row, Commit(r)
      PROVE  NothingPassedOver'
  <2>1. /\ Shown' = Shown /\ UNCHANGED <<ts, lastVal, since>>
        /\ Committed' = Committed \cup {r} /\ r \in Open
    BY <1>5 DEF Commit, Committed, Open, Shown, threadVars, clientVars, TypeOK
  <2>2. since # 0 => ts[r] > lastVal
    BY <2>1 DEF SignalInv, TurnInv
  <2>3. ~(ts[r] \in since .. lastVal /\ since # 0)
    BY <1>1, <1>2, <2>2
  <2> QED
    BY <2>1, <2>3 DEF NothingPassedOver, Shown
<1>6. ASSUME NEW r \in Row, Emit(r)
      PROVE  NothingPassedOver'
  <2>1. since' = 0
    BY <1>6 DEF Emit, SignalInv
  <2> QED
    BY <2>1 DEF NothingPassedOver
<1>7. CASE Poll
  <2> SUFFICES ASSUME NEW r \in Committed', ts[r] \in since' .. lastVal'
               PROVE  r \in ToSet(Shown')
    BY <1>7 DEF Poll, tableVars, NothingPassedOver, Shown
  <2>1. /\ Resumed /\ UNCHANGED <<sent, row, ts>>
        /\ since' = IF lastVal = 0 THEN lastVal' ELSE since
    BY <1>7 DEF Poll, tableVars, clientVars
  <2>2. /\ Shown = sent /\ Len(sent) \in Nat /\ Len(batch') \in Nat
        /\ DOMAIN Shown = 1 .. Len(sent) /\ DOMAIN batch' = 1 .. Len(batch')
        /\ DOMAIN Shown' = 1 .. Len(sent) + Len(batch')
        /\ \A k \in 1 .. Len(sent) : Shown'[k] = Shown[k]
        /\ \A k \in 1 .. Len(batch') : Shown'[Len(sent) + k] = batch'[k]
    BY <1>7, <2>1, PollTypes, ShownGrows
  <2>3. r \in Committed /\ ts[r] \in Nat /\ lastVal' \in Nat
    BY <1>1, <1>7, <2>1, PollTypes, RowCount DEF Committed
  <2>4. CASE r \in NewRows
    <3>1. PICK i \in DOMAIN batch' : batch'[i] = r
      BY <1>7, <2>4, PollTypes
    <3>2. Len(sent) + i \in DOMAIN Shown' /\ Shown'[Len(sent) + i] = r
      BY <2>2, <3>1
    <3> QED
      BY <3>2 DEF ToSet
  <2>5. CASE r \notin NewRows
    <3>1. lastVal # 0
      <4>1. SUFFICES ASSUME lastVal = 0, NEW q \in Committed
                     PROVE  ts[q] <= ts[r]
        BY <2>3, <2>5 DEF NewRows
      <4>2. PICK n \in NewRows : ts[n] = lastVal'
        BY <1>7, PollTypes
      <4>3. ts[q] <= ts[n]
        BY <4>1, <4>2 DEF NewRows
      <4>4. ts[r] = lastVal'
        BY <2>1, <2>3, <4>1
      <4> QED
        BY <4>2, <4>3, <4>4
    <3>2. ts[r] \in since .. lastVal /\ since # 0
      BY <1>2, <2>1, <2>3, <2>5, <3>1 DEF NewRows, SignalInv
    <3>3. r \in ToSet(Shown)
      BY <2>3, <3>2 DEF NothingPassedOver, Shown
    <3>4. PICK i \in DOMAIN Shown : Shown[i] = r
      BY <3>3 DEF ToSet
    <3>5. i \in DOMAIN Shown' /\ Shown'[i] = r
      BY <2>2, <3>4
    <3> QED
      BY <3>5 DEF ToSet
  <2> QED
    BY <2>4, <2>5
<1>8. CASE Broadcast
  <2>1. UNCHANGED <<row, ts, lastVal, since>>
    BY <1>8 DEF Broadcast, tableVars
  <2> QED
    BY <1>3, <1>8, <2>1, BroadcastKeepsShown
<1>9. CASE FallBack \/ PollFails
  BY <1>3, <1>9 DEF FallBack, PollFails, tableVars, clientVars, Shown
<1>10. ASSUME NEW c \in Client, Put(c) \/ Subscribe(c) \/ Disconnect(c)
       PROVE  NothingPassedOver'
  <2>1. UNCHANGED <<sent, batch, row, ts, lastVal, since>>
    BY <1>10 DEF Put, Subscribe, Disconnect, tableVars, threadVars
  <2> QED
    BY <1>3, <2>1 DEF Shown
<1>11. CASE UNCHANGED vars
  BY <1>3, <1>11 DEF vars, tableVars, threadVars, clientVars, Shown
<1> QED
  BY <1>4, <1>5, <1>6, <1>7, <1>8, <1>9, <1>10, <1>11 DEF Next, Stream

(* While one transaction writes the table at a time, polling passes over   *)
(* no row: whatever commits later has a later timestamp.                   *)
THEOREM PollsPassOverNothing ==
  ASSUME OneAtATime
  PROVE  Spec => []NothingPassedOver
<1>1. Init => TurnInv /\ NothingPassedOver
  BY DEF Init, TurnInv, NothingPassedOver, Open
<1>2. TypeInv /\ SignalInv /\ TurnInv /\ NothingPassedOver /\ [Next]_vars =>
        TurnInv' /\ NothingPassedOver'
  BY NextTurn, NextPassed
<1> QED
  BY <1>1, <1>2, Typing, Signalling, PTL DEF Spec

-----------------------------------------------------------------------------
(***************************************************************************)
(* What a connection gets.                                                 *)
(***************************************************************************)
LEMMA QueueTypes ==
  ASSUME TypeOK
  PROVE  /\ sent \in Seq(Row) /\ Len(sent) \in Nat
         /\ \A c \in Client : /\ queue[c] \in Seq(Row) /\ Len(queue[c]) \in Nat
                              /\ DOMAIN queue[c] = 1 .. Len(queue[c])
                              /\ joined[c] \in Nat
<1>1. \A c \in Client : queue[c] \in Seq(Row)
  BY DEF TypeOK
<1> QED
  BY <1>1, LenProperties DEF TypeOK

(* The event put to c is the one that follows what c has.                  *)
LEMMA PutPiece ==
  ASSUME TypeInv, PieceInv, NEW c \in Client, Put(c)
  PROVE  PieceOf(c)'
<1> DEFINE q == queue[c]
           n == Len(sent)
           e == Last(sent)
<1>1. /\ q \in Seq(Row) /\ Len(q) \in Nat /\ DOMAIN q = 1 .. Len(q)
      /\ n \in Nat /\ sent \in Seq(Row) /\ joined[c] \in Nat
  BY QueueTypes DEF TypeInv
<1>2. n > 0
  BY <1>1, LenProperties DEF TypeInv, Put
<1>3. e = sent[n] /\ e \in Row
  BY <1>1, <1>2, LenProperties DEF Last
<1>4. /\ \A k \in 1 .. Len(q) : q[k] = sent[joined[c] + k]
      /\ joined[c] + Len(q) = n - 1
  BY <1>1 DEF PieceInv, PieceOf, Put
<1>5. /\ sent' = sent /\ joined' = joined /\ c \notin todo'
      /\ queue'[c] = Append(q, e)
  BY DEF Put, TypeInv, TypeOK
<1> HIDE DEF q, e
<1>6. /\ Len(queue'[c]) = Len(q) + 1
      /\ DOMAIN queue'[c] = 1 .. Len(q) + 1
      /\ \A k \in 1 .. Len(q) : queue'[c][k] = q[k]
      /\ queue'[c][Len(q) + 1] = e
  BY <1>1, <1>3, <1>5, AppendProperties, LenProperties
<1>7. ASSUME NEW k \in 1 .. Len(q) + 1
      PROVE  queue'[c][k] = sent[joined[c] + k]
  <2>1. CASE k \in 1 .. Len(q)
    BY <1>4, <1>6, <2>1
  <2>2. CASE k = Len(q) + 1
    <3>1. joined[c] + k = n
      BY <1>1, <1>4, <2>2
    <3> QED
      BY <1>3, <1>6, <2>2, <3>1
  <2> QED
    BY <1>1, <2>1, <2>2
<1>8. joined[c] + Len(queue'[c]) = n
  BY <1>1, <1>4, <1>6
<1> QED
  BY <1>1, <1>5, <1>6, <1>7, <1>8 DEF PieceOf

LEMMA NextPiece ==
  ASSUME TypeInv, PieceInv, [Next]_vars
  PROVE  PieceInv'
<1> SUFFICES ASSUME NEW c \in Client
             PROVE  PieceOf(c)'
  BY DEF PieceInv
<1>1. /\ PieceOf(c)
      /\ Len(queue[c]) \in Nat /\ DOMAIN queue[c] = 1 .. Len(queue[c])
      /\ joined[c] \in Nat /\ Len(sent) \in Nat
  BY QueueTypes DEF PieceInv, TypeInv
<1>2. ASSUME UNCHANGED sent, queue'[c] = queue[c], joined'[c] = joined[c],
             c \in todo <=> c \in todo', c \in subscribers' => c \in subscribers
      PROVE  PieceOf(c)'
  BY <1>1, <1>2 DEF PieceOf
<1>3. CASE Broadcast
  <2>1. /\ sent' \in Seq(Row) /\ Len(sent') = Len(sent) + 1
        /\ \A k \in 1 .. Len(sent) : sent'[k] = sent[k]
    BY <1>3, BroadcastKeepsShown DEF TypeInv
  <2>2. todo = {} /\ todo' = subscribers /\ UNCHANGED <<queue, subscribers, joined>>
    BY <1>3 DEF Broadcast
  <2>3. \A k \in DOMAIN queue[c] : queue[c][k] = sent'[joined[c] + k]
    <3>1. \A k \in 1 .. Len(queue[c]) : joined[c] + k \in 1 .. Len(sent)
      BY <1>1 DEF PieceOf
    <3> QED
      BY <1>1, <2>1, <3>1 DEF PieceOf
  <2>4. /\ c \in subscribers => joined[c] + Len(queue[c]) = Len(sent)
        /\ joined[c] + Len(queue[c]) <= Len(sent)
    BY <1>1, <2>2 DEF PieceOf
  <2>5. /\ joined'[c] = joined[c] /\ queue'[c] = queue[c]
        /\ subscribers' = subscribers /\ todo' = subscribers
    BY <2>2
  <2>6. \A k \in DOMAIN queue'[c] : queue'[c][k] = sent'[joined'[c] + k]
    BY <2>3, <2>5
  <2>7. /\ joined'[c] + Len(queue'[c]) <= Len(sent')
        /\ c \in todo' => joined'[c] + Len(queue'[c]) = Len(sent') - 1
        /\ c \notin subscribers' \ todo'
    BY <1>1, <2>1, <2>4, <2>5
  <2> QED
    BY <2>6, <2>7 DEF PieceOf
<1>4. ASSUME NEW d \in Client, Put(d)
      PROVE  PieceOf(c)'
  <2>1. CASE d = c
    BY <1>4, <2>1, PutPiece
  <2>2. CASE d # c
    BY <1>2, <1>4, <2>2 DEF Put, TypeInv, TypeOK
  <2> QED
    BY <2>1, <2>2
<1>5. ASSUME NEW d \in Client, Subscribe(d)
      PROVE  PieceOf(c)'
  <2>1. CASE d = c
    <3>1. /\ queue'[c] = <<>> /\ joined'[c] = Len(sent) /\ sent' = sent
          /\ c \notin todo'
      BY <1>5, <2>1 DEF Subscribe, TypeInv, TypeOK
    <3>2. Len(queue'[c]) = 0 /\ DOMAIN queue'[c] = {}
      BY <3>1
    <3> QED
      BY <1>1, <3>1, <3>2 DEF PieceOf
  <2>2. CASE d # c
    BY <1>2, <1>5, <2>2 DEF Subscribe, TypeInv, TypeOK
  <2> QED
    BY <2>1, <2>2
<1>6. ASSUME NEW d \in Client, Disconnect(d)
      PROVE  PieceOf(c)'
  BY <1>2, <1>6 DEF Disconnect
<1>7. CASE UNCHANGED <<sent, queue, joined, todo, subscribers>>
  BY <1>2, <1>7
<1>8. \/ Broadcast \/ \E d \in Client : Put(d) \/ Subscribe(d) \/ Disconnect(d)
      \/ UNCHANGED <<sent, queue, joined, todo, subscribers>>
  BY DEF Next, Stream, Begin, Commit, Emit, Poll, FallBack, PollFails, vars,
         clientVars
<1> QED
  BY <1>3, <1>4, <1>5, <1>6, <1>7, <1>8

(* Pages come and go while an event is put to a copy of the subscribers,   *)
(* and polling may replace the feed: no connection misses an event that    *)
(* was broadcast after it subscribed, the first included, gets one more    *)
(* often or gets two in another order than they were broadcast.            *)
THEOREM NoGapForAnyone == Spec => []UnbrokenForEach
<1>1. Init => PieceInv
  <2> SUFFICES ASSUME Init, NEW c \in Client
               PROVE  PieceOf(c)
    BY DEF PieceInv
  <2>1. queue[c] = <<>> /\ sent = <<>> /\ joined[c] = 0 /\ todo = {}
    BY DEF Init
  <2> QED
    BY <2>1 DEF PieceOf
<1>2. TypeInv /\ PieceInv /\ [Next]_vars => PieceInv'
  BY NextPiece
<1>3. PieceInv => UnbrokenForEach
  BY DEF PieceInv, PieceOf, UnbrokenForEach
<1> QED
  BY <1>1, <1>2, <1>3, Typing, PTL DEF Spec
=============================================================================
