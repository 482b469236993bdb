---------------------------- MODULE RecallProof ----------------------------
(***************************************************************************)
(* What the steps of a job are told of each other, and what is shown of a  *)
(* job, for every corpus, plan, number of steps, of processes and of       *)
(* faults: proved with TLAPS.                                              *)
(***************************************************************************)
EXTENDS Recall, FiniteSetTheorems, SequenceTheorems, WellFoundedInduction, TLAPS

-----------------------------------------------------------------------------
(***************************************************************************)
(* The plan.                                                               *)
(***************************************************************************)
Least(S, m) == m \in S /\ \A n \in S : m <= n

LEMMA LeastExists ==
  ASSUME NEW S \in SUBSET Nat, S # {}
  PROVE  \E m \in Nat : Least(S, m)
<1>1. PICK m \in S : \A n \in S : <<n, m>> \notin OpToRel(<, Nat)
  BY NatLessThanWellFounded, WFMin
<1>2. \A n \in S : ~ (n < m)
  BY <1>1 DEF OpToRel
<1> QED
  BY <1>2 DEF Least

LEMMA ConcatLen ==
  ASSUME NEW S, NEW s \in Seq(S), NEW t \in Seq(S)
  PROVE  s \o t \in Seq(S) /\ Len(s \o t) = Len(s) + Len(t) /\ Len(s) \in Nat /\ Len(t) \in Nat
BY ConcatProperties, LenProperties

LEMMA ConcatLeft ==
  ASSUME NEW S, NEW s \in Seq(S), NEW t \in Seq(S), NEW i \in 1 .. Len(s)
  PROVE  (s \o t)[i] = s[i]
<1>1. i \in 1 .. Len(s) + Len(t) /\ i <= Len(s)
  BY LenProperties
<1> QED
  BY <1>1, ConcatProperties

LEMMA ConcatRight ==
  ASSUME NEW S, NEW s \in Seq(S), NEW t \in Seq(S), NEW i \in 1 .. Len(t),
         NEW j, j = Len(s) + i
  PROVE  (s \o t)[j] = t[i]
<1>1. j \in 1 .. Len(s) + Len(t) /\ ~ (j <= Len(s)) /\ j - Len(s) = i
  BY LenProperties
<1> QED
  BY <1>1, ConcatProperties

LEMMA ConcatFour ==
  ASSUME NEW S, NEW p \in Seq(S), NEW r \in Seq(S), NEW s \in Seq(S), NEW f \in Seq(S),
         NEW all, all = ((p \o r) \o s) \o f
  PROVE  /\ DOMAIN all = 1 .. Len(p) + Len(r) + Len(s) + Len(f)
         /\ \A i \in 1 .. Len(p) : all[i] = p[i]
         /\ \A i \in 1 .. Len(r) : all[Len(p) + i] = r[i]
         /\ \A i \in 1 .. Len(s) : all[Len(p) + Len(r) + i] = s[i]
         /\ \A i \in 1 .. Len(f) : all[Len(p) + Len(r) + Len(s) + i] = f[i]
<1>1. PICK q \in Seq(S) : q = p \o r /\ Len(q) = Len(p) + Len(r)
  BY ConcatLen
<1>2. PICK u \in Seq(S) : u = q \o s /\ Len(u) = Len(q) + Len(s)
  BY ConcatLen
<1>3. all \in Seq(S) /\ all = u \o f /\ Len(all) = Len(u) + Len(f)
  BY <1>1, <1>2, ConcatLen
<1>4. /\ Len(p) \in Nat /\ Len(r) \in Nat /\ Len(s) \in Nat /\ Len(f) \in Nat
      /\ Len(u) = Len(p) + Len(r) + Len(s)
  BY <1>1, <1>2, LenProperties
<1>5. DOMAIN all = 1 .. Len(p) + Len(r) + Len(s) + Len(f)
  BY <1>3, <1>4, LenProperties
<1>6. ASSUME NEW i \in 1 .. Len(p) PROVE all[i] = p[i]
  <2>1. i \in 1 .. Len(q) /\ i \in 1 .. Len(u)
    BY <1>1, <1>4
  <2>2. q[i] = p[i]
    BY <1>1, ConcatLeft
  <2>3. u[i] = q[i]
    BY <1>2, <2>1, ConcatLeft
  <2>4. all[i] = u[i]
    BY <1>3, <2>1, ConcatLeft
  <2> QED
    BY <2>2, <2>3, <2>4
<1>7. ASSUME NEW i \in 1 .. Len(r) PROVE all[Len(p) + i] = r[i]
  <2>1. Len(p) + i \in 1 .. Len(q) /\ Len(p) + i \in 1 .. Len(u)
    BY <1>1, <1>4
  <2>2. q[Len(p) + i] = r[i]
    BY <1>1, ConcatRight
  <2>3. u[Len(p) + i] = q[Len(p) + i]
    BY <1>2, <2>1, ConcatLeft
  <2>4. all[Len(p) + i] = u[Len(p) + i]
    BY <1>3, <2>1, ConcatLeft
  <2> QED
    BY <2>2, <2>3, <2>4
<1>8. ASSUME NEW i \in 1 .. Len(s) PROVE all[Len(p) + Len(r) + i] = s[i]
  <2>1. PICK j : j = Len(p) + Len(r) + i
    OBVIOUS
  <2>2. j \in 1 .. Len(u) /\ j = Len(q) + i
    BY <1>1, <1>4, <2>1
  <2>3. u[j] = s[i]
    BY <1>2, <2>2, ConcatRight
  <2>4. all[j] = u[j]
    BY <1>3, <2>2, ConcatLeft
  <2> QED
    BY <2>1, <2>3, <2>4
<1>9. ASSUME NEW i \in 1 .. Len(f) PROVE all[Len(p) + Len(r) + Len(s) + i] = f[i]
  <2>1. PICK j : j = Len(p) + Len(r) + Len(s) + i
    OBVIOUS
  <2>2. j = Len(u) + i
    BY <1>4, <2>1
  <2>3. all[j] = f[i]
    BY <1>3, <2>2, ConcatRight
  <2> QED
    BY <2>1, <2>3
<1> QED
  BY <1>5, <1>6, <1>7, <1>8, <1>9

(* The entry of step 1 comes first, then those of the documents, then      *)
(* syntheses and the final one - each at its place in a plan that fits.    *)
LEMMA PlanShape ==
  ASSUME NEW d \in Nat
  PROVE  \E k \in Nat :
           /\ DOMAIN StepPlan(d) = 1 .. d + k + 2
           /\ d + 2 <= PlanLength => d + k + 2 = PlanLength
           /\ StepPlan(d)[1] = Entry(1, "plan", 0)
           /\ \A i \in 1 .. d : StepPlan(d)[i + 1] = Entry(i + 1, "read", i)
           /\ \A i \in 1 .. k : /\ StepPlan(d)[d + 1 + i] = Entry(d + 1 + i, "synthesize", 0)
                              /\ d + 1 + i < PlanLength
           /\ StepPlan(d)[d + k + 2] = Entry(PlanLength, "synthesize_final", 0)
<1> DEFINE E  == [index : Nat, type : {"plan", "read", "synthesize", "synthesize_final"},
                  doc : Nat]
           p  == <<Entry(1, "plan", 0)>>
           r  == [i \in 1 .. d |-> Entry(i + 1, "read", i)]
           sy == [n \in 1 .. PlanLength |-> Entry(n, "synthesize", 0)]
           s  == Syntheses(d + 2)
           f  == <<Entry(PlanLength, "synthesize_final", 0)>>
<1>1. p \in Seq(E) /\ Len(p) = 1 /\ p[1] = Entry(1, "plan", 0)
  BY DEF Entry
<1>2. r \in Seq(E) /\ Len(r) = d /\ \A i \in 1 .. d : r[i] = Entry(i + 1, "read", i)
  BY DEF Entry
<1>3. PICK k \in Nat :
        /\ s \in Seq(E) /\ Len(s) = k
        /\ \A i \in 1 .. k : s[i] = Entry(d + 1 + i, "synthesize", 0) /\ d + 1 + i < PlanLength
        /\ d + 2 <= PlanLength => d + k + 2 = PlanLength
  <2>1. \A i \in 1 .. PlanLength : sy[i] = Entry(i, "synthesize", 0) /\ sy[i] \in E
    BY PlanAssumption DEF Entry
  <2> HIDE DEF sy
  <2>2. s = SubSeq(sy, d + 2, PlanLength - 1)
    BY DEF sy, Syntheses
  <2> HIDE DEF s, E
  <2>3. CASE d + 2 <= PlanLength - 1
    <3>1. /\ s \in Seq(E) /\ Len(s) = PlanLength - 1 - (d + 2) + 1
          /\ \A i \in 1 .. PlanLength - 1 - (d + 2) + 1 : s[i] = sy[d + 2 + i - 1]
      <4>1. \A i \in d + 2 .. PlanLength - 1 : sy[i] \in E
        BY <2>1, PlanAssumption
      <4> QED
        BY <2>2, <2>3, <4>1, SubSeqProperties, PlanAssumption
    <3>2. \A i \in 1 .. PlanLength - 2 - d :
            d + 2 + i - 1 = d + 1 + i /\ d + 1 + i \in 1 .. PlanLength - 1
      BY <2>3, PlanAssumption
    <3>3. PlanLength - 1 - (d + 2) + 1 = PlanLength - 2 - d /\ PlanLength - 2 - d \in Nat
      BY <2>3, PlanAssumption
    <3>4. \A i \in 1 .. PlanLength - 2 - d :
            s[i] = Entry(d + 1 + i, "synthesize", 0) /\ d + 1 + i < PlanLength
      BY <3>1, <3>2, <3>3, <2>1, PlanAssumption
    <3>5. PICK k \in Nat : k = PlanLength - 2 - d
      BY <3>3
    <3>6. d + k + 2 = PlanLength
      BY <3>5, PlanAssumption
    <3>7. s \in Seq(E) /\ Len(s) = k
      BY <3>1, <3>3, <3>5
    <3>8. \A i \in 1 .. k : s[i] = Entry(d + 1 + i, "synthesize", 0) /\ d + 1 + i < PlanLength
      BY <3>4, <3>5
    <3> QED
      BY <3>6, <3>7, <3>8
  <2>4. CASE ~ (d + 2 <= PlanLength - 1)
    <3>1. s = <<>>
      BY <2>2, <2>4, SubSeqEmpty, PlanAssumption
    <3>2. s \in Seq(E) /\ Len(s) = 0
      BY <3>1
    <3>3. d + 2 <= PlanLength => d + 0 + 2 = PlanLength
      BY <2>4, PlanAssumption
    <3> HIDE DEF s
    <3>4. \A i \in 1 .. 0 : s[i] = Entry(d + 1 + i, "synthesize", 0) /\ d + 1 + i < PlanLength
      OBVIOUS
    <3>5. 0 \in Nat
      OBVIOUS
    <3>6. \E k \in Nat : k = 0
      BY <3>5
    <3> QED
      BY <3>2, <3>3, <3>4, <3>6
  <2> QED
    BY <2>3, <2>4
<1>4. f \in Seq(E) /\ Len(f) = 1 /\ f[1] = Entry(PlanLength, "synthesize_final", 0)
  BY PlanAssumption DEF Entry
<1>5. StepPlan(d) = ((p \o r) \o s) \o f
  BY DEF StepPlan
<1> HIDE DEF p, r, s, f, E
<1>6. /\ DOMAIN StepPlan(d) = 1 .. Len(p) + Len(r) + Len(s) + Len(f)
      /\ \A i \in 1 .. Len(p) : StepPlan(d)[i] = p[i]
      /\ \A i \in 1 .. Len(r) : StepPlan(d)[Len(p) + i] = r[i]
      /\ \A i \in 1 .. Len(s) : StepPlan(d)[Len(p) + Len(r) + i] = s[i]
      /\ \A i \in 1 .. Len(f) : StepPlan(d)[Len(p) + Len(r) + Len(s) + i] = f[i]
  <2>1. p \in Seq(E) /\ r \in Seq(E) /\ s \in Seq(E) /\ f \in Seq(E)
    BY <1>1, <1>2, <1>3, <1>4
  <2>2. PICK all : all = StepPlan(d)
    OBVIOUS
  <2>3. all = ((p \o r) \o s) \o f
    BY <2>2, <1>5
  <2>4. /\ DOMAIN all = 1 .. Len(p) + Len(r) + Len(s) + Len(f)
        /\ \A i \in 1 .. Len(p) : all[i] = p[i]
        /\ \A i \in 1 .. Len(r) : all[Len(p) + i] = r[i]
        /\ \A i \in 1 .. Len(s) : all[Len(p) + Len(r) + i] = s[i]
        /\ \A i \in 1 .. Len(f) : all[Len(p) + Len(r) + Len(s) + i] = f[i]
    BY <2>1, <2>3, ConcatFour
  <2> QED
    BY <2>2, <2>4
<1>7. DOMAIN StepPlan(d) = 1 .. d + k + 2
  <2>1. Len(p) + Len(r) + Len(s) + Len(f) = d + k + 2
    BY <1>1, <1>2, <1>3, <1>4
  <2> QED
    BY <2>1, <1>6
<1>8. /\ StepPlan(d)[1] = Entry(1, "plan", 0)
      /\ StepPlan(d)[d + k + 2] = Entry(PlanLength, "synthesize_final", 0)
  <2>1. Len(p) + Len(r) + Len(s) + 1 = d + k + 2 /\ 1 \in 1 .. Len(p) /\ 1 \in 1 .. Len(f)
    BY <1>1, <1>2, <1>3, <1>4
  <2> QED
    BY <2>1, <1>6, <1>1, <1>4
<1>9. ASSUME NEW i \in 1 .. d PROVE StepPlan(d)[i + 1] = Entry(i + 1, "read", i)
  <2>1. Len(p) + i = i + 1 /\ i \in 1 .. Len(r)
    BY <1>1, <1>2
  <2> QED
    BY <2>1, <1>6, <1>2
<1>10. ASSUME NEW i \in 1 .. k
       PROVE  StepPlan(d)[d + 1 + i] = Entry(d + 1 + i, "synthesize", 0)
  <2>1. Len(p) + Len(r) + i = d + 1 + i /\ i \in 1 .. Len(s)
    BY <1>1, <1>2, <1>3
  <2> QED
    BY <2>1, <1>6, <1>3
<1> QED
  BY <1>3, <1>7, <1>8, <1>9, <1>10

LEMMA FirstEntry ==
  ASSUME NEW d \in Nat, NEW n, HasStep(d, n)
  PROVE  \E i \in DOMAIN StepPlan(d) :
           StepType(d, n) = StepPlan(d)[i] /\ StepPlan(d)[i].index = n
<1> DEFINE hits == {i \in DOMAIN StepPlan(d) : StepPlan(d)[i].index = n}
<1>1. PICK l \in Nat : DOMAIN StepPlan(d) = 1 .. l
  <2>1. PICK k \in Nat : DOMAIN StepPlan(d) = 1 .. d + k + 2
    BY PlanShape
  <2>2. d + k + 2 \in Nat
    OBVIOUS
  <2> QED
    BY <2>1, <2>2
<1>2. hits # {} /\ hits \in SUBSET Nat
  BY <1>1 DEF HasStep
<1>3. PICK m \in Nat : Least(hits, m)
  BY <1>2, LeastExists
<1>4. /\ m \in DOMAIN StepPlan(d) /\ StepPlan(d)[m].index = n
      /\ \A j \in 1 .. m - 1 : StepPlan(d)[j].index # n
  BY <1>1, <1>3 DEF Least
<1> HIDE DEF hits
<1> QED
  BY <1>4 DEF StepType

(* The first step is the plan, every other one leaves a text that read_state *)
(* takes among the findings.                                               *)
LEMMA KindOfStep ==
  ASSUME NEW d \in Nat, NEW n \in Nat, HasStep(d, n)
  PROVE  IF n = 1 THEN StepKind(d, n) = "plan"
         ELSE n >= 2 /\ StepKind(d, n) \in {"finding", "synthesis"}
<1>1. PICK i \in DOMAIN StepPlan(d) :
        StepType(d, n) = StepPlan(d)[i] /\ StepPlan(d)[i].index = n
  BY FirstEntry
<1>2. PICK k \in Nat :
        /\ DOMAIN StepPlan(d) = 1 .. d + k + 2
        /\ StepPlan(d)[1] = Entry(1, "plan", 0)
        /\ \A j \in 1 .. d : StepPlan(d)[j + 1] = Entry(j + 1, "read", j)
        /\ \A j \in 1 .. k : StepPlan(d)[d + 1 + j] = Entry(d + 1 + j, "synthesize", 0)
        /\ StepPlan(d)[d + k + 2] = Entry(PlanLength, "synthesize_final", 0)
  BY PlanShape
<1>3. CASE i = 1
  BY <1>1, <1>2, <1>3 DEF Entry, StepKind
<1>4. CASE i \in 2 .. d + 1
  <2>1. PICK j \in 1 .. d : i = j + 1
    BY <1>4
  <2>2. StepType(d, n) = Entry(j + 1, "read", j) /\ n = j + 1
    BY <1>1, <1>2, <2>1 DEF Entry
  <2> QED
    BY <2>2 DEF Entry, StepKind
<1>5. CASE i \in d + 2 .. d + k + 1
  <2>1. PICK j \in 1 .. k : i = d + 1 + j
    BY <1>5
  <2>2. StepPlan(d)[i] = Entry(d + 1 + j, "synthesize", 0)
    BY <1>2, <2>1
  <2>3. StepType(d, n).type = "synthesize" /\ n = d + 1 + j
    BY <1>1, <2>2 DEF Entry
  <2> QED
    BY <2>3 DEF StepKind
<1>6. CASE i = d + k + 2
  <2>1. StepType(d, n) = Entry(PlanLength, "synthesize_final", 0) /\ n = PlanLength
    BY <1>1, <1>2, <1>6 DEF Entry
  <2> QED
    BY <2>1, PlanAssumption DEF Entry, StepKind
<1> QED
  BY <1>1, <1>2, <1>3, <1>4, <1>5, <1>6

LEMMA FirstStep ==
  ASSUME NEW d \in Nat
  PROVE  HasStep(d, 1)
<1>1. 1 \in DOMAIN StepPlan(d) /\ StepPlan(d)[1] = Entry(1, "plan", 0)
  BY PlanShape
<1> QED
  BY <1>1 DEF HasStep, Entry

(* A plan that fits has every step once, and its type is that of its place. *)
LEMMA FittingPlan ==
  ASSUME NEW d \in Nat, d + 2 <= PlanLength
  PROVE  /\ \A j \in 1 .. d : StepType(d, j + 1) = Entry(j + 1, "read", j)
         /\ StepType(d, PlanLength).type = "synthesize_final"
<1>1. PICK k \in Nat :
        /\ DOMAIN StepPlan(d) = 1 .. d + k + 2
        /\ d + k + 2 = PlanLength
        /\ StepPlan(d)[1] = Entry(1, "plan", 0)
        /\ \A j \in 1 .. d : StepPlan(d)[j + 1] = Entry(j + 1, "read", j)
        /\ \A j \in 1 .. k : StepPlan(d)[d + 1 + j] = Entry(d + 1 + j, "synthesize", 0)
        /\ StepPlan(d)[d + k + 2] = Entry(PlanLength, "synthesize_final", 0)
  BY PlanShape
<1>2. ASSUME NEW i \in 1 .. PlanLength PROVE StepPlan(d)[i].index = i
  <2>1. CASE i = 1
    BY <1>1, <2>1 DEF Entry
  <2>2. CASE i \in 2 .. d + 1
    <3>1. i - 1 \in 1 .. d /\ i - 1 + 1 = i
      BY <2>2
    <3>2. StepPlan(d)[i] = Entry(i, "read", i - 1)
      BY <1>1, <3>1
    <3> QED
      BY <3>2 DEF Entry
  <2>3. CASE i \in d + 2 .. d + k + 1
    <3>1. i - d - 1 \in 1 .. k /\ d + 1 + (i - d - 1) = i
      BY <2>3
    <3>2. StepPlan(d)[i] = Entry(i, "synthesize", 0)
      BY <1>1, <3>1
    <3> QED
      BY <3>2 DEF Entry
  <2>4. CASE i = d + k + 2
    BY <1>1, <2>4 DEF Entry
  <2> QED
    BY <1>1, <2>1, <2>2, <2>3, <2>4
<1>3. ASSUME NEW n \in 1 .. PlanLength PROVE StepType(d, n) = StepPlan(d)[n]
  <2>1. HasStep(d, n)
    BY <1>1, <1>2 DEF HasStep
  <2>2. PICK i \in DOMAIN StepPlan(d) :
          StepType(d, n) = StepPlan(d)[i] /\ StepPlan(d)[i].index = n
    BY <2>1, FirstEntry
  <2> QED
    BY <2>2, <1>1, <1>2
<1>4. ASSUME NEW j \in 1 .. d PROVE StepType(d, j + 1) = Entry(j + 1, "read", j)
  <2>1. j + 1 \in 1 .. PlanLength
    BY <1>1
  <2> QED
    BY <2>1, <1>1, <1>3
<1>5. StepType(d, PlanLength).type = "synthesize_final"
  <2>1. PlanLength \in 1 .. PlanLength
    BY PlanAssumption
  <2> QED
    BY <2>1, <1>1, <1>3 DEF Entry
<1> QED
  BY <1>4, <1>5

-----------------------------------------------------------------------------
(***************************************************************************)
(* Rows in the order of their steps.                                       *)
(***************************************************************************)
LEMMA StepsRange ==
  \E top \in Nat \ {0} : Steps = 1 .. top /\ \A n \in Totals : n \in 1 .. top
<1> DEFINE top == CHOOSE m \in Totals : \A n \in Totals : n <= m
<1>1. top \in Totals /\ \A n \in Totals : n <= top
  BY SizeAssumption
<1>2. Steps = 1 .. top
  BY DEF Steps
<1> HIDE DEF top
<1>3. top \in Nat \ {0} /\ \A n \in Totals : n \in 1 .. top
  BY <1>1, SizeAssumption
<1> QED
  BY <1>2, <1>3

RowSet(rows) == IsFiniteSet(rows) /\ rows \subseteq Steps \X Nat

LEMMA UpToGrows ==
  ASSUME NEW rows, RowSet(rows), NEW m \in Nat, NEW n \in Nat, m <= n
  PROVE  /\ UpTo(rows, m) \in Nat
         /\ UpTo(rows, m) <= UpTo(rows, n) /\ UpTo(rows, n) <= Cardinality(rows)
         /\ (\E r \in rows : r[1] = n) /\ m < n => UpTo(rows, m) < UpTo(rows, n)
<1> DEFINE M == {r \in rows : r[1] <= m}
           N == {r \in rows : r[1] <= n}
<1>1. \A r \in rows : r[1] \in Nat
  BY StepsRange DEF RowSet
<1>2. M \in SUBSET N /\ N \in SUBSET rows
  BY <1>1
<1>3. IsFiniteSet(N) /\ Cardinality(N) <= Cardinality(rows)
  BY <1>2, FS_Subset DEF RowSet
<1>4. /\ IsFiniteSet(M) /\ Cardinality(M) <= Cardinality(N)
      /\ Cardinality(N) = Cardinality(M) => N = M
  BY <1>2, <1>3, FS_Subset
<1>5. (\E r \in rows : r[1] = n) /\ m < n => N # M
  BY <1>1
<1>6. Cardinality(M) \in Nat /\ Cardinality(N) \in Nat
  BY <1>3, <1>4, FS_CardinalityType
<1>7. UpTo(rows, m) = Cardinality(M) /\ UpTo(rows, n) = Cardinality(N)
  BY DEF UpTo
<1> QED
  BY <1>3, <1>4, <1>5, <1>6, <1>7

LEMMA UpToEnds ==
  ASSUME NEW rows, RowSet(rows), NEW top \in Nat, Steps = 1 .. top
  PROVE  UpTo(rows, 0) = 0 /\ UpTo(rows, top) = Cardinality(rows)
<1>1. \A r \in rows : r[1] \in 1 .. top
  BY DEF RowSet
<1>2. {r \in rows : r[1] <= 0} = {} /\ {r \in rows : r[1] <= top} = rows
  BY <1>1
<1> QED
  BY <1>2, FS_EmptySet DEF UpTo

(* A row has a place in the list: that of a step up to which there are     *)
(* enough rows, and before which there are too few.                        *)
LEMMA StepAtPlace ==
  ASSUME NEW rows, RowSet(rows), NEW i \in 1 .. Cardinality(rows)
  PROVE  /\ StepAt(rows, i) \in Steps /\ StepAt(rows, i) \in Nat \ {0}
         /\ i <= UpTo(rows, StepAt(rows, i)) /\ UpTo(rows, StepAt(rows, i) - 1) < i
<1>1. PICK top \in Nat \ {0} : Steps = 1 .. top
  BY StepsRange
<1> DEFINE S == {n \in Nat : i <= UpTo(rows, n)}
<1>2. top \in S
  BY <1>1, UpToEnds, FS_CardinalityType DEF RowSet
<1>3. PICK n \in Nat : Least(S, n)
  BY <1>2, LeastExists
<1>4. n \in S /\ \A k \in S : n <= k
  BY <1>3 DEF Least
<1>5. n # 0
  BY <1>1, <1>4, UpToEnds, FS_CardinalityType DEF RowSet
<1>6. n \in 1 .. top
  BY <1>2, <1>4, <1>5
<1>7. i <= UpTo(rows, n) /\ UpTo(rows, n - 1) < i
  <2>1. n - 1 \in Nat /\ n - 1 \notin S
    BY <1>4, <1>5
  <2>2. UpTo(rows, n - 1) \in Nat
    BY <2>1, UpToGrows
  <2> QED
    BY <1>4, <2>1, <2>2
<1>8. \E k \in Steps : i <= UpTo(rows, k) /\ UpTo(rows, k - 1) < i
  BY <1>1, <1>6, <1>7
<1>9. /\ StepAt(rows, i) \in Steps
      /\ i <= UpTo(rows, StepAt(rows, i)) /\ UpTo(rows, StepAt(rows, i) - 1) < i
  <2> DEFINE P(k) == i <= UpTo(rows, k) /\ UpTo(rows, k - 1) < i
  <2>1. StepAt(rows, i) = CHOOSE k \in Steps : P(k)
    BY DEF StepAt
  <2>2. \E k \in Steps : P(k)
    BY <1>8
  <2> HIDE DEF P
  <2>3. StepAt(rows, i) \in Steps /\ P(StepAt(rows, i))
    BY <2>1, <2>2
  <2> QED
    BY <2>3 DEF P
<1> QED
  BY <1>1, <1>9

LEMMA StepAtUnique ==
  ASSUME NEW rows, RowSet(rows), NEW i \in 1 .. Cardinality(rows), NEW n \in Nat \ {0},
         i <= UpTo(rows, n), UpTo(rows, n - 1) < i
  PROVE  StepAt(rows, i) = n
<1> DEFINE k == StepAt(rows, i)
<1>1. k \in Nat \ {0} /\ i <= UpTo(rows, k) /\ UpTo(rows, k - 1) < i
  BY StepAtPlace
<1> HIDE DEF k
<1>2. k - 1 \in Nat /\ n - 1 \in Nat
  BY <1>1
<1>3. UpTo(rows, k) \in Nat /\ UpTo(rows, n) \in Nat /\ UpTo(rows, k - 1) \in Nat /\ UpTo(rows, n - 1) \in Nat
  BY <1>1, <1>2, UpToGrows
<1>4. ~ (k <= n - 1)
  <2>1. k <= n - 1 => UpTo(rows, k) <= UpTo(rows, n - 1)
    BY <1>1, <1>2, UpToGrows
  <2> QED
    BY <2>1, <1>1, <1>3
<1>5. ~ (n <= k - 1)
  <2>1. n <= k - 1 => UpTo(rows, n) <= UpTo(rows, k - 1)
    BY <1>1, <1>2, UpToGrows
  <2> QED
    BY <2>1, <1>1, <1>3
<1> QED
  BY <1>1, <1>4, <1>5 DEF k

(* What ORDER BY step gives: only the steps of the rows, in order, and all *)
(* of them.                                                                *)
LEMMA InOrderProperties ==
  ASSUME NEW rows, RowSet(rows)
  PROVE  /\ InOrder(rows) \in Seq(Steps)
         /\ InOrder(rows) = [i \in 1 .. Cardinality(rows) |-> StepAt(rows, i)]
         /\ \A i, j \in DOMAIN InOrder(rows) : i <= j => InOrder(rows)[i] <= InOrder(rows)[j]
         /\ \A r \in rows : \E i \in DOMAIN InOrder(rows) : InOrder(rows)[i] = r[1]
<1> DEFINE f == [i \in 1 .. Cardinality(rows) |-> StepAt(rows, i)]
<1>1. InOrder(rows) = f
  BY DEF InOrder
<1>2. PICK c \in Nat : Cardinality(rows) = c
  BY FS_CardinalityType DEF RowSet
<1>3. f \in Seq(Steps)
  BY <1>2, StepAtPlace
<1>4. ASSUME NEW i \in 1 .. c, NEW j \in 1 .. c, i <= j
      PROVE  StepAt(rows, i) <= StepAt(rows, j)
  <2>1. PICK m \in Nat \ {0} : m = StepAt(rows, i) /\ i <= UpTo(rows, m) /\ UpTo(rows, m - 1) < i
    BY <1>2, StepAtPlace
  <2>2. PICK n \in Nat \ {0} : n = StepAt(rows, j) /\ j <= UpTo(rows, n) /\ UpTo(rows, n - 1) < j
    BY <1>2, StepAtPlace
  <2>3. m - 1 \in Nat
    OBVIOUS
  <2>4. UpTo(rows, m - 1) \in Nat /\ UpTo(rows, n) \in Nat
    BY <2>3, UpToGrows
  <2>5. n <= m - 1 => UpTo(rows, n) <= UpTo(rows, m - 1)
    BY <2>3, UpToGrows
  <2>6. ~ (n <= m - 1)
    BY <2>1, <2>2, <2>4, <2>5, <1>4
  <2> QED
    BY <2>1, <2>2, <2>6
<1>5. ASSUME NEW r \in rows PROVE \E i \in 1 .. c : StepAt(rows, i) = r[1]
  <2>1. r[1] \in Nat \ {0}
    BY StepsRange DEF RowSet
  <2>2. PICK n \in Nat \ {0} : n = r[1]
    BY <2>1
  <2>3. n - 1 \in Nat /\ n - 1 < n
    OBVIOUS
  <2>4. UpTo(rows, n - 1) < UpTo(rows, n) /\ UpTo(rows, n) <= c
    BY <1>2, <2>2, <2>3, UpToGrows
  <2>5. UpTo(rows, n - 1) \in Nat /\ UpTo(rows, n) \in Nat
    BY <2>3, UpToGrows
  <2>6. UpTo(rows, n) \in 1 .. c
    BY <2>4, <2>5
  <2>7. StepAt(rows, UpTo(rows, n)) = n
    BY <1>2, <2>4, <2>5, <2>6, StepAtUnique
  <2> QED
    BY <2>2, <2>6, <2>7
<1>6. DOMAIN f = 1 .. c /\ \A i \in 1 .. c : f[i] = StepAt(rows, i)
  BY <1>2
<1> HIDE DEF f
<1>7. \A i, j \in DOMAIN f : i <= j => f[i] <= f[j]
  BY <1>4, <1>6
<1>8. \A r \in rows : \E i \in DOMAIN f : f[i] = r[1]
  BY <1>5, <1>6
<1> QED
  BY <1>1, <1>3, <1>7, <1>8 DEF f

RowsOf(c, S) == UNION {{n} \X (1 .. c[n]) : n \in S}

LEMMA RowsAreRows ==
  ASSUME NEW c \in [Steps -> Nat], NEW S \in SUBSET Steps,
         NEW M \in Nat, \A n \in Steps : c[n] <= M
  PROVE  /\ RowSet(RowsOf(c, S))
         /\ \A n \in S : c[n] > 0 => \E r \in RowsOf(c, S) : r[1] = n
<1>1. RowsOf(c, S) \subseteq Steps \X (1 .. M)
  BY DEF RowsOf
<1>2. IsFiniteSet(Steps) /\ IsFiniteSet(1 .. M)
  BY StepsRange, FS_Interval
<1>3. IsFiniteSet(RowsOf(c, S))
  BY <1>1, <1>2, FS_Product, FS_Subset
<1>4. ASSUME NEW n \in S, c[n] > 0 PROVE \E r \in RowsOf(c, S) : r[1] = n
  <2>1. 1 \in 1 .. c[n]
    BY <1>4
  <2>2. <<n, 1>> \in RowsOf(c, S)
    BY <2>1 DEF RowsOf
  <2> QED
    BY <2>2
<1> QED
  BY <1>1, <1>3, <1>4 DEF RowSet

LEMMA OneEach ==
  ASSUME NEW S, IsFiniteSet(S)
  PROVE  IsFiniteSet(S \X {1}) /\ Cardinality(S \X {1}) = Cardinality(S)
<1>1. IsFiniteSet({1}) /\ Cardinality({1}) = 1
  BY FS_Singleton, Zenon
<1>2. IsFiniteSet(S \X {1}) /\ Cardinality(S \X {1}) = Cardinality(S) * Cardinality({1})
  BY <1>1, FS_Product, Zenon
<1>3. Cardinality(S) \in Nat
  BY FS_CardinalityType
<1> QED
  BY <1>1, <1>2, <1>3

(* One row for each of the steps 2, 3, ... before step m.                  *)
LEMMA OneRowEach ==
  ASSUME NEW m \in Nat \ {0}, 2 .. m - 1 \subseteq Steps,
         NEW c \in [Steps -> Nat], \A n \in 2 .. m - 1 : c[n] = 1
  PROVE  InOrder(RowsOf(c, 2 .. m - 1)) = [i \in 1 .. m - 2 |-> i + 1]
<1> DEFINE rows == RowsOf(c, 2 .. m - 1)
<1>1. rows = (2 .. m - 1) \X {1}
  <2>1. \A n \in 2 .. m - 1 : 1 .. c[n] = {1}
    OBVIOUS
  <2>2. \A r \in rows : r \in (2 .. m - 1) \X {1}
    BY <2>1 DEF RowsOf
  <2>3. ASSUME NEW r \in (2 .. m - 1) \X {1} PROVE r \in rows
    <3>1. r[1] \in 2 .. m - 1 /\ r = <<r[1], 1>>
      OBVIOUS
    <3>2. 1 \in 1 .. c[r[1]]
      BY <3>1
    <3>3. r \in {r[1]} \X (1 .. c[r[1]])
      BY <3>1, <3>2
    <3> QED
      BY <3>1, <3>3 DEF RowsOf
  <2> QED
    BY <2>2, <2>3
<1> HIDE DEF rows
<1>2. ASSUME NEW k \in 1 .. m - 1
      PROVE  UpTo(rows, k) = k - 1
  <2>1. {r \in rows : r[1] <= k} = (2 .. k) \X {1}
    BY <1>1
  <2>2. IsFiniteSet(2 .. k) /\ Cardinality(2 .. k) = k - 1
    BY FS_Interval
  <2>3. Cardinality((2 .. k) \X {1}) = k - 1
    BY <2>2, OneEach
  <2>4. UpTo(rows, k) = Cardinality({r \in rows : r[1] <= k})
    BY DEF UpTo
  <2> QED
    BY <2>1, <2>3, <2>4
<1>3. RowSet(rows) /\ Cardinality(rows) = IF m = 1 THEN 0 ELSE m - 2
  <2>1. IsFiniteSet(2 .. m - 1) /\ Cardinality(2 .. m - 1) = IF m = 1 THEN 0 ELSE m - 2
    BY FS_Interval
  <2>2. /\ IsFiniteSet((2 .. m - 1) \X {1})
        /\ Cardinality((2 .. m - 1) \X {1}) = Cardinality(2 .. m - 1)
    BY <2>1, OneEach
  <2> QED
    BY <1>1, <2>1, <2>2 DEF RowSet
<1>4. ASSUME NEW i \in 1 .. m - 2 PROVE StepAt(rows, i) = i + 1
  <2>1. i + 1 \in Nat \ {0} /\ i + 1 \in 1 .. m - 1 /\ i \in 1 .. m - 1 /\ i + 1 - 1 = i
    OBVIOUS
  <2>2. UpTo(rows, i + 1) = i /\ UpTo(rows, i) = i - 1
    BY <2>1, <1>2
  <2>3. i \in 1 .. Cardinality(rows)
    BY <1>3
  <2>4. i <= UpTo(rows, i + 1) /\ UpTo(rows, i + 1 - 1) < i
    BY <2>1, <2>2
  <2> QED
    BY <1>3, <2>1, <2>3, <2>4, StepAtUnique
<1>5. 1 .. Cardinality(rows) = 1 .. m - 2
  BY <1>3
<1>6. InOrder(rows) = [i \in 1 .. Cardinality(rows) |-> StepAt(rows, i)]
  BY <1>3, InOrderProperties
<1> QED
  BY <1>4, <1>5, <1>6 DEF rows

-----------------------------------------------------------------------------
(***************************************************************************)
(* The inductive invariant.  Every step before the one of the row has left *)
(* a text behind, and so has every step before the one a process is in -   *)
(* also when the row has been set back by a process that came late.        *)
(* Without evictions one process at most is in a step, that of the row,    *)
(* and every step before it has left its text once.                        *)
(***************************************************************************)
Kept(d, c, kinds) == {n \in Steps : c[n] > 0 /\ StepKind(d, n) \in kinds}

Past(d, c) == InOrder(RowsOf(c, Kept(d, c, {"finding", "synthesis"})))

WorkTypes ==
  /\ docs \in Nat /\ total \in Totals /\ exclusive \in BOOLEAN
  /\ step \in 1 .. total + 1
  /\ memory \in [Steps -> Nat] /\ \E m \in Nat : \A n \in Steps : memory[n] <= m
  /\ pc \in [Worker -> {"idle", "step", "dead"}]
  /\ prompt \in [Worker -> [step : Nat, plan : BOOLEAN, findings : Seq(Steps)]]

Written(c, s) == \A n \in 1 .. s - 1 : c[n] > 0

PastWritten ==
  /\ \A n \in Steps : memory[n] > 0 => HasStep(docs, n)
  /\ Written(memory, step)
  /\ done => Written(memory, total + 1)
  /\ \A w \in Worker : pc[w] = "step" =>
       /\ prompt[w].step \in 1 .. total /\ HasStep(docs, prompt[w].step)
       /\ Written(memory, prompt[w].step)

WrittenOnce ==
  exclusive =>
    /\ \A n \in Steps : memory[n] = IF n < step THEN 1 ELSE 0
    /\ \A w \in Worker : pc[w] = "step" => prompt[w].step = step /\ Alone(w)

Told(p, alone) ==
  /\ p.step > 1 => p.plan
  /\ 2 .. p.step - 1 \subseteq {p.findings[i] : i \in DOMAIN p.findings}
  /\ \A i, j \in DOMAIN p.findings : i <= j => p.findings[i] <= p.findings[j]
  /\ alone => p.findings = [i \in 1 .. p.step - 2 |-> i + 1]

AllTold == \A w \in Worker : pc[w] = "step" => Told(prompt[w], exclusive)

WorkInv == AllTold /\ WorkTypes /\ PastWritten /\ WrittenOnce

(* What read_state returns.                                                *)
LEMMA ReadState ==
  /\ Findings = Past(docs, memory)
  /\ PlanText = (Kept(docs, memory, {"plan"}) # {})
BY DEF Findings, PlanText, OfKind, Rows, Past, RowsOf, Kept

LEMMA ReadStateNext ==
  /\ Findings' = Past(docs', memory')
  /\ PlanText' = (Kept(docs', memory', {"plan"}) # {})
BY DEF Findings, PlanText, OfKind, Rows, Past, RowsOf, Kept

LEMMA PastCovers ==
  ASSUME NEW d \in Nat, NEW c \in [Steps -> Nat], NEW M \in Nat, \A n \in Steps : c[n] <= M,
         \A n \in Steps : c[n] > 0 => HasStep(d, n),
         NEW s \in Nat, 1 .. s - 1 \subseteq Steps, \A n \in 1 .. s - 1 : c[n] > 0
  PROVE  LET f == Past(d, c) IN
         /\ f \in Seq(Steps)
         /\ s > 1 => Kept(d, c, {"plan"}) # {}
         /\ 2 .. s - 1 \subseteq {f[i] : i \in DOMAIN f}
         /\ \A i, j \in DOMAIN f : i <= j => f[i] <= f[j]
<1> DEFINE S == Kept(d, c, {"finding", "synthesis"})
           f == Past(d, c)
<1>1. S \in SUBSET Steps
  BY DEF Kept
<1>2. Steps \subseteq Nat
  BY StepsRange
<1>3. f = InOrder(RowsOf(c, S))
  BY DEF Past
<1>4. RowSet(RowsOf(c, S)) /\ \A n \in S : c[n] > 0 => \E r \in RowsOf(c, S) : r[1] = n
  BY <1>1, RowsAreRows
<1>5. /\ f \in Seq(Steps)
      /\ \A i, j \in DOMAIN f : i <= j => f[i] <= f[j]
      /\ \A r \in RowsOf(c, S) : \E i \in DOMAIN f : f[i] = r[1]
  BY <1>3, <1>4, InOrderProperties
<1>6. ASSUME s > 1 PROVE Kept(d, c, {"plan"}) # {}
  <2>1. 1 \in Steps /\ c[1] > 0
    BY <1>6
  <2>2. StepKind(d, 1) = "plan"
    BY <2>1, KindOfStep
  <2>3. 1 \in Kept(d, c, {"plan"})
    BY <2>1, <2>2 DEF Kept
  <2> QED
    BY <2>3
<1>7. ASSUME NEW n \in 2 .. s - 1 PROVE \E i \in DOMAIN f : f[i] = n
  <2>1. n \in 1 .. s - 1 /\ n \in Nat /\ n # 1
    OBVIOUS
  <2>2. n \in Steps /\ c[n] > 0
    BY <2>1
  <2>3. StepKind(d, n) \in {"finding", "synthesis"}
    BY <2>1, <2>2, KindOfStep
  <2>4. n \in S
    BY <2>2, <2>3 DEF Kept
  <2> QED
    BY <2>2, <2>4, <1>4, <1>5
<1> QED
  BY <1>5, <1>6, <1>7

LEMMA PastOnce ==
  ASSUME NEW d \in Nat, NEW c \in [Steps -> Nat], NEW s \in Nat \ {0}, 1 .. s - 1 \subseteq Steps,
         \A n \in Steps : c[n] = IF n < s THEN 1 ELSE 0,
         \A n \in Steps : c[n] > 0 => HasStep(d, n)
  PROVE  Past(d, c) = [i \in 1 .. s - 2 |-> i + 1] /\ (Kept(d, c, {"plan"}) # {} <=> s > 1)
<1>1. Steps \subseteq Nat \ {0}
  BY StepsRange
<1>2. ASSUME NEW n \in Steps
      PROVE  /\ n \in Kept(d, c, {"finding", "synthesis"}) <=> n \in 2 .. s - 1
             /\ n \in Kept(d, c, {"plan"}) <=> n = 1 /\ s > 1
  <2>1. n \in Nat /\ n >= 1
    BY <1>1
  <2>2. CASE n < s
    <3>1. c[n] > 0 /\ HasStep(d, n)
      BY <2>2
    <3>2. IF n = 1 THEN StepKind(d, n) = "plan"
          ELSE n >= 2 /\ StepKind(d, n) \in {"finding", "synthesis"}
      BY <2>1, <3>1, KindOfStep
    <3> QED
      BY <2>1, <2>2, <3>1, <3>2 DEF Kept
  <2>3. CASE ~ (n < s)
    BY <2>1, <2>3 DEF Kept
  <2> QED
    BY <2>2, <2>3
<1>3. 2 .. s - 1 \subseteq Steps
  OBVIOUS
<1>4. Kept(d, c, {"finding", "synthesis"}) = 2 .. s - 1
  BY <1>2, <1>3 DEF Kept
<1>5. \A n \in 2 .. s - 1 : c[n] = 1
  BY <1>3
<1>6. Past(d, c) = [i \in 1 .. s - 2 |-> i + 1]
  BY <1>3, <1>4, <1>5, OneRowEach DEF Past
<1>7. Kept(d, c, {"plan"}) # {} <=> s > 1
  <2>1. s > 1 => 1 \in Steps
    OBVIOUS
  <2>2. Kept(d, c, {"plan"}) \subseteq Steps
    BY DEF Kept
  <2> QED
    BY <1>2, <2>1, <2>2
<1> QED
  BY <1>6, <1>7

LEMMA InSteps ==
  ASSUME WorkTypes
  PROVE  /\ total \in Nat \ {0} /\ step \in Nat \ {0} /\ 1 .. total \subseteq Steps
         /\ Steps \subseteq Nat \ {0}
<1>1. PICK top \in Nat \ {0} : Steps = 1 .. top /\ \A n \in Totals : n \in 1 .. top
  BY StepsRange
<1>2. total \in 1 .. top /\ step \in 1 .. total + 1
  BY <1>1 DEF WorkTypes
<1> QED
  BY <1>1, <1>2

(* What a process that begins a step is told.                              *)
LEMMA PromptRead ==
  ASSUME WorkInv
  PROVE  /\ Prompt \in [step : Nat, plan : BOOLEAN, findings : Seq(Steps)]
         /\ Prompt.step = step /\ Told(Prompt, exclusive)
<1>1. total \in Nat \ {0} /\ step \in Nat \ {0} /\ 1 .. total \subseteq Steps
  BY InSteps DEF WorkInv
<1>2. 1 .. step - 1 \subseteq Steps
  BY <1>1 DEF WorkInv, WorkTypes
<1>3. PICK M \in Nat : \A n \in Steps : memory[n] <= M
  BY DEF WorkInv, WorkTypes
<1>4. docs \in Nat /\ memory \in [Steps -> Nat] /\ \A n \in Steps : memory[n] > 0 => HasStep(docs, n)
  BY DEF WorkInv, WorkTypes, PastWritten
<1>5. \A n \in 1 .. step - 1 : memory[n] > 0
  BY DEF WorkInv, PastWritten, Written
<1> DEFINE f == Past(docs, memory)
<1>6. /\ f \in Seq(Steps)
      /\ step > 1 => Kept(docs, memory, {"plan"}) # {}
      /\ 2 .. step - 1 \subseteq {f[i] : i \in DOMAIN f}
      /\ \A i, j \in DOMAIN f : i <= j => f[i] <= f[j]
  BY <1>1, <1>2, <1>3, <1>4, <1>5, PastCovers
<1>7. exclusive => f = [i \in 1 .. step - 2 |-> i + 1]
  <2> SUFFICES ASSUME exclusive PROVE f = [i \in 1 .. step - 2 |-> i + 1]
    OBVIOUS
  <2>1. \A n \in Steps : memory[n] = IF n < step THEN 1 ELSE 0
    BY DEF WorkInv, WrittenOnce
  <2> QED
    BY <1>1, <1>2, <1>4, <2>1, PastOnce
<1> HIDE DEF f
<1>8. /\ Prompt = [step |-> step, plan |-> PlanText, findings |-> f]
      /\ PlanText = (Kept(docs, memory, {"plan"}) # {})
  BY ReadState DEF Prompt, f
<1> QED
  BY <1>1, <1>6, <1>7, <1>8 DEF Told

LEMMA WorkStarts ==
  ASSUME WorkInit
  PROVE  WorkInv
<1>1. \E m \in Nat : \A n \in Steps : memory[n] <= m
  <2>1. \A n \in Steps : memory[n] <= 0
    BY DEF WorkInit
  <2> QED
    BY <2>1
<1>2. docs \in Nat /\ total \in Nat \ {0} /\ Steps \subseteq Nat \ {0}
  BY SizeAssumption, StepsRange DEF WorkInit
<1>3. NoPrompt \in [step : Nat, plan : BOOLEAN, findings : Seq(Steps)]
  BY DEF NoPrompt
<1>4. WorkTypes
  <2>1. memory \in [Steps -> Nat] /\ pc \in [Worker -> {"idle", "step", "dead"}]
    BY DEF WorkInit
  <2>2. prompt \in [Worker -> [step : Nat, plan : BOOLEAN, findings : Seq(Steps)]]
    BY <1>3 DEF WorkInit
  <2>3. total \in Totals /\ exclusive \in BOOLEAN
    BY DEF WorkInit
  <2>4. step \in 1 .. total + 1
    BY <1>2 DEF WorkInit
  <2> QED
    BY <1>1, <1>2, <2>1, <2>2, <2>3, <2>4 DEF WorkTypes
<1>5. PastWritten
  BY <1>2 DEF WorkInit, PastWritten, Written
<1>6. WrittenOnce
  BY <1>2 DEF WorkInit, WrittenOnce
<1> QED
  BY <1>4, <1>5, <1>6 DEF WorkInv, WorkInit, AllTold

LEMMA BeginKeeps ==
  ASSUME WorkInv, NEW w \in Worker, Begin(w)
  PROVE  WorkInv'
<1> USE DEF WorkInv, Begin, jobVars, rowVars
<1>1. step \in 1 .. total /\ HasStep(docs, step) /\ Written(memory, step)
  BY InSteps DEF PastWritten, WorkTypes
<1>2. /\ prompt' \in [Worker -> [step : Nat, plan : BOOLEAN, findings : Seq(Steps)]]
      /\ prompt'[w] = Prompt /\ \A v \in Worker \ {w} : prompt'[v] = prompt[v]
  BY PromptRead DEF WorkTypes
<1>3. /\ pc' \in [Worker -> {"idle", "step", "dead"}]
      /\ pc'[w] = "step" /\ \A v \in Worker \ {w} : pc'[v] = pc[v]
  BY DEF WorkTypes
<1>4. WorkTypes'
  BY <1>2, <1>3 DEF WorkTypes
<1>5. PastWritten'
  <2>2. ASSUME NEW v \in Worker, pc'[v] = "step"
        PROVE  /\ prompt'[v].step \in 1 .. total /\ HasStep(docs, prompt'[v].step)
               /\ Written(memory, prompt'[v].step)
    BY <1>1, <1>2, <1>3, <2>2, PromptRead DEF PastWritten
  <2> QED
    BY <2>2 DEF PastWritten
<1>6. WrittenOnce'
  <2> SUFFICES ASSUME exclusive PROVE WrittenOnce'
    BY DEF WrittenOnce
  <2>1. Alone(w)
    OBVIOUS
  <2>2. ASSUME NEW v \in Worker, pc'[v] = "step"
        PROVE  v = w
    BY <1>3, <2>1, <2>2 DEF Alone
  <2>3. prompt'[w].step = step
    BY <1>2, PromptRead
  <2>4. \A v \in Worker : pc'[v] = "step" => prompt'[v].step = step' /\ Alone(v)'
    BY <2>2, <2>3 DEF Alone
  <2> QED
    BY <2>4 DEF WrittenOnce
<1>7. AllTold'
  <2> SUFFICES ASSUME NEW v \in Worker, pc'[v] = "step" PROVE Told(prompt'[v], exclusive)
    BY DEF AllTold
  <2>1. CASE v = w
    BY <1>2, <2>1, PromptRead
  <2>2. CASE v # w
    BY <1>2, <1>3, <2>2 DEF AllTold
  <2> QED
    BY <2>1, <2>2
<1> QED
  BY <1>4, <1>5, <1>6, <1>7

LEMMA FinalizeKeeps ==
  ASSUME WorkInv, NEW w \in Worker, Finalize(w)
  PROVE  WorkInv'
<1> USE DEF WorkInv, Finalize, jobVars
<1> DEFINE n == prompt[w].step
<1>1. n \in 1 .. total /\ HasStep(docs, n) /\ Written(memory, n)
  BY DEF PastWritten
<1>2. /\ total \in Nat \ {0} /\ step \in Nat \ {0} /\ 1 .. total \subseteq Steps
      /\ Steps \subseteq Nat \ {0}
  BY InSteps
<1>3. n \in Steps /\ n \in Nat /\ step' = n + 1
  BY <1>1, <1>2
<1>4. /\ prompt' \in [Worker -> [step : Nat, plan : BOOLEAN, findings : Seq(Steps)]]
      /\ \A v \in Worker \ {w} : prompt'[v] = prompt[v]
  <2>1. NoPrompt \in [step : Nat, plan : BOOLEAN, findings : Seq(Steps)]
    BY DEF NoPrompt
  <2> QED
    BY <2>1 DEF WorkTypes
<1>5. /\ pc' \in [Worker -> {"idle", "step", "dead"}]
      /\ pc'[w] = "idle" /\ \A v \in Worker \ {w} : pc'[v] = pc[v]
  BY DEF WorkTypes
<1> HIDE DEF n
<1>6. /\ memory' \in [Steps -> Nat] /\ memory'[n] = memory[n] + 1
      /\ \A k \in Steps \ {n} : memory'[k] = memory[k]
  BY <1>3 DEF WorkTypes, n
<1>7. \E m \in Nat : \A k \in Steps : memory'[k] <= m
  <2>1. PICK m \in Nat : \A k \in Steps : memory[k] <= m
    BY DEF WorkTypes
  <2>2. \A k \in Steps : memory[k] \in Nat
    BY DEF WorkTypes
  <2>3. \A k \in Steps : memory'[k] <= m + 1
    BY <2>1, <2>2, <1>6
  <2> QED
    BY <2>3
<1>8. step' \in 1 .. total + 1
  BY <1>1, <1>2, <1>3 DEF n
<1>9. WorkTypes'
  <2>1. /\ docs' \in Nat /\ total' \in Totals /\ exclusive' \in BOOLEAN
        /\ step' \in 1 .. total' + 1
    BY <1>8 DEF WorkTypes
  <2> QED
    BY <2>1, <1>4, <1>5, <1>6, <1>7 DEF WorkTypes
<1>10. \A k \in Steps : memory[k] \in Nat /\ memory'[k] >= memory[k] /\ (memory'[k] > 0 => k = n \/ memory[k] > 0)
  BY <1>6 DEF WorkTypes
<1>11. ASSUME NEW s \in 1 .. total + 1, Written(memory, s) PROVE Written(memory', s)
  <2>1. 1 .. s - 1 \subseteq Steps
    BY <1>2
  <2> QED
    BY <2>1, <1>10, <1>11 DEF Written
<1>12. Written(memory', step')
  <2>1. \A k \in 1 .. n - 1 : k \in Steps /\ memory[k] > 0
    BY <1>1, <1>2 DEF Written
  <2>2. \A k \in 1 .. n - 1 : memory'[k] > 0
    BY <2>1, <1>10
  <2>3. memory[n] \in Nat /\ memory'[n] > 0
    BY <1>3, <1>6 DEF WorkTypes
  <2>4. \A k \in 1 .. step' - 1 : k = n \/ k \in 1 .. n - 1
    BY <1>3
  <2> QED
    BY <2>2, <2>3, <2>4 DEF Written
<1>13. PastWritten'
  <2>1. \A k \in Steps : memory'[k] > 0 => HasStep(docs, k)
    BY <1>1, <1>10 DEF PastWritten
  <2>2. done' => Written(memory', total + 1)
    <3>1. CASE done
      <4>1. total + 1 \in 1 .. total + 1 /\ Written(memory, total + 1)
        BY <3>1, <1>2 DEF PastWritten
      <4> QED
        BY <4>1, <1>11
    <3>2. CASE n >= total
      <4>1. step' = total + 1
        BY <3>2, <1>1, <1>2, <1>3
      <4> QED
        BY <4>1, <1>12
    <3> QED
      BY <3>1, <3>2 DEF n
  <2>3. ASSUME NEW v \in Worker, pc'[v] = "step"
        PROVE  /\ prompt'[v].step \in 1 .. total /\ HasStep(docs, prompt'[v].step)
               /\ Written(memory', prompt'[v].step)
    <3>1. v # w /\ pc[v] = "step" /\ prompt'[v] = prompt[v]
      BY <1>4, <1>5, <2>3
    <3>2. prompt[v].step \in 1 .. total /\ HasStep(docs, prompt[v].step) /\ Written(memory, prompt[v].step)
      BY <3>1 DEF PastWritten
    <3>3. PICK s \in 1 .. total : s = prompt[v].step
      BY <3>2
    <3>4. Written(memory', s)
      <4>1. s \in 1 .. total + 1
        BY <1>2
      <4> QED
        BY <4>1, <3>2, <3>3, <1>11
    <3> QED
      BY <3>1, <3>2, <3>3, <3>4 DEF Written
  <2> QED
    BY <1>12, <2>1, <2>2, <2>3 DEF PastWritten, Written
<1>14. WrittenOnce'
  <2> SUFFICES ASSUME exclusive PROVE WrittenOnce'
    BY DEF WrittenOnce
  <2>1. n = step /\ Alone(w)
    BY DEF WrittenOnce, n
  <2>2. \A v \in Worker : pc'[v] # "step"
    BY <1>5, <2>1 DEF Alone
  <2>3. \A k \in Steps : memory[k] = IF k < n THEN 1 ELSE 0
    BY <2>1 DEF WrittenOnce
  <2>4. \A k \in Steps : memory'[k] = IF k < n + 1 THEN 1 ELSE 0
    BY <1>2, <1>3, <1>6, <2>3
  <2> QED
    BY <1>3, <2>2, <2>4 DEF WrittenOnce
<1>15. AllTold'
  BY <1>4, <1>5 DEF AllTold
<1> QED
  BY <1>9, <1>13, <1>14, <1>15

(* The steps that leave the rows alone and put nobody into a step.         *)
LEMMA OthersKeep ==
  ASSUME WorkInv, UNCHANGED <<jobVars, rowVars>>,
         NEW w \in Worker, NEW a \in {"idle", "dead"}, pc' = [pc EXCEPT ![w] = a],
         prompt' = prompt \/ prompt' = [prompt EXCEPT ![w] = NoPrompt]
  PROVE  WorkInv'
<1> USE DEF WorkInv, jobVars, rowVars
<1>1. /\ prompt' \in [Worker -> [step : Nat, plan : BOOLEAN, findings : Seq(Steps)]]
      /\ \A v \in Worker \ {w} : prompt'[v] = prompt[v]
  <2>1. NoPrompt \in [step : Nat, plan : BOOLEAN, findings : Seq(Steps)]
    BY DEF NoPrompt
  <2> QED
    BY <2>1 DEF WorkTypes
<1>2. /\ pc' \in [Worker -> {"idle", "step", "dead"}]
      /\ pc'[w] # "step" /\ \A v \in Worker \ {w} : pc'[v] = pc[v]
  BY DEF WorkTypes
<1>3. WorkTypes'
  BY <1>1, <1>2 DEF WorkTypes
<1>4. ASSUME NEW v \in Worker, pc'[v] = "step"
      PROVE  pc[v] = "step" /\ prompt'[v] = prompt[v]
  BY <1>1, <1>2, <1>4
<1>5. PastWritten'
  BY <1>4 DEF PastWritten, Written
<1>6. WrittenOnce'
  BY <1>2, <1>4 DEF WrittenOnce, Alone
<1>7. AllTold'
  BY <1>4 DEF AllTold
<1> QED
  BY <1>3, <1>5, <1>6, <1>7

LEMMA StutterKeeps ==
  ASSUME WorkInv, UNCHANGED workVars
  PROVE  WorkInv'
BY DEF WorkInv, WorkTypes, PastWritten, Written, WrittenOnce, Alone, AllTold,
       workVars, jobVars, rowVars

(***************************************************************************)
(* The invariant holds whatever the processes, and the visitors, do.       *)
(***************************************************************************)
LEMMA WorkInvariant ==
  Spec => []WorkInv
<1>1. Init => WorkInv
  BY WorkStarts DEF Init
<1>2. WorkInv /\ [Next]_vars => WorkInv'
  <2> SUFFICES ASSUME WorkInv, [Next]_vars PROVE WorkInv'
    OBVIOUS
  <2>1. ASSUME NEW w \in Worker, Begin(w) PROVE WorkInv'
    BY <2>1, BeginKeeps
  <2>2. ASSUME NEW w \in Worker, Raise(w) PROVE WorkInv'
    BY <2>2, OthersKeep DEF Raise
  <2>3. ASSUME NEW w \in Worker, Finalize(w) PROVE WorkInv'
    BY <2>3, FinalizeKeeps
  <2>4. ASSUME NEW w \in Worker, Start(w) PROVE WorkInv'
    BY <2>4, OthersKeep DEF Start
  <2>5. ASSUME NEW w \in Worker, Die(w) PROVE WorkInv'
    BY <2>5, OthersKeep DEF Die
  <2>6. CASE Ask \/ Answered \/ AskFails \/ Toggle \/ UNCHANGED vars
    BY <2>6, StutterKeeps DEF Ask, Answered, AskFails, Toggle, vars
  <2> QED
    BY <2>1, <2>2, <2>3, <2>4, <2>5, <2>6 DEF Next, WorkNext, Work
<1> QED
  BY <1>1, <1>2, PTL DEF Spec

-----------------------------------------------------------------------------
(* The prompt of a step has the text of every step before it, in order,    *)
(* whoever wrote them and however often they were begun; without evictions *)
(* it has nothing else.                                                    *)
THEOREM PromptHasPast ==
  Spec => []PromptCoversPast
<1>1. WorkInv => PromptCoversPast
  BY DEF WorkInv, AllTold, Told, PromptCoversPast
<1> QED
  BY <1>1, WorkInvariant, PTL

(* What the prompt of the last step has, when the corpus fits.             *)
LEMMA FinalPrompt ==
  ASSUME WorkInv, Fits, total = PlanLength,
         NEW w \in Worker, pc[w] = "step", prompt[w].step >= total
  PROVE  /\ StepType(docs, prompt[w].step).type = "synthesize_final"
         /\ \A d \in 1 .. docs : HasFinding(prompt[w], d)
<1> DEFINE p == prompt[w]
<1>1. docs \in Nat /\ docs + 2 <= PlanLength /\ PlanLength \in Nat
  BY PlanAssumption DEF WorkInv, WorkTypes, Fits
<1>2. p.step = PlanLength
  BY <1>1 DEF WorkInv, PastWritten
<1>3. 2 .. PlanLength - 1 \subseteq {p.findings[i] : i \in DOMAIN p.findings}
  BY <1>2 DEF WorkInv, AllTold, Told
<1>4. ASSUME NEW d \in 1 .. docs PROVE HasFinding(p, d)
  <2>1. d + 1 \in 2 .. PlanLength - 1 /\ StepType(docs, d + 1) = Entry(d + 1, "read", d)
    BY <1>1, FittingPlan
  <2>2. PICK i \in DOMAIN p.findings : p.findings[i] = d + 1
    BY <1>3, <2>1
  <2> QED
    BY <2>1, <2>2 DEF HasFinding
<1>5. StepType(docs, p.step).type = "synthesize_final"
  BY <1>1, <1>2, FittingPlan
<1> QED
  BY <1>4, <1>5

(* A job over the whole plan whose corpus fits becomes done only by the    *)
(* final synthesis, and with a finding of every document in its prompt.    *)
THEOREM NothingUnread ==
  Spec => DoneMeansRead
<1>1. ASSUME WorkInv, Next, ~done, done', Fits, total = PlanLength
      PROVE  \E w \in Worker :
               /\ pc[w] = "step" /\ pc'[w] = "idle"
               /\ StepType(docs, prompt[w].step).type = "synthesize_final"
               /\ \A d \in 1 .. docs : HasFinding(prompt[w], d)
  <2>1. ASSUME NEW w \in Worker, Begin(w) \/ Raise(w) \/ Start(w) \/ Die(w) PROVE FALSE
    BY <1>1, <2>1 DEF Begin, Raise, Start, Die, rowVars
  <2>2. ASSUME Ask \/ Answered \/ AskFails \/ Toggle PROVE FALSE
    BY <1>1, <2>2 DEF Ask, Answered, AskFails, Toggle, workVars, rowVars
  <2>3. PICK w \in Worker : Finalize(w)
    BY <1>1, <2>1, <2>2 DEF Next, WorkNext, Work
  <2>4. pc[w] = "step" /\ prompt[w].step >= total /\ pc'[w] = "idle"
    BY <1>1, <2>3 DEF Finalize, WorkInv, WorkTypes
  <2> QED
    BY <1>1, <2>4, FinalPrompt
<1>2. WorkInv /\ [Next]_vars
        => [~done /\ done' /\ Fits /\ total = PlanLength =>
              \E w \in Worker :
                /\ pc[w] = "step" /\ pc'[w] = "idle"
                /\ StepType(docs, prompt[w].step).type = "synthesize_final"
                /\ \A d \in 1 .. docs : HasFinding(prompt[w], d)]_workVars
  BY <1>1 DEF vars
<1> QED
  BY <1>2, WorkInvariant, PTL DEF Spec, DoneMeansRead

LEMMA SamePlan ==
  ASSUME NEW d, NEW n
  PROVE  /\ Amnesia!HasStep(d, n) <=> HasStep(d, n)
         /\ Amnesia!StepKind(d, n) = StepKind(d, n)
<1>1. Amnesia!StepPlan(d) = StepPlan(d)
  BY DEF Amnesia!StepPlan, StepPlan, Amnesia!Syntheses, Syntheses, Amnesia!Entry, Entry
<1> QED
  BY <1>1 DEF Amnesia!HasStep, HasStep, Amnesia!StepKind, StepKind, Amnesia!StepType, StepType

(* Without evictions the persistent mode implements the ephemeral one: the *)
(* rows give every step what the locals of a process that never dies would *)
(* have given it, through every death and resumption.                      *)
THEOREM RowsActLikeLocals ==
  Spec => LikeEphemeral
<1>1. Init => (exclusive => Amnesia!Init)
  <2> SUFFICES ASSUME Init PROVE Amnesia!Init
    OBVIOUS
  <2>1. docs \in Nat /\ total \in Nat /\ step = 1 /\ memory \in [Steps -> Nat]
    BY SizeAssumption DEF Init, WorkInit
  <2>2. \A n \in Steps : memory[n] = IF n < 1 THEN 1 ELSE 0
    BY StepsRange DEF Init, WorkInit
  <2>3. Past(docs, memory) = [i \in 1 .. 1 - 2 |-> i + 1] /\ ~ (Kept(docs, memory, {"plan"}) # {})
    <3>1. \A n \in Steps : memory[n] > 0 => HasStep(docs, n)
      BY <2>2, StepsRange
    <3>2. 1 \in Nat \ {0} /\ 1 .. 1 - 1 \subseteq Steps /\ ~ (1 > 1)
      OBVIOUS
    <3> QED
      BY <2>1, <2>2, <3>1, <3>2, PastOnce
  <2>4. [i \in 1 .. 1 - 2 |-> i + 1] = <<>>
    OBVIOUS
  <2> QED
    BY <2>1, <2>3, <2>4, ReadState DEF Amnesia!Init
<1>2. ASSUME WorkInv, WorkInv', NEW w \in Worker, Finalize(w), exclusive
      PROVE  Amnesia!DoStep
  <2>1. prompt[w].step = step /\ step \in 1 .. total /\ HasStep(docs, step)
    BY <1>2 DEF WorkInv, WrittenOnce, PastWritten, Finalize
  <2>2. step' = step + 1 /\ docs' = docs /\ total' = total /\ exclusive'
    BY <1>2, <2>1 DEF Finalize, jobVars
  <2>3. total \in Nat \ {0} /\ step \in Nat \ {0} /\ 1 .. total \subseteq Steps
    BY <1>2, InSteps DEF WorkInv
  <2>4. PICK s \in Nat \ {0} : s = step
    BY <2>3
  <2>5. Past(docs, memory) = [i \in 1 .. s - 2 |-> i + 1] /\ (Kept(docs, memory, {"plan"}) # {} <=> s > 1)
    <3>1. 1 .. s - 1 \subseteq Steps
      BY <2>1, <2>3, <2>4
    <3>2. /\ docs \in Nat /\ memory \in [Steps -> Nat]
          /\ \A n \in Steps : memory[n] = IF n < s THEN 1 ELSE 0
          /\ \A n \in Steps : memory[n] > 0 => HasStep(docs, n)
      BY <1>2, <2>4 DEF WorkInv, WorkTypes, WrittenOnce, PastWritten
    <3> QED
      BY <3>1, <3>2, PastOnce
  <2>6. PICK t \in Nat \ {0} : t = s + 1
    OBVIOUS
  <2>7. /\ Past(docs', memory') = [i \in 1 .. t - 2 |-> i + 1]
        /\ Kept(docs', memory', {"plan"}) # {} <=> t > 1
    <3>1. 1 .. t - 1 \subseteq Steps
      BY <2>1, <2>3, <2>4, <2>6
    <3>2. /\ docs' \in Nat /\ memory' \in [Steps -> Nat]
          /\ \A n \in Steps : memory'[n] = IF n < t THEN 1 ELSE 0
          /\ \A n \in Steps : memory'[n] > 0 => HasStep(docs', n)
      BY <1>2, <2>2, <2>4, <2>6 DEF WorkInv, WorkTypes, WrittenOnce, PastWritten, Steps
    <3> QED
      BY <3>1, <3>2, PastOnce
  <2>8. docs \in Nat
    BY <1>2 DEF WorkInv, WorkTypes
  <2>9. CASE s = 1
    <3>1. StepKind(docs, step) = "plan"
      BY <2>1, <2>3, <2>4, <2>9, <2>8, KindOfStep
    <3>2. [i \in 1 .. s - 2 |-> i + 1] = [i \in 1 .. t - 2 |-> i + 1]
      <4>1. 1 .. s - 2 = 1 .. t - 2
        BY <2>6, <2>9
      <4> QED
        BY <4>1
    <3>3. PlanText' = TRUE /\ Findings' = Findings
      <4>1. PlanText' = TRUE
        <5>1. Kept(docs', memory', {"plan"}) # {}
          BY <2>6, <2>7
        <5> QED
          BY <5>1, ReadStateNext
      <4>2. Findings' = Findings
        BY <2>5, <2>7, <3>2, ReadState, ReadStateNext
      <4> QED
        BY <4>1, <4>2
    <3>4. Amnesia!HasStep(docs, step) /\ Amnesia!StepKind(docs, step) = "plan"
      BY <2>1, <3>1, SamePlan
    <3>5. step <= total
      BY <2>1, <2>3
    <3> QED
      BY <2>2, <3>3, <3>4, <3>5 DEF Amnesia!DoStep
  <2>10. CASE s > 1
    <3>1. StepKind(docs, step) \in {"finding", "synthesis"}
      BY <2>1, <2>3, <2>4, <2>10, <2>8, KindOfStep
    <3>2. [i \in 1 .. t - 2 |-> i + 1] = Append([i \in 1 .. s - 2 |-> i + 1], s)
      BY <2>6, <2>10
    <3>3. PlanText' = PlanText /\ Findings' = Append(Findings, step)
      BY <2>4, <2>5, <2>6, <2>7, <2>10, <3>2, ReadState, ReadStateNext
    <3>4. Amnesia!HasStep(docs, step) /\ Amnesia!StepKind(docs, step) # "plan"
      BY <2>1, <3>1, SamePlan
    <3>5. step <= total
      BY <2>1, <2>3
    <3> QED
      BY <2>2, <3>3, <3>4, <3>5 DEF Amnesia!DoStep
  <2> QED
    BY <2>4, <2>9, <2>10
<1>3. ASSUME UNCHANGED <<jobVars, rowVars>>
      PROVE  UNCHANGED Amnesia!vars
  <2>1. docs' = docs /\ total' = total /\ step' = step /\ memory' = memory
    BY <1>3 DEF jobVars, rowVars
  <2>2. Findings' = Findings /\ PlanText' = PlanText
    BY <2>1, ReadState, ReadStateNext
  <2> QED
    BY <2>1, <2>2 DEF Amnesia!vars
<1>4. WorkInv /\ WorkInv' /\ [Next]_vars
        => [exclusive => Amnesia!DoStep \/ UNCHANGED Amnesia!vars]_workVars
  <2> SUFFICES ASSUME WorkInv, WorkInv', Next, exclusive
               PROVE  Amnesia!DoStep \/ UNCHANGED Amnesia!vars
    BY DEF vars
  <2>1. ASSUME NEW w \in Worker, Begin(w) \/ Raise(w) \/ Start(w) \/ Die(w)
        PROVE  UNCHANGED <<jobVars, rowVars>>
    BY <2>1 DEF Begin, Raise, Start, Die
  <2>2. ASSUME Ask \/ Answered \/ AskFails \/ Toggle
        PROVE  UNCHANGED <<jobVars, rowVars>>
    BY <2>2 DEF Ask, Answered, AskFails, Toggle, workVars
  <2>3. ASSUME NEW w \in Worker, Finalize(w)
        PROVE  Amnesia!DoStep
    BY <2>3, <1>2
  <2> QED
    BY <1>3, <2>1, <2>2, <2>3 DEF Next, WorkNext, Work
<1> QED
  BY <1>1, <1>4, WorkInvariant, PTL DEF Spec, LikeEphemeral

-----------------------------------------------------------------------------
(***************************************************************************)
(* How often a step is written.  A text of it is there, is being written,  *)
(* or is next; each death and each eviction allows one more.  Whoever is   *)
(* at an earlier step counts as well, since the row may follow it there.   *)
(***************************************************************************)
Busy == {w \in Worker : pc[w] = "step"}

BusyUpTo(n) == {w \in Busy : prompt[w].step <= n}

Turn(n) == IF Busy = {} /\ step <= n THEN 1 ELSE 0

CountInv ==
  /\ IsFiniteSet(Busy)
  /\ faults \in 0 .. MaxFaults
  /\ \A n \in Steps : memory[n] + Cardinality(BusyUpTo(n)) + Turn(n) <= 1 + faults

RestTypes ==
  /\ docs \in Corpora /\ done \in BOOLEAN
  /\ \A w \in Worker : prompt[w].step \in Steps \cup {0}

LEMMA BusyCount ==
  ASSUME CountInv, NEW n
  PROVE  IsFiniteSet(BusyUpTo(n)) /\ Cardinality(BusyUpTo(n)) \in Nat
<1>1. IsFiniteSet(BusyUpTo(n))
  BY FS_Subset DEF CountInv, BusyUpTo
<1> QED
  BY <1>1, FS_CardinalityType

LEMMA CountTypes ==
  ASSUME WorkInv, CountInv, NEW n \in Steps
  PROVE  /\ memory[n] \in Nat /\ step \in Nat /\ n \in Nat /\ faults \in Nat /\ MaxFaults \in Nat
         /\ Turn(n) \in {0, 1}
BY InSteps, SizeAssumption DEF WorkInv, WorkTypes, CountInv, Turn

LEMMA FaultCounts ==
  ASSUME CountInv, Fault
  PROVE  faults' = faults + 1 /\ faults' \in 0 .. MaxFaults
BY SizeAssumption DEF CountInv, Fault

LEMMA BeginCounts ==
  ASSUME WorkInv, CountInv, RestTypes, NEW w \in Worker, Begin(w)
  PROVE  CountInv' /\ RestTypes'
<1> USE DEF Begin, jobVars, rowVars
<1>1. step \in Steps
  BY InSteps DEF WorkInv, WorkTypes
<1>2. /\ prompt'[w].step = step /\ \A v \in Worker \ {w} : prompt'[v] = prompt[v]
      /\ pc'[w] = "step" /\ \A v \in Worker \ {w} : pc'[v] = pc[v]
      /\ w \notin Busy
  BY PromptRead DEF WorkInv, WorkTypes, Busy
<1>3. Busy' = Busy \cup {w} /\ Busy' # {}
  BY <1>2 DEF Busy
<1>4. \A n : BusyUpTo(n)' = IF step <= n THEN BusyUpTo(n) \cup {w} ELSE BusyUpTo(n)
  BY <1>2, <1>3 DEF BusyUpTo, Busy
<1>5. \/ Busy = {} /\ faults' = faults
      \/ faults' = faults + 1 /\ faults' \in 0 .. MaxFaults
  BY <1>2, FaultCounts DEF Alone, Busy
<1>6. IsFiniteSet(Busy')
  BY <1>3, FS_AddElement DEF CountInv
<1>7. ASSUME NEW n \in Steps
      PROVE  memory'[n] + Cardinality(BusyUpTo(n)') + Turn(n)' <= 1 + faults'
  <2> DEFINE old == Cardinality(BusyUpTo(n))
             new == Cardinality(BusyUpTo(n)')
  <2>1. /\ old \in Nat
        /\ new = IF step <= n THEN old + 1 ELSE old
    <3>1. w \notin BusyUpTo(n)
      BY <1>2 DEF BusyUpTo
    <3>2. Cardinality(BusyUpTo(n) \cup {w}) = old + 1
      BY <3>1, BusyCount, FS_AddElement
    <3> QED
      BY <1>4, <3>2, BusyCount
  <2>2. Turn(n)' = 0 /\ (Busy = {} /\ step <= n => Turn(n) = 1)
    BY <1>3 DEF Turn
  <2>3. memory[n] + old + Turn(n) <= 1 + faults
    BY DEF CountInv
  <2> HIDE DEF old, new
  <2> QED
    BY <1>5, <2>1, <2>2, <2>3, CountTypes DEF new
<1>8. faults' \in 0 .. MaxFaults
  BY <1>5 DEF CountInv
<1>9. RestTypes'
  BY <1>1, <1>2 DEF RestTypes
<1> QED
  BY <1>6, <1>7, <1>8, <1>9 DEF CountInv

(* Whoever leaves a step is no longer counted.                             *)
LEMMA LeaveCounts ==
  ASSUME WorkInv, CountInv, RestTypes, NEW w \in Worker,
         NEW a \in {"idle", "dead"}, pc' = [pc EXCEPT ![w] = a],
         prompt' = [prompt EXCEPT ![w] = NoPrompt]
  PROVE  /\ \A v \in Worker : prompt'[v].step \in Steps \cup {0}
         /\ IsFiniteSet(Busy')
         /\ \A n : /\ IsFiniteSet(BusyUpTo(n)) /\ Cardinality(BusyUpTo(n)) \in Nat
                   /\ Cardinality(BusyUpTo(n)') = IF w \in BusyUpTo(n) THEN Cardinality(BusyUpTo(n)) - 1
                                                  ELSE Cardinality(BusyUpTo(n))
<1>1. /\ prompt'[w].step = 0 /\ \A v \in Worker \ {w} : prompt'[v] = prompt[v]
      /\ pc'[w] # "step" /\ \A v \in Worker \ {w} : pc'[v] = pc[v]
  BY DEF WorkInv, WorkTypes, NoPrompt
<1>2. Busy' = Busy \ {w} /\ \A n : BusyUpTo(n)' = BusyUpTo(n) \ {w}
  BY <1>1 DEF Busy, BusyUpTo
<1>3. IsFiniteSet(Busy')
  BY <1>2, FS_RemoveElement DEF CountInv
<1>4. \A v \in Worker : prompt'[v].step \in Steps \cup {0}
  BY <1>1 DEF RestTypes
<1>5. ASSUME NEW n
      PROVE  /\ IsFiniteSet(BusyUpTo(n)) /\ Cardinality(BusyUpTo(n)) \in Nat
             /\ Cardinality(BusyUpTo(n)') = IF w \in BusyUpTo(n) THEN Cardinality(BusyUpTo(n)) - 1
                                            ELSE Cardinality(BusyUpTo(n))
  BY <1>2, BusyCount, FS_RemoveElement
<1> QED
  BY <1>3, <1>4, <1>5

LEMMA FinalizeCounts ==
  ASSUME WorkInv, CountInv, RestTypes, NEW w \in Worker, Finalize(w)
  PROVE  CountInv' /\ RestTypes'
<1> USE DEF Finalize, jobVars
<1> DEFINE p == prompt[w].step
<1>1. p \in Steps /\ p \in Nat /\ step' = p + 1 /\ w \in Busy
  BY InSteps DEF WorkInv, PastWritten, Busy
<1>2. \A n \in Steps : memory'[n] = IF n = p THEN memory[n] + 1 ELSE memory[n]
  BY <1>1 DEF WorkInv, WorkTypes
<1>3. ASSUME NEW n \in Steps
      PROVE  memory'[n] + Cardinality(BusyUpTo(n)') + Turn(n)' <= 1 + faults'
  <2> DEFINE old == Cardinality(BusyUpTo(n))
             new == Cardinality(BusyUpTo(n)')
  <2>1. /\ old \in Nat
        /\ new = IF p <= n THEN old - 1 ELSE old
    BY <1>1, LeaveCounts DEF BusyUpTo
  <2>2. Turn(n)' \in {0, 1} /\ (n <= p => Turn(n)' = 0)
    BY <1>1, CountTypes DEF Turn
  <2>3. memory[n] + old + Turn(n) <= 1 + faults
    BY DEF CountInv
  <2> HIDE DEF old, new, p
  <2> QED
    BY <1>1, <1>2, <2>1, <2>2, <2>3, CountTypes DEF new
<1>4. IsFiniteSet(Busy') /\ \A v \in Worker : prompt'[v].step \in Steps \cup {0}
  BY LeaveCounts
<1> QED
  BY <1>3, <1>4 DEF CountInv, RestTypes

LEMMA DieCounts ==
  ASSUME WorkInv, CountInv, RestTypes, NEW w \in Worker, Die(w)
  PROVE  CountInv' /\ RestTypes'
<1> USE DEF Die, jobVars, rowVars
<1>1. faults' = faults + 1 /\ faults' \in 0 .. MaxFaults
  BY FaultCounts
<1>2. ASSUME NEW n \in Steps
      PROVE  memory'[n] + Cardinality(BusyUpTo(n)') + Turn(n)' <= 1 + faults'
  <2> DEFINE old == Cardinality(BusyUpTo(n))
             new == Cardinality(BusyUpTo(n)')
  <2>1. old \in Nat /\ new \in {old - 1, old}
    BY LeaveCounts
  <2>2. Turn(n)' \in {0, 1} /\ memory'[n] = memory[n]
    BY DEF Turn
  <2>3. memory[n] + old + Turn(n) <= 1 + faults
    BY DEF CountInv
  <2> HIDE DEF old, new
  <2> QED
    BY <1>1, <2>1, <2>2, <2>3, CountTypes DEF new
<1>3. IsFiniteSet(Busy') /\ \A v \in Worker : prompt'[v].step \in Steps \cup {0}
  BY LeaveCounts
<1> QED
  BY <1>1, <1>2, <1>3 DEF CountInv, RestTypes

LEMMA OthersCount ==
  ASSUME WorkInv, CountInv, RestTypes,
         UNCHANGED <<jobVars, rowVars, prompt, faults>>,
         Busy' = Busy
  PROVE  CountInv' /\ RestTypes'
<1>1. \A n : BusyUpTo(n)' = BusyUpTo(n) /\ Turn(n)' = Turn(n)
  BY DEF BusyUpTo, Turn, rowVars
<1> QED
  BY <1>1 DEF CountInv, RestTypes, jobVars, rowVars

LEMMA CountInvariant ==
  Spec => [](CountInv /\ RestTypes)
<1>1. Init => CountInv /\ RestTypes
  <2> SUFFICES ASSUME Init PROVE CountInv /\ RestTypes
    OBVIOUS
  <2>1. Busy = {} /\ \A n : BusyUpTo(n) = {}
    BY DEF Init, WorkInit, Busy, BusyUpTo
  <2>2. \A n : Turn(n) \in {0, 1}
    BY DEF Turn
  <2>3. IsFiniteSet({}) /\ Cardinality({}) = 0
    BY FS_EmptySet
  <2>4. CountInv
    <3>1. ASSUME NEW n \in Steps
          PROVE  memory[n] + Cardinality(BusyUpTo(n)) + Turn(n) <= 1 + faults
      <4>1. memory[n] = 0 /\ faults = 0
        BY DEF Init, WorkInit
      <4>2. Cardinality(BusyUpTo(n)) = 0
        BY <2>1, <2>3
      <4> QED
        BY <4>1, <4>2, <2>2
    <3>2. IsFiniteSet(Busy) /\ faults \in 0 .. MaxFaults
      BY <2>1, <2>3, SizeAssumption DEF Init, WorkInit
    <3> QED
      BY <3>1, <3>2 DEF CountInv
  <2>5. RestTypes
    BY DEF RestTypes, Init, WorkInit, NoPrompt
  <2> QED
    BY <2>4, <2>5
<1>2. WorkInv /\ CountInv /\ RestTypes /\ [Next]_vars => CountInv' /\ RestTypes'
  <2> SUFFICES ASSUME WorkInv, CountInv, RestTypes, [Next]_vars
               PROVE  CountInv' /\ RestTypes'
    OBVIOUS
  <2>1. ASSUME NEW w \in Worker, Begin(w) PROVE CountInv' /\ RestTypes'
    BY <2>1, BeginCounts
  <2>2. ASSUME NEW w \in Worker, Raise(w) \/ Start(w) PROVE CountInv' /\ RestTypes'
    <3>1. Busy' = Busy
      BY <2>2 DEF Raise, Start, Busy, WorkInv, WorkTypes
    <3> QED
      BY <2>2, <3>1, OthersCount DEF Raise, Start
  <2>3. ASSUME NEW w \in Worker, Finalize(w) PROVE CountInv' /\ RestTypes'
    BY <2>3, FinalizeCounts
  <2>4. ASSUME NEW w \in Worker, Die(w) PROVE CountInv' /\ RestTypes'
    BY <2>4, DieCounts
  <2>5. CASE Ask \/ Answered \/ AskFails \/ Toggle \/ UNCHANGED vars
    <3>1. UNCHANGED workVars
      BY <2>5 DEF Ask, Answered, AskFails, Toggle, vars
    <3> QED
      BY <3>1, OthersCount DEF workVars, Busy
  <2> QED
    BY <2>1, <2>2, <2>3, <2>4, <2>5 DEF Next, WorkNext, Work
<1> QED
  BY <1>1, <1>2, WorkInvariant, PTL DEF Spec

-----------------------------------------------------------------------------
(***************************************************************************)
(* The answer on the page.                                                 *)
(***************************************************************************)
(* The loop of _lead_excerpt ends at the first sentence that is enough.    *)
LEMMA ExcerptEnds ==
  ASSUME NEW t \in Text, t # <<>>
  PROVE  LET n == LeadExcerpt(t) IN
         /\ n \in 1 .. Len(t)
         /\ n < Len(t) => Enough(t, n)
         /\ \A k \in 1 .. n - 1 : ~ Enough(t, k)
<1> DEFINE D == 1 .. Len(t)
           Stop(k) == k = Len(t) \/ Enough(t, k)
           Stops(k) == {m \in k .. Len(t) : Stop(m)}
           Loop(f) == [k \in D |-> IF Stop(k) THEN k ELSE f[k + 1]]
           first(k) == CHOOSE m : Least(Stops(k), m)
           g == [k \in D |-> first(k)]
           from == CHOOSE f : f = Loop(f)
<1>1. Len(t) \in Nat \ {0} /\ 1 \in D /\ Len(t) \in D
  BY TextAssumption
<1>2. ASSUME NEW k \in D PROVE Least(Stops(k), g[k])
  <2>1. Stops(k) \in SUBSET Nat /\ Len(t) \in Stops(k)
    BY <1>1
  <2>2. \E m : Least(Stops(k), m)
    BY <2>1, LeastExists
  <2> QED
    BY <2>2
<1>3. ASSUME NEW k \in D PROVE first(k) = IF Stop(k) THEN k ELSE g[k + 1]
  <2>1. CASE Stop(k)
    BY <1>1, <1>2, <2>1 DEF Least
  <2>2. CASE ~ Stop(k)
    <3>1. k + 1 \in D /\ \A m \in k .. Len(t) : m = k \/ m \in k + 1 .. Len(t)
      BY <1>1, <2>2
    <3>2. Stops(k) = Stops(k + 1)
      BY <1>1, <2>2, <3>1
    <3>3. first(k) = first(k + 1)
      BY <3>2
    <3>4. g[k + 1] = first(k + 1)
      BY <3>1
    <3> QED
      BY <3>3, <3>4, <2>2
  <2> QED
    BY <2>1, <2>2
<1> HIDE DEF first, Stop, Stops
<1>4. g = Loop(g)
  BY <1>3
<1> HIDE DEF g
<1>5. from = Loop(from)
  BY <1>4
<1>6. LeadExcerpt(t) = from[1]
  BY DEF LeadExcerpt, Stop
<1> HIDE DEF from
<1>7. PICK m \in D : Least(Stops(1), m)
  <2>1. Stops(1) \in SUBSET Nat /\ Len(t) \in Stops(1)
    BY <1>1 DEF Stops, Stop
  <2>2. \E m \in Nat : Least(Stops(1), m)
    BY <2>1, LeastExists
  <2> QED
    BY <2>2 DEF Least, Stops
<1>8. Stop(m) /\ \A k \in 1 .. m - 1 : ~ Stop(k)
  <2>1. \A k \in 1 .. m - 1 : k \in 1 .. Len(t) /\ ~ (m <= k)
    BY <1>1
  <2> QED
    BY <1>7, <2>1 DEF Least, Stops
<1>9. from[1] = m
  <2> DEFINE Wrong == {j \in 0 .. m - 1 : from[m - j] # m}
  <2>1. ASSUME Wrong # {} PROVE FALSE
    <3>1. PICK j \in Wrong : \A i \in Wrong : j <= i
      <4>1. Wrong \in SUBSET Nat
        BY <1>1
      <4> HIDE DEF Wrong
      <4>2. \E j \in Nat : Least(Wrong, j)
        BY <2>1, <4>1, LeastExists
      <4> QED
        BY <4>2 DEF Least
    <3>2. j \in 0 .. m - 1 /\ from[m - j] # m /\ m - j \in D
      BY <1>1
    <3>3. from[m - j] = IF Stop(m - j) THEN m - j ELSE from[m - j + 1]
      BY <1>5, <3>2
    <3>4. CASE j = 0
      BY <1>8, <3>2, <3>3, <3>4
    <3>5. CASE j > 0
      <4>1. m - j \in 1 .. m - 1 /\ j - 1 \in 0 .. m - 1 /\ m - j + 1 = m - (j - 1) /\ ~ (j <= j - 1)
        BY <3>2, <3>5
      <4>2. j - 1 \notin Wrong
        BY <3>1, <4>1
      <4>3. from[m - (j - 1)] = m
        BY <4>1, <4>2
      <4> QED
        BY <1>8, <3>2, <3>3, <4>1, <4>3
    <3> QED
      BY <3>2, <3>4, <3>5
  <2>2. m - 1 \in 0 .. m - 1 /\ m - (m - 1) = 1
    OBVIOUS
  <2> QED
    BY <2>1, <2>2
<1>10. LeadExcerpt(t) = m
  BY <1>6, <1>9
<1>11. /\ m < Len(t) => Enough(t, m)
       /\ \A k \in 1 .. m - 1 : ~ Enough(t, k)
  BY <1>1, <1>8 DEF Stop
<1> QED
  BY <1>10, <1>11

(* What the page has of an answer is its excerpt; "no episodes yet" is one *)
(* sentence.                                                               *)
ReaderInv ==
  /\ shows \in {"nothing", "thinking", "error", "excerpt", "full"}
  /\ toggle \in BOOLEAN
  /\ \/ answer \in Text \cup {<<>>} /\ lead = LeadExcerpt(answer)
     \/ answer = NoEpisodes /\ lead = 1

LEMMA LeadOf ==
  ASSUME ReaderInv
  PROVE  /\ answer \in Text \cup {<<>>, NoEpisodes}
         /\ lead \in 0 .. Len(answer)
         /\ answer # <<>> =>
              /\ lead \in 1 .. Len(answer)
              /\ lead < Len(answer) => Enough(answer, lead)
              /\ \A n \in 1 .. lead - 1 : ~ Enough(answer, n)
<1>1. CASE answer \in Text /\ answer # <<>> /\ lead = LeadExcerpt(answer)
  <2>1. /\ lead \in 1 .. Len(answer)
        /\ lead < Len(answer) => Enough(answer, lead)
        /\ \A n \in 1 .. lead - 1 : ~ Enough(answer, n)
    BY <1>1, ExcerptEnds
  <2>2. Len(answer) \in Nat
    BY <1>1, TextAssumption
  <2> QED
    BY <1>1, <2>1, <2>2
<1>2. CASE answer = <<>> /\ lead = LeadExcerpt(answer)
  <2>1. lead = 0 /\ Len(answer) = 0
    BY <1>2 DEF LeadExcerpt
  <2> QED
    BY <1>2, <2>1
<1>3. CASE answer = NoEpisodes /\ lead = 1
  <2>1. Len(answer) = 1 /\ answer # <<>>
    BY <1>3 DEF NoEpisodes
  <2> QED
    BY <1>3, <2>1
<1> QED
  BY <1>1, <1>2, <1>3 DEF ReaderInv

LEMMA ReaderInvariant ==
  Spec => []ReaderInv
<1>1. Init => ReaderInv
  <2>1. LeadExcerpt(<<>>) = 0
    BY DEF LeadExcerpt
  <2> QED
    BY <2>1 DEF Init, ReaderInv
<1>2. ReaderInv /\ [Next]_vars => ReaderInv'
  <2> SUFFICES ASSUME ReaderInv, [Next]_vars PROVE ReaderInv'
    OBVIOUS
  <2>1. CASE Answered
    <3>1. CASE \E n \in Steps : memory[n] > 0
      <4>1. PICK t \in Text : Render(t, LeadExcerpt(t))
        BY <2>1, <3>1 DEF Answered
      <4>2. answer' = t /\ lead' = LeadExcerpt(t) /\ shows' = "excerpt" /\ toggle' \in BOOLEAN
        BY <4>1 DEF Render, SameText
      <4> QED
        BY <4>2 DEF ReaderInv
    <3>2. CASE ~ \E n \in Steps : memory[n] > 0
      <4>1. Render(NoEpisodes, Len(NoEpisodes))
        BY <2>1, <3>2 DEF Answered
      <4>2. Len(NoEpisodes) = 1
        BY DEF NoEpisodes
      <4>3. answer' = NoEpisodes /\ lead' = 1 /\ shows' = "excerpt" /\ toggle' \in BOOLEAN
        BY <4>1, <4>2 DEF Render, SameText
      <4> QED
        BY <4>3 DEF ReaderInv
    <3> QED
      BY <3>1, <3>2
  <2>2. CASE Ask \/ AskFails \/ Toggle
    <3>1. UNCHANGED <<answer, lead>> /\ toggle' \in BOOLEAN
      BY <2>2 DEF Ask, AskFails, Toggle, ReaderInv
    <3>2. shows' \in {"nothing", "thinking", "error", "excerpt", "full"}
      BY <2>2 DEF Ask, AskFails, Toggle, ReaderInv
    <3> QED
      BY <3>1, <3>2 DEF ReaderInv
  <2>3. CASE UNCHANGED pageVars
    BY <2>3 DEF pageVars, ReaderInv
  <2> QED
    BY <2>1, <2>2, <2>3 DEF Next, vars
<1> QED
  BY <1>1, <1>2, PTL DEF Spec

(* Every variable of the job, of its processes and of the page keeps its   *)
(* type.  The bound of memory is the claim: a step is written once, and    *)
(* once more at most for each death and each eviction.                     *)
THEOREM TypeCorrect ==
  Spec => []TypeOK
<1>1. WorkInv /\ CountInv /\ RestTypes /\ ReaderInv => TypeOK
  <2> SUFFICES ASSUME WorkInv, CountInv, RestTypes, ReaderInv PROVE TypeOK
    OBVIOUS
  <2>1. memory \in [Steps -> 0 .. MaxFaults + 1]
    <3>1. ASSUME NEW n \in Steps PROVE memory[n] \in 0 .. MaxFaults + 1
      <4>1. memory[n] + Cardinality(BusyUpTo(n)) + Turn(n) <= 1 + faults /\ faults <= MaxFaults
        BY DEF CountInv
      <4> QED
        BY <4>1, CountTypes, BusyCount
    <3> QED
      BY <3>1 DEF WorkInv, WorkTypes
  <2>2. docs \in Corpora /\ step \in Steps \cup {total + 1}
    BY InSteps DEF WorkInv, WorkTypes, RestTypes
  <2>3. WorkTypeOK
    BY <2>1, <2>2 DEF WorkTypeOK, WorkInv, WorkTypes, CountInv, RestTypes
  <2> QED
    BY <2>3, LeadOf DEF TypeOK, ReaderInv
<1> QED
  BY <1>1, WorkInvariant, CountInvariant, ReaderInvariant, PTL

(* For every text and every pair of limits: the excerpt of an answer is    *)
(* never empty nor a sentence longer than it takes to have enough of them  *)
(* or of words.                                                            *)
THEOREM CleanExcerpt ==
  Spec => []ExcerptIsLead
<1>1. ReaderInv => ExcerptIsLead
  <2> SUFFICES ASSUME ReaderInv, answer # <<>>
               PROVE  /\ lead \in 1 .. MaxSentences
                      /\ lead < Len(answer) => lead = MaxSentences \/ Words(Prefix(lead)) >= TargetWords
                      /\ \A n \in 1 .. lead - 1 : n < MaxSentences /\ ~ (Words(Prefix(n)) >= TargetWords)
    BY DEF ExcerptIsLead
  <2>1. /\ lead \in Nat /\ Len(answer) \in Nat /\ lead >= 1
        /\ lead < Len(answer) => Enough(answer, lead)
        /\ \A n \in 1 .. lead - 1 : ~ Enough(answer, n)
    <3>1. lead \in 1 .. Len(answer)
      BY LeadOf
    <3>2. Len(answer) \in Nat
      BY LeadOf, TextAssumption DEF NoEpisodes
    <3> QED
      BY <3>1, <3>2, LeadOf
  <2>2. \A n \in 1 .. lead - 1 : n < MaxSentences /\ ~ (Words(Prefix(n)) >= TargetWords)
    BY <2>1, TextAssumption DEF Enough, Prefix
  <2>3. lead <= MaxSentences
    <3>1. CASE lead = 1
      BY <3>1, TextAssumption
    <3>2. CASE lead # 1
      <4>1. lead - 1 \in 1 .. lead - 1
        BY <2>1, <3>2
      <4> QED
        BY <2>1, <2>2, <4>1, TextAssumption
    <3> QED
      BY <3>1, <3>2
  <2>4. lead < Len(answer) => lead = MaxSentences \/ Words(Prefix(lead)) >= TargetWords
    BY <2>1, <2>3, TextAssumption DEF Enough, Prefix
  <2> QED
    BY <2>1, <2>2, <2>3, <2>4, TextAssumption
<1> QED
  BY <1>1, ReaderInvariant, PTL

(* The full text of the answer on the page is shown or behind the toggle,  *)
(* and the toggle stands next to no other answer, in any order of          *)
(* questions, answers, failures and clicks.                                *)
THEOREM FullTextInReach ==
  Spec => []FullTextReachable
<1>1. Init => FullTextReachable
  BY DEF Init, FullTextReachable
<1>2. FullTextReachable /\ [Next]_vars => FullTextReachable'
  <2> SUFFICES ASSUME FullTextReachable, [Next]_vars PROVE FullTextReachable'
    OBVIOUS
  <2> USE DEF FullTextReachable
  <2>1. ASSUME NEW t, NEW n, Len(t) \in Nat, Render(t, n) PROVE FullTextReachable'
    <3>1. n < Len(t) => ~ SameText(t, n)
      BY <2>1 DEF SameText
    <3>2. /\ answer' = t /\ lead' = n /\ shows' = "excerpt"
          /\ toggle' <=> ~ SameText(t, n)
      BY <2>1 DEF Render
    <3>3. lead' < Len(answer') => toggle'
      BY <3>1, <3>2
    <3> QED
      BY <3>2, <3>3
  <2>2. CASE Answered
    <3>1. \A t \in Text : Len(t) \in Nat
      BY TextAssumption
    <3>2. Len(NoEpisodes) \in Nat
      BY DEF NoEpisodes
    <3>3. CASE \E n \in Steps : memory[n] > 0
      <4>1. PICK t \in Text : Render(t, LeadExcerpt(t))
        BY <2>2, <3>3 DEF Answered
      <4> QED
        BY <2>1, <3>1, <4>1
    <3>4. CASE ~ \E n \in Steps : memory[n] > 0
      <4>1. Render(NoEpisodes, Len(NoEpisodes))
        BY <2>2, <3>4 DEF Answered
      <4> QED
        BY <2>1, <3>2, <4>1
    <3> QED
      BY <3>3, <3>4
  <2>3. CASE Ask
    BY <2>3 DEF Ask
  <2>4. CASE AskFails
    BY <2>4 DEF AskFails
  <2>5. CASE Toggle
    BY <2>5 DEF Toggle
  <2>6. CASE UNCHANGED pageVars
    BY <2>6 DEF pageVars
  <2> QED
    BY <2>2, <2>3, <2>4, <2>5, <2>6 DEF Next, vars
<1> QED
  BY <1>1, <1>2, PTL DEF Spec
=============================================================================
