--------------------------- MODULE ReadPlannerProofs ---------------------------
(***************************************************************************)
(* Theorems about ReadPlanner, for any records, estimates within their      *)
(* margins, clusters, and settings of deferral, budget and early            *)
(* submission.                                                              *)
(***************************************************************************)
EXTENDS ReadPlanner, FiniteSetTheorems, FunctionTheorems, WellFoundedInduction,
        TLAPS

(* A finite set of integers has a largest element.  Among the sets of the   *)
(* elements above some x one is minimal, and nothing is above that x.       *)
LEMMA LargestExists ==
  ASSUME NEW S, S \subseteq Int, IsFiniteSet(S), S # {}
  PROVE  MaxOf(S) \in S /\ \A y \in S : y <= MaxOf(S)
  <1> DEFINE Above(x) == {y \in S : y > x}
             F == {Above(x) : x \in S}
  <1>1. F \subseteq FiniteSubsetsOf(S)
    <2>1. \A x \in S : Above(x) \subseteq S /\ IsFiniteSet(Above(x))
      BY FS_Subset
    <2> QED BY <2>1 DEF FiniteSubsetsOf
  <1>2. F # {}
    OBVIOUS
  <1>3. PICK A \in F : \A B \in F : ~(<<B, A>> \in StrictSubsetOrdering(S))
    BY <1>1, <1>2, FS_StrictSubsetOrderingWellFounded, WFMin
  <1>4. PICK x \in S : A = Above(x)
    BY <1>3
  <1> HIDE DEF F
  <1>5. ASSUME NEW y \in S, y > x PROVE FALSE
    <2>1. Above(y) \in F
      BY DEF F
    <2>2. Above(y) \subseteq Above(x) /\ Above(y) # Above(x)
      <3>1. \A z \in S : z > y => z > x
        BY <1>5
      <3>2. y \in Above(x) /\ y \notin Above(y)
        BY <1>5
      <3> QED BY <3>1, <3>2
    <2>3. Above(y) \subseteq S /\ Above(x) \subseteq S
      OBVIOUS
    <2>4. <<Above(y), A>> \in StrictSubsetOrdering(S)
      BY <1>4, <2>2, <2>3 DEF StrictSubsetOrdering
    <2> QED BY <1>3, <2>1, <2>4
  <1>6. \A y \in S : y <= x
    BY <1>5
  <1> QED BY <1>6 DEF MaxOf

(* At most one element for each record. *)
OneEach(S) == \A e, f \in S : e.rec = f.rec => e = f

LEMMA OneEachFinite ==
  ASSUME NEW S, OneEach(S), \A e \in S : e.rec \in Records
  PROVE  /\ IsFiniteSet(S)
         /\ IsFiniteSet(Recs(S))
         /\ Cardinality(Recs(S)) = Cardinality(S)
  <1> DEFINE f == [e \in S |-> e.rec]
  <1>1. f \in Injection(S, Records)
    BY DEF OneEach, Injection, IsInjective
  <1>2. IsFiniteSet(S)
    BY <1>1, PlannerAssumption, FS_Injection
  <1>3. f \in [S -> Recs(S)] /\ \A t \in Recs(S) : \E e \in S : f[e] = t
    BY DEF Recs
  <1>4. f \in Surjection(S, Recs(S))
    BY <1>3 DEF Surjection
  <1>5. f \in Injection(S, Recs(S))
    BY <1>3, <1>1 DEF Injection, IsInjective
  <1> QED BY <1>2, <1>4, <1>5, FS_Surjection

(* The image of a finite set of entries. *)
LEMMA FiniteBounds ==
  ASSUME NEW S \in SUBSET Entry, IsFiniteSet(S)
  PROVE  /\ {UpperOf(e) : e \in S} \subseteq Int
         /\ {LowerOf(e) : e \in S} \subseteq Int
         /\ IsFiniteSet({UpperOf(e) : e \in S})
         /\ IsFiniteSet({LowerOf(e) : e \in S})
  <1> DEFINE U == {UpperOf(e) : e \in S}
             L == {LowerOf(e) : e \in S}
  <1>1. [e \in S |-> UpperOf(e)] \in Surjection(S, U)
    BY DEF Surjection
  <1>2. [e \in S |-> LowerOf(e)] \in Surjection(S, L)
    BY DEF Surjection
  <1>3. \A e \in S : UpperOf(e) \in Int /\ LowerOf(e) \in Int
    BY DEF Entry, UpperOf, LowerOf
  <1> QED BY <1>1, <1>2, <1>3, FS_Surjection

(* With TopK candidates in the heap the frontier is the bound of one of     *)
(* them, and no bound in the heap is above it.                              *)
LEMMA UpperOfFrontier ==
  ASSUME NEW S \in SUBSET Entry, IsFiniteSet(S)
  PROVE  /\ SafeOutFrontierUpper(S) \in Int
         /\ \/ SafeOutFrontierUpper(S) = Inf
            \/ /\ Cardinality(S) >= TopK
               /\ \A e \in S : UpperOf(e) <= SafeOutFrontierUpper(S)
  <1>1. CASE UseSafeOut /\ Cardinality(S) >= TopK
    <2>1. S # {}
      BY <1>1, FS_EmptySet, PlannerAssumption
    <2> DEFINE U == {UpperOf(e) : e \in S}
    <2>2. U # {} /\ U \subseteq Int /\ IsFiniteSet(U)
      BY <2>1, FiniteBounds
    <2>3. MaxOf(U) \in U /\ \A y \in U : y <= MaxOf(U)
      BY <2>2, LargestExists
    <2> QED BY <1>1, <2>2, <2>3 DEF SafeOutFrontierUpper
  <1>2. CASE ~(UseSafeOut /\ Cardinality(S) >= TopK)
    BY <1>2, PlannerAssumption DEF SafeOutFrontierUpper
  <1> QED BY <1>1, <1>2

LEMMA LowerOfFrontier ==
  ASSUME NEW S \in SUBSET Entry, IsFiniteSet(S)
  PROVE  SafeInFrontierLower(S) \in Int
  <1>1. CASE UseFrontier /\ Cardinality(S) >= TopK
    <2>1. S # {}
      BY <1>1, FS_EmptySet, PlannerAssumption
    <2> DEFINE L == {LowerOf(e) : e \in S}
    <2>2. L # {} /\ L \subseteq Int /\ IsFiniteSet(L)
      BY <2>1, FiniteBounds
    <2>3. MaxOf(L) \in L
      BY <2>2, LargestExists
    <2> QED BY <1>1, <2>2, <2>3 DEF SafeInFrontierLower
  <1>2. CASE ~(UseFrontier /\ Cardinality(S) >= TopK)
    BY <1>2, PlannerAssumption DEF SafeInFrontierLower
  <1> QED BY <1>1, <1>2

LEMMA SameKeys ==
  ASSUME NEW S, NEW T, NEW n, NEW k1, NEW k2, IsSmallest(T, S, n, k1),
         \A s \in S : k1[s] = k2[s]
  PROVE  IsSmallest(T, S, n, k2)
  BY DEF IsSmallest

(* The n smallest of what was kept and what is new are the n smallest of    *)
(* everything: what a full heap has thrown away never comes back.           *)
LEMMA MergeKeepsSmallest ==
  ASSUME NEW M, NEW new, NEW heap, NEW kept, NEW n \in Nat,
         IsFiniteSet(M), IsFiniteSet(new),
         NEW key \in [M \cup new -> Int],
         IsSmallest(heap, M, n, key),
         IsSmallest(kept, heap \cup new, n, key)
  PROVE  IsSmallest(kept, M \cup new, n, key)
  <1> DEFINE all == M \cup new
  <1>1. heap \subseteq M /\ kept \subseteq heap \cup new
    BY DEF IsSmallest
  <1>2. /\ IsFiniteSet(heap) /\ IsFiniteSet(heap \cup new) /\ IsFiniteSet(kept)
        /\ IsFiniteSet(all)
    BY <1>1, FS_Subset, FS_Union
  <1>3. /\ Cardinality(heap) \in Nat /\ Cardinality(heap \cup new) \in Nat
        /\ Cardinality(kept) \in Nat /\ Cardinality(all) \in Nat
        /\ Cardinality(M) \in Nat
    BY <1>2, FS_CardinalityType
  <1>4. CASE Cardinality(M) <= n
    <2>1. heap = M
      BY <1>4 DEF IsSmallest
    <2> QED BY <2>1
  <1>5. CASE Cardinality(M) > n
    <2>1. Cardinality(heap) = n
      BY <1>5, <1>3 DEF IsSmallest
    <2>2. Cardinality(all) > n
      <3>1. Cardinality(M) <= Cardinality(all)
        BY <1>2, FS_Subset
      <3> QED BY <3>1, <1>3, <1>5
    <2>3. Cardinality(kept) = n
      <3>1. Cardinality(heap) <= Cardinality(heap \cup new)
        BY <1>2, FS_Subset
      <3> QED BY <3>1, <2>1, <1>3 DEF IsSmallest
    <2>4. ASSUME NEW t \in kept, NEW s \in all \ kept
          PROVE  key[t] <= key[s]
      <3>1. CASE s \in heap \cup new
        BY <3>1, <2>4 DEF IsSmallest
      <3>2. CASE s \notin heap \cup new
        <4>1. s \in M \ heap
          BY <3>2
        <4>2. \A h \in heap : key[h] <= key[s]
          BY <4>1 DEF IsSmallest
        <4>3. CASE t \in heap
          BY <4>2, <4>3
        <4>4. CASE t \notin heap
          <5>1. PICK h \in heap : h \notin kept
            <6>1. heap # kept
              BY <4>4, <2>4
            <6>2. ~(heap \subseteq kept)
              BY <6>1, <1>2, <2>1, <2>3, FS_Subset
            <6> QED BY <6>2
          <5>2. key[t] <= key[h]
            BY <5>1, <2>4 DEF IsSmallest
          <5>3. key[h] <= key[s]
            BY <4>2, <5>1
          <5>4. t \in all /\ h \in all /\ s \in all
            BY <1>1, <2>4, <5>1
          <5> QED BY <5>2, <5>3, <5>4
        <4> QED BY <4>3, <4>4
      <3> QED BY <3>1, <3>2
    <2> QED BY <1>1, <1>3, <2>2, <2>3, <2>4 DEF IsSmallest
  <1> QED BY <1>3, <1>4, <1>5
-----------------------------------------------------------------------------
(* What the scan of a block does, whatever stage decides about a record:    *)
(* the records in left survive with an estimate d, a margin m, a SafeIn     *)
(* bound b, and a says which of them are to be read in one piece.  The      *)
(* bounds are bounds, and what is read in one piece is below the threshold. *)
Survivors(left, d, m) ==
  {[rec |-> r, est |-> d[r], err |-> m[r]] : r \in left}
Deferrals(left, d, b) ==
  {[rec |-> r, key |-> d[r], bound |-> b[r]] : r \in left}
NewPlans(left, d, a) ==
  {[rec |-> r, key |-> d[r], all |-> a[r]] : r \in left}

Scanned(B, left, d, m, b, a) ==
  /\ \A r \in left : /\ Dist[r] <= d[r] + m[r] /\ d[r] - m[r] <= Dist[r]
                     /\ Dist[r] <= b[r]
                     /\ a[r] => Dist[r] < threshold
  /\ \A r \in B \ left : Dist[r] > upper
  /\ scanned' = scanned \cup B
  /\ dropped' = dropped \cup (B \ left)
  /\ estimates' = IF UseFrontier THEN estimates \cup Survivors(left, d, m)
                                  ELSE estimates
  /\ \/ deferred' = deferred \cup Deferrals(left, d, b) /\ UNCHANGED planVars
     \/ AddPlans(NewPlans(left, d, a)) /\ UNCHANGED deferred

LEMMA ScanSummary ==
  ASSUME TypeOK, NEW B \in SUBSET Records,
         NEW d1 \in [B -> UNION {Near(1, r) : r \in B}],
         NEW d2 \in [B -> UNION {Near(2, r) : r \in B}],
         \A r \in B : d1[r] \in Near(1, r) /\ d2[r] \in Near(2, r),
         Scan(B, d1, d2)
  PROVE  \E left \in SUBSET B :
           \E d \in [left -> Int], m \in [left -> Nat], b \in [left -> Int],
              a \in [left -> BOOLEAN] : Scanned(B, left, d, m, b, a)
  <1> DEFINE out1 == {r \in B : SafeOutAt(1, r, d1[r])}
             in1 == {r \in B \ out1 : Stage1SafeIn /\ SafeInAt(1, r, d1[r])}
             second == IF HasStage2 THEN B \ (out1 \cup in1) ELSE {}
             out2 == {r \in second : SafeOutAt(2, r, d2[r])}
             in2 == {r \in second \ out2 : SafeInAt(2, r, d2[r])}
             left == B \ (out1 \cup out2)
             stage(r) == IF r \in second THEN 2 ELSE 1
             est(r) == IF r \in second THEN d2[r] ELSE d1[r]
             d == [r \in left |-> est(r)]
             m == [r \in left |-> OutMargin[stage(r)][r]]
             b == [r \in left |-> est(r) + InMargin[stage(r)][r]]
             a == [r \in left |-> r \in (in1 \cup in2) \cap Small]
  <1>1. /\ scanned' = scanned \cup B
        /\ dropped' = dropped \cup out1 \cup out2
        /\ estimates' = IF UseFrontier
             THEN estimates \cup
                {[rec |-> r, est |-> est(r),
                  err |-> OutMargin[stage(r)][r]] : r \in left}
             ELSE estimates
        /\ \/ /\ deferred' = deferred \cup
                   {[rec |-> r, key |-> est(r),
                     bound |-> est(r) + InMargin[stage(r)][r]] : r \in left}
              /\ UNCHANGED planVars
           \/ /\ AddPlans({[rec |-> r, key |-> est(r),
                            all |-> r \in (in1 \cup in2) \cap Small] : r \in left})
              /\ UNCHANGED deferred
    BY DEF Scan
  <1>2. \A r \in B : /\ Dist[r] \in Int
                     /\ \A s \in 1..2 : /\ Err[s][r] \in Nat /\ OutMargin[s][r] \in Nat
                                        /\ InMargin[s][r] \in Nat
                                        /\ Err[s][r] <= OutMargin[s][r]
                                        /\ Err[s][r] <= InMargin[s][r]
    BY PlannerAssumption, Calibrated
  <1>3. \A r \in B : /\ d1[r] \in Int /\ Dist[r] - Err[1][r] <= d1[r]
                     /\ d1[r] <= Dist[r] + Err[1][r]
                     /\ d2[r] \in Int /\ Dist[r] - Err[2][r] <= d2[r]
                     /\ d2[r] <= Dist[r] + Err[2][r]
    BY <1>2 DEF Near
  <1>4. \A r \in B : stage(r) \in 1..2 /\ est(r) \in Int
    BY <1>3
  <1>5. \A r \in B : /\ Dist[r] <= est(r) + OutMargin[stage(r)][r]
                     /\ est(r) - OutMargin[stage(r)][r] <= Dist[r]
                     /\ Dist[r] <= est(r) + InMargin[stage(r)][r]
    BY <1>2, <1>3, SMTT(20)
  <1>6. upper \in Int /\ threshold \in Int
    BY DEF TypeOK
  <1>7. \A r \in B \ left : Dist[r] > upper
    <2>1. \A r \in B : \A s \in 1..2 :
            \A e \in Int : e <= Dist[r] + Err[s][r] /\ SafeOutAt(s, r, e)
                          => Dist[r] > upper
      <3> TAKE r \in B
      <3> TAKE s \in 1..2
      <3>1. /\ Dist[r] \in Int /\ Err[s][r] \in Nat /\ OutMargin[s][r] \in Nat
            /\ Err[s][r] <= OutMargin[s][r]
        BY <1>2
      <3> QED BY <3>1, <1>6 DEF SafeOutAt
    <2>2. \A r \in out1 : Dist[r] > upper
      BY <1>3, <2>1
    <2>3. \A r \in out2 : Dist[r] > upper
      BY <1>3, <2>1
    <2> QED BY <2>2, <2>3
  <1>8. dropped' = dropped \cup (B \ left)
    BY <1>1
  <1>9. \A r \in in1 \cup in2 : Dist[r] < threshold
    <2>1. \A r \in B : \A s \in 1..2 :
            \A e \in Int : Dist[r] <= e + Err[s][r] /\ SafeInAt(s, r, e)
                          => Dist[r] < threshold
      <3> TAKE r \in B
      <3> TAKE s \in 1..2
      <3>1. /\ Dist[r] \in Int /\ Err[s][r] \in Nat /\ InMargin[s][r] \in Nat
            /\ Err[s][r] <= InMargin[s][r]
        BY <1>2
      <3> QED BY <3>1, <1>6 DEF SafeInAt
    <2>2. \A r \in B : Dist[r] <= d1[r] + Err[1][r] /\ Dist[r] <= d2[r] + Err[2][r]
      BY <1>2, <1>3
    <2>3. \A r \in in1 : Dist[r] < threshold
      BY <1>3, <2>1, <2>2
    <2>4. \A r \in in2 : Dist[r] < threshold
      BY <1>3, <2>1, <2>2
    <2> QED BY <2>3, <2>4
  <1> HIDE DEF out1, in1, second, out2, in2, stage, est
  <1>10. left \in SUBSET B
    OBVIOUS
  <1> HIDE DEF left
  <1>11. /\ d \in [left -> Int] /\ b \in [left -> Int] /\ m \in [left -> Nat]
         /\ a \in [left -> BOOLEAN]
    <2>1. \A r \in left : /\ est(r) \in Int
                          /\ OutMargin[stage(r)][r] \in Nat
                          /\ InMargin[stage(r)][r] \in Nat
      BY <1>2, <1>4, <1>10
    <2> QED BY <2>1
  <1>12. \A r \in left : /\ Dist[r] <= d[r] + m[r] /\ d[r] - m[r] <= Dist[r]
                         /\ Dist[r] <= b[r]
                         /\ a[r] => Dist[r] < threshold
    <2> TAKE r \in left
    <2>1. /\ d[r] = est(r) /\ m[r] = OutMargin[stage(r)][r]
          /\ b[r] = est(r) + InMargin[stage(r)][r]
          /\ a[r] => r \in in1 \cup in2
      OBVIOUS
    <2>2. r \in B
      BY <1>10
    <2> QED BY <1>5, <1>9, <2>1, <2>2
  <1>13. /\ Survivors(left, d, m) =
              {[rec |-> r, est |-> est(r),
                err |-> OutMargin[stage(r)][r]] : r \in left}
         /\ Deferrals(left, d, b) =
              {[rec |-> r, key |-> est(r),
                bound |-> est(r) + InMargin[stage(r)][r]] : r \in left}
         /\ NewPlans(left, d, a) =
              {[rec |-> r, key |-> est(r),
                all |-> r \in (in1 \cup in2) \cap Small] : r \in left}
    BY DEF Survivors, Deferrals, NewPlans
  <1> HIDE DEF d, m, b, a
  <1>14. Scanned(B, left, d, m, b, a)
    BY <1>1, <1>7, <1>8, <1>12, <1>13 DEF Scanned
  <1> QED BY <1>10, <1>11, <1>14

LEMMA ScanBlockSummary ==
  ASSUME TypeOK, NEW B \in blocks, ScanBlock(B)
  PROVE  /\ B \in SUBSET Records
         /\ \E left \in SUBSET B :
              \E d \in [left -> Int], m \in [left -> Nat], b \in [left -> Int],
                 a \in [left -> BOOLEAN] : Scanned(B, left, d, m, b, a)
  <1>1. B \in SUBSET Records
    BY DEF TypeOK
  <1>2. PICK d1 \in [B -> UNION {Near(1, r) : r \in B}],
             d2 \in [B -> UNION {Near(2, r) : r \in B}] :
               /\ \A r \in B : d1[r] \in Near(1, r) /\ d2[r] \in Near(2, r)
               /\ Scan(B, d1, d2)
    BY DEF ScanBlock
  <1> QED BY <1>1, <1>2, ScanSummary
-----------------------------------------------------------------------------
(* The inductive invariant.                                                 *)

(* Every candidate has one estimate, and its upper bound is one: the        *)
(* exact distance does not exceed it.                                       *)
EstimatesInv ==
  /\ OneEach(merged \cup estimates)
  /\ \A e \in merged \cup estimates : Dist[e.rec] <= UpperOf(e)
  /\ Recs(merged \cup estimates) \subseteq scanned

(* What is still to be scanned has not been scanned.                        *)
FreshInv ==
  /\ pc # "scan" => blocks = {} /\ estimates = {}
  /\ blocks = {} \/ \E c \in Clusters \ todo : blocks \subseteq Blocks[c]
  /\ \A B \in blocks : B \cap scanned = {}
  /\ \A c \in todo : \A B \in Blocks[c] : B \cap scanned = {}

(* What is held back is held back in one place.                             *)
HeldInv ==
  /\ OneEach(deferred) /\ OneEach(budget_heap)
  /\ Recs(deferred) \cap Recs(budget_heap) = {}
  /\ Recs(deferred) \cup Recs(budget_heap) \subseteq scanned
  /\ Budget = 0 => budget_heap = {}
  /\ pc \in {"materialize", "idle"} => deferred = {}
  /\ pc = "idle" => budget_heap = {}

PlannerInv ==
  TypeOK /\ EstimatesInv /\ FreshInv /\ HeldInv /\ FrontierIsKth

Plan == [rec : Records, key : Int, all : BOOLEAN]

LEMMA Naturals ==
  /\ Budget \in Nat /\ EarlyMax \in Nat /\ EarlyCount \in Nat /\ Inf \in Nat
  /\ TopK \in Nat /\ TopK >= 1 /\ SafeInDk \in Int
  BY PlannerAssumption

(* The sets a step reasons about are finite.                                *)
LEMMA PlannerFinite ==
  ASSUME PlannerInv
  PROVE  /\ IsFiniteSet(merged) /\ IsFiniteSet(estimates)
         /\ IsFiniteSet(safeout_heap) /\ IsFiniteSet(safein_heap)
         /\ IsFiniteSet(deferred) /\ IsFiniteSet(budget_heap)
         /\ safeout_heap \subseteq merged /\ safein_heap \subseteq merged
  <1>1. \A e \in merged \cup estimates : e.rec \in Records
    BY DEF PlannerInv, TypeOK, Entry
  <1>2. IsFiniteSet(merged \cup estimates)
    BY <1>1, OneEachFinite DEF PlannerInv, EstimatesInv
  <1>3. \A e \in deferred \cup budget_heap : e.rec \in Records
    BY DEF PlannerInv, TypeOK
  <1>4. IsFiniteSet(deferred) /\ IsFiniteSet(budget_heap)
    BY <1>3, OneEachFinite DEF PlannerInv, HeldInv
  <1>5. safeout_heap \subseteq merged /\ safein_heap \subseteq merged
    BY DEF PlannerInv, FrontierIsKth, IsSmallest
  <1> QED BY <1>2, <1>4, <1>5, FS_Subset

LEMMA AddPlansType ==
  ASSUME TypeOK, NEW new \in SUBSET Plan, AddPlans(new)
  PROVE  /\ budget_heap' \subseteq Plan
         /\ plans' \in [Records -> Nat]
         /\ whole' \subseteq Records
  <1>1. whole' \subseteq Records
    BY DEF AddPlans, TypeOK, Plan
  <1>2. CASE Budget = 0 /\ plans' = Emit(Recs(new)) /\ UNCHANGED budget_heap
    BY <1>1, <1>2 DEF TypeOK, Emit, Plan
  <1>3. CASE ~(Budget = 0 /\ plans' = Emit(Recs(new)) /\ UNCHANGED budget_heap)
    <2>1. UNCHANGED plans /\ budget_heap' \subseteq budget_heap \cup new
      BY <1>3 DEF AddPlans, IsSmallest
    <2> QED BY <1>1, <2>1 DEF TypeOK, Plan
  <1> QED BY <1>2, <1>3

LEMMA DecidedType ==
  ASSUME TypeOK, NEW t
  PROVE  Decided(t) \subseteq Plan
  <1>1. \A d \in deferred : /\ d.rec \in Records /\ d.key \in Int
                            /\ (t # -Inf /\ d.rec \in Small /\ d.bound < t) \in BOOLEAN
    BY DEF TypeOK
  <1>2. \A d \in deferred :
          [rec |-> d.rec, key |-> d.key,
           all |-> t # -Inf /\ d.rec \in Small /\ d.bound < t] \in Plan
    BY <1>1 DEF Plan
  <1> QED BY <1>2 DEF Decided

LEMMA FlushType ==
  ASSUME TypeOK, NEW t, FlushDeferred(t)
  PROVE  /\ budget_heap' \subseteq Plan
         /\ plans' \in [Records -> Nat]
         /\ whole' \subseteq Records
         /\ deferred' = {}
  BY AddPlansType, DecidedType DEF FlushDeferred

LEMMA UpdateType ==
  ASSUME TypeOK, NEW heap \in SUBSET Entry, IsFiniteSet(heap),
         NEW advance \in Nat, UpdateDynamicSafeInState(heap, advance)
  PROVE  /\ probes_seen' \in Nat /\ stable_count' \in Nat /\ ready' \in BOOLEAN
         /\ last_frontier' \in Int /\ frontier' \in Int
         /\ SafeInThresholdForProbe' \in Int
  <1>1. CASE SafeInMode = "Static"
    <2>1. UNCHANGED safeinVars
      BY <1>1 DEF UpdateDynamicSafeInState
    <2> QED BY <1>1, <2>1, Naturals DEF TypeOK, safeinVars, SafeInThresholdForProbe
  <1>2. CASE SafeInMode # "Static"
    <2>1. /\ SafeInMode = "Frontier"
          /\ probes_seen' = probes_seen + advance
          /\ frontier' = SafeInFrontierLower(heap)
          /\ stable_count' \in {0, 1, stable_count + 1}
          /\ last_frontier' = IF frontier' = Inf THEN last_frontier ELSE frontier'
          /\ ready' \in BOOLEAN
      BY <1>2, PlannerAssumption DEF UpdateDynamicSafeInState
    <2>2. frontier' \in Int
      BY <2>1, LowerOfFrontier
    <2>3. SafeInThresholdForProbe' \in Int
      BY <2>1, <2>2, Naturals DEF SafeInThresholdForProbe
    <2> QED BY <2>1, <2>2, <2>3 DEF TypeOK
  <1> QED BY <1>1, <1>2

LEMMA PlannerInit == Init => PlannerInv
  <1> SUFFICES ASSUME Init PROVE PlannerInv
    OBVIOUS
  <1>1. TypeOK
    <2>1. plans \in [Records -> Nat] /\ early_count \in 0..EarlyMax
      BY Naturals DEF Init
    <2>2. Inf \in Int
      BY Naturals
    <2> QED BY <2>1, <2>2 DEF Init, TypeOK
  <1>2. EstimatesInv /\ FreshInv /\ HeldInv
    BY DEF Init, EstimatesInv, FreshInv, HeldInv, OneEach, Recs
  <1>3. FrontierIsKth
    <2>1. merged = {} /\ safeout_heap = {} /\ safein_heap = {}
      BY DEF Init
    <2>2. \A key : IsSmallest({}, {}, TopK, key)
      BY FS_EmptySet, Naturals DEF IsSmallest
    <2> QED BY <2>1, <2>2 DEF FrontierIsKth
  <1> QED BY <1>1, <1>2, <1>3 DEF PlannerInv

LEMMA EarlyRoomBound ==
  ASSUME PlannerInv, NEW top \in SUBSET Unemitted,
         IsSmallest(top, Unemitted, EarlyRoom, Ranks(Unemitted))
  PROVE  early_count + Cardinality(top) \in 0..EarlyMax
  <1>1. IsFiniteSet(Unemitted) /\ IsFiniteSet(top)
    BY PlannerFinite, FS_Subset DEF Unemitted
  <1>2. Cardinality(Unemitted) \in Nat /\ Cardinality(top) \in Nat
    BY <1>1, FS_CardinalityType
  <1>3. early_count \in 0..EarlyMax
    BY DEF PlannerInv, TypeOK
  <1>4. EarlyRoom \in Nat /\ EarlyRoom <= EarlyMax - early_count
    BY <1>3, Naturals DEF EarlyRoom, Smaller
  <1>5. Cardinality(top) <= EarlyRoom
    BY <1>2, <1>4 DEF IsSmallest
  <1> QED BY <1>2, <1>3, <1>4, <1>5, Naturals

LEMMA TypeStep ==
  ASSUME PlannerInv, [Next]_vars
  PROVE  TypeOK'
  <1>0. TypeOK
    BY DEF PlannerInv
  <1>1. ASSUME NEW S \in SUBSET Clusters, Search(S) PROVE TypeOK'
    <2>1. plans' \in [Records -> Nat] /\ early_count' \in 0..EarlyMax
      BY <1>1, Naturals DEF Search
    <2>2. Inf \in Int
      BY Naturals
    <2>3. /\ pc' \in {"tail", "probe"}
          /\ UNCHANGED <<blocks, upper, threshold, estimates>>
      BY <1>1 DEF Search
    <2> QED BY <1>0, <1>1, <2>1, <2>2, <2>3 DEF Search, TypeOK
  <1>2. ASSUME NEW c \in todo, StartCluster(c) PROVE TypeOK'
    <2>1. safeout_heap \in SUBSET Entry /\ safein_heap \in SUBSET Entry
      BY <1>0 DEF TypeOK
    <2>2. upper' \in Int
      BY <1>2, <2>1, PlannerFinite, UpperOfFrontier DEF StartCluster
    <2>3. /\ probes_seen' \in Nat /\ stable_count' \in Nat /\ ready' \in BOOLEAN
          /\ last_frontier' \in Int /\ frontier' \in Int /\ threshold' \in Int
      BY <1>0, <1>2, <2>1, PlannerFinite, UpdateType DEF StartCluster
    <2>4. todo' \subseteq Clusters /\ blocks' \subseteq SUBSET Records
      BY <1>0, <1>2, PlannerAssumption DEF StartCluster, TypeOK
    <2> QED BY <1>0, <1>2, <2>2, <2>3, <2>4
            DEF StartCluster, TypeOK, frontierVars, planVars, earlyVars
  <1>3. ASSUME NEW B \in blocks, ScanBlock(B) PROVE TypeOK'
    <2>1. B \in SUBSET Records
      BY <1>0, <1>3, ScanBlockSummary
    <2>2. PICK left \in SUBSET B :
            \E d \in [left -> Int], m \in [left -> Nat], b \in [left -> Int],
               a \in [left -> BOOLEAN] : Scanned(B, left, d, m, b, a)
      BY <1>0, <1>3, ScanBlockSummary
    <2>3. PICK d \in [left -> Int], m \in [left -> Nat], b \in [left -> Int],
               a \in [left -> BOOLEAN] : Scanned(B, left, d, m, b, a)
      BY <2>2
    <2>4. /\ scanned' \subseteq Records /\ dropped' \subseteq Records
          /\ estimates' \subseteq Entry
      BY <1>0, <2>1, <2>3 DEF Scanned, Survivors, TypeOK, Entry
    <2>5. /\ deferred' \subseteq [rec : Records, key : Int, bound : Int]
          /\ budget_heap' \subseteq Plan /\ plans' \in [Records -> Nat]
          /\ whole' \subseteq Records
      <3>1. CASE deferred' = deferred \cup Deferrals(left, d, b) /\ UNCHANGED planVars
        BY <1>0, <2>1, <3>1 DEF Deferrals, TypeOK, planVars, Plan
      <3>2. CASE AddPlans(NewPlans(left, d, a)) /\ UNCHANGED deferred
        <4>1. NewPlans(left, d, a) \in SUBSET Plan
          BY <2>1 DEF NewPlans, Plan
        <4> QED BY <1>0, <3>2, <4>1, AddPlansType DEF TypeOK
      <3> QED BY <2>3, <3>1, <3>2 DEF Scanned
    <2>6. /\ UNCHANGED <<pc, todo, upper, threshold, frontierVars, safeinVars,
                         extra_defer, earlyVars>>
          /\ blocks' \subseteq blocks
      BY <1>3 DEF ScanBlock
    <2> QED BY <1>0, <2>4, <2>5, <2>6
            DEF TypeOK, Plan, frontierVars, safeinVars, earlyVars
  <1>4. CASE FinishCluster
    <2>1. merged' \subseteq Entry /\ safeout_heap' \subseteq Entry
      BY <1>0, <1>4 DEF FinishCluster, FinalizeCluster, TypeOK
    <2>2. PICK heap \in SUBSET (safein_heap \cup estimates) :
            safein_heap' = heap /\ UpdateDynamicSafeInState(heap, 0)
      BY <1>4 DEF FinishCluster, FinalizeCluster
    <2>3. heap \in SUBSET Entry /\ IsFiniteSet(heap)
      <3>1. IsFiniteSet(safein_heap \cup estimates)
        BY PlannerFinite, FS_Union
      <3> QED BY <1>0, <3>1, FS_Subset DEF TypeOK
    <2>4. /\ probes_seen' \in Nat /\ stable_count' \in Nat /\ ready' \in BOOLEAN
          /\ last_frontier' \in Int /\ frontier' \in Int
      BY <1>0, <2>2, <2>3, UpdateType
    <2>5. /\ deferred' \subseteq [rec : Records, key : Int, bound : Int]
          /\ budget_heap' \subseteq Plan /\ plans' \in [Records -> Nat]
          /\ whole' \subseteq Records
      <3>1. CASE UNCHANGED <<deferred, planVars>>
        BY <1>0, <3>1 DEF TypeOK, planVars, Plan
      <3>2. CASE FlushDeferred(SafeInThresholdForProbe')
        BY <1>0, <3>2, FlushType
      <3> QED BY <1>4, <3>1, <3>2 DEF FinishCluster, FinalizeCluster
    <2>6. extra_defer' \in BOOLEAN
      BY <1>0, <1>4 DEF FinishCluster, FinalizeCluster, TypeOK
    <2>7. since_early' \in Nat /\ pc' = "submit" /\ estimates' = {}
      BY <1>0, <1>4 DEF FinishCluster, FinalizeCluster, TypeOK
    <2>8. UNCHANGED <<todo, blocks, upper, threshold, emitted, early_count,
                      scanned, dropped>>
      BY <1>4 DEF FinishCluster, FinalizeCluster
    <2> QED BY <1>0, <2>1, <2>2, <2>3, <2>4, <2>5, <2>6, <2>7, <2>8
            DEF TypeOK, Plan
  <1>5. CASE EarlySubmitPlans
    <2>1. /\ pc' \in {"tail", "probe"}
          /\ UNCHANGED <<clusterVars, frontierVars, safeinVars, extra_defer,
                         deferred, budget_heap, whole, scanned, dropped>>
      BY <1>5 DEF EarlySubmitPlans
    <2>2. /\ plans' \in [Records -> Nat] /\ emitted' \subseteq Records
          /\ early_count' \in 0..EarlyMax /\ since_early' \in Nat
      <3>1. CASE UNCHANGED <<plans, earlyVars>>
        BY <1>0, <3>1 DEF TypeOK, earlyVars
      <3>2. CASE ~UNCHANGED <<plans, earlyVars>>
        <4>1. PICK top \in SUBSET Unemitted :
                /\ IsSmallest(top, Unemitted, EarlyRoom, Ranks(Unemitted))
                /\ EmitTop(top)
          BY <1>5, <3>2 DEF EarlySubmitPlans
        <4>2. since_early' = 0
          BY <1>5, <3>2 DEF EarlySubmitPlans
        <4>3. early_count' \in 0..EarlyMax
          BY <4>1, EarlyRoomBound DEF EmitTop
        <4>4. Recs(top) \subseteq Records
          BY <1>0, <4>1 DEF Unemitted, Recs, TypeOK
        <4>5. plans' \in [Records -> Nat] /\ emitted' \subseteq Records
          BY <1>0, <4>1, <4>4 DEF EmitTop, Emit, TypeOK
        <4> QED BY <4>2, <4>3, <4>5
      <3> QED BY <3>1, <3>2
    <2> QED BY <1>0, <2>1, <2>2
            DEF TypeOK, clusterVars, frontierVars, safeinVars
  <1>6. CASE FlushTail
    <2>1. /\ budget_heap' \subseteq Plan /\ plans' \in [Records -> Nat]
          /\ whole' \subseteq Records /\ deferred' = {}
      BY <1>0, <1>6, FlushType DEF FlushTail
    <2>2. /\ pc' = "materialize"
          /\ UNCHANGED <<clusterVars, frontierVars, safeinVars, extra_defer,
                         earlyVars, scanned, dropped>>
      BY <1>6 DEF FlushTail
    <2> QED BY <1>0, <2>1, <2>2
            DEF TypeOK, Plan, clusterVars, frontierVars, safeinVars, earlyVars
  <1>7. CASE MaterializeBudgetedReadPlans
    BY <1>0, <1>7 DEF MaterializeBudgetedReadPlans, Emit, TypeOK, clusterVars,
                      frontierVars, safeinVars, earlyVars
  <1>8. CASE UNCHANGED vars
    BY <1>0, <1>8 DEF vars, TypeOK, clusterVars, frontierVars, safeinVars,
                      planVars, earlyVars
  <1> QED BY <1>1, <1>2, <1>3, <1>4, <1>5, <1>6, <1>7, <1>8 DEF Next

LEMMA EstimatesStep ==
  ASSUME PlannerInv, [Next]_vars
  PROVE  EstimatesInv'
  <1>0. TypeOK /\ EstimatesInv /\ FreshInv
    BY DEF PlannerInv
  <1>1. ASSUME NEW S \in SUBSET Clusters, Search(S) PROVE EstimatesInv'
    <2>1. merged' = {} /\ estimates' = {}
      BY <1>0, <1>1 DEF Search, FreshInv
    <2> QED BY <2>1 DEF EstimatesInv, OneEach, Recs
  <1>2. ASSUME NEW c \in todo, StartCluster(c) PROVE EstimatesInv'
    <2>1. estimates' = {} /\ merged' = merged /\ scanned' = scanned
      BY <1>2 DEF StartCluster, frontierVars
    <2> QED BY <1>0, <2>1 DEF EstimatesInv, OneEach, Recs
  <1>3. ASSUME NEW B \in blocks, ScanBlock(B) PROVE EstimatesInv'
    <2>1. B \in SUBSET Records /\ B \cap scanned = {}
      BY <1>0, <1>3, ScanBlockSummary DEF FreshInv
    <2>2. PICK left \in SUBSET B :
            \E d \in [left -> Int], m \in [left -> Nat], b \in [left -> Int],
               a \in [left -> BOOLEAN] : Scanned(B, left, d, m, b, a)
      BY <1>0, <1>3, ScanBlockSummary
    <2>3. PICK d \in [left -> Int], m \in [left -> Nat], b \in [left -> Int],
               a \in [left -> BOOLEAN] : Scanned(B, left, d, m, b, a)
      BY <2>2
    <2> DEFINE new == Survivors(left, d, m)
    <2>4. /\ merged' = merged /\ scanned' = scanned \cup B
          /\ estimates' \subseteq estimates \cup new
          /\ \A r \in left : Dist[r] <= d[r] + m[r]
      BY <1>3, <2>3 DEF ScanBlock, frontierVars, Scanned
    <2>5. /\ OneEach(new)
          /\ \A e \in new : e.rec \in B /\ Dist[e.rec] <= UpperOf(e)
      BY <2>4 DEF Survivors, OneEach, UpperOf
    <2>6. \A e \in merged \cup estimates : e.rec \in scanned
      BY <1>0 DEF EstimatesInv, Recs
    <2>7. OneEach(merged' \cup estimates')
      BY <1>0, <2>1, <2>4, <2>5, <2>6 DEF EstimatesInv, OneEach
    <2>8. \A e \in merged' \cup estimates' : Dist[e.rec] <= UpperOf(e)
      BY <1>0, <2>4, <2>5 DEF EstimatesInv
    <2>9. Recs(merged' \cup estimates') \subseteq scanned'
      BY <2>4, <2>5, <2>6 DEF Recs
    <2> QED BY <2>7, <2>8, <2>9 DEF EstimatesInv
  <1>4. CASE FinishCluster
    <2>1. merged' = merged \cup estimates /\ estimates' = {} /\ scanned' = scanned
      BY <1>4 DEF FinishCluster, FinalizeCluster
    <2> QED BY <1>0, <2>1 DEF EstimatesInv
  <1>5. CASE UNCHANGED <<merged, estimates, scanned>>
    BY <1>0, <1>5 DEF EstimatesInv
  <1>6. CASE EarlySubmitPlans \/ FlushTail \/ MaterializeBudgetedReadPlans
    BY <1>5, <1>6 DEF EarlySubmitPlans, FlushTail, MaterializeBudgetedReadPlans,
                      clusterVars, frontierVars
  <1>7. CASE UNCHANGED vars
    BY <1>5, <1>7 DEF vars, clusterVars, frontierVars
  <1> QED BY <1>1, <1>2, <1>3, <1>4, <1>6, <1>7 DEF Next

LEMMA FreshStep ==
  ASSUME PlannerInv, [Next]_vars
  PROVE  FreshInv'
  <1>0. TypeOK /\ FreshInv
    BY DEF PlannerInv
  <1>1. ASSUME NEW S \in SUBSET Clusters, Search(S) PROVE FreshInv'
    BY <1>0, <1>1 DEF Search, FreshInv
  <1>2. ASSUME NEW c \in todo, StartCluster(c) PROVE FreshInv'
    <2>1. /\ c \in Clusters \ todo' /\ todo' \subseteq todo
          /\ blocks' = Blocks[c] /\ scanned' = scanned /\ pc' = "scan"
      BY <1>0, <1>2 DEF StartCluster, TypeOK
    <2> QED BY <1>0, <2>1 DEF FreshInv
  <1>3. ASSUME NEW B \in blocks, ScanBlock(B) PROVE FreshInv'
    <2>1. PICK c \in Clusters \ todo : blocks \subseteq Blocks[c]
      BY <1>0 DEF FreshInv
    <2>2. /\ todo' = todo /\ blocks' = blocks \ {B} /\ pc' = "scan"
          /\ scanned' = scanned \cup B
      BY <1>0, <1>3, ScanBlockSummary DEF ScanBlock, Scanned
    <2>3. \A C \in blocks' : C \cap scanned' = {}
      <3> SUFFICES ASSUME NEW C \in blocks' PROVE C \cap scanned' = {}
        OBVIOUS
      <3>1. B \cap C = {}
        BY <2>1, <2>2, SingleAssignment
      <3> QED BY <1>0, <2>2, <3>1 DEF FreshInv
    <2>4. \A e \in todo' : \A C \in Blocks[e] : C \cap scanned' = {}
      <3> SUFFICES ASSUME NEW e \in todo', NEW C \in Blocks[e]
                   PROVE  C \cap scanned' = {}
        OBVIOUS
      <3>1. e \in Clusters /\ e # c
        BY <1>0, <2>1, <2>2 DEF TypeOK
      <3>2. B \cap C = {}
        BY <2>1, <3>1, SingleAssignment
      <3> QED BY <1>0, <2>2, <3>2 DEF FreshInv
    <2> QED BY <2>1, <2>2, <2>3, <2>4 DEF FreshInv
  <1>4. CASE FinishCluster
    BY <1>0, <1>4 DEF FinishCluster, FinalizeCluster, FreshInv
  <1>5. CASE EarlySubmitPlans \/ FlushTail \/ MaterializeBudgetedReadPlans
    BY <1>0, <1>5 DEF EarlySubmitPlans, FlushTail, MaterializeBudgetedReadPlans,
                      clusterVars, FreshInv
  <1>6. CASE UNCHANGED vars
    BY <1>0, <1>6 DEF vars, clusterVars, FreshInv
  <1> QED BY <1>1, <1>2, <1>3, <1>4, <1>5, <1>6 DEF Next

LEMMA FrontierStep ==
  ASSUME PlannerInv, [Next]_vars
  PROVE  FrontierIsKth'
  <1>0. TypeOK /\ FrontierIsKth
    BY DEF PlannerInv
  <1>1. ASSUME NEW S \in SUBSET Clusters, Search(S) PROVE FrontierIsKth'
    <2>1. merged' = {} /\ safeout_heap' = {} /\ safein_heap' = {}
      BY <1>1 DEF Search
    <2>2. \A key : IsSmallest({}, {}, TopK, key)
      BY FS_EmptySet, Naturals DEF IsSmallest
    <2> QED BY <2>1, <2>2 DEF FrontierIsKth
  <1>2. CASE FinishCluster
    <2> DEFINE all == merged \cup estimates
    <2>1. IsFiniteSet(merged) /\ IsFiniteSet(estimates) /\ TopK \in Nat
          /\ safeout_heap \subseteq merged /\ safein_heap \subseteq merged
      BY PlannerFinite, Naturals
    <2>2. \A e \in all : UpperOf(e) \in Int /\ LowerOf(e) \in Int
      BY <1>0 DEF TypeOK, Entry, UpperOf, LowerOf
    <2>3. Uppers(all) \in [all -> Int] /\ Lowers(all) \in [all -> Int]
      BY <2>2 DEF Uppers, Lowers
    <2>4. IsSmallest(safeout_heap', all, TopK, Uppers(all))
      <3>1. IsSmallest(safeout_heap, merged, TopK, Uppers(all))
        BY <1>0, SameKeys DEF FrontierIsKth, Uppers
      <3>2. IsSmallest(safeout_heap', safeout_heap \cup estimates, TopK, Uppers(all))
        <4>1. IsSmallest(safeout_heap', safeout_heap \cup estimates, TopK,
                         Uppers(safeout_heap \cup estimates))
          BY <1>2 DEF FinishCluster, FinalizeCluster, AddSafeOutFrontierEstimates
        <4>2. \A e \in safeout_heap \cup estimates :
                Uppers(safeout_heap \cup estimates)[e] = Uppers(all)[e]
          BY <2>1 DEF Uppers
        <4> QED BY <4>1, <4>2, SameKeys
      <3> QED BY <2>1, <2>3, <3>1, <3>2, MergeKeepsSmallest
    <2>5. IsSmallest(safein_heap', all, TopK, Lowers(all))
      <3>1. IsSmallest(safein_heap, merged, TopK, Lowers(all))
        BY <1>0, SameKeys DEF FrontierIsKth, Lowers
      <3>2. IsSmallest(safein_heap', safein_heap \cup estimates, TopK, Lowers(all))
        <4>1. IsSmallest(safein_heap', safein_heap \cup estimates, TopK,
                         Lowers(safein_heap \cup estimates))
          BY <1>2 DEF FinishCluster, FinalizeCluster, AddSafeInFrontierEstimates
        <4>2. \A e \in safein_heap \cup estimates :
                Lowers(safein_heap \cup estimates)[e] = Lowers(all)[e]
          BY <2>1 DEF Lowers
        <4> QED BY <4>1, <4>2, SameKeys
      <3> QED BY <2>1, <2>3, <3>1, <3>2, MergeKeepsSmallest
    <2>6. merged' = all
      BY <1>2 DEF FinishCluster, FinalizeCluster
    <2> QED BY <2>4, <2>5, <2>6 DEF FrontierIsKth
  <1>3. CASE UNCHANGED frontierVars
    BY <1>0, <1>3 DEF frontierVars, FrontierIsKth
  <1>4. ASSUME NEW c \in todo, StartCluster(c) PROVE FrontierIsKth'
    BY <1>3, <1>4 DEF StartCluster
  <1>5. ASSUME NEW B \in blocks, ScanBlock(B) PROVE FrontierIsKth'
    BY <1>3, <1>5 DEF ScanBlock
  <1>6. CASE EarlySubmitPlans \/ FlushTail \/ MaterializeBudgetedReadPlans
    BY <1>3, <1>6 DEF EarlySubmitPlans, FlushTail, MaterializeBudgetedReadPlans
  <1>7. CASE UNCHANGED vars
    BY <1>3, <1>7 DEF vars
  <1> QED BY <1>1, <1>2, <1>4, <1>5, <1>6, <1>7 DEF Next

LEMMA AddPlansHeld ==
  ASSUME HeldInv, NEW new, OneEach(new), Recs(new) \cap Recs(budget_heap) = {},
         AddPlans(new)
  PROVE  /\ OneEach(budget_heap')
         /\ Recs(budget_heap') \subseteq Recs(budget_heap) \cup Recs(new)
         /\ Budget = 0 => budget_heap' = {} /\ plans' = Emit(Recs(new))
         /\ Budget # 0 => plans' = plans
  <1>1. CASE Budget = 0
    <2>1. plans' = Emit(Recs(new)) /\ budget_heap' = budget_heap
      BY <1>1 DEF AddPlans
    <2> QED BY <1>1, <2>1 DEF HeldInv
  <1>2. CASE Budget # 0
    <2>1. plans' = plans /\ budget_heap' \subseteq budget_heap \cup new
      BY <1>2 DEF AddPlans, IsSmallest
    <2>2. \A e \in budget_heap, f \in new : e.rec # f.rec
      BY DEF Recs
    <2>3. OneEach(budget_heap \cup new)
      BY <2>2 DEF HeldInv, OneEach
    <2> QED BY <1>2, <2>1, <2>3 DEF OneEach, Recs
  <1> QED BY <1>1, <1>2

LEMMA FlushHeld ==
  ASSUME HeldInv, NEW t, FlushDeferred(t)
  PROVE  /\ deferred' = {}
         /\ OneEach(budget_heap')
         /\ Recs(budget_heap') \subseteq Recs(budget_heap) \cup Recs(deferred)
         /\ Budget = 0 => budget_heap' = {} /\ plans' = Emit(Recs(deferred))
         /\ Budget # 0 => plans' = plans
  <1>1. Recs(Decided(t)) = Recs(deferred)
    <2>1. \A p \in Decided(t) : p.rec \in Recs(deferred)
      BY DEF Recs, Decided
    <2>2. ASSUME NEW d \in deferred PROVE \E p \in Decided(t) : p.rec = d.rec
      <3> DEFINE p == [rec |-> d.rec, key |-> d.key,
                       all |-> t # -Inf /\ d.rec \in Small /\ d.bound < t]
      <3>1. p \in Decided(t)
        BY DEF Decided
      <3>2. p.rec = d.rec
        OBVIOUS
      <3> QED BY <3>1, <3>2
    <2> QED BY <2>1, <2>2 DEF Recs
  <1>2. OneEach(Decided(t))
    BY DEF HeldInv, OneEach, Decided
  <1> QED BY <1>1, <1>2, AddPlansHeld DEF FlushDeferred, HeldInv

LEMMA ScanHeld ==
  ASSUME PlannerInv, NEW B \in SUBSET Records, B \cap scanned = {},
         NEW left \in SUBSET B, NEW d, NEW m, NEW b, NEW a,
         Scanned(B, left, d, m, b, a)
  PROVE  /\ OneEach(deferred') /\ OneEach(budget_heap')
         /\ Recs(deferred') \cap Recs(budget_heap') = {}
         /\ Budget = 0 => budget_heap' = {}
         /\ \/ /\ Recs(deferred') = Recs(deferred) \cup left
               /\ budget_heap' = budget_heap /\ plans' = plans
            \/ /\ deferred' = deferred
               /\ Recs(budget_heap') \subseteq Recs(budget_heap) \cup left
               /\ Budget = 0 => plans' = Emit(left)
               /\ Budget # 0 => plans' = plans
  <1>0. HeldInv /\ Recs(deferred) \cap left = {} /\ Recs(budget_heap) \cap left = {}
    BY DEF PlannerInv, HeldInv
  <1>1. CASE deferred' = deferred \cup Deferrals(left, d, b) /\ UNCHANGED planVars
    <2>1. Recs(Deferrals(left, d, b)) = left /\ OneEach(Deferrals(left, d, b))
      <3>1. \A p \in Deferrals(left, d, b) : p.rec \in left
        BY DEF Deferrals
      <3>2. ASSUME NEW r \in left
            PROVE  \E p \in Deferrals(left, d, b) : p.rec = r
        <4>1. [rec |-> r, key |-> d[r], bound |-> b[r]] \in Deferrals(left, d, b)
          BY DEF Deferrals
        <4> QED BY <4>1
      <3>3. OneEach(Deferrals(left, d, b))
        BY DEF OneEach, Deferrals
      <3> QED BY <3>1, <3>2, <3>3 DEF Recs
    <2>2. Recs(deferred') = Recs(deferred) \cup left
      BY <1>1, <2>1 DEF Recs
    <2>3. \A e \in deferred, f \in Deferrals(left, d, b) : e.rec # f.rec
      BY <1>0, <2>1 DEF Recs
    <2>4. OneEach(deferred')
      BY <1>0, <1>1, <2>1, <2>3 DEF HeldInv, OneEach
    <2> QED BY <1>0, <1>1, <2>2, <2>4 DEF HeldInv, planVars
  <1>2. CASE AddPlans(NewPlans(left, d, a)) /\ UNCHANGED deferred
    <2>1. Recs(NewPlans(left, d, a)) = left /\ OneEach(NewPlans(left, d, a))
      <3>1. \A p \in NewPlans(left, d, a) : p.rec \in left
        BY DEF NewPlans
      <3>2. ASSUME NEW r \in left
            PROVE  \E p \in NewPlans(left, d, a) : p.rec = r
        <4>1. [rec |-> r, key |-> d[r], all |-> a[r]] \in NewPlans(left, d, a)
          BY DEF NewPlans
        <4> QED BY <4>1
      <3>3. OneEach(NewPlans(left, d, a))
        BY DEF OneEach, NewPlans
      <3> QED BY <3>1, <3>2, <3>3 DEF Recs
    <2>2. /\ OneEach(budget_heap')
          /\ Recs(budget_heap') \subseteq Recs(budget_heap) \cup left
          /\ Budget = 0 => budget_heap' = {} /\ plans' = Emit(left)
          /\ Budget # 0 => plans' = plans
      BY <1>0, <1>2, <2>1, AddPlansHeld
    <2> QED BY <1>0, <1>2, <2>2 DEF HeldInv
  <1> QED BY <1>1, <1>2 DEF Scanned

LEMMA HeldStep ==
  ASSUME PlannerInv, [Next]_vars
  PROVE  HeldInv'
  <1>0. TypeOK /\ FreshInv /\ HeldInv
    BY DEF PlannerInv
  <1>1. ASSUME NEW S \in SUBSET Clusters, Search(S) PROVE HeldInv'
    BY <1>1 DEF Search, HeldInv, OneEach, Recs
  <1>2. ASSUME NEW c \in todo, StartCluster(c) PROVE HeldInv'
    BY <1>0, <1>2 DEF StartCluster, planVars, HeldInv
  <1>3. ASSUME NEW B \in blocks, ScanBlock(B) PROVE HeldInv'
    <2>1. B \in SUBSET Records /\ B \cap scanned = {}
      BY <1>0, <1>3, ScanBlockSummary DEF FreshInv
    <2>2. PICK left \in SUBSET B :
            \E d \in [left -> Int], m \in [left -> Nat], b \in [left -> Int],
               a \in [left -> BOOLEAN] : Scanned(B, left, d, m, b, a)
      BY <1>0, <1>3, ScanBlockSummary
    <2>3. PICK d \in [left -> Int], m \in [left -> Nat], b \in [left -> Int],
               a \in [left -> BOOLEAN] : Scanned(B, left, d, m, b, a)
      BY <2>2
    <2>4. /\ OneEach(deferred') /\ OneEach(budget_heap')
          /\ Recs(deferred') \cap Recs(budget_heap') = {}
          /\ Budget = 0 => budget_heap' = {}
          /\ Recs(deferred') \subseteq Recs(deferred) \cup left
          /\ Recs(budget_heap') \subseteq Recs(budget_heap) \cup left
      BY <2>1, <2>3, ScanHeld
    <2>5. pc' = "scan" /\ scanned' = scanned \cup B
      BY <1>3, <2>3 DEF ScanBlock, Scanned
    <2> QED BY <1>0, <2>4, <2>5 DEF HeldInv
  <1>4. CASE FinishCluster
    <2>1. pc' = "submit" /\ scanned' = scanned
      BY <1>4 DEF FinishCluster, FinalizeCluster
    <2>2. CASE UNCHANGED <<deferred, planVars>>
      BY <1>0, <2>1, <2>2 DEF planVars, HeldInv
    <2>3. CASE FlushDeferred(SafeInThresholdForProbe')
      <3>1. /\ deferred' = {} /\ OneEach(budget_heap')
            /\ Recs(budget_heap') \subseteq Recs(budget_heap) \cup Recs(deferred)
            /\ Budget = 0 => budget_heap' = {}
        BY <1>0, <2>3, FlushHeld
      <3>2. OneEach(deferred') /\ Recs(deferred') = {}
        BY <3>1 DEF OneEach, Recs
      <3> QED BY <1>0, <2>1, <3>1, <3>2 DEF HeldInv
    <2> QED BY <1>4, <2>2, <2>3 DEF FinishCluster, FinalizeCluster
  <1>5. CASE EarlySubmitPlans
    <2>1. /\ pc' \in {"tail", "probe"} /\ scanned' = scanned
          /\ deferred' = deferred /\ budget_heap' = budget_heap
      BY <1>5 DEF EarlySubmitPlans
    <2> QED BY <1>0, <2>1 DEF HeldInv
  <1>6. CASE FlushTail
    <2>1. pc' = "materialize" /\ scanned' = scanned
      BY <1>6 DEF FlushTail
    <2>2. /\ deferred' = {} /\ OneEach(budget_heap')
          /\ Recs(budget_heap') \subseteq Recs(budget_heap) \cup Recs(deferred)
          /\ Budget = 0 => budget_heap' = {}
      BY <1>0, <1>6, FlushHeld DEF FlushTail
    <2>3. OneEach(deferred') /\ Recs(deferred') = {}
      BY <2>2 DEF OneEach, Recs
    <2> QED BY <1>0, <2>1, <2>2, <2>3 DEF HeldInv
  <1>7. CASE MaterializeBudgetedReadPlans
    <2>1. /\ pc = "materialize" /\ pc' = "idle" /\ scanned' = scanned
          /\ deferred' = deferred /\ budget_heap' = {}
      BY <1>7 DEF MaterializeBudgetedReadPlans
    <2> QED BY <1>0, <2>1 DEF HeldInv, OneEach, Recs
  <1>8. CASE UNCHANGED vars
    BY <1>0, <1>8 DEF vars, planVars, HeldInv
  <1> QED BY <1>1, <1>2, <1>3, <1>4, <1>5, <1>6, <1>7, <1>8 DEF Next

LEMMA PlannerInvariant == Spec => []PlannerInv
  <1>1. PlannerInv /\ [Next]_vars => PlannerInv'
    BY TypeStep, EstimatesStep, FreshStep, HeldStep, FrontierStep DEF PlannerInv
  <1> QED BY PlannerInit, <1>1, PTL DEF Spec

(* Every reachable state of the planner is well typed.                      *)
THEOREM PlannerTypeCorrect == Spec => []TypeOK
  <1>1. PlannerInv => TypeOK
    BY DEF PlannerInv
  <1> QED BY <1>1, PlannerInvariant, PTL

(* The heaps of AddSafeOutFrontierEstimate and AddSafeInFrontierEstimate    *)
(* hold the TopK best bounds of all candidates so far, however they arrive. *)
THEOREM FrontiersAreKth == Spec => []FrontierIsKth
  <1>1. PlannerInv => FrontierIsKth
    BY DEF PlannerInv
  <1> QED BY <1>1, PlannerInvariant, PTL
-----------------------------------------------------------------------------
(* SafeOut drops nothing that could be a result.                            *)

(* While a cluster is scanned, TopK merged candidates have upper bounds     *)
(* that the bound taken at the start of the cluster covers.                 *)
SafeOutInv ==
  /\ pc = "scan" =>
       \/ upper = Inf
       \/ Cardinality({e \in merged : UpperOf(e) <= upper}) >= TopK
  /\ SafeOutSound

LEMMA CloserGrows ==
  ASSUME NEW M, NEW N, M \subseteq N, Recs(N) \subseteq Records,
         NEW r, Cardinality(Closer(r, Recs(M))) >= TopK
  PROVE  Cardinality(Closer(r, Recs(N))) >= TopK
  <1>1. Closer(r, Recs(M)) \subseteq Closer(r, Recs(N))
    BY DEF Closer, Recs
  <1>2. IsFiniteSet(Closer(r, Recs(N)))
    BY PlannerAssumption, FS_Subset DEF Closer
  <1>3. Cardinality(Closer(r, Recs(M))) <= Cardinality(Closer(r, Recs(N)))
    BY <1>1, <1>2, FS_Subset
  <1>4. /\ Cardinality(Closer(r, Recs(M))) \in Nat
        /\ Cardinality(Closer(r, Recs(N))) \in Nat
    BY <1>1, <1>2, FS_Subset, FS_CardinalityType
  <1> QED BY <1>3, <1>4, Naturals

(* A record above the bound has TopK closer candidates.                     *)
LEMMA AboveBoundIsFar ==
  ASSUME PlannerInv, NEW u \in Int, NEW r \in Records, Dist[r] > u,
         Cardinality({e \in merged : UpperOf(e) <= u}) >= TopK
  PROVE  Cardinality(Closer(r, Recs(merged))) >= TopK
  <1> DEFINE near == {e \in merged : UpperOf(e) <= u}
  <1>1. /\ \A e \in merged : /\ e.rec \in Records /\ UpperOf(e) \in Int
                             /\ Dist[e.rec] \in Int /\ Dist[e.rec] <= UpperOf(e)
        /\ Dist[r] \in Int
    BY PlannerAssumption DEF PlannerInv, TypeOK, EstimatesInv, Entry, UpperOf
  <1>2. OneEach(near)
    BY DEF PlannerInv, EstimatesInv, OneEach
  <1>3. Cardinality(Recs(near)) = Cardinality(near)
    BY <1>1, <1>2, OneEachFinite
  <1>4. Recs(near) \subseteq Closer(r, Recs(merged))
    <2>1. ASSUME NEW e \in near PROVE e.rec \in Closer(r, Recs(merged))
      <3>1. Dist[e.rec] < Dist[r]
        BY <1>1, <2>1
      <3> QED BY <3>1 DEF Closer, Recs
    <2> QED BY <2>1 DEF Recs
  <1>5. Closer(r, Recs(near)) = Recs(near)
    BY <1>4 DEF Closer
  <1>6. Recs(merged) \subseteq Records
    BY <1>1 DEF Recs
  <1> QED BY <1>3, <1>5, <1>6, CloserGrows

LEMMA SafeOutStep ==
  ASSUME PlannerInv, PlannerInv', SafeOutInv, [Next]_vars
  PROVE  SafeOutInv'
  <1>0. TypeOK /\ SafeOutSound /\ Recs(merged') \subseteq Records
        /\ dropped \subseteq Records
    BY DEF PlannerInv, SafeOutInv, TypeOK, Entry, Recs
  <1>a. ASSUME dropped' = dropped, merged \subseteq merged'
        PROVE  SafeOutSound'
    <2>1. ASSUME NEW r \in dropped
          PROVE  Cardinality(Closer(r, Recs(merged'))) >= TopK
      <3>1. Cardinality(Closer(r, Recs(merged))) >= TopK
        BY <1>0 DEF SafeOutSound
      <3> QED BY <1>0, <1>a, <3>1, CloserGrows
    <2> QED BY <1>a, <2>1 DEF SafeOutSound, Closer, Recs
  <1>1. ASSUME NEW S \in SUBSET Clusters, Search(S) PROVE SafeOutInv'
    BY <1>1 DEF Search, SafeOutInv, SafeOutSound
  <1>2. ASSUME NEW c \in todo, StartCluster(c) PROVE SafeOutInv'
    <2>1. /\ upper' = SafeOutFrontierUpper(safeout_heap)
          /\ dropped' = dropped /\ merged' = merged
      BY <1>2 DEF StartCluster, frontierVars
    <2>2. safeout_heap \in SUBSET Entry /\ IsFiniteSet(safeout_heap)
          /\ safeout_heap \subseteq merged /\ IsFiniteSet(merged)
      BY <1>0, PlannerFinite DEF TypeOK
    <2>3. ASSUME upper' # Inf
          PROVE  Cardinality({e \in merged : UpperOf(e) <= upper'}) >= TopK
      <3> DEFINE near == {e \in merged : UpperOf(e) <= upper'}
      <3>1. /\ Cardinality(safeout_heap) >= TopK
            /\ \A e \in safeout_heap : UpperOf(e) <= upper'
        BY <2>1, <2>2, <2>3, UpperOfFrontier
      <3>2. safeout_heap \subseteq near
        BY <2>2, <3>1
      <3>3. IsFiniteSet(near)
        BY <2>2, FS_Subset
      <3>4. Cardinality(safeout_heap) <= Cardinality(near)
        BY <3>2, <3>3, FS_Subset
      <3>5. Cardinality(safeout_heap) \in Nat /\ Cardinality(near) \in Nat
        BY <2>2, <3>3, FS_CardinalityType
      <3> QED BY <3>1, <3>4, <3>5, Naturals
    <2>4. SafeOutSound'
      BY <1>a, <2>1
    <2> QED BY <2>1, <2>3, <2>4 DEF SafeOutInv
  <1>3. ASSUME NEW B \in blocks, ScanBlock(B) PROVE SafeOutInv'
    <2>1. /\ pc = "scan" /\ upper' = upper /\ merged' = merged
      BY <1>3 DEF ScanBlock, frontierVars
    <2>2. PICK left \in SUBSET B :
            \E d \in [left -> Int], m \in [left -> Nat], b \in [left -> Int],
               a \in [left -> BOOLEAN] : Scanned(B, left, d, m, b, a)
      BY <1>0, <1>3, ScanBlockSummary
    <2>3. /\ B \in SUBSET Records
          /\ dropped' = dropped \cup (B \ left)
          /\ \A r \in B \ left : Dist[r] > upper
      BY <1>0, <1>3, <2>2, ScanBlockSummary DEF Scanned
    <2>4. \A r \in B \ left : Cardinality(Closer(r, Recs(merged))) >= TopK
      <3> SUFFICES ASSUME NEW r \in B \ left
                   PROVE  Cardinality(Closer(r, Recs(merged))) >= TopK
        OBVIOUS
      <3>1. r \in Records /\ Dist[r] \in Int /\ upper \in Int
        BY <1>0, <2>3, PlannerAssumption DEF TypeOK
      <3>2. upper # Inf
        <4>1. /\ Err[1][r] \in Nat /\ OutMargin[1][r] \in Nat
              /\ Dist[r] + Err[1][r] + OutMargin[1][r] < Inf
          BY <3>1, PlannerAssumption, InfIsLarge
        <4> QED BY <2>3, <3>1, <4>1, Naturals
      <3> QED BY <2>1, <2>3, <3>1, <3>2, AboveBoundIsFar DEF SafeOutInv
    <2>5. SafeOutSound'
      BY <1>0, <2>1, <2>3, <2>4 DEF SafeOutSound, Closer
    <2> QED BY <2>1, <2>5 DEF SafeOutInv
  <1>4. CASE FinishCluster
    <2>1. merged' = merged \cup estimates /\ dropped' = dropped /\ pc' = "submit"
      BY <1>4 DEF FinishCluster, FinalizeCluster
    <2> QED BY <1>a, <2>1 DEF SafeOutInv
  <1>5. CASE EarlySubmitPlans \/ FlushTail \/ MaterializeBudgetedReadPlans
    <2>1. merged' = merged /\ dropped' = dropped /\ pc' # "scan"
      BY <1>5 DEF EarlySubmitPlans, FlushTail, MaterializeBudgetedReadPlans,
                  frontierVars
    <2> QED BY <1>a, <2>1 DEF SafeOutInv
  <1>6. CASE UNCHANGED vars
    BY <1>6 DEF vars, clusterVars, frontierVars, SafeOutInv, SafeOutSound, Closer
  <1> QED BY <1>1, <1>2, <1>3, <1>4, <1>5, <1>6 DEF Next

(* A record that the prober classifies as SafeOut, in either stage and      *)
(* against a bound that is a cluster old, has TopK strictly closer          *)
(* candidates, as long as estimates stay within their margins.              *)
THEOREM SafeOutIsSound == Spec => []SafeOutSound
  <1>1. Init => SafeOutInv
    BY DEF Init, SafeOutInv, SafeOutSound
  <1>2. SafeOutInv => SafeOutSound
    BY DEF SafeOutInv
  <1> QED BY <1>1, <1>2, SafeOutStep, PlannerInvariant, PTL DEF Spec
-----------------------------------------------------------------------------
(* SafeIn prefetches only what is among the TopK closest.                   *)

(* Whatever is closer than t has fewer than TopK closer candidates.         *)
AmongTop(t) ==
  \A r \in Records : Dist[r] < t => Cardinality(Closer(r, Recs(merged))) < TopK

(* In frontier mode this holds for the frontier and for the threshold taken *)
(* from it at the start of a cluster, and a deferred plan keeps an upper    *)
(* bound on the distance of its record.                                     *)
SafeInInv ==
  /\ \A e \in merged \cup estimates : LowerOf(e) <= Dist[e.rec]
  /\ \A p \in deferred : Dist[p.rec] <= p.bound
  /\ SafeInMode = "Frontier" =>
       /\ frontier # Inf => AmongTop(frontier)
       /\ pc = "scan" => AmongTop(threshold)

LEMMA LowerAttained ==
  ASSUME NEW S \in SUBSET Entry, IsFiniteSet(S), SafeInFrontierLower(S) # Inf
  PROVE  \E e \in S : LowerOf(e) = SafeInFrontierLower(S)
  <1>1. UseFrontier /\ Cardinality(S) >= TopK
    BY DEF SafeInFrontierLower
  <1>2. S # {}
    BY <1>1, FS_EmptySet, Naturals
  <1> DEFINE L == {LowerOf(e) : e \in S}
  <1>3. L # {} /\ L \subseteq Int /\ IsFiniteSet(L)
    BY <1>2, FiniteBounds
  <1>4. MaxOf(L) \in L
    BY <1>3, LargestExists
  <1> QED BY <1>1, <1>4 DEF SafeInFrontierLower

(* Of the candidates only the others in the heap can be below the frontier. *)
LEMMA BelowFrontierIsTop ==
  ASSUME NEW M \in SUBSET Entry, NEW heap, OneEach(M), IsFiniteSet(M),
         \A e \in M : LowerOf(e) <= Dist[e.rec],
         IsSmallest(heap, M, TopK, Lowers(M)),
         SafeInFrontierLower(heap) # Inf,
         NEW r \in Records, Dist[r] < SafeInFrontierLower(heap)
  PROVE  Cardinality(Closer(r, Recs(M))) < TopK
  <1> DEFINE f == SafeInFrontierLower(heap)
             close == {e \in M : Dist[e.rec] < Dist[r]}
  <1>1. heap \in SUBSET M /\ heap \in SUBSET Entry /\ IsFiniteSet(heap)
    BY FS_Subset DEF IsSmallest
  <1>2. PICK top \in heap : LowerOf(top) = f
    BY <1>1, LowerAttained
  <1>3. \A e \in M : /\ LowerOf(e) \in Int /\ Dist[e.rec] \in Int
                     /\ e.rec \in Records
    BY PlannerAssumption DEF Entry, LowerOf
  <1>4. close \subseteq heap \ {top}
    <2>1. ASSUME NEW e \in close PROVE e \in heap /\ e # top
      <3>1. LowerOf(e) < LowerOf(top)
        <4>1. /\ Dist[r] \in Int /\ LowerOf(e) \in Int /\ Dist[e.rec] \in Int
              /\ LowerOf(top) \in Int
          BY <1>1, <1>2, <1>3, PlannerAssumption
        <4>2. LowerOf(e) <= Dist[e.rec] /\ Dist[e.rec] < Dist[r]
          OBVIOUS
        <4> QED BY <1>2, <4>1, <4>2
      <3>2. ~(LowerOf(top) <= LowerOf(e))
        BY <1>1, <1>3, <3>1
      <3>3. e \notin M \ heap
        BY <1>1, <3>2 DEF IsSmallest, Lowers
      <3> QED BY <1>1, <1>3, <3>1, <3>3
    <2> QED BY <2>1
  <1>5. /\ Cardinality(heap) \in Nat /\ Cardinality(heap) <= TopK
    <2>1. Cardinality(heap) \in Nat /\ Cardinality(M) \in Nat
      BY <1>1, FS_CardinalityType
    <2> QED BY <2>1, Naturals DEF IsSmallest
  <1>6. /\ IsFiniteSet(heap \ {top}) /\ Cardinality(heap \ {top}) < TopK
        /\ Cardinality(heap \ {top}) \in Nat
    <2>1. /\ IsFiniteSet(heap \ {top})
          /\ Cardinality(heap \ {top}) = Cardinality(heap) - 1
      BY <1>1, <1>2, FS_RemoveElement
    <2>2. Cardinality(heap \ {top}) \in Nat
      BY <2>1, FS_CardinalityType
    <2> QED BY <1>5, <2>1, <2>2, Naturals
  <1>7. /\ Cardinality(close) <= Cardinality(heap \ {top})
        /\ Cardinality(close) \in Nat
    BY <1>4, <1>6, FS_Subset, FS_CardinalityType
  <1>8. Closer(r, Recs(M)) = Recs(close)
    BY DEF Closer, Recs
  <1>9. Cardinality(Recs(close)) = Cardinality(close)
    <2>1. OneEach(close)
      BY DEF OneEach
    <2> QED BY <1>3, <2>1, OneEachFinite
  <1> QED BY <1>6, <1>7, <1>8, <1>9, Naturals

LEMMA NothingBelowInf ==
  ASSUME NEW r \in Records
  PROVE  ~(Dist[r] < -Inf)
  <1>1. /\ Dist[r] \in Int /\ Err[1][r] \in Nat /\ OutMargin[1][r] \in Nat
        /\ -Inf < Dist[r] - Err[1][r] - OutMargin[1][r]
    BY PlannerAssumption, InfIsLarge
  <1> QED BY <1>1, Naturals

(* The threshold taken from a frontier.                                     *)
LEMMA ThresholdAmongTop ==
  ASSUME SafeInMode = "Frontier", frontier # Inf => AmongTop(frontier)
  PROVE  AmongTop(SafeInThresholdForProbe)
  <1>1. \/ SafeInThresholdForProbe = frontier /\ frontier # Inf
        \/ SafeInThresholdForProbe = -Inf
    BY DEF SafeInThresholdForProbe
  <1> QED BY <1>1, NothingBelowInf DEF AmongTop

(* The frontier computed from the heap as it is in a state.                 *)
LEMMA FrontierAmongTop ==
  ASSUME PlannerInv, \A e \in merged : LowerOf(e) <= Dist[e.rec],
         SafeInFrontierLower(safein_heap) # Inf
  PROVE  AmongTop(SafeInFrontierLower(safein_heap))
  <1>1. /\ merged \in SUBSET Entry /\ OneEach(merged) /\ IsFiniteSet(merged)
        /\ IsSmallest(safein_heap, merged, TopK, Lowers(merged))
    BY PlannerFinite DEF PlannerInv, TypeOK, EstimatesInv, FrontierIsKth, OneEach
  <1> QED BY <1>1, BelowFrontierIsTop DEF AmongTop

LEMMA SafeInStep ==
  ASSUME PlannerInv, PlannerInv', SafeInInv, [Next]_vars
  PROVE  SafeInInv'
  <1>0. TypeOK /\ FreshInv
    BY DEF PlannerInv
  <1>a. ASSUME merged' = merged, estimates' = estimates \/ estimates' = {},
               deferred' = deferred \/ deferred' = {}, frontier' = frontier,
               pc' # "scan"
        PROVE  SafeInInv'
    BY <1>a DEF SafeInInv, AmongTop
  <1>1. ASSUME NEW S \in SUBSET Clusters, Search(S) PROVE SafeInInv'
    <2>1. /\ merged' = {} /\ estimates' = {} /\ deferred' = {}
          /\ frontier' = Inf /\ pc' # "scan"
      BY <1>0, <1>1 DEF Search, FreshInv
    <2> QED BY <2>1 DEF SafeInInv
  <1>2. ASSUME NEW c \in todo, StartCluster(c) PROVE SafeInInv'
    <2>1. /\ merged' = merged /\ estimates' = {} /\ deferred' = deferred
          /\ threshold' = SafeInThresholdForProbe'
          /\ UpdateDynamicSafeInState(safein_heap, 1)
      BY <1>2 DEF StartCluster, frontierVars
    <2>2. ASSUME SafeInMode = "Frontier"
          PROVE  (frontier' # Inf => AmongTop(frontier')) /\ AmongTop(threshold')
      <3>1. frontier' = SafeInFrontierLower(safein_heap)
        BY <2>1, <2>2 DEF UpdateDynamicSafeInState
      <3>2. frontier' # Inf => AmongTop(frontier')
        BY <3>1, FrontierAmongTop DEF SafeInInv
      <3>3. \/ threshold' = frontier' /\ frontier' # Inf
            \/ threshold' = -Inf
        BY <2>1, <2>2 DEF SafeInThresholdForProbe
      <3> QED BY <3>2, <3>3, NothingBelowInf DEF AmongTop
    <2>3. SafeInMode = "Frontier" =>
            /\ frontier' # Inf => AmongTop(frontier)'
            /\ AmongTop(threshold)'
      BY <2>1, <2>2 DEF AmongTop
    <2> QED BY <2>1, <2>3 DEF SafeInInv
  <1>3. ASSUME NEW B \in blocks, ScanBlock(B) PROVE SafeInInv'
    <2>1. PICK left \in SUBSET B :
            \E d \in [left -> Int], m \in [left -> Nat], b \in [left -> Int],
               a \in [left -> BOOLEAN] : Scanned(B, left, d, m, b, a)
      BY <1>0, <1>3, ScanBlockSummary
    <2>2. PICK d \in [left -> Int], m \in [left -> Nat], b \in [left -> Int],
               a \in [left -> BOOLEAN] : Scanned(B, left, d, m, b, a)
      BY <2>1
    <2>3. /\ merged' = merged /\ frontier' = frontier /\ threshold' = threshold
          /\ pc = "scan"
      BY <1>3 DEF ScanBlock, frontierVars, safeinVars
    <2>4. /\ estimates' \subseteq estimates \cup Survivors(left, d, m)
          /\ deferred' \subseteq deferred \cup Deferrals(left, d, b)
          /\ \A r \in left : d[r] - m[r] <= Dist[r] /\ Dist[r] <= b[r]
      BY <2>2 DEF Scanned
    <2>5. /\ \A e \in Survivors(left, d, m) : LowerOf(e) <= Dist[e.rec]
          /\ \A p \in Deferrals(left, d, b) : Dist[p.rec] <= p.bound
      BY <2>4 DEF Survivors, Deferrals, LowerOf
    <2> QED BY <2>3, <2>4, <2>5 DEF SafeInInv, AmongTop
  <1>4. CASE FinishCluster
    <2>1. /\ merged' = merged \cup estimates /\ estimates' = {}
          /\ deferred' = deferred \/ deferred' = {}
          /\ pc' = "submit"
      BY <1>4 DEF FinishCluster, FinalizeCluster, FlushDeferred
    <2>2. UpdateDynamicSafeInState(safein_heap', 0)
      BY <1>4 DEF FinishCluster
    <2>3. \A e \in merged' : LowerOf(e) <= Dist[e.rec]
      BY <2>1 DEF SafeInInv
    <2>4. ASSUME SafeInMode = "Frontier", frontier' # Inf
          PROVE  AmongTop(frontier)'
      <3>1. frontier' = SafeInFrontierLower(safein_heap')
        BY <2>2, <2>4 DEF UpdateDynamicSafeInState
      <3>2. /\ merged' \in SUBSET Entry /\ OneEach(merged') /\ IsFiniteSet(merged')
            /\ IsSmallest(safein_heap', merged', TopK, Lowers(merged'))
        <4>1. IsFiniteSet(merged')
          BY <2>1, PlannerFinite, FS_Union
        <4> QED BY <4>1 DEF PlannerInv, TypeOK, EstimatesInv, FrontierIsKth, OneEach
      <3> QED BY <2>3, <2>4, <3>1, <3>2, BelowFrontierIsTop DEF AmongTop, Closer
    <2> QED BY <2>1, <2>3, <2>4 DEF SafeInInv
  <1>5. CASE EarlySubmitPlans \/ FlushTail \/ MaterializeBudgetedReadPlans
    BY <1>a, <1>5 DEF EarlySubmitPlans, FlushTail, MaterializeBudgetedReadPlans,
       FlushDeferred, clusterVars, frontierVars, safeinVars
  <1>6. CASE UNCHANGED vars
    BY <1>6 DEF vars, clusterVars, frontierVars, safeinVars, SafeInInv, AmongTop
  <1> QED BY <1>1, <1>2, <1>3, <1>4, <1>5, <1>6 DEF Next

LEMMA FlushedWhole ==
  ASSUME SafeInInv, TypeOK, NEW t \in Int, FlushDeferred(t)
  PROVE  \A r \in whole' \ whole : r \in Records /\ Dist[r] < t
  <1>1. whole' = whole \cup {p.rec : p \in {q \in Decided(t) : q.all}}
    BY DEF FlushDeferred, AddPlans
  <1>2. ASSUME NEW p \in Decided(t), p.all
        PROVE  p.rec \in Records /\ Dist[p.rec] < t
    <2> DEFINE inOne(q) == t # -Inf /\ q.rec \in Small /\ q.bound < t
    <2>1. PICK q \in deferred : p = [rec |-> q.rec, key |-> q.key, all |-> inOne(q)]
      BY Zenon DEF Decided
    <2> HIDE DEF inOne
    <2>2. p.rec = q.rec /\ p.all = inOne(q)
      BY <2>1
    <2>3. inOne(q)
      BY <1>2, <2>2
    <2>4. q.bound < t
      BY <2>3 DEF inOne
    <2>5. /\ q.rec \in Records /\ q.bound \in Int /\ Dist[q.rec] \in Int
          /\ Dist[q.rec] <= q.bound
      BY PlannerAssumption DEF SafeInInv, TypeOK
    <2> QED BY <2>2, <2>4, <2>5
  <1> QED BY <1>1, <1>2

(* What a step decides to read in one piece.                                *)
LEMMA SafeInSoundStep ==
  ASSUME PlannerInv, PlannerInv', SafeInInv, SafeInInv', [Next]_vars,
         SafeInMode = "Frontier", NEW r \in whole' \ whole
  PROVE  Cardinality(Closer(r, Recs(merged'))) < TopK
  <1>0. TypeOK /\ TypeOK'
    BY DEF PlannerInv
  <1>1. CASE \E B \in blocks : ScanBlock(B)
    <2>1. PICK B \in blocks : ScanBlock(B)
      BY <1>1
    <2>2. PICK left \in SUBSET B :
            \E d \in [left -> Int], m \in [left -> Nat], b \in [left -> Int],
               a \in [left -> BOOLEAN] : Scanned(B, left, d, m, b, a)
      BY <1>0, <2>1, ScanBlockSummary
    <2>3. PICK d \in [left -> Int], m \in [left -> Nat], b \in [left -> Int],
               a \in [left -> BOOLEAN] : Scanned(B, left, d, m, b, a)
      BY <2>2
    <2>4. AddPlans(NewPlans(left, d, a))
      BY <2>3 DEF Scanned, planVars
    <2>5. r \in left /\ a[r]
      BY <2>4 DEF AddPlans, NewPlans
    <2>6. r \in Records /\ Dist[r] < threshold
      BY <1>0, <2>1, <2>3, <2>5, ScanBlockSummary DEF Scanned
    <2>7. pc = "scan" /\ merged' = merged
      BY <2>1 DEF ScanBlock, frontierVars
    <2> QED BY <2>6, <2>7 DEF SafeInInv, AmongTop
  <1>2. CASE FinishCluster
    <2>1. FlushDeferred(SafeInThresholdForProbe')
      BY <1>2 DEF FinishCluster, FinalizeCluster, planVars
    <2>2. \/ SafeInThresholdForProbe' = frontier' /\ frontier' # Inf
          \/ SafeInThresholdForProbe' = -Inf
      BY DEF SafeInThresholdForProbe
    <2>3. SafeInThresholdForProbe' \in Int
      BY <1>0, <2>2, Naturals DEF TypeOK
    <2>4. r \in Records /\ Dist[r] < SafeInThresholdForProbe'
      BY <1>0, <2>1, <2>3, FlushedWhole
    <2>5. Dist[r] < frontier' /\ frontier' # Inf
      BY <2>2, <2>4, NothingBelowInf
    <2> QED BY <2>4, <2>5 DEF SafeInInv, AmongTop, Closer
  <1>3. CASE FlushTail
    <2>1. /\ FlushDeferred(SafeInThresholdForProbe) /\ merged' = merged
      BY <1>3 DEF FlushTail, frontierVars
    <2>2. AmongTop(SafeInThresholdForProbe)
      BY ThresholdAmongTop DEF SafeInInv
    <2>3. SafeInThresholdForProbe \in Int
      BY <1>0, Naturals DEF TypeOK, SafeInThresholdForProbe
    <2>4. r \in Records /\ Dist[r] < SafeInThresholdForProbe
      BY <1>0, <2>1, <2>3, FlushedWhole
    <2> QED BY <2>1, <2>2, <2>4 DEF AmongTop
  <1>4. CASE \/ \E S \in SUBSET Clusters : Search(S)
             \/ \E c \in todo : StartCluster(c)
             \/ EarlySubmitPlans
             \/ MaterializeBudgetedReadPlans
             \/ UNCHANGED vars
    <2>1. whole' = whole \/ whole' = {}
      BY <1>4 DEF Search, StartCluster, EarlySubmitPlans,
                  MaterializeBudgetedReadPlans, vars, planVars
    <2> QED BY <2>1
  <1> QED BY <1>1, <1>2, <1>3, <1>4 DEF Next

(* What is prefetched with its payload in frontier mode is among the TopK   *)
(* closest of the candidates merged when that is decided, at once or after  *)
(* a deferral, as long as estimates stay within their margins.              *)
THEOREM SafeInIsSound == Spec => SafeInSound
  <1>1. Init => SafeInInv
    BY DEF Init, SafeInInv
  <1>2. PlannerInv /\ PlannerInv' /\ SafeInInv /\ SafeInInv' /\ [Next]_vars
          => [SafeInMode = "Frontier" =>
                \A r \in whole' \ whole :
                  Cardinality(Closer(r, Recs(merged'))) < TopK]_vars
    BY SafeInSoundStep
  <1> QED BY <1>1, <1>2, SafeInStep, PlannerInvariant, PTL DEF Spec, SafeInSound
-----------------------------------------------------------------------------
(* No record is lost or read twice on its way through the deferral, the     *)
(* budget heap and the early submissions, and the planner implements        *)
(* PlanFeed.  Without a budget all of the top TopK are read; with one, the  *)
(* best are, and no more than it allows.                                    *)

(* Where a scanned record is: dropped, planned once, or held back; what was *)
(* emitted early is planned, and nothing else in the heap is.               *)
AccountInv ==
  /\ \A r \in Records : plans[r] \in {0, 1}
  /\ Planned \cup dropped \subseteq scanned
  /\ dropped \cap (Planned \cup Recs(deferred) \cup Recs(budget_heap)) = {}
  /\ emitted \subseteq Planned
  /\ Recs(deferred) \cap Planned = {}
  /\ Recs(budget_heap) \cap Planned \subseteq emitted
  /\ Budget = 0 => scanned \subseteq dropped \cup Planned \cup Recs(deferred)

LEMMA EmitOnce ==
  ASSUME TypeOK, \A r \in Records : plans[r] \in {0, 1},
         NEW S \in SUBSET Records, S \cap Planned = {}, plans' = Emit(S)
  PROVE  /\ \A r \in Records : plans'[r] \in {0, 1}
         /\ Planned' = Planned \cup S
  <1>1. ASSUME NEW r \in Records
        PROVE  /\ plans'[r] \in {0, 1}
               /\ plans'[r] > 0 <=> plans[r] > 0 \/ r \in S
    <2>1. plans[r] = 0 \/ plans[r] = 1
      OBVIOUS
    <2>2. r \in S => plans[r] = 0
      BY <2>1 DEF Planned
    <2>3. plans'[r] = IF r \in S THEN plans[r] + 1 ELSE plans[r]
      BY DEF Emit
    <2> QED BY <2>1, <2>2, <2>3
  <1> QED BY <1>1 DEF Planned

(* Flushing moves the deferred records into the plans or into the heap.     *)
LEMMA FlushAccount ==
  ASSUME PlannerInv, AccountInv, NEW t, FlushDeferred(t),
         scanned' = scanned, dropped' = dropped, emitted' = emitted
  PROVE  /\ AccountInv'
         /\ \E P \in SUBSET Held :
              Planned' = Planned \cup P /\ Held' \subseteq Held \ P
  <1>0. TypeOK /\ HeldInv
    BY DEF PlannerInv
  <1>1. /\ deferred' = {} /\ Recs(deferred') = {}
        /\ Recs(budget_heap') \subseteq Recs(budget_heap) \cup Recs(deferred)
        /\ Budget = 0 => budget_heap' = {} /\ plans' = Emit(Recs(deferred))
        /\ Budget # 0 => plans' = plans
    BY <1>0, FlushHeld DEF Recs
  <1>2. CASE Budget = 0
    <2>1. /\ \A r \in Records : plans'[r] \in {0, 1}
          /\ Planned' = Planned \cup Recs(deferred)
      <3>1. Recs(deferred) \in SUBSET Records
        BY <1>0 DEF TypeOK, Recs
      <3> QED BY <1>0, <1>1, <1>2, <3>1, EmitOnce DEF AccountInv
    <2>2. Recs(budget_heap') = {}
      BY <1>1, <1>2 DEF Recs
    <2>3. AccountInv'
      BY <1>0, <1>1, <2>1, <2>2 DEF AccountInv, HeldInv
    <2>4. Held' = {} /\ Recs(deferred) \in SUBSET Held
      BY <1>1, <2>2 DEF Held
    <2> QED BY <2>1, <2>3, <2>4
  <1>3. CASE Budget # 0
    <2>1. plans' = plans /\ Planned' = Planned
      BY <1>1, <1>3 DEF Planned
    <2>2. AccountInv'
      BY <1>1, <1>3, <2>1 DEF AccountInv
    <2>3. Held' \subseteq Held
      BY <1>1 DEF Held
    <2> QED BY <2>1, <2>2, <2>3
  <1> QED BY <1>2, <1>3

(* The survivors of a block are deferred, planned, or put into the heap.    *)
LEMMA ScanAccount ==
  ASSUME PlannerInv, AccountInv, NEW B \in blocks, ScanBlock(B)
  PROVE  /\ AccountInv'
         /\ B \in SUBSET (Records \ scanned) /\ scanned' = scanned \cup B
         /\ \E P \in SUBSET (B \cup Held) :
              Planned' = Planned \cup P /\ Held' \subseteq (B \cup Held) \ P
  <1>0. TypeOK /\ FreshInv /\ HeldInv
    BY DEF PlannerInv
  <1>1. B \in SUBSET Records /\ B \cap scanned = {}
    BY <1>0, ScanBlockSummary DEF FreshInv
  <1>2. PICK left \in SUBSET B :
          \E d \in [left -> Int], m \in [left -> Nat], b \in [left -> Int],
             a \in [left -> BOOLEAN] : Scanned(B, left, d, m, b, a)
    BY <1>0, ScanBlockSummary
  <1>3. PICK d \in [left -> Int], m \in [left -> Nat], b \in [left -> Int],
             a \in [left -> BOOLEAN] : Scanned(B, left, d, m, b, a)
    BY <1>2
  <1>4. /\ scanned' = scanned \cup B /\ dropped' = dropped \cup (B \ left)
        /\ emitted' = emitted
    BY <1>3 DEF ScanBlock, Scanned, earlyVars
  <1>5. /\ B \cap Planned = {} /\ B \cap Recs(deferred) = {}
        /\ B \cap Recs(budget_heap) = {} /\ B \cap dropped = {}
    BY <1>0, <1>1 DEF AccountInv, HeldInv
  <1>6. /\ Recs(deferred') \cap Recs(budget_heap') = {}
        /\ Budget = 0 => budget_heap' = {}
        /\ \/ /\ Recs(deferred') = Recs(deferred) \cup left
              /\ budget_heap' = budget_heap /\ plans' = plans
           \/ /\ deferred' = deferred
              /\ Recs(budget_heap') \subseteq Recs(budget_heap) \cup left
              /\ Budget = 0 => plans' = Emit(left)
              /\ Budget # 0 => plans' = plans
    BY <1>1, <1>3, ScanHeld
  <1>7. CASE /\ Recs(deferred') = Recs(deferred) \cup left
             /\ budget_heap' = budget_heap /\ plans' = plans
    <2>1. Planned' = Planned
      BY <1>7 DEF Planned
    <2>2. AccountInv'
      <3>1. /\ \A r \in Records : plans'[r] \in {0, 1}
            /\ Planned' \cup dropped' \subseteq scanned'
        BY <1>4, <1>5, <1>7, <2>1 DEF AccountInv
      <3>2. dropped' \cap (Planned' \cup Recs(deferred') \cup Recs(budget_heap')) = {}
        BY <1>4, <1>5, <1>7, <2>1 DEF AccountInv
      <3>3. /\ emitted' \subseteq Planned'
            /\ Recs(deferred') \cap Planned' = {}
            /\ Recs(budget_heap') \cap Planned' \subseteq emitted'
        BY <1>4, <1>5, <1>7, <2>1 DEF AccountInv
      <3>4. Budget = 0 =>
              scanned' \subseteq dropped' \cup Planned' \cup Recs(deferred')
        BY <1>4, <1>5, <1>7, <2>1 DEF AccountInv
      <3> QED BY <3>1, <3>2, <3>3, <3>4 DEF AccountInv, Planned, Recs
    <2>3. Held' \subseteq B \cup Held
      BY <1>4, <1>7 DEF Held
    <2> QED BY <1>1, <1>4, <2>1, <2>2, <2>3
  <1>8. CASE /\ deferred' = deferred /\ Budget = 0
             /\ budget_heap' = {} /\ plans' = Emit(left)
    <2>1. /\ \A r \in Records : plans'[r] \in {0, 1}
          /\ Planned' = Planned \cup left
      <3>1. left \in SUBSET Records /\ left \cap Planned = {}
        BY <1>1, <1>5
      <3> QED BY <1>0, <1>8, <3>1, EmitOnce DEF AccountInv
    <2>2. Recs(budget_heap') = {} /\ Recs(deferred') = Recs(deferred)
      BY <1>8 DEF Recs
    <2>3. AccountInv'
      <3>1. /\ \A r \in Records : plans'[r] \in {0, 1}
            /\ Planned' \cup dropped' \subseteq scanned'
        BY <1>4, <1>5, <1>8, <2>1, <2>2 DEF AccountInv
      <3>2. dropped' \cap (Planned' \cup Recs(deferred') \cup Recs(budget_heap')) = {}
        BY <1>4, <1>5, <1>8, <2>1, <2>2 DEF AccountInv
      <3>3. /\ emitted' \subseteq Planned'
            /\ Recs(deferred') \cap Planned' = {}
            /\ Recs(budget_heap') \cap Planned' \subseteq emitted'
        BY <1>4, <1>5, <1>8, <2>1, <2>2 DEF AccountInv
      <3>4. Budget = 0 =>
              scanned' \subseteq dropped' \cup Planned' \cup Recs(deferred')
        BY <1>4, <1>5, <1>8, <2>1, <2>2 DEF AccountInv
      <3> QED BY <3>1, <3>2, <3>3, <3>4 DEF AccountInv, Planned, Recs
    <2>4. Held' \subseteq (B \cup Held) \ left
      BY <1>5, <2>2 DEF Held
    <2> QED BY <1>1, <1>4, <2>1, <2>3, <2>4
  <1>9. CASE /\ deferred' = deferred /\ Budget # 0 /\ plans' = plans
             /\ Recs(budget_heap') \subseteq Recs(budget_heap) \cup left
    <2>1. Planned' = Planned /\ Recs(deferred') = Recs(deferred)
      BY <1>9 DEF Planned, Recs
    <2>2. AccountInv'
      <3>1. /\ \A r \in Records : plans'[r] \in {0, 1}
            /\ Planned' \cup dropped' \subseteq scanned'
        BY <1>4, <1>5, <1>9, <2>1 DEF AccountInv
      <3>2. dropped' \cap (Planned' \cup Recs(deferred') \cup Recs(budget_heap')) = {}
        BY <1>4, <1>5, <1>9, <2>1 DEF AccountInv
      <3>3. /\ emitted' \subseteq Planned'
            /\ Recs(deferred') \cap Planned' = {}
            /\ Recs(budget_heap') \cap Planned' \subseteq emitted'
        BY <1>4, <1>5, <1>9, <2>1 DEF AccountInv
      <3>4. Budget = 0 =>
              scanned' \subseteq dropped' \cup Planned' \cup Recs(deferred')
        BY <1>4, <1>5, <1>9, <2>1 DEF AccountInv
      <3> QED BY <3>1, <3>2, <3>3, <3>4 DEF AccountInv, Planned, Recs
    <2>3. Held' \subseteq B \cup Held
      BY <1>4, <1>9, <2>1 DEF Held
    <2> QED BY <1>1, <1>4, <2>1, <2>2, <2>3
  <1> QED BY <1>6, <1>7, <1>8, <1>9

(* Emitting plans of the heap, early or at the end.                         *)
LEMMA EmitAccount ==
  ASSUME PlannerInv, AccountInv, NEW top \in SUBSET Unemitted,
         plans' = Emit(Recs(top))
  PROVE  /\ \A r \in Records : plans'[r] \in {0, 1}
         /\ Planned' = Planned \cup Recs(top)
         /\ Recs(top) \subseteq Recs(budget_heap) \ emitted
  <1>1. /\ Recs(top) \in SUBSET Records
        /\ Recs(top) \subseteq Recs(budget_heap) \ emitted
    BY DEF PlannerInv, TypeOK, Unemitted, Recs
  <1>2. Recs(top) \cap Planned = {}
    BY <1>1 DEF AccountInv
  <1> QED BY <1>1, <1>2, EmitOnce DEF AccountInv, PlannerInv

LEMMA AccountStep ==
  ASSUME PlannerInv, AccountInv, [Next]_vars
  PROVE  AccountInv' /\ [Promise!FeedNext]_(Promise!feedVars)
  <1>0. TypeOK /\ HeldInv
    BY DEF PlannerInv
  <1> DEFINE Phase == IF pc = "idle" THEN "rest" ELSE "feed"
             left == Records \ scanned
  <1>a. ASSUME UNCHANGED <<Phase, left, Held, Planned>>
        PROVE  [Promise!FeedNext]_(Promise!feedVars)
    BY <1>a DEF Promise!feedVars
  <1>b. ASSUME NEW C \in SUBSET left, left' = left \ C,
               NEW P \in SUBSET (C \cup Held),
               Held' \subseteq (C \cup Held) \ P, Planned' = Planned \cup P,
               Phase = "feed", Phase' = "feed"
        PROVE  [Promise!FeedNext]_(Promise!feedVars)
    <2>1. Promise!Feed(C, P, Held')
      BY <1>b DEF Promise!Feed
    <2>2. Held' \in SUBSET (C \cup Held)
      BY <1>b
    <2> QED BY <1>b, <2>1, <2>2 DEF Promise!FeedNext
  <1>c. ASSUME scanned' = scanned,
               NEW P \in SUBSET Held,
               Held' \subseteq Held \ P, Planned' = Planned \cup P,
               Phase = "feed", Phase' = "feed"
        PROVE  [Promise!FeedNext]_(Promise!feedVars)
    <2>1. /\ {} \in SUBSET left /\ left' = left \ {}
          /\ P \in SUBSET ({} \cup Held) /\ Held' \subseteq ({} \cup Held) \ P
      BY <1>c
    <2> QED BY <1>b, <1>c, <2>1
  <1>1. ASSUME NEW S \in SUBSET Clusters, Search(S)
        PROVE  AccountInv' /\ [Promise!FeedNext]_(Promise!feedVars)
    <2>1. /\ Phase = "rest" /\ Phase' = "feed"
          /\ scanned' = {} /\ dropped' = {} /\ emitted' = {} /\ deferred' = {}
          /\ budget_heap' = {} /\ plans' = [r \in Records |-> 0]
      BY <1>1 DEF Search
    <2>2. Planned' = {} /\ Recs(deferred') = {} /\ Recs(budget_heap') = {}
      BY <2>1 DEF Planned, Recs
    <2>3. Held' = {}
      BY <2>2 DEF Held
    <2>4. Promise!FeedStart
      BY <2>1, <2>2, <2>3 DEF Promise!FeedStart
    <2> QED BY <2>1, <2>2, <2>4 DEF AccountInv, Promise!FeedNext
  <1>2. ASSUME NEW c \in todo, StartCluster(c)
        PROVE  AccountInv' /\ [Promise!FeedNext]_(Promise!feedVars)
    <2>1. /\ UNCHANGED <<scanned, dropped, emitted, deferred, budget_heap, plans>>
          /\ Phase' = Phase
      BY <1>2 DEF StartCluster, planVars, earlyVars
    <2>2. Planned' = Planned /\ Held' = Held
      BY <2>1 DEF Planned, Held
    <2> QED BY <1>a, <2>1, <2>2 DEF AccountInv
  <1>3. ASSUME NEW B \in blocks, ScanBlock(B)
        PROVE  AccountInv' /\ [Promise!FeedNext]_(Promise!feedVars)
    <2>1. PICK P \in SUBSET (B \cup Held) :
            Planned' = Planned \cup P /\ Held' \subseteq (B \cup Held) \ P
      BY <1>3, ScanAccount
    <2>2. /\ AccountInv' /\ B \in SUBSET left /\ left' = left \ B
      BY <1>3, ScanAccount
    <2>3. Phase = "feed" /\ Phase' = "feed"
      BY <1>3 DEF ScanBlock
    <2> QED BY <1>b, <2>1, <2>2, <2>3
  <1>4. CASE FinishCluster
    <2>1. /\ scanned' = scanned /\ dropped' = dropped /\ emitted' = emitted
          /\ Phase = "feed" /\ Phase' = "feed"
      BY <1>4 DEF FinishCluster, FinalizeCluster
    <2>2. CASE UNCHANGED <<deferred, planVars>>
      <3>1. Planned' = Planned /\ Held' = Held
        BY <2>1, <2>2 DEF Planned, Held, planVars
      <3> QED BY <1>a, <2>1, <2>2, <3>1 DEF AccountInv, planVars
    <2>3. CASE FlushDeferred(SafeInThresholdForProbe')
      <3>1. AccountInv'
        BY <2>1, <2>3, FlushAccount
      <3>2. PICK P \in SUBSET Held :
              Planned' = Planned \cup P /\ Held' \subseteq Held \ P
        BY <2>1, <2>3, FlushAccount
      <3> QED BY <1>c, <2>1, <3>1, <3>2
    <2> QED BY <1>4, <2>2, <2>3 DEF FinishCluster, FinalizeCluster
  <1>5. CASE EarlySubmitPlans
    <2>1. /\ scanned' = scanned /\ dropped' = dropped /\ deferred' = deferred
          /\ budget_heap' = budget_heap /\ Phase = "feed" /\ Phase' = "feed"
      BY <1>5 DEF EarlySubmitPlans
    <2>2. CASE UNCHANGED <<plans, earlyVars>>
      <3>1. Planned' = Planned /\ Held' = Held
        BY <2>1, <2>2 DEF Planned, Held, earlyVars
      <3> QED BY <1>a, <2>1, <2>2, <3>1 DEF AccountInv, earlyVars
    <2>3. ASSUME NEW top \in SUBSET Unemitted, EmitTop(top)
          PROVE  AccountInv' /\ [Promise!FeedNext]_(Promise!feedVars)
      <3>1. /\ \A r \in Records : plans'[r] \in {0, 1}
            /\ Planned' = Planned \cup Recs(top)
            /\ Recs(top) \subseteq Recs(budget_heap) \ emitted
            /\ emitted' = emitted \cup Recs(top)
        BY <2>3, EmitAccount DEF EmitTop
      <3>2. AccountInv'
        BY <1>0, <2>1, <3>1 DEF AccountInv, HeldInv
      <3>3. /\ Recs(top) \in SUBSET Held
            /\ Held' \subseteq Held \ Recs(top)
        BY <1>0, <2>1, <3>1 DEF Held, HeldInv
      <3> QED BY <1>c, <2>1, <3>1, <3>2, <3>3
    <2> QED BY <1>5, <2>2, <2>3 DEF EarlySubmitPlans
  <1>6. CASE FlushTail
    <2>1. /\ FlushDeferred(SafeInThresholdForProbe)
          /\ scanned' = scanned /\ dropped' = dropped /\ emitted' = emitted
          /\ Phase = "feed" /\ Phase' = "feed"
      BY <1>6 DEF FlushTail, earlyVars
    <2>2. AccountInv'
      BY <2>1, FlushAccount
    <2>3. PICK P \in SUBSET Held :
            Planned' = Planned \cup P /\ Held' \subseteq Held \ P
      BY <2>1, FlushAccount
    <2> QED BY <1>c, <2>1, <2>2, <2>3
  <1>7. CASE MaterializeBudgetedReadPlans
    <2>1. /\ UNCHANGED <<scanned, dropped, emitted, deferred>>
          /\ deferred = {} /\ budget_heap' = {}
          /\ plans' = Emit(Recs(Unemitted))
          /\ Phase = "feed" /\ Phase' = "rest"
      BY <1>0, <1>7 DEF MaterializeBudgetedReadPlans, earlyVars, HeldInv
    <2>2. /\ \A r \in Records : plans'[r] \in {0, 1}
          /\ Planned' = Planned \cup Recs(Unemitted)
          /\ Recs(Unemitted) \subseteq Recs(budget_heap) \ emitted
      BY <2>1, EmitAccount
    <2>3. Recs(deferred) = {} /\ Recs(deferred') = {} /\ Recs(budget_heap') = {}
      BY <2>1 DEF Recs
    <2>4. AccountInv'
      <3>1. /\ Planned' \cup dropped' \subseteq scanned'
            /\ dropped' \cap Planned' = {}
        BY <1>0, <2>1, <2>2 DEF AccountInv, HeldInv
      <3>2. /\ emitted' \subseteq Planned'
            /\ Budget = 0 => scanned' \subseteq dropped' \cup Planned'
        BY <2>1, <2>2, <2>3 DEF AccountInv
      <3> QED BY <2>2, <2>3, <3>1, <3>2 DEF AccountInv
    <2>5. Held' = {} /\ Recs(Unemitted) \in SUBSET Held
      BY <2>2, <2>3 DEF Held
    <2>6. Promise!FeedEnd(Recs(Unemitted))
      BY <2>1, <2>2, <2>5 DEF Promise!FeedEnd
    <2> QED BY <2>4, <2>5, <2>6 DEF Promise!FeedNext
  <1>8. CASE UNCHANGED vars
    <2>1. /\ UNCHANGED <<scanned, dropped, emitted, deferred, budget_heap, plans>>
          /\ Phase' = Phase
      BY <1>8 DEF vars, planVars, earlyVars
    <2>2. Planned' = Planned /\ Held' = Held
      BY <2>1 DEF Planned, Held
    <2> QED BY <1>a, <2>1, <2>2 DEF AccountInv
  <1> QED BY <1>1, <1>2, <1>3, <1>4, <1>5, <1>6, <1>7, <1>8 DEF Next

LEMMA AccountInit ==
  ASSUME Init
  PROVE  AccountInv /\ Promise!FeedInit
  <1>1. Planned = {} /\ Recs(deferred) = {} /\ Recs(budget_heap) = {}
    BY DEF Init, Planned, Recs
  <1> QED BY <1>1 DEF Init, AccountInv, Held, Promise!FeedInit

LEMMA AccountInvariant == Spec => []AccountInv
  <1>1. PlannerInv /\ AccountInv /\ [Next]_vars => AccountInv'
    BY AccountStep
  <1> QED BY <1>1, AccountInit, PlannerInvariant, PTL DEF Spec

(* Through deferral, flushes, early submission and materialization no       *)
(* record is planned twice or while it is still held, and none is lost      *)
(* unless there is a budget.                                                *)
THEOREM EveryCandidateIsAccounted == Spec => []EveryCandidateAccounted
  <1>1. PlannerInv /\ AccountInv => EveryCandidateAccounted
    <2> SUFFICES ASSUME PlannerInv, AccountInv PROVE EveryCandidateAccounted
      OBVIOUS
    <2>1. ASSUME NEW r \in Records
          PROVE  plans[r] + (IF r \in Held THEN 1 ELSE 0) <= 1
      <3>1. plans[r] = 0 \/ plans[r] = 1
        BY DEF AccountInv
      <3>2. plans[r] = 1 => r \notin Held
        BY DEF AccountInv, Planned, Held
      <3> QED BY <3>1, <3>2
    <2>2. ASSUME NEW r \in dropped PROVE plans[r] = 0 /\ r \notin Held
      <3>1. r \in Records /\ r \notin Planned /\ r \notin Held
        BY DEF PlannerInv, TypeOK, AccountInv, Held
      <3> QED BY <3>1 DEF AccountInv, Planned
    <2>3. ASSUME Budget = 0, NEW r \in scanned \ dropped
          PROVE  plans[r] = 1 \/ r \in Held
      <3>1. r \in Planned \/ r \in Held
        BY <2>3 DEF AccountInv, Held
      <3> QED BY <3>1 DEF AccountInv, Planned
    <2> QED BY <2>1, <2>2, <2>3 DEF EveryCandidateAccounted
  <1> QED BY <1>1, PlannerInvariant, AccountInvariant, PTL

(* The frontiers, the deferral and the budget implement the feed of plans   *)
(* that the scheduler's read pipeline relies on.                            *)
THEOREM PlannerImplementsPlanFeed == Spec => ImplementsPlanFeed
  <1>1. Init => Promise!FeedInit
    BY AccountInit
  <1>2. PlannerInv /\ AccountInv /\ [Next]_vars
          => [Promise!FeedNext]_(Promise!feedVars)
    BY AccountStep
  <1> QED BY <1>1, <1>2, PlannerInvariant, AccountInvariant, PTL
          DEF Spec, ImplementsPlanFeed, Promise!FeedSpec
-----------------------------------------------------------------------------
(* Nothing that is dropped has an estimate in the frontiers: what makes a   *)
(* record SafeOut is never itself SafeOut.                                  *)
SurvivorInv == Recs(merged \cup estimates) \cap dropped = {}

LEMMA SurvivorStep ==
  ASSUME PlannerInv, AccountInv, SurvivorInv, [Next]_vars
  PROVE  SurvivorInv'
  <1>0. TypeOK /\ FreshInv /\ EstimatesInv
    BY DEF PlannerInv
  <1>1. ASSUME dropped' = dropped, merged' \cup estimates' \subseteq merged \cup estimates
        PROVE  SurvivorInv'
    BY <1>1 DEF SurvivorInv, Recs
  <1>2. ASSUME NEW S \in SUBSET Clusters, Search(S) PROVE SurvivorInv'
    BY <1>2 DEF Search, SurvivorInv
  <1>3. ASSUME NEW c \in todo, StartCluster(c) PROVE SurvivorInv'
    BY <1>1, <1>3 DEF StartCluster, frontierVars
  <1>4. ASSUME NEW B \in blocks, ScanBlock(B) PROVE SurvivorInv'
    <2>1. B \in SUBSET Records /\ B \cap scanned = {}
      BY <1>0, <1>4, ScanBlockSummary DEF FreshInv
    <2>2. PICK left \in SUBSET B :
            \E d \in [left -> Int], m \in [left -> Nat], b \in [left -> Int],
               a \in [left -> BOOLEAN] : Scanned(B, left, d, m, b, a)
      BY <1>0, <1>4, ScanBlockSummary
    <2>3. PICK d \in [left -> Int], m \in [left -> Nat], b \in [left -> Int],
               a \in [left -> BOOLEAN] : Scanned(B, left, d, m, b, a)
      BY <2>2
    <2>4. /\ merged' = merged /\ dropped' = dropped \cup (B \ left)
          /\ estimates' \subseteq estimates \cup Survivors(left, d, m)
      BY <1>4, <2>3 DEF ScanBlock, frontierVars, Scanned
    <2>5. \A e \in Survivors(left, d, m) : e.rec \in left
      BY DEF Survivors
    <2>6. dropped \subseteq scanned /\ Recs(merged \cup estimates) \subseteq scanned
      BY <1>0 DEF AccountInv, EstimatesInv
    <2>7. Recs(merged' \cup estimates') \subseteq Recs(merged \cup estimates) \cup left
      BY <2>4, <2>5 DEF Recs
    <2> QED BY <2>1, <2>4, <2>6, <2>7 DEF SurvivorInv
  <1>5. CASE FinishCluster
    BY <1>1, <1>5 DEF FinishCluster, FinalizeCluster
  <1>6. CASE EarlySubmitPlans \/ FlushTail \/ MaterializeBudgetedReadPlans
    BY <1>1, <1>6 DEF EarlySubmitPlans, FlushTail, MaterializeBudgetedReadPlans,
                      clusterVars, frontierVars
  <1>7. CASE UNCHANGED vars
    BY <1>1, <1>7 DEF vars, clusterVars, frontierVars
  <1> QED BY <1>2, <1>3, <1>4, <1>5, <1>6, <1>7 DEF Next

(* At the end of a query without a budget every record that was scanned is  *)
(* read, or TopK of those that are read are strictly closer: what SafeOut   *)
(* drops is settled by records that are reranked, however they were         *)
(* deferred.                                                                *)
THEOREM TopRecordsReachReranking == Spec => []TopRecordsAreRead
  <1>1. Init => SurvivorInv
    BY DEF Init, SurvivorInv
  <1>2. PlannerInv /\ AccountInv /\ SurvivorInv /\ [Next]_vars => SurvivorInv'
    BY SurvivorStep
  <1>3. PlannerInv /\ AccountInv /\ SurvivorInv /\ SafeOutSound => TopRecordsAreRead
    <2> SUFFICES ASSUME PlannerInv, AccountInv, SurvivorInv, SafeOutSound,
                        pc = "idle", Budget = 0, NEW r \in scanned, plans[r] # 1
                 PROVE  Cardinality(Closer(r, Planned)) >= TopK
      BY DEF TopRecordsAreRead
    <2>1. Recs(deferred) = {}
      BY DEF PlannerInv, HeldInv, Recs
    <2>2. scanned \subseteq dropped \cup Planned
      BY <2>1 DEF AccountInv
    <2>3. r \in dropped
      BY <2>2 DEF AccountInv, Planned
    <2>4. Recs(merged) \subseteq Planned
      BY <2>2 DEF PlannerInv, EstimatesInv, SurvivorInv, Recs
    <2>5. Closer(r, Recs(merged)) \subseteq Closer(r, Planned)
      BY <2>4 DEF Closer
    <2>6. IsFiniteSet(Closer(r, Planned))
      BY PlannerAssumption, FS_Subset DEF Closer, Planned
    <2>7. /\ Cardinality(Closer(r, Recs(merged))) <= Cardinality(Closer(r, Planned))
          /\ Cardinality(Closer(r, Recs(merged))) \in Nat
          /\ Cardinality(Closer(r, Planned)) \in Nat
      BY <2>5, <2>6, FS_Subset, FS_CardinalityType
    <2>8. Cardinality(Closer(r, Recs(merged))) >= TopK
      BY <2>3 DEF SafeOutSound
    <2> QED BY <2>7, <2>8, Naturals
  <1>4. Spec => []SurvivorInv
    BY <1>1, <1>2, PlannerInvariant, AccountInvariant, PTL DEF Spec
  <1> QED BY <1>3, <1>4, PlannerInvariant, AccountInvariant, SafeOutIsSound, PTL
-----------------------------------------------------------------------------
(* Under a budget: until the end only what was emitted early is planned,    *)
(* and the heap never has more than the budget.                             *)
BoundInv ==
  Budget > 0 =>
    /\ Cardinality(budget_heap) <= Budget
    /\ Cardinality(emitted) <= early_count
    /\ pc # "idle" => Planned \subseteq emitted
    /\ ReadsBounded

LEMMA AddPlansBound ==
  ASSUME Budget > 0, NEW new, AddPlans(new)
  PROVE  Cardinality(budget_heap') <= Budget /\ plans' = plans
  <1>1. /\ IsSmallest(budget_heap', budget_heap \cup new, Budget,
                      Ranks(budget_heap \cup new))
        /\ plans' = plans
    BY Naturals DEF AddPlans
  <1> QED BY <1>1, Naturals DEF IsSmallest

LEMMA BoundInvStep ==
  ASSUME PlannerInv, PlannerInv', AccountInv, BoundInv, [Next]_vars, Budget > 0
  PROVE  BoundInv'
  <1>0. /\ Cardinality(budget_heap) <= Budget
        /\ Cardinality(emitted) <= early_count
        /\ pc # "idle" => Planned \subseteq emitted
        /\ early_count \in 0..EarlyMax /\ early_count' \in 0..EarlyMax
        /\ IsFiniteSet(emitted) /\ Cardinality(emitted) \in Nat
        /\ IsFiniteSet(emitted') /\ Cardinality(emitted') \in Nat
    <2>1. IsFiniteSet(emitted) /\ IsFiniteSet(emitted')
      BY PlannerAssumption, FS_Subset DEF PlannerInv, TypeOK
    <2> QED BY <2>1, FS_CardinalityType DEF BoundInv, PlannerInv, TypeOK
  <1>1. ASSUME Cardinality(budget_heap') <= Budget,
               Cardinality(emitted') <= early_count', Planned' \subseteq emitted'
        PROVE  BoundInv'
    <2>1. Cardinality(Planned') <= Cardinality(emitted') /\ Cardinality(Planned') \in Nat
      BY <1>0, <1>1, FS_Subset, FS_CardinalityType
    <2>2. Cardinality(Planned') <= Budget + EarlyMax
      BY <1>0, <1>1, <2>1, Naturals
    <2> QED BY <1>1, <2>2 DEF BoundInv, ReadsBounded
  <1>2. ASSUME UNCHANGED <<budget_heap, plans, emitted, early_count>>,
               pc' # "idle" => pc # "idle"
        PROVE  BoundInv'
    BY <1>2 DEF BoundInv, ReadsBounded, Planned
  <1>3. ASSUME NEW new, AddPlans(new), pc # "idle",
               emitted' = emitted, early_count' = early_count
        PROVE  BoundInv'
    <2>1. Cardinality(budget_heap') <= Budget /\ Planned' = Planned
      BY <1>3, AddPlansBound DEF Planned
    <2> QED BY <1>0, <1>1, <1>3, <2>1
  <1>4. ASSUME NEW S \in SUBSET Clusters, Search(S) PROVE BoundInv'
    <2>1. /\ budget_heap' = {} /\ emitted' = {} /\ early_count' = 0
          /\ plans' = [r \in Records |-> 0]
      BY <1>4 DEF Search
    <2>2. Planned' = {}
      BY <2>1 DEF Planned
    <2> QED BY <1>1, <2>1, <2>2, FS_EmptySet, Naturals
  <1>5. ASSUME NEW c \in todo, StartCluster(c) PROVE BoundInv'
    BY <1>2, <1>5 DEF StartCluster, planVars, earlyVars
  <1>6. ASSUME NEW B \in blocks, ScanBlock(B) PROVE BoundInv'
    <2>1. pc = "scan" /\ UNCHANGED <<pc, earlyVars>>
      BY <1>6 DEF ScanBlock
    <2>2. UNCHANGED planVars \/ \E new : AddPlans(new)
      BY <1>6 DEF ScanBlock, Scan
    <2> QED BY <1>2, <1>3, <2>1, <2>2 DEF planVars, earlyVars
  <1>7. CASE FinishCluster \/ FlushTail
    <2>1. /\ pc # "idle" /\ emitted' = emitted /\ early_count' = early_count
          /\ UNCHANGED planVars \/ \E t : FlushDeferred(t)
      BY <1>7 DEF FinishCluster, FlushTail, earlyVars
    <2> QED BY <1>2, <1>3, <2>1 DEF planVars, FlushDeferred
  <1>8. CASE EarlySubmitPlans
    <2>1. budget_heap' = budget_heap /\ pc # "idle"
      BY <1>8 DEF EarlySubmitPlans
    <2>2. CASE UNCHANGED <<plans, earlyVars>>
      BY <1>2, <2>1, <2>2 DEF earlyVars
    <2>3. ASSUME NEW top \in SUBSET Unemitted, EmitTop(top) PROVE BoundInv'
      <3>1. /\ Planned' = Planned \cup Recs(top)
            /\ emitted' = emitted \cup Recs(top)
            /\ early_count' = early_count + Cardinality(top)
        BY <2>3, EmitAccount DEF EmitTop
      <3>2. OneEach(top) /\ \A p \in top : p.rec \in Records
        BY DEF Unemitted, OneEach, PlannerInv, HeldInv, TypeOK
      <3>3. /\ IsFiniteSet(Recs(top)) /\ Cardinality(Recs(top)) = Cardinality(top)
            /\ Cardinality(top) \in Nat
        BY <3>2, OneEachFinite, FS_CardinalityType
      <3>4. Cardinality(emitted') <= Cardinality(emitted) + Cardinality(Recs(top))
        <4>1. /\ Cardinality(emitted') = Cardinality(emitted) + Cardinality(Recs(top))
                                          - Cardinality(emitted \cap Recs(top))
              /\ Cardinality(emitted \cap Recs(top)) \in Nat
          BY <1>0, <3>1, <3>3, FS_Union, FS_Intersection, FS_CardinalityType
        <4> QED BY <1>0, <3>3, <4>1
      <3>5. Cardinality(emitted') <= early_count'
        BY <1>0, <3>1, <3>3, <3>4
      <3>6. Planned' \subseteq emitted'
        BY <1>0, <2>1, <3>1
      <3> QED BY <1>0, <1>1, <2>1, <3>5, <3>6
    <2> QED BY <1>8, <2>2, <2>3 DEF EarlySubmitPlans
  <1>9. CASE MaterializeBudgetedReadPlans
    <2>1. /\ budget_heap' = {} /\ emitted' = emitted /\ early_count' = early_count
          /\ pc # "idle" /\ pc' = "idle"
          /\ Planned' = Planned \cup Recs(Unemitted)
      BY <1>9, EmitAccount DEF MaterializeBudgetedReadPlans, earlyVars
    <2>2. /\ IsFiniteSet(Recs(budget_heap))
          /\ Cardinality(Recs(budget_heap)) = Cardinality(budget_heap)
          /\ Cardinality(budget_heap) \in Nat
      BY OneEachFinite, FS_CardinalityType DEF PlannerInv, HeldInv, TypeOK
    <2>3. Planned' \subseteq emitted \cup Recs(budget_heap)
      BY <1>0, <2>1 DEF Unemitted, Recs
    <2>4. /\ IsFiniteSet(emitted \cup Recs(budget_heap))
          /\ Cardinality(emitted \cup Recs(budget_heap))
               <= Cardinality(emitted) + Cardinality(Recs(budget_heap))
      <3>1. /\ Cardinality(emitted \cup Recs(budget_heap))
                 = Cardinality(emitted) + Cardinality(Recs(budget_heap))
                     - Cardinality(emitted \cap Recs(budget_heap))
            /\ Cardinality(emitted \cap Recs(budget_heap)) \in Nat
            /\ IsFiniteSet(emitted \cup Recs(budget_heap))
        BY <1>0, <2>2, FS_Union, FS_Intersection, FS_CardinalityType
      <3> QED BY <1>0, <2>2, <3>1
    <2>5. /\ Cardinality(Planned') <= Cardinality(emitted \cup Recs(budget_heap))
          /\ Cardinality(Planned') \in Nat
          /\ Cardinality(emitted \cup Recs(budget_heap)) \in Nat
      BY <2>3, <2>4, FS_Subset, FS_CardinalityType
    <2>6. Cardinality(Planned') <= Budget + EarlyMax
      BY <1>0, <2>2, <2>4, <2>5, Naturals
    <2>7. /\ Cardinality(budget_heap') <= Budget
          /\ Cardinality(emitted') <= early_count'
      <3>1. Cardinality(budget_heap') = 0
        BY <2>1, FS_EmptySet
      <3>2. Cardinality(budget_heap') <= Budget
        BY <3>1, PlannerAssumption
      <3>3. Cardinality(emitted') <= early_count'
        BY <1>0, <2>1
      <3> QED BY <3>2, <3>3
    <2> QED BY <2>1, <2>6, <2>7 DEF BoundInv, ReadsBounded
  <1>10. CASE UNCHANGED vars
    BY <1>2, <1>10 DEF vars, planVars, earlyVars
  <1> QED BY <1>4, <1>5, <1>6, <1>7, <1>8, <1>9, <1>10 DEF Next

(* The vector reads of a query stay within the budget and the cap on early  *)
(* submissions, although plans that were submitted early may be evicted     *)
(* from the heap and replaced by others.                                    *)
THEOREM ReadsStayBounded == Spec => []ReadsBounded
  <1>1. Init => BoundInv
    <2> SUFFICES ASSUME Init PROVE BoundInv
      OBVIOUS
    <2>1. Planned = {}
      BY DEF Init, Planned
    <2> QED BY <2>1, FS_EmptySet, Naturals DEF Init, BoundInv, ReadsBounded
  <1>2. PlannerInv /\ PlannerInv' /\ AccountInv /\ BoundInv /\ [Next]_vars => BoundInv'
    BY BoundInvStep DEF BoundInv
  <1>3. BoundInv => ReadsBounded
    BY DEF BoundInv, ReadsBounded
  <1> QED BY <1>1, <1>2, <1>3, PlannerInvariant, AccountInvariant, PTL DEF Spec
-----------------------------------------------------------------------------
(* What the budget leaves unread is not better than what it reads.          *)

(* A plan that is held is ranked by the estimate of its record, and a       *)
(* candidate that is not held found the heap full of better ones.           *)
KeptOrBeaten(S, heap, e) ==
  \/ \E p \in S : p.rec = e.rec /\ p.key = e.est
  \/ Cardinality(heap) >= Budget /\ \A p \in heap : p.key <= e.est

KeepInv ==
  /\ ~UseFrontier => merged \cup estimates = {}
  /\ pc # "idle" /\ UseFrontier =>
       /\ \A p \in deferred \cup budget_heap :
            \E e \in merged \cup estimates : e.rec = p.rec /\ e.est = p.key
       /\ \A e \in merged \cup estimates :
            KeptOrBeaten(deferred \cup budget_heap, budget_heap, e)

(* Full or beaten stays so when the Budget best of the heap and new plans   *)
(* are kept.                                                                *)
LEMMA KeptStaysKept ==
  ASSUME Budget > 0, NEW heap \in SUBSET Plan, NEW new \in SUBSET Plan, NEW kept,
         IsFiniteSet(heap), IsFiniteSet(new),
         IsSmallest(kept, heap \cup new, Budget, Ranks(heap \cup new)),
         NEW e \in Entry, KeptOrBeaten(heap \cup new, heap, e)
  PROVE  KeptOrBeaten(kept, kept, e)
  <1> DEFINE all == heap \cup new
  <1>1. /\ IsFiniteSet(all) /\ IsFiniteSet(kept) /\ kept \subseteq all
        /\ Cardinality(all) \in Nat /\ Cardinality(kept) \in Nat
        /\ Cardinality(heap) \in Nat /\ Cardinality(heap) <= Cardinality(all)
    <2>1. IsFiniteSet(all) /\ kept \subseteq all
      BY FS_Union DEF IsSmallest
    <2>2. IsFiniteSet(kept) /\ Cardinality(heap) <= Cardinality(all)
      BY <2>1, FS_Subset
    <2> QED BY <2>1, <2>2, FS_CardinalityType
  <1>2. \A p \in all : p.key \in Int
    BY DEF Plan
  <1>3. \A p \in kept, q \in all \ kept : p.key <= q.key
    <2>1. \A p \in all : Ranks(all)[p] = p.key
      BY DEF Ranks
    <2> QED BY <1>1, <2>1 DEF IsSmallest
  <1>4. CASE kept = all /\ Cardinality(all) <= Budget
    <2>1. CASE \E p \in all : p.rec = e.rec /\ p.key = e.est
      BY <1>4, <2>1 DEF KeptOrBeaten
    <2>2. CASE Cardinality(heap) >= Budget /\ \A p \in heap : p.key <= e.est
      <3>1. Cardinality(heap) = Cardinality(all)
        BY <1>1, <1>4, <2>2, Naturals
      <3>2. heap = all
        BY <1>1, <3>1, FS_Subset
      <3> QED BY <1>4, <2>2, <3>2 DEF KeptOrBeaten
    <2> QED BY <2>1, <2>2 DEF KeptOrBeaten
  <1>5. CASE Cardinality(kept) = Budget
    <2>1. CASE \E p \in all : p.rec = e.rec /\ p.key = e.est
      <3>1. PICK p \in all : p.rec = e.rec /\ p.key = e.est
        BY <2>1
      <3>2. CASE p \in kept
        BY <3>1, <3>2 DEF KeptOrBeaten
      <3>3. CASE p \notin kept
        BY <1>3, <1>5, <3>1, <3>3, Naturals DEF KeptOrBeaten
      <3> QED BY <3>2, <3>3
    <2>2. CASE Cardinality(heap) >= Budget /\ \A p \in heap : p.key <= e.est
      <3>1. ASSUME NEW t \in kept PROVE t.key <= e.est
        <4>1. CASE t \in heap
          BY <2>2, <4>1
        <4>2. CASE t \notin heap
          <5>1. PICK h \in heap : h \notin kept
            <6>1. ASSUME heap \subseteq kept PROVE FALSE
              <7>1. Cardinality(heap) <= Cardinality(kept)
                BY <1>1, <6>1, FS_Subset
              <7>2. Cardinality(heap) = Cardinality(kept)
                BY <1>1, <1>5, <2>2, <7>1, Naturals
              <7>3. heap = kept
                BY <1>1, <6>1, <7>2, FS_Subset
              <7> QED BY <3>1, <4>2, <7>3
            <6> QED BY <6>1
          <5>2. t.key <= h.key /\ h.key <= e.est
            BY <1>3, <2>2, <3>1, <5>1
          <5>3. t.key \in Int /\ h.key \in Int /\ e.est \in Int
            BY <1>1, <1>2, <3>1, <5>1 DEF Entry
          <5> QED BY <5>2, <5>3
        <4> QED BY <4>1, <4>2
      <3> QED BY <1>5, <3>1, Naturals DEF KeptOrBeaten
    <2> QED BY <2>1, <2>2 DEF KeptOrBeaten
  <1> QED BY <1>4, <1>5 DEF IsSmallest

LEMMA AddPlansKeeps ==
  ASSUME PlannerInv, Budget > 0, NEW new \in SUBSET Plan, OneEach(new),
         AddPlans(new)
  PROVE  /\ budget_heap' \subseteq budget_heap \cup new
         /\ \A e \in Entry : KeptOrBeaten(budget_heap \cup new, budget_heap, e)
                               => KeptOrBeaten(budget_heap', budget_heap', e)
  <1>1. IsSmallest(budget_heap', budget_heap \cup new, Budget,
                   Ranks(budget_heap \cup new))
    <2>1. PICK keep \in SUBSET (budget_heap \cup new) :
            /\ IsSmallest(keep, budget_heap \cup new, Budget,
                          Ranks(budget_heap \cup new))
            /\ budget_heap' = keep
      <3>1. Budget # 0
        BY Naturals
      <3> QED BY <3>1 DEF AddPlans
    <2> QED BY <2>1
  <1>2. \A p \in new : p.rec \in Records
    BY DEF Plan
  <1>3. /\ IsFiniteSet(new) /\ IsFiniteSet(budget_heap)
        /\ budget_heap \in SUBSET Plan
    BY <1>2, OneEachFinite, PlannerFinite DEF PlannerInv, TypeOK, Plan
  <1> QED BY <1>1, <1>3, KeptStaysKept DEF IsSmallest

(* A flush moves every deferred plan to the heap with the rank it had.      *)
LEMMA FlushKeeps ==
  ASSUME PlannerInv, Budget > 0, NEW t, FlushDeferred(t),
         NEW E \in SUBSET Entry,
         \A p \in deferred \cup budget_heap :
           \E e \in E : e.rec = p.rec /\ e.est = p.key,
         \A e \in E : KeptOrBeaten(deferred \cup budget_heap, budget_heap, e)
  PROVE  /\ deferred' = {}
         /\ \A p \in budget_heap' : \E e \in E : e.rec = p.rec /\ e.est = p.key
         /\ \A e \in E : KeptOrBeaten(budget_heap', budget_heap', e)
  <1>1. /\ deferred' = {} /\ AddPlans(Decided(t)) /\ Decided(t) \in SUBSET Plan
    BY DecidedType DEF FlushDeferred, PlannerInv
  <1>2. /\ \A p \in Decided(t) : \E q \in deferred : q.rec = p.rec /\ q.key = p.key
        /\ \A q \in deferred : \E p \in Decided(t) : q.rec = p.rec /\ q.key = p.key
    <2> DEFINE plan(q) == [rec |-> q.rec, key |-> q.key,
                           all |-> t # -Inf /\ q.rec \in Small /\ q.bound < t]
    <2>1. \A q \in deferred : /\ plan(q) \in Decided(t)
                              /\ plan(q).rec = q.rec /\ plan(q).key = q.key
      BY DEF Decided
    <2>2. \A p \in Decided(t) : \E q \in deferred : p = plan(q)
      BY DEF Decided
    <2> HIDE DEF plan
    <2> QED BY <2>1, <2>2
  <1>3. OneEach(Decided(t))
    BY DEF PlannerInv, HeldInv, OneEach, Decided
  <1>4. /\ budget_heap' \subseteq budget_heap \cup Decided(t)
        /\ \A e \in Entry :
             KeptOrBeaten(budget_heap \cup Decided(t), budget_heap, e)
               => KeptOrBeaten(budget_heap', budget_heap', e)
    BY <1>1, <1>3, AddPlansKeeps
  <1>5. ASSUME NEW p \in budget_heap'
        PROVE  \E e \in E : e.rec = p.rec /\ e.est = p.key
    <2>1. \E q \in deferred \cup budget_heap : q.rec = p.rec /\ q.key = p.key
      BY <1>2, <1>4
    <2> QED BY <2>1
  <1>6. \A e \in E : KeptOrBeaten(budget_heap \cup Decided(t), budget_heap, e)
    BY <1>2 DEF KeptOrBeaten
  <1> QED BY <1>1, <1>4, <1>5, <1>6

LEMMA KeepStep ==
  ASSUME PlannerInv, KeepInv, [Next]_vars, Budget > 0
  PROVE  KeepInv'
  <1>0. TypeOK /\ FreshInv
    BY DEF PlannerInv
  <1>a. ASSUME merged' \cup estimates' = merged \cup estimates,
               deferred' = deferred, budget_heap' = budget_heap,
               pc' # "idle" => pc # "idle"
        PROVE  KeepInv'
    BY <1>a DEF KeepInv, KeptOrBeaten
  <1>b. ASSUME merged' \cup estimates' = merged \cup estimates, pc # "idle",
               NEW t, FlushDeferred(t)
        PROVE  KeepInv'
    <2>1. ASSUME UseFrontier
          PROVE  /\ \A p \in deferred' \cup budget_heap' :
                      \E e \in merged' \cup estimates' :
                        e.rec = p.rec /\ e.est = p.key
                 /\ \A e \in merged' \cup estimates' :
                      KeptOrBeaten(deferred' \cup budget_heap', budget_heap', e)
      <3> DEFINE E == merged \cup estimates
      <3>1. /\ E \in SUBSET Entry
            /\ \A p \in deferred \cup budget_heap :
                 \E e \in E : e.rec = p.rec /\ e.est = p.key
            /\ \A e \in E :
                 KeptOrBeaten(deferred \cup budget_heap, budget_heap, e)
        BY <1>0, <1>b, <2>1 DEF KeepInv, TypeOK
      <3>2. /\ deferred' = {}
            /\ \A p \in budget_heap' : \E e \in E : e.rec = p.rec /\ e.est = p.key
            /\ \A e \in E : KeptOrBeaten(budget_heap', budget_heap', e)
        BY <1>b, <3>1, FlushKeeps
      <3> QED BY <1>b, <3>2
    <2> QED BY <1>b, <2>1 DEF KeepInv, KeptOrBeaten
  <1>1. ASSUME NEW S \in SUBSET Clusters, Search(S) PROVE KeepInv'
    <2>1. /\ merged' = {} /\ estimates' = {} /\ deferred' = {} /\ budget_heap' = {}
      BY <1>0, <1>1 DEF Search, FreshInv
    <2> QED BY <2>1 DEF KeepInv
  <1>2. ASSUME NEW c \in todo, StartCluster(c) PROVE KeepInv'
    <2>1. /\ merged' = merged /\ estimates' = {} /\ estimates = {}
          /\ deferred' = deferred /\ budget_heap' = budget_heap /\ pc # "idle"
      BY <1>0, <1>2 DEF StartCluster, frontierVars, planVars, FreshInv
    <2> QED BY <1>a, <2>1
  <1>3. ASSUME NEW B \in blocks, ScanBlock(B) PROVE KeepInv'
    <2>1. PICK left \in SUBSET B :
            \E d \in [left -> Int], m \in [left -> Nat], b \in [left -> Int],
               a \in [left -> BOOLEAN] : Scanned(B, left, d, m, b, a)
      BY <1>0, <1>3, ScanBlockSummary
    <2>2. PICK d \in [left -> Int], m \in [left -> Nat], b \in [left -> Int],
               a \in [left -> BOOLEAN] : Scanned(B, left, d, m, b, a)
      BY <2>1
    <2> DEFINE fresh == Survivors(left, d, m)
               E == merged \cup estimates
    <2>3. /\ merged' = merged /\ pc # "idle" /\ B \in SUBSET Records
          /\ estimates' = IF UseFrontier THEN estimates \cup fresh ELSE estimates
      BY <1>0, <1>3, <2>2, ScanBlockSummary DEF ScanBlock, frontierVars, Scanned
    <2>4. ~UseFrontier => merged' \cup estimates' = {}
      BY <2>3 DEF KeepInv
    <2>5. ASSUME UseFrontier
          PROVE  /\ \A p \in deferred' \cup budget_heap' :
                      \E e \in merged' \cup estimates' :
                        e.rec = p.rec /\ e.est = p.key
                 /\ \A e \in merged' \cup estimates' :
                      KeptOrBeaten(deferred' \cup budget_heap', budget_heap', e)
      <3>1. /\ merged' \cup estimates' = E \cup fresh
            /\ E \cup fresh \in SUBSET Entry
            /\ \A p \in deferred \cup budget_heap :
                 \E e \in E : e.rec = p.rec /\ e.est = p.key
            /\ \A e \in E :
                 KeptOrBeaten(deferred \cup budget_heap, budget_heap, e)
        <4>1. fresh \in SUBSET Entry
          BY <2>3 DEF Survivors, Entry
        <4>2. merged' \cup estimates' = E \cup fresh
          BY <2>3, <2>5
        <4>3. E \in SUBSET Entry
          BY <1>0 DEF TypeOK
        <4> QED BY <2>3, <2>5, <4>1, <4>2, <4>3 DEF KeepInv
      <3>2. CASE deferred' = deferred \cup Deferrals(left, d, b) /\ UNCHANGED planVars
        <4>1. /\ \A p \in Deferrals(left, d, b) :
                   \E e \in fresh : e.rec = p.rec /\ e.est = p.key
              /\ \A e \in fresh :
                   \E p \in Deferrals(left, d, b) : p.rec = e.rec /\ p.key = e.est
          <5>1. \A r \in left :
                  /\ [rec |-> r, key |-> d[r], bound |-> b[r]] \in Deferrals(left, d, b)
                  /\ [rec |-> r, est |-> d[r], err |-> m[r]] \in fresh
            BY DEF Deferrals, Survivors
          <5>2. /\ \A p \in Deferrals(left, d, b) : p.rec \in left /\ p.key = d[p.rec]
                /\ \A e \in fresh : e.rec \in left /\ e.est = d[e.rec]
            BY DEF Deferrals, Survivors
          <5> QED BY <5>1, <5>2
        <4>2. budget_heap' = budget_heap
          BY <3>2 DEF planVars
        <4> QED BY <3>1, <3>2, <4>1, <4>2 DEF KeptOrBeaten
      <3>3. CASE AddPlans(NewPlans(left, d, a)) /\ UNCHANGED deferred
        <4> DEFINE new == NewPlans(left, d, a)
        <4>1. /\ \A p \in new : \E e \in fresh : e.rec = p.rec /\ e.est = p.key
              /\ \A e \in fresh : \E p \in new : p.rec = e.rec /\ p.key = e.est
          <5>1. \A r \in left :
                  /\ [rec |-> r, key |-> d[r], all |-> a[r]] \in new
                  /\ [rec |-> r, est |-> d[r], err |-> m[r]] \in fresh
            BY DEF NewPlans, Survivors
          <5>2. /\ \A p \in new : p.rec \in left /\ p.key = d[p.rec]
                /\ \A e \in fresh : e.rec \in left /\ e.est = d[e.rec]
            BY DEF NewPlans, Survivors
          <5> QED BY <5>1, <5>2
        <4>2. new \in SUBSET Plan /\ OneEach(new)
          BY <2>3 DEF NewPlans, Plan, OneEach
        <4>3. /\ budget_heap' \subseteq budget_heap \cup new
              /\ \A e \in Entry : KeptOrBeaten(budget_heap \cup new, budget_heap, e)
                                    => KeptOrBeaten(budget_heap', budget_heap', e)
          BY <3>3, <4>2, AddPlansKeeps
        <4>4. \A p \in deferred' \cup budget_heap' :
                \E e \in E \cup fresh : e.rec = p.rec /\ e.est = p.key
          BY <3>1, <3>3, <4>1, <4>3
        <4>5. ASSUME NEW e \in E \cup fresh
              PROVE  KeptOrBeaten(deferred' \cup budget_heap', budget_heap', e)
          <5>1. \/ \E p \in deferred : p.rec = e.rec /\ p.key = e.est
                \/ KeptOrBeaten(budget_heap \cup new, budget_heap, e)
            BY <3>1, <4>1 DEF KeptOrBeaten
          <5>2. CASE \E p \in deferred : p.rec = e.rec /\ p.key = e.est
            BY <3>3, <5>2 DEF KeptOrBeaten
          <5>3. CASE KeptOrBeaten(budget_heap \cup new, budget_heap, e)
            <6>1. KeptOrBeaten(budget_heap', budget_heap', e)
              BY <3>1, <4>3, <5>3
            <6> QED BY <6>1 DEF KeptOrBeaten
          <5> QED BY <5>1, <5>2, <5>3
        <4> QED BY <3>1, <4>4, <4>5
      <3> QED BY <2>2, <3>2, <3>3 DEF Scanned
    <2> QED BY <2>4, <2>5 DEF KeepInv, KeptOrBeaten
  <1>4. CASE FinishCluster
    <2>1. /\ merged' = merged \cup estimates /\ estimates' = {} /\ pc # "idle"
          /\ \/ UNCHANGED <<deferred, planVars>>
             \/ FlushDeferred(SafeInThresholdForProbe')
      BY <1>4 DEF FinishCluster, FinalizeCluster
    <2> QED BY <1>a, <1>b, <2>1 DEF planVars
  <1>5. CASE EarlySubmitPlans
    BY <1>a, <1>5 DEF EarlySubmitPlans, clusterVars, frontierVars
  <1>6. CASE FlushTail
    <2>1. /\ merged' = merged /\ estimates' = estimates /\ pc # "idle"
          /\ FlushDeferred(SafeInThresholdForProbe)
      BY <1>6 DEF FlushTail, clusterVars, frontierVars
    <2> QED BY <1>b, <2>1
  <1>7. CASE MaterializeBudgetedReadPlans
    <2>1. /\ merged' = merged /\ estimates' = estimates /\ pc' = "idle"
      BY <1>7 DEF MaterializeBudgetedReadPlans, clusterVars, frontierVars
    <2> QED BY <2>1 DEF KeepInv
  <1>8. CASE UNCHANGED vars
    BY <1>a, <1>8 DEF vars, clusterVars, frontierVars, planVars
  <1> QED BY <1>1, <1>2, <1>3, <1>4, <1>5, <1>6, <1>7, <1>8 DEF Next

(* The end of a query: what is unread was beaten by a full heap, which is   *)
(* read.                                                                    *)
LEMMA BestAreMaterialized ==
  ASSUME PlannerInv, PlannerInv', AccountInv, AccountInv', KeepInv, Budget > 0,
         MaterializeBudgetedReadPlans, NEW e \in merged, plans'[e.rec] = 0
  PROVE  Cardinality({f \in merged : f.est <= e.est /\ plans'[f.rec] = 1}) >= Budget
  <1> DEFINE W == {f \in merged : f.est <= e.est /\ plans'[f.rec] = 1}
  <1>1. /\ pc = "materialize" /\ deferred = {} /\ estimates = {}
        /\ Planned' = Planned \cup Recs(Unemitted)
        /\ UseFrontier
    <2>1. pc = "materialize" /\ plans' = Emit(Recs(Unemitted))
      BY DEF MaterializeBudgetedReadPlans
    <2>2. Planned' = Planned \cup Recs(Unemitted)
      BY <2>1, EmitAccount
    <2> QED BY <2>1, <2>2 DEF PlannerInv, HeldInv, FreshInv, KeepInv
  <1>2. ASSUME NEW p \in budget_heap
        PROVE  p.rec \in Records /\ plans'[p.rec] = 1
    <2>1. p.rec \in Planned \/ p \in Unemitted
      BY DEF Unemitted, AccountInv
    <2>2. p.rec \in Planned'
      BY <1>1, <2>1 DEF Recs
    <2>3. plans'[p.rec] \in {0, 1} /\ plans'[p.rec] > 0 /\ p.rec \in Records
      BY <2>2 DEF Planned, AccountInv
    <2> QED BY <2>3
  <1>3. Cardinality(budget_heap) >= Budget /\ \A p \in budget_heap : p.key <= e.est
    <2>1. KeptOrBeaten(budget_heap, budget_heap, e)
      BY <1>1 DEF KeepInv
    <2>2. ~\E p \in budget_heap : p.rec = e.rec /\ p.key = e.est
      BY <1>2
    <2> QED BY <2>1, <2>2 DEF KeptOrBeaten
  <1>4. Recs(budget_heap) \subseteq Recs(W)
    <2>1. ASSUME NEW p \in budget_heap PROVE \E f \in W : f.rec = p.rec
      <3>1. PICK f \in merged : f.rec = p.rec /\ f.est = p.key
        BY <1>1 DEF KeepInv
      <3> QED BY <1>2, <1>3, <3>1
    <2> QED BY <2>1 DEF Recs
  <1>5. /\ Cardinality(Recs(budget_heap)) = Cardinality(budget_heap)
        /\ Cardinality(budget_heap) \in Nat
    BY <1>2, OneEachFinite, FS_CardinalityType DEF PlannerInv, HeldInv
  <1>6. /\ Cardinality(Recs(W)) = Cardinality(W) /\ IsFiniteSet(Recs(W))
        /\ Cardinality(W) \in Nat
    <2>1. OneEach(W) /\ \A f \in W : f.rec \in Records
      BY DEF PlannerInv, EstimatesInv, OneEach, TypeOK, Entry
    <2> QED BY <2>1, OneEachFinite, FS_CardinalityType
  <1>7. Cardinality(Recs(budget_heap)) <= Cardinality(Recs(W))
    BY <1>4, <1>6, FS_Subset
  <1> QED BY <1>3, <1>5, <1>6, <1>7, Naturals

LEMMA BestStep ==
  ASSUME PlannerInv, PlannerInv', AccountInv, AccountInv', KeepInv,
         BudgetKeepsBest, [Next]_vars, Budget > 0
  PROVE  BudgetKeepsBest'
  <1>1. CASE pc' # "idle"
    BY <1>1 DEF BudgetKeepsBest
  <1>2. CASE MaterializeBudgetedReadPlans
    <2>1. merged' = merged
      BY <1>2 DEF MaterializeBudgetedReadPlans, frontierVars
    <2> QED BY <1>2, <2>1, BestAreMaterialized DEF BudgetKeepsBest
  <1>3. CASE UNCHANGED vars
    BY <1>3 DEF vars, frontierVars, planVars, BudgetKeepsBest
  <1>4. CASE \/ \E S \in SUBSET Clusters : Search(S)
             \/ \E c \in todo : StartCluster(c)
             \/ \E B \in blocks : ScanBlock(B)
             \/ FinishCluster
             \/ EarlySubmitPlans
             \/ FlushTail
    <2>1. pc' # "idle"
      BY <1>4 DEF Search, StartCluster, ScanBlock, FinishCluster,
                  EarlySubmitPlans, FlushTail
    <2> QED BY <1>1, <2>1
  <1> QED BY <1>2, <1>3, <1>4 DEF Next

(* With a budget, at the end of a query: a candidate is unread only if      *)
(* Budget candidates with estimates at least as good are read, whatever was *)
(* deferred, evicted or submitted early.                                    *)
THEOREM BudgetReadsTheBest == Spec => []BudgetKeepsBest
  <1> DEFINE BestInv == Budget > 0 => KeepInv /\ BudgetKeepsBest
  <1>1. Init => BestInv
    BY DEF Init, KeepInv, BudgetKeepsBest
  <1>2. PlannerInv /\ PlannerInv' /\ AccountInv /\ AccountInv' /\ BestInv
          /\ [Next]_vars => BestInv'
    <2> SUFFICES ASSUME PlannerInv, PlannerInv', AccountInv, AccountInv', BestInv,
                        [Next]_vars, Budget > 0
                 PROVE  KeepInv' /\ BudgetKeepsBest'
      OBVIOUS
    <2> QED BY KeepStep, BestStep
  <1>3. BestInv => BudgetKeepsBest
    BY DEF BudgetKeepsBest
  <1> HIDE DEF BestInv
  <1> QED BY <1>1, <1>2, <1>3, PlannerInvariant, AccountInvariant, PTL DEF Spec
=============================================================================
