----------------------------- MODULE ReadPlanner -----------------------------
(***************************************************************************)
(* How Search decides what to read: ClusterProber::Probe classifies the     *)
(* records of a cluster by their estimated distances, and the sink and the  *)
(* scheduler (src/query/overlap_scheduler.cpp) turn the survivors into read *)
(* plans, now or later.                                                     *)
(*                                                                         *)
(* A record has an exact distance Dist[r] to the query and, at stage s, an  *)
(* estimate that is at most Err[s][r] away from it; the estimates are       *)
(* chosen when the record is scanned, which happens once per query.         *)
(* Distances are integers; Inf stands for the infinity of float.            *)
(*                                                                         *)
(* SafeOut: a record whose lower bound is above the k-th smallest upper     *)
(* bound of all candidates so far is dropped.  SafeIn: one whose upper      *)
(* bound is below the threshold is read in one piece, if it is small.       *)
(***************************************************************************)
EXTENDS Integers, FiniteSets

CONSTANTS
  Records, Clusters,
  Blocks,          \* [Clusters -> SUBSET SUBSET Records]: FastScan blocks
  Dist,            \* [Records -> Int]: the distances reranking will compute
  Err,             \* [1..2 -> [Records -> Nat]]: error of the estimates
  OutMargin,       \* [1..2 -> [Records -> Nat]]: safeout_margin_s1, _s2
  InMargin,        \* [1..2 -> [Records -> Nat]]: safein_margin_s1, _s2
  Small,           \* records with addr.size <= safein_all_threshold
  Inf,
  TopK, NProbe,
  UseSafeOut,      \* enable_dynamic_safeout
  SafeInMode,      \* "Static" or "Frontier"
  SafeInDk,        \* conann().safein_d_k()
  Stage1SafeIn,    \* enable_stage1_safein
  HasStage2,       \* has_s2_
  MinProbes, StableProbes, AbsTol,
  RelTol,          \* dynamic_safein_rel_tol, in thousandths
  DeferInitial, DeferUntilReady, DeferMax,
  SmallPool,       \* max(128, 4 * submit_batch_size)
  Budget,          \* non_safeout_candidate_budget, 0 = none
  EarlySubmit, EarlyInterval, EarlyCount, EarlyMax

VARIABLES
  pc,
  todo,            \* sorted_clusters not yet probed
  blocks,          \* blocks of the current cluster not yet scanned
  upper,           \* safeout_frontier_upper of the current cluster
  threshold,       \* safein_prefetch_threshold of the current cluster
  estimates,       \* candidate_estimates_ of the sink
  safeout_heap, safein_heap,
  probes_seen, stable_count, ready, last_frontier, frontier,
  extra_defer,     \* dynamic_safein_small_pool_extra_defer_
  deferred,        \* deferred_safein_plans_
  budget_heap,     \* budgeted_read_plan_heap_
  emitted,         \* emitted_budgeted_offsets_
  early_count,     \* budgeted_early_submitted_count_
  since_early,     \* clusters_since_budgeted_early_submit
  plans,           \* auxiliary: [Records -> Nat], reads planned
  scanned,         \* auxiliary: records scanned
  dropped,         \* auxiliary: records classified SafeOut
  merged,          \* auxiliary: every estimate merged into the frontiers
  whole            \* auxiliary: records decided to be read in one piece

frontierVars == <<safeout_heap, safein_heap, merged>>
safeinVars == <<probes_seen, stable_count, ready, last_frontier, frontier>>
clusterVars == <<todo, blocks, upper, threshold, estimates>>
planVars == <<budget_heap, plans, whole>>
earlyVars == <<emitted, early_count, since_early>>
vars == <<pc, clusterVars, frontierVars, safeinVars, extra_defer, deferred,
          planVars, earlyVars, scanned, dropped>>

UseFrontier == UseSafeOut \/ SafeInMode = "Frontier"

ASSUME PlannerAssumption ==
  /\ IsFiniteSet(Records)
  /\ Blocks \in [Clusters -> SUBSET SUBSET Records]
  /\ Dist \in [Records -> Int]
  /\ Err \in [1..2 -> [Records -> Nat]]
  /\ OutMargin \in [1..2 -> [Records -> Nat]]
  /\ InMargin \in [1..2 -> [Records -> Nat]]
  /\ Small \subseteq Records
  /\ Inf \in Nat
  /\ TopK \in Nat \ {0}
  /\ NProbe \in Nat
  /\ {UseSafeOut, Stage1SafeIn, HasStage2, DeferUntilReady, EarlySubmit}
       \subseteq BOOLEAN
  /\ SafeInMode \in {"Static", "Frontier"}
  /\ SafeInDk \in Int
  /\ {MinProbes, StableProbes, AbsTol, RelTol, DeferInitial, DeferMax,
      SmallPool, Budget, EarlyInterval, EarlyCount, EarlyMax} \subseteq Nat

(* Single assignment: a record is in one block of one cluster. *)
ASSUME SingleAssignment ==
  \A c, d \in Clusters : \A B \in Blocks[c], C \in Blocks[d] :
    (c # d \/ B # C) => B \cap C = {}

(* The margins cover the error of the estimates.  The builder calibrates    *)
(* them to a percentile, so for a record outside it nothing is promised.    *)
ASSUME Calibrated ==
  \A s \in 1..2, r \in Records :
    Err[s][r] <= OutMargin[s][r] /\ Err[s][r] <= InMargin[s][r]

(* Inf is larger than any bound that is compared with it. *)
ASSUME InfIsLarge ==
  /\ -Inf < SafeInDk /\ SafeInDk < Inf
  /\ \A s \in 1..2, r \in Records :
       /\ Dist[r] + Err[s][r] + OutMargin[s][r] < Inf
       /\ -Inf < Dist[r] - Err[s][r] - OutMargin[s][r]
       /\ -Inf < Dist[r] - Err[s][r] + InMargin[s][r]
-----------------------------------------------------------------------------
(* T is what a heap of capacity n keeps of S: the smallest by key.  Ties    *)
(* are broken arbitrarily.                                                  *)
IsSmallest(T, S, n, key) ==
  /\ T \subseteq S
  /\ IF Cardinality(S) <= n THEN T = S ELSE Cardinality(T) = n
  /\ \A t \in T, s \in S \ T : key[t] <= key[s]

Smaller(m, n) == IF m <= n THEN m ELSE n
Larger(m, n) == IF m <= n THEN n ELSE m

(* The largest and smallest element of a finite set of integers. *)
MaxOf(S) == CHOOSE x \in S : \A y \in S : y <= x

Recs(S) == {e.rec : e \in S}

UpperOf(e) == e.est + e.err
LowerOf(e) == e.est - e.err
Uppers(S) == [e \in S |-> UpperOf(e)]
Lowers(S) == [e \in S |-> LowerOf(e)]
Ranks(S) == [p \in S |-> p.key]

(* AddSafeOutFrontierEstimate and AddSafeInFrontierEstimate, called for all *)
(* estimates of a cluster.                                                  *)
(* Seeded fault: the heap compares estimates instead of upper bounds. *)
AddSafeOutFrontierEstimatesByEst(heap) ==
  LET all == safeout_heap \cup estimates
  IN IsSmallest(heap, all, TopK, [e \in all |-> e.est])
AddSafeOutFrontierEstimates(heap) ==
  LET all == safeout_heap \cup estimates
  IN IsSmallest(heap, all, TopK, Uppers(all))

AddSafeInFrontierEstimates(heap) ==
  LET all == safein_heap \cup estimates
  IN IsSmallest(heap, all, TopK, Lowers(all))

(* SafeOutFrontierUpper, and the same with the flag off. *)
(* Seeded fault: the frontier is used before it holds TopK candidates. *)
SafeOutFrontierUpperEarly(heap) ==
  IF UseSafeOut /\ heap # {} THEN MaxOf({UpperOf(e) : e \in heap}) ELSE Inf
SafeOutFrontierUpper(heap) ==
  IF UseSafeOut /\ Cardinality(heap) >= TopK
    THEN MaxOf({UpperOf(e) : e \in heap}) ELSE Inf

SafeInFrontierLower(heap) ==
  IF UseFrontier /\ Cardinality(heap) >= TopK
    THEN MaxOf({LowerOf(e) : e \in heap}) ELSE Inf

SafeInThresholdForProbe ==
  CASE SafeInMode = "Static" -> SafeInDk
    [] SafeInMode = "Frontier" /\ ready /\ frontier # Inf -> frontier
    [] OTHER -> -Inf

Apart(m, n) == IF m <= n THEN n - m ELSE m - n

FrontierStable(f, last) ==
  \/ Apart(f, last) <= AbsTol
  \/ 1000 * Apart(f, last) <= RelTol * Apart(last, 0)

(* UpdateDynamicSafeInState with the SafeIn heap as it now is. *)
UpdateDynamicSafeInState(heap, advance) ==
  IF SafeInMode = "Static"
    THEN UNCHANGED safeinVars
    ELSE /\ probes_seen' = probes_seen + advance
         /\ frontier' = SafeInFrontierLower(heap)
         /\ stable_count' = CASE frontier' = Inf -> 0
                              [] frontier' # Inf /\ last_frontier # Inf
                                 /\ FrontierStable(frontier', last_frontier)
                                   -> stable_count + 1
                              [] OTHER -> 1
         /\ last_frontier' = IF frontier' = Inf THEN last_frontier ELSE frontier'
         /\ ready' = (/\ frontier' # Inf
                      /\ probes_seen' >= MinProbes
                      /\ stable_count' >= Larger(1, StableProbes))

ShouldDeferSafeInPlans ==
  /\ SafeInMode = "Frontier"
  /\ DeferInitial > 0 \/ DeferUntilReady
  /\ DeferMax = 0 \/ Cardinality(deferred) < DeferMax
  /\ \/ DeferInitial > 0 /\ probes_seen <= DeferInitial
     \/ extra_defer /\ DeferInitial > 0 /\ probes_seen <= DeferInitial + 1
     \/ DeferUntilReady /\ ~ready

(* The condition under which ShouldHoldDeferredSafeInPlans gives one more   *)
(* cluster to a small pool.                                                 *)
SmallPoolHolds ==
  /\ DeferInitial > 0 /\ probes_seen = DeferInitial
  /\ Cardinality(deferred) < SmallPool

(* ShouldHoldDeferredSafeInPlans after UpdateDynamicSafeInState. *)
ShouldHold(seen, isReady) ==
  /\ SafeInMode = "Frontier"
  /\ deferred # {}
  /\ \/ DeferInitial > 0 /\ seen < DeferInitial
     \/ SmallPoolHolds
     \/ DeferUntilReady /\ ~isReady

Emit(S) == [r \in Records |-> IF r \in S THEN plans[r] + 1 ELSE plans[r]]

(* New plans, [rec, key, all]: into the pending lists, or, under a budget,  *)
(* into the heap of the best estimated ones (AddBudgetedReadPlan).          *)
(* Seeded fault: the heap takes one plan more than the budget. *)
AddPlansOneMore(new) ==
  /\ whole' = whole \cup {p.rec : p \in {q \in new : q.all}}
  /\ \/ Budget = 0 /\ plans' = Emit(Recs(new)) /\ UNCHANGED budget_heap
     \/ /\ Budget > 0
        /\ \E keep \in SUBSET (budget_heap \cup new) :
             /\ IsSmallest(keep, budget_heap \cup new, Budget + 1,
                           Ranks(budget_heap \cup new))
             /\ budget_heap' = keep
        /\ UNCHANGED plans
AddPlans(new) ==
  /\ whole' = whole \cup {p.rec : p \in {q \in new : q.all}}
  /\ \/ Budget = 0 /\ plans' = Emit(Recs(new)) /\ UNCHANGED budget_heap
     \/ /\ Budget > 0
        /\ \E keep \in SUBSET (budget_heap \cup new) :
             /\ IsSmallest(keep, budget_heap \cup new, Budget,
                           Ranks(budget_heap \cup new))
             /\ budget_heap' = keep
        /\ UNCHANGED plans

(* FlushDeferredSafeInPlans: the deferred plans, decided by threshold t. *)
(* Seeded fault: flushed plans are ranked by their upper bounds. *)
DecidedByBound(t) ==
  {[rec |-> d.rec, key |-> d.bound,
    all |-> t # -Inf /\ d.rec \in Small /\ d.bound < t] : d \in deferred}
Decided(t) ==
  {[rec |-> d.rec, key |-> d.key,
    all |-> t # -Inf /\ d.rec \in Small /\ d.bound < t] : d \in deferred}

(* Seeded fault: the deferred plans are not cleared. *)
FlushDeferredKeeps(t) == AddPlans(Decided(t)) /\ UNCHANGED deferred
FlushDeferred(t) == AddPlans(Decided(t)) /\ deferred' = {}
-----------------------------------------------------------------------------
Init ==
  /\ pc = "idle"
  /\ todo = {} /\ blocks = {}
  /\ upper = Inf /\ threshold = Inf /\ estimates = {}
  /\ safeout_heap = {} /\ safein_heap = {} /\ merged = {}
  /\ probes_seen = 0 /\ stable_count = 0 /\ ready = FALSE
  /\ last_frontier = Inf /\ frontier = Inf
  /\ extra_defer = FALSE /\ deferred = {}
  /\ budget_heap = {} /\ emitted = {} /\ early_count = 0 /\ since_early = 0
  /\ plans = [r \in Records |-> 0]
  /\ scanned = {} /\ dropped = {} /\ whole = {}

(* Search resets the per-query state and selects the clusters to probe: at  *)
(* most NProbe, any of them and in any order, since the order is that of    *)
(* distances to centroids.                                                  *)
Search(S) ==
  /\ pc = "idle"
  /\ Cardinality(S) <= NProbe
  /\ todo' = S
  /\ safeout_heap' = {} /\ safein_heap' = {} /\ merged' = {}
  /\ probes_seen' = 0 /\ stable_count' = 0 /\ ready' = FALSE
  /\ last_frontier' = Inf /\ frontier' = Inf
  /\ extra_defer' = FALSE /\ deferred' = {}
  /\ budget_heap' = {} /\ emitted' = {} /\ early_count' = 0 /\ since_early' = 0
  /\ plans' = [r \in Records |-> 0]
  /\ scanned' = {} /\ dropped' = {} /\ whole' = {}
  /\ pc' = IF S = {} THEN "tail" ELSE "probe"
  /\ UNCHANGED <<blocks, upper, threshold, estimates>>

(* ProbeCluster up to the call of Probe: the frontier and the threshold are *)
(* taken once for the whole cluster.                                        *)
StartCluster(c) ==
  /\ pc = "probe"
  /\ c \in todo
  /\ todo' = todo \ {c}
  /\ blocks' = Blocks[c]
  /\ upper' = SafeOutFrontierUpper(safeout_heap)
  /\ UpdateDynamicSafeInState(safein_heap, 1)
  /\ threshold' = SafeInThresholdForProbe'
  /\ estimates' = {}
  /\ pc' = "scan"
  /\ UNCHANGED <<frontierVars, extra_defer, deferred, planVars, earlyVars,
                 scanned, dropped>>

(* The estimates of stage s that a record can have.  How the estimator      *)
(* computes one from codes and tables is left out: any value within Err of  *)
(* the distance, which covers whatever it returns for a calibrated record.  *)
Near(s, r) == (Dist[r] - Err[s][r])..(Dist[r] + Err[s][r])

(* Seeded faults: the comparisons leave out the margins. *)
SafeOutNoMargin(s, r, d) == d > upper
SafeInNoMargin(s, r, d) == d < threshold
SafeOutAt(s, r, d) == d - OutMargin[s][r] > upper
SafeInAt(s, r, d) == d + InMargin[s][r] < threshold

(* Probe of one block and OnCandidates for its survivors.  d1 and d2 are    *)
(* the estimates of the two stages; a record that stage 1 cannot decide has *)
(* stage 2's.  Skipping a whole block by its envelope is the case where     *)
(* every record of it is SafeOut.                                           *)
Scan(B, d1, d2) ==
  LET out1 == {r \in B : SafeOutAt(1, r, d1[r])}
      in1 == {r \in B \ out1 : Stage1SafeIn /\ SafeInAt(1, r, d1[r])}
      second == IF HasStage2 THEN B \ (out1 \cup in1) ELSE {}
      out2 == {r \in second : SafeOutAt(2, r, d2[r])}
      in2 == {r \in second \ out2 : SafeInAt(2, r, d2[r])}
      left == B \ (out1 \cup out2)
      stage(r) == IF r \in second THEN 2 ELSE 1
      d(r) == IF r \in second THEN d2[r] ELSE d1[r]
  IN /\ scanned' = scanned \cup B
     /\ dropped' = dropped \cup out1 \cup out2
     /\ estimates' = IF UseFrontier
          THEN estimates \cup {[rec |-> r, est |-> d(r),
                                err |-> OutMargin[stage(r)][r]] : r \in left}
          ELSE estimates
     /\ \/ /\ ShouldDeferSafeInPlans
           /\ deferred' = deferred \cup
                {[rec |-> r, key |-> d(r),
                  bound |-> d(r) + InMargin[stage(r)][r]] : r \in left}
           /\ UNCHANGED planVars
        \/ /\ ~ShouldDeferSafeInPlans
           /\ AddPlans({[rec |-> r, key |-> d(r),
                         all |-> r \in (in1 \cup in2) \cap Small] : r \in left})
           /\ UNCHANGED deferred

ScanBlock(B) ==
  /\ pc = "scan"
  /\ B \in blocks
  /\ blocks' = blocks \ {B}
  /\ \E d1 \in [B -> UNION {Near(1, r) : r \in B}],
        d2 \in [B -> UNION {Near(2, r) : r \in B}] :
       /\ \A r \in B : d1[r] \in Near(1, r) /\ d2[r] \in Near(2, r)
       /\ Scan(B, d1, d2)
  /\ UNCHANGED <<pc, todo, upper, threshold, frontierVars, safeinVars,
                 extra_defer, earlyVars>>

(* The sink's FinalizeCluster merges the estimates of the cluster.          *)
FinalizeCluster ==
  /\ merged' = merged \cup estimates
  /\ \E heap \in SUBSET (safeout_heap \cup estimates) :
       AddSafeOutFrontierEstimates(heap) /\ safeout_heap' = heap
  /\ \E heap \in SUBSET (safein_heap \cup estimates) :
       AddSafeInFrontierEstimates(heap) /\ safein_heap' = heap
  /\ estimates' = {}

(* The rest of ProbeCluster: the deferred plans are held or flushed, with   *)
(* the threshold of the frontier as it now is.                              *)
FinishCluster ==
  /\ pc = "scan"
  /\ blocks = {}
  /\ FinalizeCluster
  /\ UpdateDynamicSafeInState(safein_heap', 0)
  /\ since_early' = since_early + 1
  /\ pc' = "submit"
  /\ \/ /\ ShouldHold(probes_seen', ready')
        /\ extra_defer' = (extra_defer \/ SmallPoolHolds)
        /\ UNCHANGED <<deferred, planVars>>
     \/ /\ ~ShouldHold(probes_seen', ready')
        /\ extra_defer' = IF deferred = {} THEN extra_defer ELSE FALSE
        /\ IF SafeInThresholdForProbe' = -Inf
             THEN UNCHANGED <<deferred, planVars>>
             ELSE FlushDeferred(SafeInThresholdForProbe')
  /\ UNCHANGED <<todo, blocks, upper, threshold, emitted, early_count,
                 scanned, dropped>>

(* The plans in the budget heap that have not been emitted. *)
Unemitted == {p \in budget_heap : p.rec \notin emitted}

(* Seeded fault: only the count of one round limits early submissions. *)
EarlyRoomOfRound == EarlyCount
EarlyRoom == Smaller(EarlyCount, EarlyMax - early_count)

(* Seeded fault: what was submitted early is not marked as emitted. *)
EmitTopForgets(top) ==
  /\ plans' = Emit(Recs(top))
  /\ early_count' = early_count + Cardinality(top)
  /\ UNCHANGED emitted

(* EmitTopBudgetedReadPlans. *)
EmitTop(top) ==
  /\ plans' = Emit(Recs(top))
  /\ early_count' = early_count + Cardinality(top)
  /\ emitted' = emitted \cup Recs(top)

EarlySubmitDue ==
  /\ EarlySubmit /\ Budget > 0
  /\ Cardinality(budget_heap) >= Budget
  /\ since_early >= EarlyInterval

(* The end of one round of the loop over the clusters. *)
EarlySubmitPlans ==
  /\ pc = "submit"
  /\ \/ /\ EarlySubmitDue
        /\ \E top \in SUBSET Unemitted :
             /\ IsSmallest(top, Unemitted, EarlyRoom, Ranks(Unemitted))
             /\ EmitTop(top)
        /\ since_early' = 0
     \/ ~EarlySubmitDue /\ UNCHANGED <<plans, earlyVars>>
  /\ pc' = IF todo = {} THEN "tail" ELSE "probe"
  /\ UNCHANGED <<clusterVars, frontierVars, safeinVars, extra_defer, deferred,
                 budget_heap, whole, scanned, dropped>>

(* After the loop: FlushDeferredSafeInPlans with force. *)
(* Seeded fault: the last flush waits for a threshold like the others. *)
FlushTailUnforced ==
  /\ pc = "tail"
  /\ IF SafeInThresholdForProbe = -Inf
       THEN UNCHANGED <<deferred, planVars>>
       ELSE FlushDeferred(SafeInThresholdForProbe)
  /\ pc' = "materialize"
  /\ UNCHANGED <<clusterVars, frontierVars, safeinVars, extra_defer, earlyVars,
                 scanned, dropped>>
FlushTail ==
  /\ pc = "tail"
  /\ FlushDeferred(SafeInThresholdForProbe)
  /\ pc' = "materialize"
  /\ UNCHANGED <<clusterVars, frontierVars, safeinVars, extra_defer, earlyVars,
                 scanned, dropped>>

MaterializeBudgetedReadPlans ==
  /\ pc = "materialize"
  /\ plans' = Emit(Recs(Unemitted))
  /\ budget_heap' = {}
  /\ pc' = "idle"
  /\ UNCHANGED <<clusterVars, frontierVars, safeinVars, extra_defer, deferred,
                 whole, earlyVars, scanned, dropped>>

Next ==
  \/ \E S \in SUBSET Clusters : Search(S)
  \/ \E c \in todo : StartCluster(c)
  \/ \E B \in blocks : ScanBlock(B)
  \/ FinishCluster
  \/ EarlySubmitPlans
  \/ FlushTail
  \/ MaterializeBudgetedReadPlans

Spec == Init /\ [][Next]_vars
-----------------------------------------------------------------------------
Entry == [rec : Records, est : Int, err : Nat]

TypeOK ==
  /\ pc \in {"idle", "probe", "scan", "submit", "tail", "materialize"}
  /\ todo \subseteq Clusters
  /\ blocks \subseteq SUBSET Records
  /\ upper \in Int /\ threshold \in Int
  /\ estimates \subseteq Entry /\ merged \subseteq Entry
  /\ safeout_heap \subseteq Entry /\ safein_heap \subseteq Entry
  /\ probes_seen \in Nat /\ stable_count \in Nat /\ ready \in BOOLEAN
  /\ last_frontier \in Int /\ frontier \in Int
  /\ extra_defer \in BOOLEAN
  /\ deferred \subseteq [rec : Records, key : Int, bound : Int]
  /\ budget_heap \subseteq [rec : Records, key : Int, all : BOOLEAN]
  /\ emitted \subseteq Records
  /\ early_count \in 0..EarlyMax
  /\ since_early \in Nat
  /\ plans \in [Records -> Nat]
  /\ scanned \subseteq Records /\ dropped \subseteq Records
  /\ whole \subseteq Records

Closer(r, S) == {s \in S : Dist[s] < Dist[r]}

(* SafeOut never drops a record that could be among the results: at least   *)
(* TopK of the candidates merged so far are strictly closer.  The upper     *)
(* bound is that of the cluster's start, the candidates are of any earlier  *)
(* cluster, and the estimates may be of either stage.                       *)
SafeOutSound ==
  \A r \in dropped : Cardinality(Closer(r, Recs(merged))) >= TopK

(* The two frontiers, fed cluster by cluster, are those of all candidates   *)
(* of the query so far: its k smallest upper and lower bounds.              *)
FrontierIsKth ==
  /\ IsSmallest(safeout_heap, merged, TopK, Uppers(merged))
  /\ IsSmallest(safein_heap, merged, TopK, Lowers(merged))

(* What happens to a record that is held back.                              *)
Held == Recs(deferred) \cup (Recs(budget_heap) \ emitted)

(* Through deferral, flushes, early submission and the final               *)
(* materialization no record is planned twice, none that is still held is  *)
(* already planned, and without a budget none is lost.                      *)
EveryCandidateAccounted ==
  /\ \A r \in Records : plans[r] + (IF r \in Held THEN 1 ELSE 0) <= 1
  /\ \A r \in dropped : plans[r] = 0 /\ r \notin Held
  /\ Budget = 0 =>
       \A r \in scanned \ dropped : plans[r] = 1 \/ r \in Held

(* With a budget, a candidate is left unread only if Budget candidates      *)
(* with estimates at least as good are read.                                *)
BudgetKeepsBest ==
  pc = "idle" /\ Budget > 0 =>
    \A e \in merged : plans[e.rec] = 0 =>
      Cardinality({f \in merged : f.est <= e.est /\ plans[f.rec] = 1}) >= Budget

(* The vector reads of a query are bounded by the budget and the cap on     *)
(* early submissions together.                                              *)
Planned == {r \in Records : plans[r] > 0}
ReadsBounded == Budget > 0 => Cardinality(Planned) <= Budget + EarlyMax

(* The results are right whatever was pruned and deferred: at the end of a  *)
(* query without a budget, each scanned record is read, or TopK of the      *)
(* records that are read are strictly closer.                               *)
TopRecordsAreRead ==
  pc = "idle" /\ Budget = 0 =>
    \A r \in scanned :
      plans[r] = 1 \/ Cardinality(Closer(r, Planned)) >= TopK

(* In frontier mode a record whose payload is prefetched is one of the TopK *)
(* closest of everything scanned and merged when that is decided, even if   *)
(* it was deferred and decided against a later threshold.                   *)
SafeInSound ==
  [][SafeInMode = "Frontier" =>
       \A r \in whole' \ whole :
         Cardinality(Closer(r, Recs(merged'))) < TopK]_vars

Promise == INSTANCE PlanFeed
  WITH phase <- IF pc = "idle" THEN "rest" ELSE "feed",
       unprobed <- Records \ scanned,
       held <- Held,
       planned <- Planned

(* The planner keeps the promise of PlanFeed: through every deferral,       *)
(* eviction and early submission a record is planned once at most, and      *)
(* nothing stays held back when the query ends.                             *)
ImplementsPlanFeed == Promise!FeedSpec
=============================================================================
