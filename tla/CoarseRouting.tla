--------------------------- MODULE CoarseRouting ---------------------------
(***************************************************************************)
(* IvfIndex::FindNearestClusters: which clusters a query probes, and in     *)
(* which order.  Either every centroid is scored (exact routing), or the    *)
(* centroids are grouped under super centroids, only the children of the    *)
(* best super centroids are scored, and exact routing is the fallback       *)
(* (two-level routing).  The grouping is trained lazily, cached in the      *)
(* index and keyed by the number of super centroids, which the settings and *)
(* nprobe determine; the scheduler sets the settings again at every search. *)
(*                                                                         *)
(* Vectors are integer, so scores are exact; inner products are computed    *)
(* through the packed layout the kernels read.  The k-means training is     *)
(* external: different super centroids of SuperVectors, each cluster with a *)
(* nearest one, a super centroid possibly without any.  A query with        *)
(* nprobe = 0 is answered with nothing before anything is touched and is    *)
(* left out.                                                                *)
(***************************************************************************)
EXTENDS Arithmetic, FiniteSets

CONSTANTS
  NList,          \* clusters of the index
  CentroidDim,            \* components of a vector
  Centroids,      \* the centroid of each cluster
  Queries,        \* the query vectors
  SuperVectors,   \* what training may return as a super centroid
  RoutingMetrics,        \* requested metrics: subset of {"l2", "ip", "cosine"}
  Scale,          \* a normalised vector has this length
  CentroidBlock,  \* kCoarseCentroidBlock
  VecWidth,       \* kCoarseVecWidth
  NProbes, Thresholds, SuperCounts, SuperFactors, BudgetFactors

ASSUME RoutingAssumption ==
  /\ NList \in Nat \ {0} /\ CentroidDim \in Nat \ {0}
  /\ CentroidBlock \in Nat \ {0} /\ VecWidth \in Nat \ {0}
  /\ Centroids \in [0..(NList - 1) -> [0..(CentroidDim - 1) -> Int]]
  /\ Queries \cup SuperVectors \subseteq [0..(CentroidDim - 1) -> Int]
  /\ RoutingMetrics \subseteq {"l2", "ip", "cosine"} /\ Scale \in Nat
  /\ NProbes \subseteq Nat \ {0}
  /\ Thresholds \cup SuperCounts \cup SuperFactors \cup BudgetFactors \subseteq Nat

(* The bound of an integer model: vectors whose length is a whole number.   *)
ASSUME WholeLengths ==
  "cosine" \in RoutingMetrics =>
    \A v \in Queries \cup SuperVectors \cup {Centroids[c] : c \in 0..(NList - 1)} :
      Inner(v, v) # 0 => \E n \in 1..Inner(v, v) : n * n = Inner(v, v)

VARIABLES
  requested_metric,  \* the metric the index was built for
  select,            \* use_coarse_select_simd_ and ..._phase2_
  settings,          \* the two_level_coarse_* settings
  hierarchy,         \* coarse_hierarchy_
  answer             \* what the call just made returned: the clusters, and
                     \* the last_coarse_* diagnostics its caller reads next

routingVars == <<requested_metric, select, settings, hierarchy, answer>>

Clusters == 0..(NList - 1)
effective_metric == IF requested_metric = "l2" THEN "l2" ELSE "ip"
NoHierarchy == [ready |-> FALSE]
NoAnswer == [mode |-> "none"]
-----------------------------------------------------------------------------
(* Scores: smaller is nearer. *)
NormalizeVector(v) ==
  IF Inner(v, v) = 0 THEN v
  ELSE LET norm == CHOOSE n \in 1..Inner(v, v) : n * n = Inner(v, v)
       IN [d \in 0..(CentroidDim - 1) |-> (Scale * v[d]) \div norm]

(* What the kernels are given in place of a centroid or a query. *)
Seen(v) == IF requested_metric = "cosine" THEN NormalizeVector(v) ELSE v

L2Sqr(u, v) == SumTo(CentroidDim, LAMBDA d : (u[d] - v[d]) * (u[d] - v[d]))

DimBlocks == CeilDiv(CentroidDim, VecWidth)
BlockStride == DimBlocks * CentroidBlock * VecWidth

(* n centroids, CentroidBlock at a time and VecWidth components at a time,  *)
(* the missing lanes and components zero.                                   *)
BuildCoarsePackedLayout(src, n) ==
  [p \in 0..(CeilDiv(n, CentroidBlock) * BlockStride - 1) |->
     LET lane == (p \div VecWidth) % CentroidBlock
         db == (p \div (VecWidth * CentroidBlock)) % DimBlocks
         centroid == (p \div BlockStride) * CentroidBlock + lane
         d == db * VecWidth + (p % VecWidth)
     IN IF centroid < n /\ d < CentroidDim THEN src[centroid][d] ELSE 0]

QueryBuffer(q) ==
  [d \in 0..(DimBlocks * VecWidth - 1) |-> IF d < CentroidDim THEN Seen(q)[d] ELSE 0]

ComputeCoarseIPScores(query, layout, n) ==
  [c \in 0..(n - 1) |->
     LET lane == c % CentroidBlock
         block == (c \div CentroidBlock) * BlockStride
     IN -SumTo(DimBlocks * VecWidth, LAMBDA d :
           query[d] * layout[block + (d \div VecWidth) * CentroidBlock * VecWidth
                             + lane * VecWidth + (d % VecWidth)])]

IPScores(q, src, n) ==
  ComputeCoarseIPScores(Table(QueryBuffer(q)),
    Table(BuildCoarsePackedLayout([c \in 0..(n - 1) |-> Seen(src[c])], n)), n)

Scores(q) ==
  Table(IF effective_metric = "ip" THEN IPScores(q, Centroids, NList)
        ELSE [c \in Clusters |-> L2Sqr(q, Centroids[c])])
-----------------------------------------------------------------------------
(* Selection: the orders an unstable sort may produce. *)
SortedOrders(scores, S) ==
  {o \in SetToSeqs(S) :
     \A i \in 1..(Len(o) - 1) : scores[o[i]] <= scores[o[i + 1]]}

(* nth_element, then sort: the n best, ties broken any way. *)
SelectTopNProbeSmall(scores, count, n) ==
  UNION {SortedOrders(scores, S) :
           S \in {T \in kSubset(n, 0..(count - 1)) :
                    \A i \in T, j \in (0..(count - 1)) \ T : scores[i] <= scores[j]}}

(* A heap of n whose worst is replaced by each strictly better score. *)
HeapStep(scores, heaps, i) ==
  UNION {LET worst == {w \in h : \A j \in h : scores[j] <= scores[w]}
         IN IF \A w \in worst : scores[i] >= scores[w] THEN {h}
            ELSE {(h \ {w}) \cup {i} : w \in worst} : h \in heaps}

SelectTopNProbeSmallSpecialized(scores, count, n) ==
  IF n = 0 THEN {<<>>}
  ELSE UNION {SortedOrders(scores, h) :
                h \in Iterate(count - n, {0..(n - 1)},
                              LAMBDA heaps, k : HeapStep(scores, heaps, n + k))}

Select(scores, count, n) ==
  IF select = "phase2" THEN SelectTopNProbeSmallSpecialized(scores, count, n)
  ELSE SelectTopNProbeSmall(scores, count, n)

(* The n best of the children pushed; the order is total, so it is unique.  *)
TopKScoreLess(scores, c, d) ==
  scores[c] < scores[d] \/ (scores[c] = scores[d] /\ c < d)

SortedByScore(scores, S) ==
  CHOOSE o \in SetToSeqs(S) :
    \A i, j \in DOMAIN o : i < j => TopKScoreLess(scores, o[i], o[j])

PushChildTopK(scores, heap, n, child) ==
  LET worst == CHOOSE w \in heap : \A c \in heap \ {w} : TopKScoreLess(scores, c, w)
  IN IF Cardinality(heap) < n THEN heap \cup {child}
     ELSE IF TopKScoreLess(scores, child, worst)
          THEN (heap \ {worst}) \cup {child}
          ELSE heap
-----------------------------------------------------------------------------
(* Two-level settings. *)
Resolved(n) == AtMost(AtLeast(1, n), NList)

ResolveTwoLevelSuperCount(nprobe) ==
  IF settings.super_count > 0 THEN Resolved(settings.super_count)
  ELSE IF settings.super_factor > 0 /\ nprobe > 0
       THEN Resolved(settings.super_factor * nprobe)
       ELSE Resolved(CeilDiv(NList, 128))

ResolveTwoLevelCandidateBudget(nprobe) ==
  IF nprobe = 0 THEN 0 ELSE AtMost(NList, settings.budget_factor * nprobe)

UseTwoLevel ==
  /\ settings.enabled
  /\ NList > settings.threshold
  /\ effective_metric = "ip"

(* Enough super centroids to hold the budget, were they equally large. *)
SuperProbes(nprobe, n_super) ==
  LET avg_children == AtLeast(1, CeilDiv(NList, n_super))
  IN AtMost(n_super,
       AtLeast(1, CeilDiv(ResolveTwoLevelCandidateBudget(nprobe), avg_children)))
-----------------------------------------------------------------------------
(* The hierarchy. *)
(* A fault for the runs: the cache key lacks the super centroids. *)
CachedOnceReady(h, nprobe) == h.ready

Cached(h, nprobe) == h.ready /\ h.n_super = ResolveTwoLevelSuperCount(nprobe)

(* The counting sort of the clusters by their super centroid: the children  *)
(* of super centroid s are at offsets[s] + 1 .. offsets[s + 1].             *)
HierarchyOf(supers, assignments) ==
  LET n_super == Cardinality(DOMAIN supers)
  IN [ready |-> TRUE,
      n_super |-> n_super,
      supers |-> supers,
      child_offsets |->
        [s \in 0..n_super |-> Cardinality({c \in Clusters : assignments[c] < s})],
      child_ids |-> SortedByScore(assignments, Clusters)]

ChildIds(h, s) == SubSeq(h.child_ids, h.child_offsets[s] + 1, h.child_offsets[s + 1])
Children(h, s) == {h.child_ids[i] : i \in (h.child_offsets[s] + 1)..h.child_offsets[s + 1]}

(* A fault for the runs: a super centroid packs the first centroids. *)
FromFirstIds(ids) == [i \in 0..(Len(ids) - 1) |-> Centroids[i]]

(* The centroids that the layout of one super centroid's children packs.    *)
FromChildIds(ids) == [i \in 0..(Len(ids) - 1) |-> Centroids[ids[i + 1]]]

(* Training clusters by angle for cosine; it may also throw, or return      *)
(* arrays of the wrong size.                                                *)
Apart(v, c) ==
  IF requested_metric = "cosine" THEN -Inner(v, Seen(Centroids[c])) ELSE L2Sqr(v, Centroids[c])

NearestSupers(v, c) ==
  {s \in DOMAIN v : \A t \in DOMAIN v : Apart(v[s], c) <= Apart(v[t], c)}

Trained(nprobe) ==
  LET supers == 0..(ResolveTwoLevelSuperCount(nprobe) - 1)
  IN {NoHierarchy} \cup
     UNION {LET near == Table([c \in Clusters |-> NearestSupers(v, c)])
            IN {HierarchyOf(v, a) :
                  a \in {b \in [Clusters -> supers] : \A c \in Clusters : b[c] \in near[c]}} :
              v \in {w \in [supers -> SuperVectors] : IsInjective(w)}}

EnsureCoarseHierarchy(nprobe) ==
  IF Cached(hierarchy, nprobe) THEN hierarchy' = hierarchy
  ELSE hierarchy' \in Trained(nprobe)
-----------------------------------------------------------------------------
(* One query. *)
ExactAnswer(q, nprobe, fallback, result) ==
  [mode |-> "exact", query |-> q, nprobe |-> nprobe, candidates |-> Clusters,
   result |-> result, fallback |-> fallback]

FindNearestClustersExact(q, nprobe, fallback) ==
  \E scores \in {Scores(q)} :
    \E result \in Select(scores, NList, AtMost(nprobe, NList)) :
      answer' = ExactAnswer(q, nprobe, fallback, result)

(* How many of the n returned are also among the exact best n. *)
Overlap(q, n, result) ==
  IF settings.exact_overlap
  THEN {Cardinality(ToSet(o) \cap ToSet(result)) :
          o \in SelectTopNProbeSmall(Scores(q), NList, n)}
  ELSE {0}

(* The children of one super centroid, scored by their place in its layout. *)
ScoredChildren(q, ids) ==
  LET local == IPScores(q, FromChildIds(ids), Len(ids))
  IN {[child |-> ids[i], score |-> local[i - 1]] : i \in DOMAIN ids}

PushedChildren(h, probed) ==
  FlattenSeq([i \in 1..Len(probed) |-> ChildIds(h, probed[i])])

ChildScores(q, h, probed) ==
  LET scored == UNION {ScoredChildren(q, ChildIds(h, probed[i])) : i \in 1..Len(probed)}
  IN Table([c \in ToSet(PushedChildren(h, probed)) |->
              (CHOOSE e \in scored : e.child = c).score])

ScoreChildren(q, n, h, probed) ==
  LET order == PushedChildren(h, probed)
      scores == ChildScores(q, h, probed)
      topk == Iterate(Len(order), {}, LAMBDA heap, i :
                PushChildTopK(scores, heap, n, order[i + 1]))
  IN [candidates |-> ToSet(order), result |-> SortedByScore(scores, topk)]

(* Routed by hierarchy h, or exactly when its probed children are too few.  *)
RouteThrough(q, nprobe, h) ==
  LET n == AtMost(nprobe, NList)
      probes == SuperProbes(n, h.n_super)
  IN \E super_scores \in {IPScores(q, h.supers, h.n_super)} :
       \E probed \in SelectTopNProbeSmall(super_scores, h.n_super, probes) :
         \E scored \in {ScoreChildren(q, n, h, probed)} :
           \/ /\ Cardinality(scored.candidates) < n
              /\ FindNearestClustersExact(q, nprobe, TRUE)
           \/ /\ Cardinality(scored.candidates) >= n
              /\ \E overlap \in Overlap(q, n, scored.result) :
                   answer' =
                     [mode |-> "routed", query |-> q, nprobe |-> nprobe,
                      candidates |-> scored.candidates, result |-> scored.result,
                      super_probes |-> probes, overlap |-> overlap]

FindNearestClustersTwoLevel(q, nprobe) ==
  /\ EnsureCoarseHierarchy(nprobe)
  /\ \/ ~hierarchy'.ready /\ FindNearestClustersExact(q, nprobe, TRUE)
     \/ hierarchy'.ready /\ RouteThrough(q, nprobe, hierarchy')

FindExact(q, nprobe) ==
  /\ ~UseTwoLevel
  /\ FindNearestClustersExact(q, nprobe, FALSE)
  /\ UNCHANGED <<requested_metric, select, settings, hierarchy>>

FindTwoLevel(q, nprobe) ==
  /\ UseTwoLevel
  /\ FindNearestClustersTwoLevel(q, nprobe)
  /\ UNCHANGED <<requested_metric, select, settings>>

PrepareTwoLevelCoarseRouting(nprobe) ==
  /\ UseTwoLevel
  /\ EnsureCoarseHierarchy(nprobe)
  /\ answer' = NoAnswer
  /\ UNCHANGED <<requested_metric, select, settings>>

(* The overlap measurement is the one setting that keeps the hierarchy. *)
KeepsHierarchy(new) ==
  [new EXCEPT !.exact_overlap = settings.exact_overlap] = settings

SetTwoLevelCoarseRouting(new) ==
  /\ settings' = new
  /\ hierarchy' = IF KeepsHierarchy(new) THEN hierarchy ELSE NoHierarchy
  /\ answer' = NoAnswer
  /\ UNCHANGED <<requested_metric, select>>

SetUseCoarseSelect(mode) ==
  /\ select' = mode
  /\ answer' = NoAnswer
  /\ UNCHANGED <<requested_metric, settings, hierarchy>>

Settings ==
  [enabled : BOOLEAN, threshold : {AtLeast(1, t) : t \in Thresholds},
   super_count : SuperCounts, super_factor : SuperFactors,
   budget_factor : {AtLeast(1, b) : b \in BudgetFactors}, exact_overlap : BOOLEAN]

RoutingInit ==
  /\ requested_metric \in RoutingMetrics
  /\ select = "small"
  /\ settings = [enabled |-> FALSE, threshold |-> 4096, super_count |-> 0,
                 super_factor |-> 0, budget_factor |-> 8, exact_overlap |-> FALSE]
  /\ hierarchy = NoHierarchy
  /\ answer = NoAnswer

RoutingNext ==
  \/ \E new \in Settings : SetTwoLevelCoarseRouting(new)
  \/ \E mode \in {"small", "phase2"} : SetUseCoarseSelect(mode)
  \/ \E nprobe \in NProbes : PrepareTwoLevelCoarseRouting(nprobe)
  \/ \E q \in Queries, nprobe \in NProbes : FindExact(q, nprobe)
  \/ \E q \in Queries, nprobe \in NProbes : FindTwoLevel(q, nprobe)

RoutingSpec == RoutingInit /\ [][RoutingNext]_routingVars
-----------------------------------------------------------------------------
(* What the caller asked about. *)
Distance(q, c) ==
  IF effective_metric = "l2" THEN L2Sqr(q, Centroids[c])
  ELSE -Inner(Seen(q), Seen(Centroids[c]))

Nearer(q, c, d) == Distance(q, c) < Distance(q, d)

(* A query gets min(nprobe, nlist) different clusters, nearest first, and   *)
(* none it was not given is nearer than one it was - among all clusters     *)
(* under exact routing, among the children scored under two-level routing,  *)
(* whichever kernel scored and whichever selection sorted.                  *)
AnswerIsNearest ==
  answer # NoAnswer =>
  LET r == answer.result
      q == answer.query
  IN /\ Len(r) = AtMost(answer.nprobe, NList)
     /\ Cardinality(ToSet(r)) = Len(r)
     /\ \A i, j \in DOMAIN r : i < j => ~Nearer(q, r[j], r[i])
     /\ \A c \in answer.candidates \ ToSet(r), i \in DOMAIN r : ~Nearer(q, c, r[i])

(* A routed answer comes from the hierarchy the current settings ask for,   *)
(* never one cached for others; that hierarchy holds every cluster once;    *)
(* and the super centroids probed are its nearest, as many as would fill    *)
(* the candidate budget if the clusters were spread evenly.                 *)
RoutedByCurrentHierarchy ==
  [][(answer' # answer /\ answer'.mode = "routed") =>
       LET h == hierarchy'
           supers == 0..(h.n_super - 1)
           probed == {s \in supers : Children(h, s) \cap answer'.candidates # {}}
           SuperDistance(s) == -Inner(Seen(answer'.query), Seen(h.supers[s]))
       IN /\ h.ready /\ h.n_super = ResolveTwoLevelSuperCount(answer'.nprobe)
          /\ \A c \in Clusters : Cardinality({s \in supers : c \in Children(h, s)}) = 1
          /\ answer'.candidates = UNION {Children(h, s) : s \in probed}
          /\ \A s \in probed, t \in supers \ probed :
               Children(h, t) = {} \/ SuperDistance(s) <= SuperDistance(t)
          /\ \/ answer'.super_probes = h.n_super
             \/ answer'.super_probes * CeilDiv(NList, h.n_super)
                  >= ResolveTwoLevelCandidateBudget(answer'.nprobe)]_routingVars

=============================================================================
