--------------------------- MODULE OverlapScheduler ---------------------------
(***************************************************************************)
(* OverlapScheduler::Search (src/query/overlap_scheduler.cpp): one thread   *)
(* that answers queries one after the other, overlapping the probing of     *)
(* clusters with the reads of the candidates it has already found.          *)
(*                                                                         *)
(* The state is the scheduler's: the read plans not yet issued, the table   *)
(* of pending slots whose indices are the tokens of the reads, the free     *)
(* lists of the three kinds of read buffer, and what RerankConsumer keeps   *)
(* (candidates with a copy of their vector, the payload cache).  The reader *)
(* and the pool are the modules IoUringReader and BufferPool.               *)
(*                                                                         *)
(* pc is the place in Search.  The loops that issue, collect and dispatch   *)
(* reads take one step per iteration, because the kernel runs between them. *)
(* Which candidates a probed cluster yields, which plans the deferral and   *)
(* the budget hold back, and which candidates rank among the top k depend   *)
(* on distances this module does not have: they are chosen arbitrarily, the *)
(* plans within what PlanFeed allows, which ReadPlanner is shown to keep.   *)
(***************************************************************************)
EXTENDS Integers, FiniteSets

CONSTANTS
  Records,       \* the records of the data file
  PayloadBytes,  \* [Records -> Nat]: addr.size - vec_bytes_, 0 = no payload
  VecBytes,      \* vec_bytes_
  SafeInAllThreshold, \* largest record that is read in one piece
  NProbe,        \* clusters probed by a query
  SubmitBatch,   \* submit_batch_size, 0 = only at the last cluster
  FlushThreshold,\* kPendingRequestFlushThreshold
  TopK,          \* top_k
  Slots,         \* indices of pending_slots_
  Buffers, PageSize,
  FixedBufs,     \* registered vector buffers; {} when the slab is disabled
  PrimedBufs,    \* buffers the constructor primes the pool with
  NoData, Free, NoBuf,
  QueueDepth, MaxBatch, CounterModulus, SubmitMayFallShort, ReadMayFail,
  IdBound        \* bound of the model: no search starts beyond this SQE id

VARIABLES
  sq, kernel, cq, in_flight, prepped, next_id, comps, mem,  \* reader
  heap, pool, capacity, outstanding,                        \* buffer_pool_
  pc,
  clusters_left, \* sorted_clusters not yet probed
  unprobed,      \* records of clusters not yet probed
  held,          \* candidates in the deferred list or the budget heap
  pending_all,   \* pending_all_plans_
  pending_vec,   \* pending_vec_only_plans_ from its head on
  planned,       \* auxiliary: every record planned to be read, this query
  slots,         \* pending_slots_: Free, or the pending read
  nslots,        \* pending_slots_.size()
  free_slots,    \* [Slots -> Nat]: free_pending_slots_ as a bag
  free_fixed,    \* [Buffers -> Nat]: free_fixed_vec_buffers_ as a bag
  free_vec,      \* [Buffers -> Nat]: free_vec_only_buffers_ as a bag
  buffered,      \* [Records -> Nat]: times in buffered_candidates_
  vec,           \* [Records -> Records \cup {NoData}]: whose vector was copied
  cache,         \* payload_cache_: NoData, or the buffer and whose payload
  results,       \* the entries of the finalized collector
  to_fetch,      \* results whose payload read is still to be prepared
  answer         \* [Records -> Records \cup {NoData}]: payloads returned

IoTypes == {"VEC_ONLY", "VEC_ALL", "PAYLOAD"}

(* What a read brings in: the record, and which part of it. *)
Extent == [rec : Records, type : IoTypes]

INSTANCE IoUringReader WITH Tokens <- Slots, Extents <- Extent
INSTANCE BufferPool

ringVars == <<sq, kernel, cq, in_flight, prepped, next_id, comps, mem>>
slotVars == <<slots, nslots, free_slots>>
bufVars == <<heap, pool, capacity, outstanding, free_fixed, free_vec>>
planVars == <<clusters_left, unprobed, held, pending_all, pending_vec, planned>>
rerankVars == <<buffered, vec, cache>>
resultVars == <<results, to_fetch, answer>>
vars == <<ringVars, slotVars, bufVars, planVars, rerankVars, resultVars, pc>>

ASSUME SchedulerAssumption ==
  /\ IsFiniteSet(Records)
  /\ PayloadBytes \in [Records -> Nat]
  /\ VecBytes \in Nat \ {0}
  /\ SafeInAllThreshold \in Nat
  /\ NProbe \in Nat
  /\ SubmitBatch \in Nat
  /\ FlushThreshold \in Nat \ {0}
  /\ TopK \in Nat \ {0}
  /\ Slots \subseteq Nat /\ IsFiniteSet(Slots)
  /\ PageSize \in Nat \ {0}
  /\ QueueDepth \in Nat \ {0}
  /\ MaxBatch \in Nat \ {0}
  /\ CounterModulus \in Nat \ {0}
  /\ SubmitMayFallShort \in BOOLEAN
  /\ ReadMayFail \in BOOLEAN
  /\ FixedBufs \subseteq Buffers
  /\ PrimedBufs \subseteq Buffers
  /\ FixedBufs \cap PrimedBufs = {}
  /\ NoBuf \notin Buffers
  /\ NoData \notin Records
  /\ IdBound \in Nat

Slot == [buf : Buffers, cleanup : {"FixedVec", "VecPool", "Pool"},
         type : IoTypes, rec : Records]

ASSUME SentinelAssumption ==
  /\ Free \notin Slot
  /\ NoData \notin [buf : Buffers \cup {NoBuf}, rec : Records \cup {NoData}]
  /\ NoData \notin Extent
-----------------------------------------------------------------------------
Pcs == {"idle", "probe", "emit", "poll", "tail", "tail_emit", "drain",
        "drain_poll", "rerank", "fetch", "fetch_drain", "fetch_poll",
        "assemble", "aborted"}

PlanTypeOK ==
  /\ clusters_left \in Nat
  /\ unprobed \subseteq Records
  /\ held \subseteq Records
  /\ pending_all \subseteq Records
  /\ pending_vec \subseteq Records
  /\ planned \subseteq Records

SlotTypeOK ==
  /\ slots \in [Slots -> Slot \cup {Free}]
  /\ nslots \in Nat
  /\ free_slots \in [Slots -> Nat]

BufTypeOK ==
  /\ PoolTypeOK
  /\ free_fixed \in [Buffers -> Nat]
  /\ free_vec \in [Buffers -> Nat]

Cached == [buf : Buffers \cup {NoBuf}, rec : Records \cup {NoData}]

RerankTypeOK ==
  /\ buffered \in [Records -> Nat]
  /\ vec \in [Records -> Records \cup {NoData}]
  /\ cache \in [Records -> Cached \cup {NoData}]

ResultTypeOK ==
  /\ results \subseteq Records
  /\ to_fetch \subseteq Records
  /\ answer \in [Records -> Records \cup {NoData}]

TypeOK ==
  /\ ReaderTypeOK
  /\ SlotTypeOK
  /\ BufTypeOK
  /\ PlanTypeOK
  /\ RerankTypeOK
  /\ ResultTypeOK
  /\ pc \in Pcs

NoRecordData == [r \in Records |-> NoData]

(* The state the constructor leaves behind. *)
Init ==
  /\ ReaderInit
  /\ PoolInit(PrimedBufs, FixedBufs, VecBytes)
  /\ free_fixed = [b \in Buffers |-> IF b \in FixedBufs THEN 1 ELSE 0]
  /\ free_vec = [b \in Buffers |-> 0]
  /\ slots = [s \in Slots |-> Free]
  /\ nslots = 0
  /\ free_slots = [s \in Slots |-> 0]
  /\ clusters_left = 0
  /\ unprobed = {} /\ held = {} /\ planned = {}
  /\ pending_all = {} /\ pending_vec = {}
  /\ buffered = [r \in Records |-> 0]
  /\ vec = NoRecordData /\ cache = NoRecordData /\ answer = NoRecordData
  /\ results = {} /\ to_fetch = {}
  /\ pc = "idle"
-----------------------------------------------------------------------------
(* Slots and buffers.                                                       *)

InUse == {s \in Slots : slots[s] # Free}

(* Seeded fault: the index taken from the free list stays on it. *)
AllocateSlotKeepsIndex(s, slot) ==
  /\ slots' = [slots EXCEPT ![s] = slot]
  /\ \/ free_slots[s] > 0 /\ UNCHANGED <<nslots, free_slots>>
     \/ /\ \A t \in Slots : free_slots[t] = 0
        /\ s = nslots
        /\ nslots' = nslots + 1
        /\ UNCHANGED free_slots

(* AllocatePendingSlot and AllocateVectorOnlyPendingSlot return s: an index *)
(* from the free list, or one more slot at the end of the table.            *)
AllocateSlot(s, slot) ==
  /\ slots' = [slots EXCEPT ![s] = slot]
  /\ \/ /\ free_slots[s] > 0
        /\ free_slots' = [free_slots EXCEPT ![s] = @ - 1]
        /\ UNCHANGED nslots
     \/ /\ \A t \in Slots : free_slots[t] = 0
        /\ s = nslots
        /\ nslots' = nslots + 1
        /\ UNCHANGED free_slots

(* ReleasePendingSlot for every index of S. *)
ReleaseSlots(S) ==
  /\ slots' = [s \in Slots |-> IF s \in S THEN Free ELSE slots[s]]
  /\ free_slots' = [s \in Slots |->
                      IF s \in S THEN free_slots[s] + 1 ELSE free_slots[s]]
  /\ UNCHANGED nslots

(* The slots of S whose buffer is b and goes back by this kind of cleanup.  *)
Returning(S, b, kind) ==
  {s \in S : slots[s].buf = b /\ slots[s].cleanup = kind}

(* Seeded fault: the switch forgets the vector-only buffers. *)
ReturnBuffersNotVecPool(S) ==
  /\ free_fixed' = [b \in Buffers |->
                      free_fixed[b] + Cardinality(Returning(S, b, "FixedVec"))]
  /\ Release({b \in Buffers : Returning(S, b, "Pool") # {}})
  /\ UNCHANGED <<heap, capacity, free_vec>>

(* The cleanup switch of CleanupPendingSlot and                             *)
(* ReleaseVectorOnlyPendingSlot, for every slot of S: each buffer goes back *)
(* to the free list its slot names.                                         *)
ReturnBuffers(S) ==
  /\ free_fixed' = [b \in Buffers |->
                      free_fixed[b] + Cardinality(Returning(S, b, "FixedVec"))]
  /\ free_vec' = [b \in Buffers |->
                      free_vec[b] + Cardinality(Returning(S, b, "VecPool"))]
  /\ Release({b \in Buffers : Returning(S, b, "Pool") # {}})
  /\ UNCHANGED <<heap, capacity>>

(* Seeded fault: buffers are returned, slots are not released. *)
CleanupKeepsSlots == ReturnBuffers(InUse) /\ UNCHANGED slotVars

(* CleanupPendingSlots. *)
CleanupPendingSlots == ReturnBuffers(InUse) /\ ReleaseSlots(InUse)

(* TryAcquireFixedVecBuffer, then AcquireVecOnlyBuffer when that fails: the *)
(* vector read gets buffer b and its slot the cleanup `kind'.               *)
AcquireVecBuffer(b, kind) ==
  /\ UNCHANGED <<pool, capacity, outstanding>>
  /\ \/ /\ kind = "FixedVec"
        /\ free_fixed[b] > 0
        /\ free_fixed' = [free_fixed EXCEPT ![b] = @ - 1]
        /\ UNCHANGED <<heap, free_vec>>
     \/ /\ kind = "VecPool"
        /\ \A c \in Buffers : free_fixed[c] = 0
        /\ free_vec[b] > 0
        /\ free_vec' = [free_vec EXCEPT ![b] = @ - 1]
        /\ UNCHANGED <<heap, free_fixed>>
     \/ /\ kind = "VecPool"
        /\ \A c \in Buffers : free_fixed[c] = 0 /\ free_vec[c] = 0
        /\ Allocated(b, AlignUp(VecBytes))
        /\ UNCHANGED <<free_fixed, free_vec>>

Length(r, type) ==
  CASE type = "VEC_ONLY" -> VecBytes
    [] type = "VEC_ALL"  -> VecBytes + PayloadBytes[r]
    [] type = "PAYLOAD"  -> PayloadBytes[r]

(* Issue one read: buffer, slot, SQE.  An error of the prep aborts the      *)
(* process (CheckPrepRead).                                                 *)
IssueRead(r, type, s, b, kind) ==
  /\ AllocateSlot(s, [buf |-> b, cleanup |-> kind, type |-> type, rec |-> r])
  /\ PrepReadTagged(s, b, [rec |-> r, type |-> type])

IssuePoolRead(r, type, s, b) ==
  /\ Acquire(b, Length(r, type))
  /\ UNCHANGED <<free_fixed, free_vec>>
  /\ IssueRead(r, type, s, b, "Pool")
-----------------------------------------------------------------------------
(* Search: reset the per-query state, then select clusters.  The ids of     *)
(* SQEs start again when no request is left.                                *)
StartSearch ==
  /\ pc = "idle"
  /\ Requests = {} \/ next_id <= IdBound
  /\ CleanupPendingSlots
  /\ clusters_left' = NProbe
  /\ unprobed' = Records
  /\ held' = {} /\ planned' = {} /\ pending_all' = {} /\ pending_vec' = {}
  /\ buffered' = [r \in Records |-> 0]
  /\ vec' = NoRecordData /\ cache' = NoRecordData /\ answer' = NoRecordData
  /\ results' = {} /\ to_fetch' = {}
  /\ next_id' = IF Requests = {} THEN 0 ELSE next_id
  /\ UNCHANGED <<sq, kernel, cq, in_flight, prepped, comps, mem>>
  /\ pc' = IF NProbe = 0 THEN "tail" ELSE "probe"

PendingCount(all, only) == Cardinality(all) + Cardinality(only)

(* The submit window is flushed when it is full, and at the last cluster.   *)
WindowReady(count, final) ==
  /\ count > 0
  /\ final \/ count >= FlushThreshold \/ (SubmitBatch > 0 /\ count >= SubmitBatch)

(* A record is read in one piece only when it is small enough. *)
MayReadAll(r) == VecBytes + PayloadBytes[r] <= SafeInAllThreshold

(* ProbeResidentClusters, one iteration: probing a cluster with records C   *)
(* plans reads A (whole records) and V (vectors) and holds back H, from     *)
(* among C and what was held back before; the rest of C is SafeOut.         *)
ProbeCluster(C, A, V, H) ==
  /\ pc = "probe" /\ comps = {}
  /\ A \cup V \cup H \subseteq C \cup held
  /\ A \cap V = {} /\ H \cap (A \cup V) = {}
  /\ \A r \in A : MayReadAll(r)
  /\ unprobed' = unprobed \ C
  /\ held' = H
  /\ pending_all' = pending_all \cup A
  /\ pending_vec' = pending_vec \cup V
  /\ planned' = planned \cup A \cup V
  /\ clusters_left' = clusters_left - 1
  /\ pc' = CASE WindowReady(PendingCount(pending_all', pending_vec'),
                            clusters_left = 1) -> "emit"
             [] clusters_left > 1 -> "probe"
             [] OTHER -> "tail"
  /\ UNCHANGED <<ringVars, slotVars, bufVars, rerankVars, resultVars>>

Probe ==
  \E C \in SUBSET unprobed :
    \E A \in SUBSET (C \cup held) :
      \E V \in SUBSET (C \cup held) :
        \E H \in SUBSET (C \cup held) : ProbeCluster(C, A, V, H)

(* Seeded fault: what was held back is planned but never issued. *)
FlushHeldUnissued(A, V) ==
  /\ pc = "tail" /\ comps = {}
  /\ A \cup V \subseteq held /\ A \cap V = {}
  /\ \A r \in A : MayReadAll(r)
  /\ held' = {}
  /\ pending_all' = pending_all \cup A
  /\ pending_vec' = pending_vec \cup V
  /\ planned' = planned \cup A \cup V
  /\ pc' = "drain"
  /\ UNCHANGED <<ringVars, slotVars, bufVars, rerankVars, resultVars,
                 clusters_left, unprobed>>

(* The end of ProbeResidentClusters: what is still deferred or in the       *)
(* budget heap becomes a plan, or is dropped by the budget.                 *)
FlushHeld(A, V) ==
  /\ pc = "tail" /\ comps = {}
  /\ A \cup V \subseteq held /\ A \cap V = {}
  /\ \A r \in A : MayReadAll(r)
  /\ held' = {}
  /\ pending_all' = pending_all \cup A
  /\ pending_vec' = pending_vec \cup V
  /\ planned' = planned \cup A \cup V
  /\ pc' = IF PendingCount(pending_all', pending_vec') > 0
             THEN "tail_emit" ELSE "drain"
  /\ UNCHANGED <<ringVars, slotVars, bufVars, rerankVars, resultVars,
                 clusters_left, unprobed>>

FlushTail == \E A \in SUBSET held : \E V \in SUBSET held : FlushHeld(A, V)

Emitting == pc \in {"emit", "tail_emit"} /\ comps = {}

(* EmitPendingDataRequests, emit_all: one whole-record read. *)
EmitAll(r, s, b) ==
  /\ Emitting
  /\ r \in pending_all
  /\ pending_all' = pending_all \ {r}
  /\ IssuePoolRead(r, "VEC_ALL", s, b)
  /\ UNCHANGED <<rerankVars, resultVars, clusters_left, unprobed, held,
                 pending_vec, planned, pc>>

(* EmitPendingDataRequests, emit_vec_only: one vector read, after all the   *)
(* whole-record reads.                                                      *)
EmitVecOnly(r, s, b, kind) ==
  /\ Emitting
  /\ pending_all = {}
  /\ r \in pending_vec
  /\ pending_vec' = pending_vec \ {r}
  /\ AcquireVecBuffer(b, kind)
  /\ IssueRead(r, "VEC_ONLY", s, b, kind)
  /\ UNCHANGED <<rerankVars, resultVars, clusters_left, unprobed, held,
                 pending_all, planned, pc>>

(* record_submit, once everything pending has been emitted. *)
SubmitWindow ==
  /\ Emitting
  /\ pending_all = {} /\ pending_vec = {}
  /\ Submit
  /\ pc' = IF pc = "emit" THEN "poll" ELSE "drain"
  /\ UNCHANGED <<slotVars, bufVars, planVars, rerankVars, resultVars>>

(* Seeded fault: the window of the last cluster is entered again. *)
PollWindowAgain ==
  /\ pc = "poll"
  /\ Poll
  /\ pc' = IF clusters_left = 0 THEN "emit" ELSE "probe"
  /\ UNCHANGED <<slotVars, bufVars, planVars, rerankVars, resultVars>>

(* drain_reader without waiting, between two clusters. *)
PollWindow ==
  /\ pc = "poll"
  /\ Poll
  /\ pc' = IF clusters_left = 0 THEN "tail" ELSE "probe"
  /\ UNCHANGED <<slotVars, bufVars, planVars, rerankVars, resultVars>>
-----------------------------------------------------------------------------
(* What ConsumeVec and ConsumeAll copy from the front of a buffer, and what *)
(* is at the place of the payload.                                          *)
VectorIn(content) ==
  IF content # NoData /\ content.type \in {"VEC_ONLY", "VEC_ALL"}
    THEN content.rec ELSE NoData

PayloadIn(content, type) ==
  IF content # NoData /\ content.type = type THEN content.rec ELSE NoData

(* ConsumeVec and the common part of ConsumeAll. *)
BufferCandidate(r, content) ==
  /\ buffered' = [buffered EXCEPT ![r] = @ + 1]
  /\ vec' = [vec EXCEPT ![r] = VectorIn(content)]

(* DispatchCompletion of completion q.  The token names the slot; a token   *)
(* whose slot is not in use is dropped.                                     *)
Dispatch(q) ==
  /\ q \in comps
  /\ comps' = comps \ {q}
  /\ LET slot == slots[q.tok] IN
       \/ /\ slot = Free
          /\ UNCHANGED <<slotVars, bufVars, rerankVars>>
       \/ /\ slot # Free
          /\ slot.type = "VEC_ONLY"
          /\ BufferCandidate(slot.rec, mem[slot.buf])
          /\ UNCHANGED cache
          /\ ReturnBuffers({q.tok})
          /\ ReleaseSlots({q.tok})
       \/ /\ slot # Free
          /\ slot.type = "VEC_ALL"
          /\ BufferCandidate(slot.rec, mem[slot.buf])
          /\ cache' = IF PayloadBytes[slot.rec] = 0 THEN cache
                      ELSE [cache EXCEPT ![slot.rec] =
                              [buf |-> NoBuf,
                               rec |-> PayloadIn(mem[slot.buf], "VEC_ALL")]]
          /\ ReturnBuffers({q.tok})
          /\ ReleaseSlots({q.tok})
       \/ /\ slot # Free
          /\ slot.type = "PAYLOAD"
          /\ cache' = [cache EXCEPT ![slot.rec] =
                         [buf |-> slot.buf,
                          rec |-> PayloadIn(mem[slot.buf], "PAYLOAD")]]
          /\ UNCHANGED <<buffered, vec, bufVars>>
          /\ ReleaseSlots({q.tok})
  /\ UNCHANGED <<sq, kernel, cq, in_flight, prepped, next_id, mem,
                 planVars, resultVars, pc>>

(* FinalDrain and the tail of FetchMissingPayloads: wait while requests are *)
(* in flight ...                                                            *)
DrainWait ==
  /\ pc \in {"drain", "fetch_drain"}
  /\ WaitAndPoll
  /\ UNCHANGED <<slotVars, bufVars, planVars, rerankVars, resultVars, pc>>

(* ... then poll until nothing is delivered any more. *)
DrainPoll ==
  /\ \/ pc \in {"drain", "fetch_drain"} /\ in_flight = 0
     \/ pc \in {"drain_poll", "fetch_poll"}
  /\ cq # {}
  /\ Poll
  /\ pc' = IF pc \in {"drain", "drain_poll"} THEN "drain_poll" ELSE "fetch_poll"
  /\ UNCHANGED <<slotVars, bufVars, planVars, rerankVars, resultVars>>

(* Seeded fault: the drain polls and does not wait. *)
DrainDoneEarly ==
  /\ pc \in {"drain", "drain_poll"}
  /\ cq = {} /\ comps = {}
  /\ CleanupPendingSlots
  /\ pc' = "rerank"
  /\ UNCHANGED <<ringVars, planVars, rerankVars, resultVars>>

(* The end of FinalDrain. *)
DrainDone ==
  /\ \/ pc = "drain" /\ in_flight = 0
     \/ pc = "drain_poll"
  /\ cq = {} /\ comps = {}
  /\ CleanupPendingSlots
  /\ pc' = "rerank"
  /\ UNCHANGED <<ringVars, planVars, rerankVars, resultVars>>

Smaller(m, n) == IF m <= n THEN m ELSE n

(* ExecuteBuffered and Finalize: the best min(TopK, count) candidates. *)
ExecuteBuffered(top) ==
  /\ pc = "rerank"
  /\ LET found == {r \in Records : buffered[r] > 0} IN
       /\ top \subseteq found
       /\ Cardinality(top) = Smaller(TopK, Cardinality(found))
  /\ results' = top
  /\ to_fetch' = {r \in top : cache[r] = NoData /\ PayloadBytes[r] > 0}
  /\ buffered' = [r \in Records |-> 0]
  /\ pc' = "fetch"
  /\ UNCHANGED <<ringVars, slotVars, bufVars, planVars, vec, cache, answer>>

(* FetchMissingPayloads, one entry. *)
FetchPayload(r, s, b) ==
  /\ pc = "fetch"
  /\ r \in to_fetch
  /\ to_fetch' = to_fetch \ {r}
  /\ IssuePoolRead(r, "PAYLOAD", s, b)
  /\ UNCHANGED <<planVars, rerankVars, results, answer, pc>>

FetchSubmit ==
  /\ pc = "fetch"
  /\ to_fetch = {}
  /\ \/ /\ prepped > 0 \/ in_flight > 0
        /\ Submit
        /\ pc' = "fetch_drain"
     \/ /\ prepped = 0 /\ in_flight = 0
        /\ UNCHANGED ringVars
        /\ pc' = "assemble"
  /\ UNCHANGED <<slotVars, bufVars, planVars, rerankVars, resultVars>>

(* Seeded fault: payloads are submitted and not waited for. *)
FetchDoneEarly ==
  /\ pc \in {"fetch_drain", "fetch_poll"}
  /\ cq = {} /\ comps = {}
  /\ pc' = "assemble"
  /\ UNCHANGED <<ringVars, slotVars, bufVars, planVars, rerankVars, resultVars>>

FetchDone ==
  /\ \/ pc = "fetch_drain" /\ in_flight = 0
     \/ pc = "fetch_poll"
  /\ cq = {} /\ comps = {}
  /\ pc' = "assemble"
  /\ UNCHANGED <<ringVars, slotVars, bufVars, planVars, rerankVars, resultVars>>

CachedBuffers == {cache[r].buf : r \in {x \in Records : cache[x] # NoData}}

(* AssembleResults, and the end of Search, which frees the payload cache    *)
(* together with the reranker.                                              *)
AssembleResults ==
  /\ pc = "assemble"
  /\ answer' = [r \in Records |->
                  IF r \in results /\ cache[r] # NoData THEN cache[r].rec ELSE NoData]
  /\ cache' = NoRecordData
  /\ FreeAll(CachedBuffers)
  /\ pc' = "idle"
  /\ UNCHANGED <<ringVars, slotVars, planVars, pool, capacity, outstanding,
                 free_fixed, free_vec, buffered, vec, results, to_fetch>>

(* CheckPrepRead aborts the process when a prep fails. *)
Abort ==
  /\ \/ Emitting /\ PendingCount(pending_all, pending_vec) > 0
     \/ pc = "fetch" /\ to_fetch # {}
  /\ PrepReadFails
  /\ pc' = "aborted"
  /\ UNCHANGED <<ringVars, slotVars, bufVars, planVars, rerankVars, resultVars>>

(* The kernel, which runs on after an abort too. *)
Kernel(r) ==
  /\ KernelComplete(r)
  /\ UNCHANGED <<slotVars, bufVars, planVars, rerankVars, resultVars, pc>>
-----------------------------------------------------------------------------
Scheduler ==
  \/ StartSearch
  \/ Probe
  \/ FlushTail
  \/ \E r \in Records, s \in Slots, b \in Buffers :
       \/ EmitAll(r, s, b)
       \/ \E kind \in {"FixedVec", "VecPool"} : EmitVecOnly(r, s, b, kind)
       \/ FetchPayload(r, s, b)
  \/ SubmitWindow
  \/ PollWindow
  \/ \E q \in comps : Dispatch(q)
  \/ DrainWait
  \/ DrainPoll
  \/ DrainDone
  \/ \E top \in SUBSET Records : ExecuteBuffered(top)
  \/ FetchSubmit
  \/ FetchDone
  \/ AssembleResults
  \/ Abort

Next == Scheduler \/ \E r \in kernel : Kernel(r)

Spec == Init /\ [][Next]_vars

(* The one thread of Search keeps running, and the kernel finishes every    *)
(* read it has taken.                                                       *)
FairSpec ==
  Spec /\ WF_vars(Scheduler) /\ WF_vars(\E r \in kernel : Kernel(r))
-----------------------------------------------------------------------------
(* What must hold.                                                          *)

FreeCount(b) == free_fixed[b] + free_vec[b] + pool[b]

(* The records whose cached payload lives in a buffer of its own. *)
CacheOwners == {r \in Records : cache[r] # NoData /\ cache[r].buf # NoBuf}

(* A buffer is in the hands of at most one party: on one free list, once;   *)
(* with one pending slot; or in the payload cache.  Returning a buffer      *)
(* twice (DispatchCompletion and then CleanupPendingSlots), to the wrong    *)
(* list, or caching one that also goes back to the pool, breaks it.         *)
BufferHasOneOwner ==
  /\ \A b \in Buffers : FreeCount(b) <= 1
  /\ \A s \in InUse : FreeCount(slots[s].buf) = 0
  /\ \A s, t \in InUse : s # t => slots[s].buf # slots[t].buf
  /\ \A r \in CacheOwners : FreeCount(cache[r].buf) = 0
  /\ \A r, q \in CacheOwners : r # q => cache[r].buf # cache[q].buf
  /\ \A r \in CacheOwners, s \in InUse : cache[r].buf # slots[s].buf

(* A buffer that is free, pending or cached is a live block, and a pooled   *)
(* one is as large as its entry says: no reuse of freed memory, no stale    *)
(* capacity from an outstanding_ entry that was never erased.               *)
BuffersAreLive ==
  /\ \A b \in Buffers : FreeCount(b) > 0 => heap[b] > 0
  /\ \A b \in Buffers : pool[b] > 0 => capacity[b] = heap[b]
  /\ \A s \in InUse : heap[slots[s].buf] > 0
  /\ \A r \in CacheOwners : heap[cache[r].buf] > 0

(* An index is on the free list exactly when its slot exists and is not in  *)
(* use: a token is never given to two reads, and no slot is lost.           *)
SlotTableConsistent ==
  \A s \in Slots :
    free_slots[s] = IF s < nslots /\ slots[s] = Free THEN 1 ELSE 0

(* Every read the kernel has or will get goes to the buffer of the slot its *)
(* token names, while that slot is still waiting for it, and fits into it.  *)
KernelWritesOwnedBuffers ==
  \A q \in sq \cup kernel :
    /\ slots[q.tok] # Free
    /\ slots[q.tok].buf = q.buf
    /\ [rec |-> slots[q.tok].rec, type |-> slots[q.tok].type] = q.what
    /\ Length(q.what.rec, q.what.type) <= heap[q.buf]

(* The counters mean what AsyncReader says they mean. *)
CountersExact ==
  /\ prepped = Cardinality(sq)
  /\ in_flight = Cardinality(kernel) + Cardinality(cq)

(* Reranking only ever sees a candidate's own vector. *)
RerankedVectorsAreOwn ==
  \A r \in Records : buffered[r] > 0 => vec[r] = r

(* When reranking begins, every record planned to be read in this query is  *)
(* a buffered candidate exactly once, and no other record is; no vector     *)
(* comes in after that, when it would be left out of the ranking.           *)
EveryPlanRerankedOnce ==
  pc \in {"rerank", "fetch", "fetch_drain", "fetch_poll", "assemble"} =>
    \A r \in Records :
      buffered[r] = IF pc = "rerank" /\ r \in planned THEN 1 ELSE 0

(* Every result that has a payload is returned with its own payload.        *)
AnswersComplete ==
  pc = "idle" =>
    \A r \in results :
      answer[r] = IF PayloadBytes[r] > 0 THEN r ELSE NoData

(* Between two queries every live buffer is on a free list: no query leaks  *)
(* a buffer or keeps a slot.                                                *)
NothingLeaksBetweenQueries ==
  pc = "idle" =>
    /\ InUse = {}
    /\ \A b \in Buffers :
         heap[b] > 0 => FreeCount(b) = 1

(* After FinalDrain no read of the query is left in the ring. *)
DrainLeavesNothingPending ==
  pc \in {"rerank", "assemble", "idle"} => sq \cup kernel \cup cq = {}

(* A search that has begun answers. *)
SearchAnswers == pc = "probe" ~> pc = "idle"
=============================================================================
