------------------------ MODULE OverlapSchedulerProofs ------------------------
(***************************************************************************)
(* Theorems about OverlapScheduler.  Those of the first half limit no       *)
(* faults: they hold for a kernel that submits short and reads that fail as *)
(* well.                                                                    *)
(***************************************************************************)
EXTENDS OverlapScheduler, FiniteSetTheorems, FunctionTheorems, TLAPS

FiniteRequests ==
  /\ IsFiniteSet(sq) /\ IsFiniteSet(kernel)
  /\ IsFiniteSet(cq) /\ IsFiniteSet(comps)

ReaderInv == ReaderTypeOK /\ FiniteRequests

(* The counters stay in their width. *)
LEMMA WrapType ==
  ASSUME NEW n \in Int
  PROVE  Wrap(n) \in 0..(CounterModulus - 1)
  BY SchedulerAssumption DEF Wrap

LEMMA ReaderPrep ==
  ASSUME ReaderInv, NEW s \in Slots, NEW b \in Buffers, NEW x \in Extent,
         PrepReadTagged(s, b, x)
  PROVE  ReaderInv'
  <1> USE DEF ReaderInv, ReaderTypeOK, FiniteRequests
  <1> DEFINE q == Sqe(s, b, x)
  <1>1. q \in Request
    BY DEF Request, Sqe
  <1>2. CASE SqHasRoom
    <2>1. sq' = sq \cup {q} /\ prepped' = Wrap(prepped + 1)
          /\ UNCHANGED <<kernel, in_flight, cq, comps, mem>>
          /\ next_id' = next_id + 1
      BY <1>2 DEF PrepReadTagged
    <2>2. IsFiniteSet(sq')
      BY <2>1, FS_AddElement
    <2> QED BY <1>1, <2>1, <2>2, WrapType
  <1>3. CASE ~SqHasRoom
    <2>1. PICK A \in SUBSET sq : kernel' = kernel \cup A /\ sq' = (sq \ A) \cup {q}
      BY <1>3 DEF PrepReadTagged
    <2>2. in_flight' = Wrap(in_flight + prepped) /\ prepped' = Wrap(1)
          /\ UNCHANGED <<cq, comps, mem>> /\ next_id' = next_id + 1
      BY <1>3 DEF PrepReadTagged
    <2>3. IsFiniteSet(A) /\ IsFiniteSet(sq \ A)
      BY FS_Subset
    <2>4. IsFiniteSet(kernel') /\ IsFiniteSet(sq')
      BY <2>1, <2>3, FS_Union, FS_AddElement
    <2> QED BY <1>1, <2>1, <2>2, <2>4, WrapType
  <1> QED BY <1>2, <1>3
LEMMA ReaderSubmit ==
  ASSUME ReaderInv, Submit
  PROVE  ReaderInv'
  <1> USE DEF ReaderInv, ReaderTypeOK, FiniteRequests
  <1>1. CASE prepped = 0
    BY <1>1 DEF Submit
  <1>2. CASE prepped # 0
    <2>1. PICK A \in SUBSET sq :
            /\ kernel' = kernel \cup A /\ sq' = sq \ A
            /\ in_flight' = Wrap(in_flight + Cardinality(A))
      BY <1>2 DEF Submit
    <2>2. prepped' = 0 /\ UNCHANGED <<cq, next_id, comps, mem>>
      BY <1>2 DEF Submit
    <2>3. IsFiniteSet(A) /\ IsFiniteSet(sq') /\ Cardinality(A) \in Nat
      BY <2>1, FS_Subset, FS_CardinalityType
    <2>4. IsFiniteSet(kernel')
      BY <2>1, <2>3, FS_Union
    <2>5. in_flight' \in 0..(CounterModulus - 1)
      BY <2>1, <2>3, WrapType
    <2>6. prepped' \in 0..(CounterModulus - 1)
      BY <2>2, SchedulerAssumption
    <2> QED BY <2>1, <2>2, <2>3, <2>4, <2>5, <2>6
  <1> QED BY <1>1, <1>2

LEMMA ReaderTake ==
  ASSUME ReaderInv, TakeCompletions
  PROVE  ReaderInv'
  <1> USE DEF ReaderInv, ReaderTypeOK, FiniteRequests
  <1>1. PICK D \in SUBSET cq :
          /\ comps' = D /\ cq' = cq \ D
          /\ in_flight' = Wrap(in_flight - Cardinality(D))
          /\ UNCHANGED <<sq, kernel, prepped, next_id, mem>>
    BY DEF TakeCompletions
  <1>2. IsFiniteSet(comps') /\ IsFiniteSet(cq') /\ Cardinality(D) \in Nat
    BY <1>1, FS_Subset, FS_CardinalityType
  <1>3. in_flight' \in 0..(CounterModulus - 1)
    BY <1>1, <1>2, WrapType
  <1> QED BY <1>1, <1>2, <1>3

LEMMA ReaderKernel ==
  ASSUME ReaderInv, NEW r \in kernel, KernelComplete(r)
  PROVE  ReaderInv'
  <1> USE DEF ReaderInv, ReaderTypeOK, FiniteRequests
  <1>1. IsFiniteSet(kernel') /\ IsFiniteSet(cq')
    BY FS_RemoveElement, FS_AddElement DEF KernelComplete
  <1>2. mem' \in [Buffers -> Extent \cup {NoData}]
    BY DEF KernelComplete, Request
  <1> QED BY <1>1, <1>2 DEF KernelComplete

LEMMA ReaderUnchanged ==
  ASSUME ReaderInv, UNCHANGED ringVars
  PROVE  ReaderInv'
  BY DEF ReaderInv, ReaderTypeOK, FiniteRequests, ringVars

(* Taking one completion off the array, as Dispatch does. *)
LEMMA ReaderDispatch ==
  ASSUME ReaderInv, NEW q \in comps, comps' = comps \ {q},
         UNCHANGED <<sq, kernel, cq, in_flight, prepped, next_id, mem>>
  PROVE  ReaderInv'
  BY FS_RemoveElement DEF ReaderInv, ReaderTypeOK, FiniteRequests
-----------------------------------------------------------------------------
(* Slots and buffers.                                                       *)

LEMMA ReturnCount ==
  ASSUME NEW S \in SUBSET Slots, NEW b, NEW kind
  PROVE  /\ IsFiniteSet(Returning(S, b, kind))
         /\ Cardinality(Returning(S, b, kind)) \in Nat
  <1>1. Returning(S, b, kind) \subseteq Slots
    BY DEF Returning
  <1> QED BY <1>1, SchedulerAssumption, FS_Subset, FS_CardinalityType

LEMMA ReturnBuffersType ==
  ASSUME BufTypeOK, NEW S \in SUBSET Slots, ReturnBuffers(S)
  PROVE  BufTypeOK'
  <1>1. \A b : \A kind : Cardinality(Returning(S, b, kind)) \in Nat
    BY ReturnCount
  <1>2. free_fixed' \in [Buffers -> Nat] /\ free_vec' \in [Buffers -> Nat]
    BY <1>1 DEF ReturnBuffers, BufTypeOK
  <1>3. PoolTypeOK'
    BY DEF ReturnBuffers, BufTypeOK, PoolTypeOK, Release
  <1> QED BY <1>2, <1>3 DEF BufTypeOK

LEMMA ReleaseSlotsType ==
  ASSUME SlotTypeOK, NEW S \in SUBSET Slots, ReleaseSlots(S)
  PROVE  SlotTypeOK'
  BY DEF SlotTypeOK, ReleaseSlots

LEMMA AllocateSlotType ==
  ASSUME SlotTypeOK, NEW s \in Slots, NEW slot \in Slot, AllocateSlot(s, slot)
  PROVE  SlotTypeOK'
  <1>1. slots' \in [Slots -> Slot \cup {Free}]
    BY DEF SlotTypeOK, AllocateSlot
  <1>2. nslots' \in Nat /\ free_slots' \in [Slots -> Nat]
    BY DEF SlotTypeOK, AllocateSlot
  <1> QED BY <1>1, <1>2 DEF SlotTypeOK

LEMMA AlignUpType ==
  ASSUME NEW size \in Nat
  PROVE  /\ AlignUp(size) \in Nat
         /\ size <= AlignUp(size)
  BY SchedulerAssumption DEF AlignUp

LEMMA AcquireVecBufferType ==
  ASSUME BufTypeOK, NEW b \in Buffers, NEW kind, AcquireVecBuffer(b, kind)
  PROVE  BufTypeOK'
  <1>1. AlignUp(VecBytes) \in Nat
    BY AlignUpType, SchedulerAssumption
  <1> QED BY <1>1 DEF BufTypeOK, PoolTypeOK, AcquireVecBuffer, Allocated

LEMMA LengthType ==
  ASSUME NEW r \in Records, NEW type \in IoTypes
  PROVE  Length(r, type) \in Nat
  BY SchedulerAssumption DEF Length, IoTypes

LEMMA AcquireType ==
  ASSUME BufTypeOK, NEW b \in Buffers, NEW size \in Nat, Acquire(b, size),
         UNCHANGED <<free_fixed, free_vec>>
  PROVE  BufTypeOK'
  <1>1. AlignUp(size) \in Nat
    BY AlignUpType
  <1> QED BY <1>1 DEF BufTypeOK, PoolTypeOK, Acquire, Allocated, Fits

(* Issuing a read keeps the reader's and the slot table's types. *)
LEMMA IssueReadType ==
  ASSUME ReaderInv, SlotTypeOK, NEW r \in Records, NEW type \in IoTypes,
         NEW s \in Slots, NEW b \in Buffers,
         NEW kind \in {"FixedVec", "VecPool", "Pool"},
         IssueRead(r, type, s, b, kind)
  PROVE  ReaderInv' /\ SlotTypeOK'
  <1>1. [rec |-> r, type |-> type] \in Extent
    BY DEF Extent
  <1>2. [buf |-> b, cleanup |-> kind, type |-> type, rec |-> r] \in Slot
    BY DEF Slot
  <1> QED BY <1>1, <1>2, ReaderPrep, AllocateSlotType DEF IssueRead

LEMMA IssuePoolReadType ==
  ASSUME ReaderInv, SlotTypeOK, BufTypeOK, NEW r \in Records,
         NEW type \in IoTypes, NEW s \in Slots, NEW b \in Buffers,
         IssuePoolRead(r, type, s, b)
  PROVE  ReaderInv' /\ SlotTypeOK' /\ BufTypeOK'
  BY IssueReadType, AcquireType, LengthType DEF IssuePoolRead

LEMMA CleanupType ==
  ASSUME SlotTypeOK, BufTypeOK, CleanupPendingSlots
  PROVE  SlotTypeOK' /\ BufTypeOK'
  <1>1. InUse \in SUBSET Slots
    BY DEF InUse
  <1> QED BY <1>1, ReturnBuffersType, ReleaseSlotsType DEF CleanupPendingSlots

LEMMA ContentType ==
  ASSUME NEW content \in Extent \cup {NoData}, NEW type
  PROVE  /\ VectorIn(content) \in Records \cup {NoData}
         /\ PayloadIn(content, type) \in Records \cup {NoData}
  BY DEF VectorIn, PayloadIn, Extent

LEMMA BufferCandidateType ==
  ASSUME RerankTypeOK, NEW r \in Records, NEW content \in Extent \cup {NoData},
         BufferCandidate(r, content)
  PROVE  /\ buffered' \in [Records -> Nat]
         /\ vec' \in [Records -> Records \cup {NoData}]
  BY ContentType DEF BufferCandidate, RerankTypeOK
-----------------------------------------------------------------------------
(* Type correctness.  A cluster is left to probe while pc says so.          *)
TypeInv ==
  /\ TypeOK
  /\ FiniteRequests
  /\ pc = "probe" => clusters_left > 0

LEMMA SlotUnchanged ==
  ASSUME SlotTypeOK, UNCHANGED slotVars
  PROVE  SlotTypeOK'
  BY DEF SlotTypeOK, slotVars

LEMMA BufUnchanged ==
  ASSUME BufTypeOK, UNCHANGED bufVars
  PROVE  BufTypeOK'
  BY DEF BufTypeOK, PoolTypeOK, bufVars

LEMMA PlanUnchanged ==
  ASSUME PlanTypeOK, UNCHANGED planVars
  PROVE  PlanTypeOK' /\ UNCHANGED clusters_left
  BY DEF PlanTypeOK, planVars

LEMMA RerankUnchanged ==
  ASSUME RerankTypeOK, UNCHANGED rerankVars
  PROVE  RerankTypeOK'
  BY DEF RerankTypeOK, rerankVars

LEMMA ResultUnchanged ==
  ASSUME ResultTypeOK, UNCHANGED resultVars
  PROVE  ResultTypeOK'
  BY DEF ResultTypeOK, resultVars

LEMMA DispatchType ==
  ASSUME TypeInv, NEW q \in comps, Dispatch(q)
  PROVE  TypeInv'
  <1>1. ReaderInv'
    BY ReaderDispatch DEF Dispatch, TypeInv, TypeOK, ReaderInv
  <1>2. q.tok \in Slots
    BY DEF TypeInv, TypeOK, ReaderTypeOK, Request
  <1> DEFINE slot == slots[q.tok]
  <1>3. slot \in Slot \cup {Free}
    BY <1>2 DEF TypeInv, TypeOK, SlotTypeOK
  <1>4. SlotTypeOK' /\ BufTypeOK' /\ RerankTypeOK'
    <2>1. CASE slot = Free /\ UNCHANGED <<slotVars, bufVars, rerankVars>>
      BY <2>1, SlotUnchanged, BufUnchanged, RerankUnchanged
         DEF TypeInv, TypeOK
    <2>2. ASSUME slot # Free
          PROVE  /\ slot.rec \in Records
                 /\ slot.buf \in Buffers
                 /\ mem[slot.buf] \in Extent \cup {NoData}
                 /\ ReturnBuffers({q.tok}) => BufTypeOK'
                 /\ ReleaseSlots({q.tok}) => SlotTypeOK'
      <3>1. slot \in Slot
        BY <1>3, <2>2
      <3>2. slot.rec \in Records /\ slot.buf \in Buffers
        BY <3>1 DEF Slot
      <3> QED BY <1>2, <3>2, ReturnBuffersType, ReleaseSlotsType
                 DEF TypeInv, TypeOK, ReaderTypeOK
    <2>3. CASE /\ slot # Free /\ slot.type = "VEC_ONLY"
               /\ BufferCandidate(slot.rec, mem[slot.buf])
               /\ UNCHANGED cache
               /\ ReturnBuffers({q.tok}) /\ ReleaseSlots({q.tok})
      BY <2>2, <2>3, BufferCandidateType DEF TypeInv, TypeOK, RerankTypeOK
    <2>4. CASE /\ slot # Free /\ slot.type = "VEC_ALL"
               /\ BufferCandidate(slot.rec, mem[slot.buf])
               /\ cache' = IF PayloadBytes[slot.rec] = 0 THEN cache
                           ELSE [cache EXCEPT ![slot.rec] =
                                   [buf |-> NoBuf,
                                    rec |-> PayloadIn(mem[slot.buf], "VEC_ALL")]]
               /\ ReturnBuffers({q.tok}) /\ ReleaseSlots({q.tok})
      <3>1. PayloadIn(mem[slot.buf], "VEC_ALL") \in Records \cup {NoData}
        BY <2>2, <2>4, ContentType
      <3>2. cache' \in [Records -> Cached \cup {NoData}]
        BY <2>4, <3>1 DEF TypeInv, TypeOK, RerankTypeOK, Cached
      <3> QED BY <2>2, <2>4, <3>2, BufferCandidateType
                 DEF TypeInv, TypeOK, RerankTypeOK
    <2>5. CASE /\ slot # Free /\ slot.type = "PAYLOAD"
               /\ cache' = [cache EXCEPT ![slot.rec] =
                              [buf |-> slot.buf,
                               rec |-> PayloadIn(mem[slot.buf], "PAYLOAD")]]
               /\ UNCHANGED <<buffered, vec, bufVars>>
               /\ ReleaseSlots({q.tok})
      <3>1. PayloadIn(mem[slot.buf], "PAYLOAD") \in Records \cup {NoData}
        BY <2>2, <2>5, ContentType
      <3>2. cache' \in [Records -> Cached \cup {NoData}]
        BY <2>2, <2>5, <3>1 DEF TypeInv, TypeOK, RerankTypeOK, Cached
      <3> QED BY <2>2, <2>5, <3>2, BufUnchanged
                 DEF TypeInv, TypeOK, RerankTypeOK
    <2> QED BY <2>1, <2>3, <2>4, <2>5 DEF Dispatch
  <1> QED BY <1>1, <1>4, PlanUnchanged, ResultUnchanged
             DEF Dispatch, TypeInv, TypeOK, ReaderInv

LEMMA TypeInit == Init => TypeInv
  <1> SUFFICES ASSUME Init PROVE TypeInv
    OBVIOUS
  <1>1. AlignUp(VecBytes) \in Nat
    BY AlignUpType, SchedulerAssumption
  <1>2. ReaderTypeOK /\ FiniteRequests
    BY FS_EmptySet, SchedulerAssumption
       DEF Init, ReaderInit, ReaderTypeOK, FiniteRequests
  <1>3. BufTypeOK
    BY <1>1 DEF Init, PoolInit, BufTypeOK, PoolTypeOK
  <1>4. SlotTypeOK /\ PlanTypeOK /\ ResultTypeOK
    BY DEF Init, SlotTypeOK, PlanTypeOK, ResultTypeOK, NoRecordData
  <1>5. RerankTypeOK
    BY DEF Init, RerankTypeOK, NoRecordData
  <1> QED BY <1>2, <1>3, <1>4, <1>5 DEF Init, TypeInv, TypeOK, Pcs

LEMMA TypeStep == TypeInv /\ [Next]_vars => TypeInv'
  <1> SUFFICES ASSUME TypeInv, [Next]_vars PROVE TypeInv'
    OBVIOUS
  <1> USE DEF TypeInv, TypeOK, ReaderInv, Pcs
  <1>1. CASE StartSearch
    <2>1. ReaderInv'
      BY <1>1 DEF StartSearch, ReaderTypeOK, FiniteRequests
    <2>2. SlotTypeOK' /\ BufTypeOK'
      BY <1>1, CleanupType DEF StartSearch
    <2>3. PlanTypeOK' /\ ResultTypeOK'
      BY <1>1, SchedulerAssumption
         DEF StartSearch, PlanTypeOK, ResultTypeOK, NoRecordData
    <2>4. RerankTypeOK'
      BY <1>1 DEF StartSearch, RerankTypeOK, NoRecordData
    <2> QED BY <1>1, <2>1, <2>2, <2>3, <2>4, SchedulerAssumption DEF StartSearch
  <1>2. CASE Probe
    <2>1. PICK C \in SUBSET unprobed : \E A, V, H \in SUBSET (C \cup held) :
            ProbeCluster(C, A, V, H)
      BY <1>2 DEF Probe
    <2>2. PICK A, V, H \in SUBSET (C \cup held) : ProbeCluster(C, A, V, H)
      BY <2>1
    <2>3. PlanTypeOK' /\ (pc' = "probe" => clusters_left' > 0) /\ pc' \in Pcs
      BY <2>2 DEF ProbeCluster, PlanTypeOK
    <2> QED BY <2>2, <2>3, ReaderUnchanged, SlotUnchanged, BufUnchanged,
               RerankUnchanged, ResultUnchanged DEF ProbeCluster
  <1>3. CASE FlushTail
    <2>1. PICK A, V \in SUBSET held : FlushHeld(A, V)
      BY <1>3 DEF FlushTail
    <2>2. PlanTypeOK' /\ pc' \in Pcs /\ pc' # "probe"
      BY <2>1 DEF FlushHeld, PlanTypeOK
    <2> QED BY <2>1, <2>2, ReaderUnchanged, SlotUnchanged, BufUnchanged,
               RerankUnchanged, ResultUnchanged DEF FlushHeld
  <1>4. ASSUME NEW r \in Records, NEW s \in Slots, NEW b \in Buffers,
               EmitAll(r, s, b)
        PROVE  TypeInv'
    <2>1. ReaderInv' /\ SlotTypeOK' /\ BufTypeOK'
      BY <1>4, IssuePoolReadType DEF EmitAll, IoTypes
    <2>2. PlanTypeOK'
      BY <1>4 DEF EmitAll, PlanTypeOK
    <2> QED BY <1>4, <2>1, <2>2, RerankUnchanged, ResultUnchanged DEF EmitAll
  <1>5. ASSUME NEW r \in Records, NEW s \in Slots, NEW b \in Buffers,
               NEW kind \in {"FixedVec", "VecPool"}, EmitVecOnly(r, s, b, kind)
        PROVE  TypeInv'
    <2>1. ReaderInv' /\ SlotTypeOK' /\ BufTypeOK'
      BY <1>5, IssueReadType, AcquireVecBufferType DEF EmitVecOnly, IoTypes
    <2>2. PlanTypeOK'
      BY <1>5 DEF EmitVecOnly, PlanTypeOK
    <2> QED BY <1>5, <2>1, <2>2, RerankUnchanged, ResultUnchanged DEF EmitVecOnly
  <1>6. ASSUME NEW r \in Records, NEW s \in Slots, NEW b \in Buffers,
               FetchPayload(r, s, b)
        PROVE  TypeInv'
    <2>1. ReaderInv' /\ SlotTypeOK' /\ BufTypeOK'
      BY <1>6, IssuePoolReadType DEF FetchPayload, IoTypes
    <2>2. ResultTypeOK'
      BY <1>6 DEF FetchPayload, ResultTypeOK
    <2> QED BY <1>6, <2>1, <2>2, RerankUnchanged, PlanUnchanged DEF FetchPayload
  <1>7. CASE SubmitWindow
    BY <1>7, ReaderSubmit, SlotUnchanged, BufUnchanged, PlanUnchanged,
       RerankUnchanged, ResultUnchanged DEF SubmitWindow, Emitting
  <1>8. CASE PollWindow
    <2>1. ReaderInv'
      BY <1>8, ReaderTake DEF PollWindow, Poll
    <2>2. pc' \in Pcs /\ (pc' = "probe" => clusters_left' > 0)
      BY <1>8, PlanUnchanged DEF PollWindow, PlanTypeOK
    <2> QED BY <1>8, <2>1, <2>2, SlotUnchanged, BufUnchanged, PlanUnchanged,
               RerankUnchanged, ResultUnchanged DEF PollWindow
  <1>9. ASSUME NEW q \in comps, Dispatch(q) PROVE TypeInv'
    BY <1>9, DispatchType
  <1>10. CASE DrainWait
    BY <1>10, ReaderTake, SlotUnchanged, BufUnchanged, PlanUnchanged,
       RerankUnchanged, ResultUnchanged DEF DrainWait, WaitAndPoll
  <1>11. CASE DrainPoll
    BY <1>11, ReaderTake, SlotUnchanged, BufUnchanged, PlanUnchanged,
       RerankUnchanged, ResultUnchanged DEF DrainPoll, Poll
  <1>12. CASE DrainDone
    BY <1>12, CleanupType, ReaderUnchanged, PlanUnchanged, RerankUnchanged,
       ResultUnchanged DEF DrainDone
  <1>13. ASSUME NEW top \in SUBSET Records, ExecuteBuffered(top) PROVE TypeInv'
    <2>1. ResultTypeOK'
      BY <1>13 DEF ExecuteBuffered, ResultTypeOK
    <2>2. RerankTypeOK'
      BY <1>13 DEF ExecuteBuffered, RerankTypeOK
    <2> QED BY <1>13, <2>1, <2>2, ReaderUnchanged, SlotUnchanged, BufUnchanged,
               PlanUnchanged DEF ExecuteBuffered
  <1>14. CASE FetchSubmit
    <2>1. ReaderInv' /\ pc' \in {"fetch_drain", "assemble"}
      BY <1>14, ReaderSubmit, ReaderUnchanged DEF FetchSubmit
    <2> QED BY <1>14, <2>1, SlotUnchanged, BufUnchanged, PlanUnchanged,
               RerankUnchanged, ResultUnchanged DEF FetchSubmit
  <1>15. CASE FetchDone
    BY <1>15, ReaderUnchanged, SlotUnchanged, BufUnchanged, PlanUnchanged,
       RerankUnchanged, ResultUnchanged DEF FetchDone
  <1>16. CASE AssembleResults
    <2>1. RerankTypeOK'
      BY <1>16 DEF AssembleResults, RerankTypeOK, NoRecordData
    <2>2. BufTypeOK'
      BY <1>16 DEF AssembleResults, BufTypeOK, PoolTypeOK, FreeAll
    <2>3. ResultTypeOK'
      BY <1>16 DEF AssembleResults, ResultTypeOK, RerankTypeOK, Cached
    <2> QED BY <1>16, <2>1, <2>2, <2>3, ReaderUnchanged, SlotUnchanged,
               PlanUnchanged DEF AssembleResults
  <1>17. CASE Abort
    BY <1>17, ReaderUnchanged, SlotUnchanged, BufUnchanged, PlanUnchanged,
       RerankUnchanged, ResultUnchanged DEF Abort
  <1>18. ASSUME NEW r \in kernel, Kernel(r) PROVE TypeInv'
    BY <1>18, ReaderKernel, SlotUnchanged, BufUnchanged, PlanUnchanged,
       RerankUnchanged, ResultUnchanged DEF Kernel
  <1>19. CASE UNCHANGED vars
    BY <1>19, ReaderUnchanged, SlotUnchanged, BufUnchanged, PlanUnchanged,
       RerankUnchanged, ResultUnchanged DEF vars
  <1> QED
    BY <1>1, <1>2, <1>3, <1>4, <1>5, <1>6, <1>7, <1>8, <1>9, <1>10, <1>11,
       <1>12, <1>13, <1>14, <1>15, <1>16, <1>17, <1>18, <1>19
       DEF Next, Scheduler

(* Every variable of the scheduler, the reader and the pool keeps its type, *)
(* and the uint32_t counters their width, whatever the kernel does.         *)
THEOREM TypeCorrect == Spec => []TypeOK
  <1>1. Init => TypeInv
    BY TypeInit
  <1>2. TypeInv /\ [Next]_vars => TypeInv'
    BY TypeStep
  <1>3. TypeInv => TypeOK
    BY DEF TypeInv
  <1> QED BY <1>1, <1>2, <1>3, PTL DEF Spec
-----------------------------------------------------------------------------
(* Ownership of slots and buffers.                                          *)
(*                                                                         *)
(* What is to be shown is not inductive by itself.  A slot is allocated at  *)
(* the end of the table, so the places beyond the end must be free.  A      *)
(* buffer comes back to the pool with the capacity its entry recorded, so   *)
(* that has to be right while the buffer is pending.  And a block of size 0 *)
(* would not be live: nothing without a payload may be fetched.             *)
OwnInv ==
  /\ SlotTableConsistent
  /\ BufferHasOneOwner
  /\ BuffersAreLive
  /\ \A s \in Slots : s >= nslots => slots[s] = Free
  /\ \A s \in InUse : slots[s].cleanup = "Pool" =>
                         capacity[slots[s].buf] = heap[slots[s].buf]

FetchesPayloads == \A r \in to_fetch : PayloadBytes[r] > 0

(* Nobody holds b. *)
Unowned(b) ==
  /\ \A s \in InUse : slots[s].buf # b
  /\ \A r \in CacheOwners : cache[r].buf # b

(* Buffer b has been taken off its free list, or is a new block, and        *)
(* nothing else has changed.                                                *)
Taken(b, kind) ==
  /\ Unowned(b)
  /\ FreeCount(b)' = 0 /\ pool'[b] = 0 /\ heap'[b] > 0
  /\ kind = "Pool" => capacity'[b] = heap'[b]
  /\ \A c \in Buffers \ {b} :
       /\ FreeCount(c)' = FreeCount(c) /\ pool'[c] = pool[c]
       /\ heap'[c] = heap[c] /\ capacity'[c] = capacity[c]

LEMMA SlotFields ==
  ASSUME SlotTypeOK, NEW s \in InUse
  PROVE  /\ slots[s] \in Slot /\ slots[s].buf \in Buffers
         /\ slots[s].cleanup \in {"FixedVec", "VecPool", "Pool"}
         /\ s \in Slots
  BY DEF SlotTypeOK, InUse, Slot

LEMMA CacheFields ==
  ASSUME RerankTypeOK, NEW r \in CacheOwners
  PROVE  r \in Records /\ cache[r].buf \in Buffers
  BY DEF RerankTypeOK, CacheOwners, Cached

LEMMA FreeIsUnowned ==
  ASSUME OwnInv, NEW b \in Buffers, FreeCount(b) # 0
  PROVE  Unowned(b)
  BY DEF OwnInv, BufferHasOneOwner, Unowned

LEMMA FreeCounts ==
  ASSUME BufTypeOK, NEW b \in Buffers
  PROVE  /\ free_fixed[b] \in Nat /\ free_vec[b] \in Nat /\ pool[b] \in Nat
         /\ heap[b] \in Nat /\ capacity[b] \in Nat
         /\ FreeCount(b) \in Nat
         /\ FreeCount(b) = free_fixed[b] + free_vec[b] + pool[b]
  BY DEF FreeCount, BufTypeOK, PoolTypeOK

LEMMA DeadIsUnowned ==
  ASSUME OwnInv, BufTypeOK, NEW b \in Buffers, heap[b] = 0
  PROVE  /\ Unowned(b)
         /\ free_fixed[b] = 0 /\ free_vec[b] = 0 /\ pool[b] = 0
  <1>1. Unowned(b)
    BY DEF OwnInv, BuffersAreLive, Unowned
  <1>2. ~(FreeCount(b) > 0)
    BY DEF OwnInv, BuffersAreLive
  <1> QED BY <1>1, <1>2, FreeCounts

LEMMA AcquireTakes ==
  ASSUME OwnInv, BufTypeOK, NEW b \in Buffers, NEW size \in Nat \ {0},
         Acquire(b, size), UNCHANGED <<free_fixed, free_vec>>
  PROVE  Taken(b, "Pool")
  <1> USE DEF BufTypeOK, PoolTypeOK, FreeCount
  <1>1. CASE Fits(b, size) /\ pool' = [pool EXCEPT ![b] = @ - 1]
             /\ UNCHANGED <<heap, capacity>>
    <2>1. FreeCount(b) = 1 /\ pool[b] = 1 /\ free_fixed[b] = 0 /\ free_vec[b] = 0
      BY <1>1 DEF Fits, OwnInv, BufferHasOneOwner
    <2>2. Unowned(b)
      BY <2>1, FreeIsUnowned
    <2>3. heap[b] > 0 /\ capacity[b] = heap[b]
      BY <2>1 DEF OwnInv, BuffersAreLive
    <2> QED BY <1>1, <2>1, <2>2, <2>3 DEF Taken
  <1>2. CASE /\ Allocated(b, AlignUp(size)) /\ UNCHANGED pool
             /\ capacity' = [capacity EXCEPT ![b] = AlignUp(size)]
    <2>1. AlignUp(size) \in Nat /\ AlignUp(size) > 0
      BY AlignUpType
    <2>2. heap[b] = 0 /\ heap' = [heap EXCEPT ![b] = AlignUp(size)]
      BY <1>2 DEF Allocated
    <2> QED BY <1>2, <2>1, <2>2, DeadIsUnowned DEF Taken
  <1> QED BY <1>1, <1>2 DEF Acquire

LEMMA AcquireVecTakes ==
  ASSUME OwnInv, BufTypeOK, NEW b \in Buffers,
         NEW kind \in {"FixedVec", "VecPool"}, AcquireVecBuffer(b, kind)
  PROVE  Taken(b, kind)
  <1> USE DEF BufTypeOK, PoolTypeOK, FreeCount
  <1>0. UNCHANGED <<pool, capacity, outstanding>>
    BY DEF AcquireVecBuffer
  <1>1. ASSUME UNCHANGED heap,
               \/ /\ free_fixed[b] > 0 /\ UNCHANGED free_vec
                  /\ free_fixed' = [free_fixed EXCEPT ![b] = @ - 1]
               \/ /\ free_vec[b] > 0 /\ UNCHANGED free_fixed
                  /\ free_vec' = [free_vec EXCEPT ![b] = @ - 1]
        PROVE  Taken(b, kind)
    <2>1. FreeCount(b) = 1
      <3>1. FreeCount(b) <= 1
        BY DEF OwnInv, BufferHasOneOwner
      <3> QED BY <1>1, <3>1, FreeCounts
    <2>2. heap[b] > 0 /\ Unowned(b)
      BY <2>1, FreeIsUnowned DEF OwnInv, BuffersAreLive
    <2>3. FreeCount(b)' = 0 /\ pool'[b] = 0
      BY <1>0, <1>1, <2>1
    <2>4. \A c \in Buffers \ {b} : FreeCount(c)' = FreeCount(c)
      BY <1>0, <1>1
    <2> QED BY <1>0, <1>1, <2>2, <2>3, <2>4 DEF Taken
  <1>2. CASE Allocated(b, AlignUp(VecBytes)) /\ UNCHANGED <<free_fixed, free_vec>>
    <2>1. AlignUp(VecBytes) \in Nat /\ AlignUp(VecBytes) > 0
      BY AlignUpType, SchedulerAssumption
    <2>2. heap[b] = 0 /\ heap' = [heap EXCEPT ![b] = AlignUp(VecBytes)]
      BY <1>2 DEF Allocated
    <2> QED BY <1>0, <1>2, <2>1, <2>2, DeadIsUnowned DEF Taken
  <1> QED BY <1>1, <1>2 DEF AcquireVecBuffer

(* A new pending slot for a buffer that has just been taken. *)
LEMMA AllocateOwns ==
  ASSUME OwnInv, SlotTypeOK, RerankTypeOK,
         NEW s \in Slots, NEW slot \in Slot,
         AllocateSlot(s, slot), Taken(slot.buf, slot.cleanup), UNCHANGED cache
  PROVE  OwnInv'
  <1> DEFINE b == slot.buf
  <1>1. slots[s] = Free
    BY DEF AllocateSlot, OwnInv, SlotTableConsistent, SlotTypeOK
  <1>2. slots' = [slots EXCEPT ![s] = slot] /\ slot # Free /\ b \in Buffers
    BY SentinelAssumption DEF AllocateSlot, Slot
  <1>3. InUse' = InUse \cup {s} /\ s \notin InUse
    BY <1>1, <1>2 DEF InUse, SlotTypeOK
  <1>4. CacheOwners' = CacheOwners
    BY DEF CacheOwners
  <1>5. \A t \in InUse : slots'[t] = slots[t] /\ slots[t].buf # b
                          /\ slots[t].buf \in Buffers
    BY <1>2, <1>3, SlotFields DEF Taken, Unowned, InUse, SlotTypeOK
  <1>6. slots'[s] = slot
    BY <1>2 DEF SlotTypeOK
  <1>7. \A r \in CacheOwners : cache[r].buf # b /\ cache[r].buf \in Buffers
    BY CacheFields DEF Taken, Unowned
  <1>8. SlotTableConsistent'
    <2>1. CASE /\ free_slots[s] > 0 /\ UNCHANGED nslots
               /\ free_slots' = [free_slots EXCEPT ![s] = @ - 1]
      BY <1>1, <1>2, <2>1, SchedulerAssumption
         DEF SlotTableConsistent, OwnInv, SlotTypeOK
    <2>2. CASE /\ s = nslots /\ nslots' = nslots + 1 /\ UNCHANGED free_slots
      <3>1. \A t \in Slots \ {s} : t < nslots' <=> t < nslots
        BY <2>2, SchedulerAssumption DEF SlotTypeOK
      <3> QED BY <1>1, <1>2, <2>2, <3>1, SchedulerAssumption
                 DEF SlotTableConsistent, OwnInv, SlotTypeOK
    <2> QED BY <2>1, <2>2 DEF AllocateSlot
  <1>9. \A t \in Slots : t >= nslots' => slots'[t] = Free
    <2>1. s < nslots' /\ nslots' \in Nat /\ nslots <= nslots'
      BY SchedulerAssumption
         DEF AllocateSlot, OwnInv, SlotTypeOK, SlotTableConsistent
    <2> QED BY <1>2, <2>1, SchedulerAssumption DEF OwnInv, SlotTypeOK
  <1>10. BufferHasOneOwner'
    <2>1. \A c \in Buffers : FreeCount(c)' <= 1
      BY DEF Taken, OwnInv, BufferHasOneOwner
    <2>2. \A t \in InUse' : FreeCount(slots[t].buf)' = 0
      BY <1>3, <1>5, <1>6 DEF Taken, OwnInv, BufferHasOneOwner, FreeCount
    <2>3. \A t, u \in InUse' : t # u => slots'[t].buf # slots'[u].buf
      BY <1>3, <1>5, <1>6 DEF OwnInv, BufferHasOneOwner
    <2>4. \A r \in CacheOwners' : FreeCount(cache[r].buf)' = 0
      BY <1>4, <1>7 DEF Taken, OwnInv, BufferHasOneOwner, FreeCount
    <2>5. \A r, q \in CacheOwners' : r # q => cache'[r].buf # cache'[q].buf
      BY <1>4 DEF OwnInv, BufferHasOneOwner
    <2>6. \A r \in CacheOwners', t \in InUse' : cache'[r].buf # slots'[t].buf
      BY <1>3, <1>4, <1>5, <1>6, <1>7 DEF OwnInv, BufferHasOneOwner
    <2> QED BY <2>1, <2>2, <2>3, <2>4, <2>5, <2>6 DEF BufferHasOneOwner
  <1>11. BuffersAreLive'
    <2>1. \A c \in Buffers : FreeCount(c)' > 0 => heap'[c] > 0
      BY DEF Taken, OwnInv, BuffersAreLive
    <2>2. \A c \in Buffers : pool'[c] > 0 => capacity'[c] = heap'[c]
      BY DEF Taken, OwnInv, BuffersAreLive
    <2>3. \A t \in InUse' : heap'[slots'[t].buf] > 0
      BY <1>3, <1>5, <1>6 DEF Taken, OwnInv, BuffersAreLive
    <2>4. \A r \in CacheOwners' : heap'[cache'[r].buf] > 0
      BY <1>4, <1>7 DEF Taken, OwnInv, BuffersAreLive
    <2> QED BY <2>1, <2>2, <2>3, <2>4 DEF BuffersAreLive
  <1>12. \A t \in InUse' : slots'[t].cleanup = "Pool" =>
                            capacity'[slots'[t].buf] = heap'[slots'[t].buf]
    BY <1>3, <1>5, <1>6 DEF Taken, OwnInv
  <1> QED BY <1>8, <1>9, <1>10, <1>11, <1>12 DEF OwnInv

LEMMA ReleasedSlots ==
  ASSUME OwnInv, SlotTypeOK, NEW S \in SUBSET InUse, ReleaseSlots(S)
  PROVE  /\ InUse' = InUse \ S
         /\ \A t \in InUse' : slots'[t] = slots[t]
         /\ SlotTableConsistent'
         /\ \A t \in Slots : t >= nslots' => slots'[t] = Free
  <1>1. S \subseteq Slots /\ \A t \in S : slots[t] # Free
    BY DEF InUse
  <1>2. slots' = [t \in Slots |-> IF t \in S THEN Free ELSE slots[t]]
        /\ nslots' = nslots
    BY DEF ReleaseSlots
  <1>3. InUse' = InUse \ S /\ \A t \in InUse' : slots'[t] = slots[t]
    BY <1>1, <1>2 DEF InUse
  <1>4. \A t \in S : t < nslots /\ free_slots[t] = 0
    BY <1>1, SchedulerAssumption
       DEF OwnInv, SlotTypeOK, SlotTableConsistent
  <1>5. SlotTableConsistent'
    BY <1>1, <1>2, <1>4 DEF OwnInv, SlotTypeOK, SlotTableConsistent, ReleaseSlots
  <1>6. \A t \in Slots : t >= nslots' => slots'[t] = Free
    BY <1>2 DEF OwnInv
  <1> QED BY <1>3, <1>5, <1>6

(* Every slot of S goes, and its buffer goes back to one free list. *)
LEMMA ReturnedBuffers ==
  ASSUME OwnInv, SlotTypeOK, BufTypeOK, NEW S \in SUBSET InUse, ReturnBuffers(S)
  PROVE  /\ UNCHANGED <<heap, capacity>>
         /\ \A b \in Buffers : (\A s \in S : slots[s].buf # b) =>
              FreeCount(b)' = FreeCount(b) /\ pool'[b] = pool[b]
         /\ \A b \in Buffers : (\E s \in S : slots[s].buf = b) => FreeCount(b)' <= 1
         /\ \A b \in Buffers : pool'[b] > 0 => capacity[b] = heap[b]
  <1> DEFINE n(b, kind) == Cardinality(Returning(S, b, kind))
  <1>1. UNCHANGED <<heap, capacity>>
    BY DEF ReturnBuffers
  <1>2. \A b \in Buffers : /\ free_fixed'[b] = free_fixed[b] + n(b, "FixedVec")
                           /\ free_vec'[b] = free_vec[b] + n(b, "VecPool")
    BY DEF ReturnBuffers
  <1>3. \A b \in Buffers :
          pool'[b] = IF Returning(S, b, "Pool") # {} /\ b \in outstanding
                       THEN pool[b] + 1 ELSE pool[b]
    BY DEF ReturnBuffers, Release
  <1>4. ASSUME NEW b \in Buffers, \A s \in S : slots[s].buf # b
        PROVE  FreeCount(b)' = FreeCount(b) /\ pool'[b] = pool[b]
    <2>1. \A kind : Returning(S, b, kind) = {}
      BY <1>4 DEF Returning
    <2>2. n(b, "FixedVec") = 0 /\ n(b, "VecPool") = 0
      BY <2>1, FS_EmptySet
    <2> QED BY <1>2, <1>3, <2>1, <2>2, FreeCounts DEF FreeCount
  <1>5. ASSUME NEW b \in Buffers, NEW s \in S, slots[s].buf = b
        PROVE  FreeCount(b)' <= 1 /\ (pool'[b] > 0 => capacity[b] = heap[b])
    <2>1. s \in InUse /\ slots[s].cleanup \in {"FixedVec", "VecPool", "Pool"}
      BY SlotFields
    <2>2. \A kind : Returning(S, b, kind) =
                      IF slots[s].cleanup = kind THEN {s} ELSE {}
      BY <1>5, <2>1 DEF Returning, OwnInv, BufferHasOneOwner
    <2>3. FreeCount(b) = 0
      BY <1>5, <2>1 DEF OwnInv, BufferHasOneOwner
    <2>4. free_fixed[b] = 0 /\ free_vec[b] = 0 /\ pool[b] = 0
      BY <2>1, <2>3, FreeCounts
    <2>5. \A kind : n(b, kind) = IF slots[s].cleanup = kind THEN 1 ELSE 0
      BY <2>2, FS_EmptySet, FS_Singleton
    <2>6. /\ free_fixed'[b] = IF slots[s].cleanup = "FixedVec" THEN 1 ELSE 0
          /\ free_vec'[b] = IF slots[s].cleanup = "VecPool" THEN 1 ELSE 0
      BY <1>2, <2>1, <2>4, <2>5
    <2>7. pool'[b] = IF slots[s].cleanup = "Pool" /\ b \in outstanding
                       THEN 1 ELSE 0
      BY <1>3, <2>1, <2>2, <2>4
    <2>8. FreeCount(b)' <= 1
      BY <2>1, <2>6, <2>7 DEF FreeCount
    <2>9. pool'[b] > 0 => capacity[b] = heap[b]
      BY <1>5, <2>1, <2>7 DEF OwnInv
    <2> QED BY <2>8, <2>9
  <1>6. ASSUME NEW b \in Buffers, pool'[b] > 0
        PROVE  capacity[b] = heap[b]
    <2>1. CASE \E s \in S : slots[s].buf = b
      BY <1>5, <1>6, <2>1
    <2>2. CASE \A s \in S : slots[s].buf # b
      BY <1>4, <1>6, <2>2 DEF OwnInv, BuffersAreLive
    <2> QED BY <2>1, <2>2
  <1> QED BY <1>1, <1>4, <1>5, <1>6

LEMMA ReleaseOwns ==
  ASSUME OwnInv, SlotTypeOK, BufTypeOK, RerankTypeOK, NEW S \in SUBSET InUse,
         ReturnBuffers(S), ReleaseSlots(S),
         CacheOwners' \subseteq CacheOwners,
         \A r \in CacheOwners' : cache'[r].buf = cache[r].buf
  PROVE  OwnInv'
  <1>1. /\ InUse' = InUse \ S
        /\ \A t \in InUse' : slots'[t] = slots[t]
        /\ SlotTableConsistent'
        /\ \A t \in Slots : t >= nslots' => slots'[t] = Free
    BY ReleasedSlots
  <1>2. /\ UNCHANGED <<heap, capacity>>
        /\ \A b \in Buffers : (\A s \in S : slots[s].buf # b) =>
             FreeCount(b)' = FreeCount(b) /\ pool'[b] = pool[b]
        /\ \A b \in Buffers : (\E s \in S : slots[s].buf = b) => FreeCount(b)' <= 1
        /\ \A b \in Buffers : pool'[b] > 0 => capacity[b] = heap[b]
    BY ReturnedBuffers
  <1>3. ASSUME NEW t \in InUse'
        PROVE  /\ slots'[t].buf = slots[t].buf /\ slots[t].buf \in Buffers
               /\ FreeCount(slots[t].buf)' = 0
    <2>1. t \in InUse /\ slots'[t] = slots[t] /\ slots[t].buf \in Buffers
      BY <1>1, SlotFields
    <2>2. \A s \in S : slots[s].buf # slots[t].buf
      BY <1>1, <2>1 DEF OwnInv, BufferHasOneOwner
    <2>3. FreeCount(slots[t].buf) = 0
      BY <2>1 DEF OwnInv, BufferHasOneOwner
    <2>4. FreeCount(slots[t].buf)' = FreeCount(slots[t].buf)
      BY <1>2, <2>1, <2>2 DEF FreeCount
    <2> QED BY <2>1, <2>3, <2>4
  <1>4. ASSUME NEW r \in CacheOwners'
        PROVE  /\ r \in CacheOwners /\ cache[r].buf \in Buffers
               /\ cache'[r].buf = cache[r].buf
               /\ FreeCount(cache[r].buf)' = 0
    <2>1. r \in CacheOwners /\ cache[r].buf \in Buffers
          /\ cache'[r].buf = cache[r].buf
      BY CacheFields
    <2>2. \A s \in S : slots[s].buf # cache[r].buf
      BY <2>1 DEF OwnInv, BufferHasOneOwner
    <2>3. FreeCount(cache[r].buf) = 0
      BY <2>1 DEF OwnInv, BufferHasOneOwner
    <2> QED BY <1>2, <2>1, <2>2, <2>3 DEF FreeCount
  <1>5. \A b \in Buffers : FreeCount(b)' <= 1 /\ (FreeCount(b)' > 0 => heap[b] > 0)
    <2> SUFFICES ASSUME NEW b \in Buffers
                 PROVE  FreeCount(b)' <= 1 /\ (FreeCount(b)' > 0 => heap[b] > 0)
      OBVIOUS
    <2>1. CASE \E s \in S : slots[s].buf = b
      BY <1>2, <2>1 DEF OwnInv, BuffersAreLive
    <2>2. CASE \A s \in S : slots[s].buf # b
      BY <1>2, <2>2 DEF OwnInv, BuffersAreLive, BufferHasOneOwner
    <2> QED BY <2>1, <2>2
  <1>6. BufferHasOneOwner'
    BY <1>1, <1>3, <1>4, <1>5 DEF OwnInv, BufferHasOneOwner
  <1>7. BuffersAreLive'
    BY <1>1, <1>2, <1>3, <1>4, <1>5 DEF OwnInv, BuffersAreLive
  <1>8. \A t \in InUse' : slots'[t].cleanup = "Pool" =>
                            capacity'[slots'[t].buf] = heap'[slots'[t].buf]
    BY <1>1, <1>2 DEF OwnInv
  <1> QED BY <1>1, <1>6, <1>7, <1>8 DEF OwnInv

(* DispatchCompletion of a payload: the buffer moves from its slot to the   *)
(* cache.                                                                   *)
LEMMA CacheOwns ==
  ASSUME OwnInv, SlotTypeOK, RerankTypeOK, NEW s \in InUse, NEW content,
         cache' = [cache EXCEPT ![slots[s].rec] =
                     [buf |-> slots[s].buf, rec |-> content]],
         ReleaseSlots({s}), UNCHANGED bufVars
  PROVE  OwnInv'
  <1>1. s \in Slots /\ slots[s].rec \in Records /\ slots[s].buf \in Buffers
    BY SlotFields DEF Slot
  <1>2. PICK b \in Buffers, p \in Records : b = slots[s].buf /\ p = slots[s].rec
    BY <1>1
  <1>3. /\ InUse' = InUse \ {s}
        /\ \A t \in InUse' : slots'[t] = slots[t]
        /\ SlotTableConsistent'
        /\ \A t \in Slots : t >= nslots' => slots'[t] = Free
    BY ReleasedSlots
  <1>4. UNCHANGED <<heap, pool, capacity, free_fixed, free_vec>>
    BY DEF bufVars
  <1>5. \A r \in CacheOwners' :
          \/ r = p /\ cache'[r].buf = b
          \/ r # p /\ r \in CacheOwners /\ cache'[r] = cache[r]
    BY <1>2 DEF CacheOwners, RerankTypeOK
  <1>6. \A t \in InUse' : slots[t].buf # b
    BY <1>2, <1>3 DEF OwnInv, BufferHasOneOwner
  <1>7. FreeCount(b) = 0 /\ heap[b] > 0
    BY <1>2 DEF OwnInv, BufferHasOneOwner, BuffersAreLive
  <1>8. \A r \in CacheOwners : cache[r].buf # b
    BY <1>2 DEF OwnInv, BufferHasOneOwner
  <1>9. \A c \in Buffers : FreeCount(c)' = FreeCount(c)
    BY <1>4 DEF FreeCount
  <1>10. BufferHasOneOwner'
    <2>1. \A c \in Buffers : FreeCount(c)' <= 1
      BY <1>9 DEF OwnInv, BufferHasOneOwner
    <2>2. \A t \in InUse' : FreeCount(slots[t].buf)' = 0
      BY <1>3, <1>4 DEF OwnInv, BufferHasOneOwner, FreeCount
    <2>3. \A r \in CacheOwners' : FreeCount(cache[r].buf)' = 0
      BY <1>4, <1>5, <1>7 DEF OwnInv, BufferHasOneOwner, FreeCount
    <2>4. \A t, u \in InUse' : t # u => slots'[t].buf # slots'[u].buf
      BY <1>3 DEF OwnInv, BufferHasOneOwner
    <2>5. \A r, q \in CacheOwners' : r # q => cache'[r].buf # cache'[q].buf
      BY <1>5, <1>8 DEF OwnInv, BufferHasOneOwner
    <2>6. \A r \in CacheOwners', t \in InUse' : cache'[r].buf # slots'[t].buf
      BY <1>3, <1>5, <1>6 DEF OwnInv, BufferHasOneOwner
    <2> QED BY <2>1, <2>2, <2>3, <2>4, <2>5, <2>6 DEF BufferHasOneOwner
  <1>11. BuffersAreLive'
    <2>1. \A c \in Buffers : /\ FreeCount(c)' > 0 => heap'[c] > 0
                             /\ pool'[c] > 0 => capacity'[c] = heap'[c]
      BY <1>4, <1>9 DEF OwnInv, BuffersAreLive
    <2>2. \A t \in InUse' : heap'[slots'[t].buf] > 0
      BY <1>3, <1>4 DEF OwnInv, BuffersAreLive
    <2>3. \A r \in CacheOwners' : heap'[cache'[r].buf] > 0
      BY <1>4, <1>5, <1>7 DEF OwnInv, BuffersAreLive
    <2> QED BY <2>1, <2>2, <2>3 DEF BuffersAreLive
  <1>12. \A t \in InUse' : slots'[t].cleanup = "Pool" =>
                            capacity'[slots'[t].buf] = heap'[slots'[t].buf]
    BY <1>3, <1>4 DEF OwnInv
  <1> QED BY <1>3, <1>10, <1>11, <1>12 DEF OwnInv

(* AssembleResults frees what the cache holds, and nobody else holds it. *)
LEMMA AssembleOwns ==
  ASSUME OwnInv, SlotTypeOK, BufTypeOK, RerankTypeOK, AssembleResults
  PROVE  OwnInv'
  <1>1. UNCHANGED <<slots, nslots, free_slots, pool, capacity, free_fixed, free_vec>>
    BY DEF AssembleResults, slotVars
  <1>2. CacheOwners' = {}
    BY DEF AssembleResults, CacheOwners, NoRecordData
  <1>3. InUse' = InUse
    BY <1>1 DEF InUse
  <1>4. ASSUME NEW b \in Buffers, b \in CachedBuffers
        PROVE  FreeCount(b) = 0 /\ \A s \in InUse : slots[s].buf # b
    <2>1. PICK r \in CacheOwners : cache[r].buf = b
      BY <1>4, SchedulerAssumption DEF CachedBuffers, CacheOwners
    <2> QED BY <2>1 DEF OwnInv, BufferHasOneOwner
  <1>5. ASSUME NEW b \in Buffers, b \notin CachedBuffers
        PROVE  heap'[b] = heap[b]
    BY <1>5 DEF AssembleResults, FreeAll
  <1>6. \A b \in Buffers : FreeCount(b)' = FreeCount(b)
    BY <1>1 DEF FreeCount
  <1>7. BufferHasOneOwner'
    BY <1>1, <1>2, <1>3 DEF OwnInv, BufferHasOneOwner, FreeCount
  <1>8. \A s \in InUse : heap'[slots[s].buf] = heap[slots[s].buf]
    BY <1>4, <1>5, SlotFields
  <1>9. BuffersAreLive'
    <2>1. \A b \in Buffers : FreeCount(b)' > 0 => heap'[b] > 0
      BY <1>4, <1>5, <1>6 DEF OwnInv, BuffersAreLive
    <2>2. \A b \in Buffers : pool[b] > 0 => FreeCount(b) > 0
      BY FreeCounts
    <2>3. \A b \in Buffers : pool'[b] > 0 => capacity'[b] = heap'[b]
      BY <1>1, <1>4, <1>5, <2>2 DEF OwnInv, BuffersAreLive
    <2> QED BY <1>1, <1>2, <1>3, <1>8, <2>1, <2>3 DEF OwnInv, BuffersAreLive
  <1>10. SlotTableConsistent' /\ \A s \in Slots : s >= nslots' => slots'[s] = Free
    BY <1>1 DEF OwnInv, SlotTableConsistent
  <1>11. \A s \in InUse' : slots'[s].cleanup = "Pool" =>
                            capacity'[slots'[s].buf] = heap'[slots'[s].buf]
    BY <1>1, <1>3, <1>8 DEF OwnInv
  <1> QED BY <1>7, <1>9, <1>10, <1>11 DEF OwnInv

LEMMA OwnUnchanged ==
  ASSUME OwnInv, UNCHANGED <<slotVars, bufVars, cache>>
  PROVE  OwnInv'
  BY DEF OwnInv, SlotTableConsistent, BufferHasOneOwner, BuffersAreLive,
         InUse, CacheOwners, FreeCount, slotVars, bufVars

LEMMA IssuePoolOwns ==
  ASSUME OwnInv, TypeOK, NEW r \in Records, NEW type \in IoTypes,
         Length(r, type) > 0, NEW s \in Slots, NEW b \in Buffers,
         IssuePoolRead(r, type, s, b), UNCHANGED cache
  PROVE  OwnInv'
  <1>1. Length(r, type) \in Nat \ {0}
    BY LengthType
  <1>2. Taken(b, "Pool")
    BY <1>1, AcquireTakes DEF IssuePoolRead, TypeOK
  <1> DEFINE slot == [buf |-> b, cleanup |-> "Pool", type |-> type, rec |-> r]
  <1>3. slot \in Slot /\ slot.buf = b /\ slot.cleanup = "Pool"
    BY DEF Slot
  <1>4. AllocateSlot(s, slot)
    BY DEF IssuePoolRead, IssueRead
  <1> HIDE DEF slot
  <1> QED BY <1>2, <1>3, <1>4, AllocateOwns DEF TypeOK

LEMMA DispatchOwns ==
  ASSUME OwnInv, TypeOK, NEW q \in comps, Dispatch(q)
  PROVE  OwnInv'
  <1>1. q.tok \in Slots
    BY DEF TypeOK, ReaderTypeOK, Request
  <1>2. CASE UNCHANGED <<slotVars, bufVars, rerankVars>>
    BY <1>2, OwnUnchanged DEF rerankVars
  <1>3. ASSUME slots[q.tok] # Free, ReturnBuffers({q.tok}), ReleaseSlots({q.tok}),
               \/ UNCHANGED cache
               \/ \E content : cache' = [cache EXCEPT ![slots[q.tok].rec] =
                                          [buf |-> NoBuf, rec |-> content]]
        PROVE  OwnInv'
    <2>1. {q.tok} \in SUBSET InUse
      BY <1>1, <1>3 DEF InUse
    <2>2. CacheOwners' \subseteq CacheOwners
          /\ \A r \in CacheOwners' : cache'[r].buf = cache[r].buf
      <3>1. CASE UNCHANGED cache
        BY <3>1 DEF CacheOwners
      <3>2. CASE ~UNCHANGED cache
        <4>1. PICK content : cache' = [cache EXCEPT ![slots[q.tok].rec] =
                                         [buf |-> NoBuf, rec |-> content]]
          BY <1>3, <3>2
        <4>2. \A r \in Records : cache'[r] # NoData /\ cache'[r].buf # NoBuf =>
                                  cache'[r] = cache[r]
          BY <4>1 DEF TypeOK, RerankTypeOK
        <4> QED BY <4>2 DEF CacheOwners
      <3> QED BY <3>1, <3>2
    <2> QED BY <1>3, <2>1, <2>2, ReleaseOwns DEF TypeOK
  <1>4. ASSUME slots[q.tok] # Free, ReleaseSlots({q.tok}), UNCHANGED bufVars,
               \E content : cache' = [cache EXCEPT ![slots[q.tok].rec] =
                                       [buf |-> slots[q.tok].buf, rec |-> content]]
        PROVE  OwnInv'
    <2>1. q.tok \in InUse
      BY <1>1, <1>4 DEF InUse
    <2> QED BY <1>4, <2>1, CacheOwns DEF TypeOK
  <1> QED BY <1>2, <1>3, <1>4 DEF Dispatch

LEMMA CleanupOwns ==
  ASSUME OwnInv, TypeOK, CleanupPendingSlots,
         UNCHANGED cache \/ cache' = NoRecordData
  PROVE  OwnInv'
  <1>1. CacheOwners' \subseteq CacheOwners
        /\ \A r \in CacheOwners' : cache'[r].buf = cache[r].buf
    BY DEF CacheOwners, NoRecordData
  <1> QED BY <1>1, ReleaseOwns DEF CleanupPendingSlots, TypeOK

LEMMA OwnInit == Init => OwnInv
  <1> SUFFICES ASSUME Init PROVE OwnInv
    OBVIOUS
  <1>1. AlignUp(VecBytes) \in Nat /\ AlignUp(VecBytes) > 0
    BY AlignUpType, SchedulerAssumption
  <1>2. InUse = {} /\ CacheOwners = {}
    BY DEF Init, InUse, CacheOwners, NoRecordData
  <1>3. SlotTableConsistent /\ \A s \in Slots : s >= nslots => slots[s] = Free
    BY SchedulerAssumption DEF Init, SlotTableConsistent
  <1>4. \A b \in Buffers : FreeCount(b) <= 1 /\ (FreeCount(b) > 0 => heap[b] > 0)
    BY <1>1, SchedulerAssumption DEF Init, PoolInit, FreeCount
  <1>5. \A b \in Buffers : pool[b] > 0 => capacity[b] = heap[b]
    BY <1>1 DEF Init, PoolInit
  <1> QED BY <1>2, <1>3, <1>4, <1>5
             DEF OwnInv, BufferHasOneOwner, BuffersAreLive

LEMMA OwnStep ==
  TypeInv /\ FetchesPayloads /\ OwnInv /\ [Next]_vars =>
    FetchesPayloads' /\ OwnInv'
  <1> SUFFICES ASSUME TypeInv, FetchesPayloads, OwnInv, [Next]_vars
               PROVE  FetchesPayloads' /\ OwnInv'
    OBVIOUS
  <1>0. TypeOK
    BY DEF TypeInv
  <1>1. CASE StartSearch
    <2>1. FetchesPayloads'
      BY <1>1 DEF StartSearch, FetchesPayloads
    <2> QED BY <1>0, <1>1, <2>1, CleanupOwns DEF StartSearch
  <1>2. ASSUME UNCHANGED <<slotVars, bufVars, rerankVars, resultVars>>
        PROVE  FetchesPayloads' /\ OwnInv'
    BY <1>2, OwnUnchanged DEF rerankVars, resultVars, FetchesPayloads
  <1>3. CASE Probe
    BY <1>2, <1>3 DEF Probe, ProbeCluster
  <1>4. CASE FlushTail
    BY <1>2, <1>4 DEF FlushTail, FlushHeld
  <1>5. ASSUME NEW r \in Records, NEW s \in Slots, NEW b \in Buffers,
               EmitAll(r, s, b)
        PROVE  FetchesPayloads' /\ OwnInv'
    <2>1. Length(r, "VEC_ALL") > 0 /\ "VEC_ALL" \in IoTypes
      BY SchedulerAssumption DEF Length, IoTypes
    <2>2. FetchesPayloads' /\ UNCHANGED cache
      BY <1>5 DEF EmitAll, resultVars, rerankVars, FetchesPayloads
    <2> QED BY <1>0, <1>5, <2>1, <2>2, IssuePoolOwns DEF EmitAll
  <1>6. ASSUME NEW r \in Records, NEW s \in Slots, NEW b \in Buffers,
               NEW kind \in {"FixedVec", "VecPool"}, EmitVecOnly(r, s, b, kind)
        PROVE  FetchesPayloads' /\ OwnInv'
    <2>1. FetchesPayloads' /\ UNCHANGED cache
      BY <1>6 DEF EmitVecOnly, resultVars, rerankVars, FetchesPayloads
    <2>2. Taken(b, kind)
      BY <1>0, <1>6, AcquireVecTakes DEF EmitVecOnly, TypeOK
    <2> DEFINE slot == [buf |-> b, cleanup |-> kind, type |-> "VEC_ONLY", rec |-> r]
    <2>3. slot \in Slot /\ slot.buf = b /\ slot.cleanup = kind
      BY DEF Slot, IoTypes
    <2>4. AllocateSlot(s, slot)
      BY <1>6 DEF EmitVecOnly, IssueRead
    <2> HIDE DEF slot
    <2> QED BY <1>0, <2>1, <2>2, <2>3, <2>4, AllocateOwns DEF TypeOK
  <1>7. ASSUME NEW r \in Records, NEW s \in Slots, NEW b \in Buffers,
               FetchPayload(r, s, b)
        PROVE  FetchesPayloads' /\ OwnInv'
    <2>1. Length(r, "PAYLOAD") > 0 /\ "PAYLOAD" \in IoTypes
      BY <1>7 DEF FetchPayload, FetchesPayloads, Length, IoTypes
    <2>2. FetchesPayloads' /\ UNCHANGED cache
      BY <1>7 DEF FetchPayload, rerankVars, FetchesPayloads
    <2> QED BY <1>0, <1>7, <2>1, <2>2, IssuePoolOwns DEF FetchPayload
  <1>8. CASE SubmitWindow \/ PollWindow \/ DrainWait \/ DrainPoll
             \/ FetchSubmit \/ FetchDone \/ Abort
    BY <1>2, <1>8 DEF SubmitWindow, PollWindow, DrainWait, DrainPoll,
                      FetchSubmit, FetchDone, Abort
  <1>9. ASSUME NEW q \in comps, Dispatch(q)
        PROVE  FetchesPayloads' /\ OwnInv'
    BY <1>0, <1>9, DispatchOwns DEF Dispatch, resultVars, FetchesPayloads
  <1>10. CASE DrainDone
    BY <1>0, <1>10, CleanupOwns
       DEF DrainDone, rerankVars, resultVars, FetchesPayloads
  <1>11. ASSUME NEW top \in SUBSET Records, ExecuteBuffered(top)
         PROVE  FetchesPayloads' /\ OwnInv'
    <2>1. \A r \in top : PayloadBytes[r] \in Nat
      BY SchedulerAssumption
    <2> QED BY <1>11, <2>1, OwnUnchanged
               DEF ExecuteBuffered, rerankVars, FetchesPayloads
  <1>12. CASE AssembleResults
    BY <1>0, <1>12, AssembleOwns DEF AssembleResults, FetchesPayloads, TypeOK
  <1>13. ASSUME NEW r \in kernel, Kernel(r) PROVE FetchesPayloads' /\ OwnInv'
    BY <1>2, <1>13 DEF Kernel
  <1>14. CASE UNCHANGED vars
    BY <1>2, <1>14 DEF vars
  <1> QED
    BY <1>1, <1>3, <1>4, <1>5, <1>6, <1>7, <1>8, <1>9, <1>10, <1>11, <1>12,
       <1>13, <1>14 DEF Next, Scheduler

LEMMA Ownership == Spec => [](OwnInv)
  <1>1. Init => TypeInv /\ FetchesPayloads /\ OwnInv
    BY TypeInit, OwnInit DEF Init, FetchesPayloads
  <1>2. TypeInv /\ FetchesPayloads /\ OwnInv /\ [Next]_vars =>
          (TypeInv /\ FetchesPayloads /\ OwnInv)'
    BY TypeStep, OwnStep
  <1> QED BY <1>1, <1>2, PTL DEF Spec

(* A slot index is never handed to two reads, and no index is lost,         *)
(* whatever the kernel does.                                                *)
THEOREM SlotsConsistent == Spec => []SlotTableConsistent
  <1>1. OwnInv => SlotTableConsistent
    BY DEF OwnInv
  <1> QED BY <1>1, Ownership, PTL

(* No buffer is ever held by two of the free lists, the pending slots and   *)
(* the payload cache, or twice by one of them.                              *)
THEOREM OneOwner == Spec => []BufferHasOneOwner
  <1>1. OwnInv => BufferHasOneOwner
    BY DEF OwnInv
  <1> QED BY <1>1, Ownership, PTL

(* No buffer in circulation has been freed, and the pool never promises     *)
(* more bytes than a buffer has.                                            *)
THEOREM LiveBuffers == Spec => []BuffersAreLive
  <1>1. OwnInv => BuffersAreLive
    BY DEF OwnInv
  <1> QED BY <1>1, Ownership, PTL
-----------------------------------------------------------------------------
(* Theorems about the reads OverlapScheduler has in the ring, and about     *)
(* what becomes of the plans, results and buffers of a query.  They assume  *)
(* that the kernel takes every SQE of a submit and that the slot table is   *)
(* smaller than the range of the reader's uint32_t counters.                *)

ReliableSubmit ==
  /\ ~SubmitMayFallShort
  /\ Cardinality(Slots) + 1 < CounterModulus

(* The pending reads and the slots they belong to. *)
Matches(q) ==
  /\ slots[q.tok] # Free
  /\ slots[q.tok].buf = q.buf
  /\ slots[q.tok].rec = q.what.rec
  /\ slots[q.tok].type = q.what.type
  /\ Length(q.what.rec, q.what.type) <= heap[q.buf]

(* A vector buffer is large enough for a vector wherever it is. *)
VecBuffersFit ==
  /\ \A b \in Buffers : free_fixed[b] > 0 \/ free_vec[b] > 0 => VecBytes <= heap[b]
  /\ \A s \in InUse : slots[s].cleanup # "Pool" => VecBytes <= heap[slots[s].buf]

StagesApart ==
  /\ sq \cap kernel = {} /\ sq \cap cq = {} /\ sq \cap comps = {}
  /\ kernel \cap cq = {} /\ kernel \cap comps = {} /\ cq \cap comps = {}

TokensDistinct == \A p, q \in Requests : p.tok = q.tok => p = q

(* Where Search can be with what in the ring. *)
RingByPlace ==
  /\ pc \notin {"emit", "tail_emit", "fetch"} => sq = {}
  /\ pc \in {"idle", "rerank", "assemble"} => Requests = {}
  /\ pc \in {"emit", "tail_emit", "poll", "fetch"} => comps = {}
  /\ pc \notin {"drain_poll", "fetch_poll", "aborted"}

-----------------------------------------------------------------------------
(* The ring by itself.                                                      *)
RingShape == StagesApart /\ TokensDistinct /\ CountersExact

AllMatch == \A q \in Requests : Matches(q)

(* The inductive invariant. *)
RingInv == RingShape /\ AllMatch /\ RingByPlace /\ VecBuffersFit

LEMMA CardinalSlots == Cardinality(Slots) \in Nat
  BY SchedulerAssumption, FS_CardinalityType

LEMMA DisjointCount ==
  ASSUME NEW S, NEW T, IsFiniteSet(S), IsFiniteSet(T), S \cap T = {}
  PROVE  /\ IsFiniteSet(S \cup T)
         /\ Cardinality(S \cup T) = Cardinality(S) + Cardinality(T)
  <1>1. IsFiniteSet(S \cup T) /\ Cardinality(S \cup T) =
          Cardinality(S) + Cardinality(T) - Cardinality(S \cap T)
    BY FS_Union
  <1>2. Cardinality(S \cap T) = 0
    BY FS_EmptySet
  <1>3. Cardinality(S) \in Nat /\ Cardinality(T) \in Nat
    BY FS_CardinalityType
  <1> QED BY <1>1, <1>2, <1>3

(* Tokens tell requests apart, so there are no more requests than slots. *)
LEMMA RequestCount ==
  ASSUME ReaderInv, StagesApart, TokensDistinct
  PROVE  /\ Cardinality(sq) \in Nat /\ Cardinality(kernel) \in Nat
         /\ Cardinality(cq) \in Nat /\ Cardinality(comps) \in Nat
         /\ Cardinality(sq) + Cardinality(kernel) + Cardinality(cq)
              <= Cardinality(Slots)
  <1> USE DEF ReaderInv, ReaderTypeOK, FiniteRequests
  <1>1. /\ Cardinality(sq) \in Nat /\ Cardinality(kernel) \in Nat
        /\ Cardinality(cq) \in Nat /\ Cardinality(comps) \in Nat
    BY FS_CardinalityType
  <1> DEFINE R == (sq \cup kernel) \cup cq
             f == [q \in R |-> q.tok]
  <1>2. IsFiniteSet(sq \cup kernel)
        /\ Cardinality(sq \cup kernel) = Cardinality(sq) + Cardinality(kernel)
    BY DisjointCount DEF StagesApart
  <1>3. Cardinality(R) = Cardinality(sq) + Cardinality(kernel) + Cardinality(cq)
    <2>1. (sq \cup kernel) \cap cq = {}
      BY DEF StagesApart
    <2> QED BY <1>2, <2>1, DisjointCount
  <1>4. f \in [R -> Slots]
    BY DEF Request
  <1>5. \A p, q \in R : f[p] = f[q] => p = q
    BY DEF TokensDistinct, Requests
  <1>6. f \in Injection(R, Slots)
    BY <1>4, <1>5, Fun_IsInj
  <1> HIDE DEF R, f
  <1>7. Cardinality(R) <= Cardinality(Slots)
    BY <1>6, FS_Injection, SchedulerAssumption
  <1> QED BY <1>1, <1>3, <1>7

LEMMA NoWrap ==
  ASSUME ReliableSubmit, NEW n \in Nat, n <= Cardinality(Slots) + 1
  PROVE  Wrap(n) = n
  <1>1. n < CounterModulus
    BY CardinalSlots, SchedulerAssumption DEF ReliableSubmit
  <1> QED BY <1>1, SchedulerAssumption DEF Wrap

LEMMA PrepRing ==
  ASSUME ReliableSubmit, ReaderInv, RingShape,
         NEW s \in Slots, NEW b \in Buffers, NEW x \in Extent,
         \A q \in Requests : q.tok # s, PrepReadTagged(s, b, x)
  PROVE  /\ RingShape'
         /\ Requests' = Requests \cup {Sqe(s, b, x)}
         /\ UNCHANGED <<cq, comps, mem>>
  <1> DEFINE q == Sqe(s, b, x)
  <1>1. q.tok = s /\ q \notin Requests
    BY DEF Sqe
  <1>2. /\ Cardinality(sq) \in Nat /\ Cardinality(kernel) \in Nat
        /\ Cardinality(cq) \in Nat
        /\ Cardinality(sq) + Cardinality(kernel) + Cardinality(cq)
             <= Cardinality(Slots)
    BY RequestCount DEF RingShape
  <1>3. prepped = Cardinality(sq) /\ in_flight = Cardinality(kernel) + Cardinality(cq)
    BY DEF RingShape, CountersExact
  <1>4. UNCHANGED <<cq, comps, mem>>
    BY DEF PrepReadTagged
  <1> HIDE DEF q
  <1>5. CASE SqHasRoom
    <2>1. sq' = sq \cup {q} /\ prepped' = Wrap(prepped + 1) /\ UNCHANGED <<kernel, in_flight>>
      BY <1>5 DEF PrepReadTagged, q
    <2>2. Requests' = Requests \cup {q}
      BY <1>4, <2>1 DEF Requests
    <2>3. StagesApart' /\ TokensDistinct'
      BY <1>1, <1>4, <2>1, <2>2
         DEF StagesApart, TokensDistinct, Requests, RingShape
    <2>4. Cardinality(sq') = Cardinality(sq) + 1
      BY <1>1, <2>1, FS_AddElement DEF Requests, ReaderInv, FiniteRequests
    <2>5. prepped' = Cardinality(sq')
      BY <1>2, <1>3, <2>1, <2>4, NoWrap, CardinalSlots
    <2>6. in_flight' = Cardinality(kernel') + Cardinality(cq')
      BY <1>3, <1>4, <2>1
    <2> QED BY <1>4, <2>2, <2>3, <2>5, <2>6 DEF RingShape, CountersExact, q
  <1>6. CASE ~SqHasRoom
    <2>1. kernel' = kernel \cup sq /\ sq' = {q}
          /\ in_flight' = Wrap(in_flight + prepped) /\ prepped' = Wrap(1)
      BY <1>6 DEF PrepReadTagged, Accepts, ReliableSubmit, q
    <2>2. Requests' = Requests \cup {q}
      BY <1>4, <2>1 DEF Requests
    <2>3. StagesApart' /\ TokensDistinct'
      BY <1>1, <1>4, <2>1, <2>2
         DEF StagesApart, TokensDistinct, Requests, RingShape
    <2>4. Cardinality(sq') = 1
      BY <2>1, FS_Singleton
    <2>5. Cardinality(kernel') = Cardinality(kernel) + Cardinality(sq)
      BY <2>1, DisjointCount
         DEF RingShape, StagesApart, ReaderInv, FiniteRequests
    <2>6. prepped' = Cardinality(sq')
      BY <2>1, <2>4, NoWrap, CardinalSlots
    <2>7. in_flight' = Cardinality(kernel') + Cardinality(cq')
      BY <1>2, <1>3, <1>4, <2>1, <2>5, NoWrap, CardinalSlots
    <2> QED BY <1>4, <2>2, <2>3, <2>6, <2>7 DEF RingShape, CountersExact, q
  <1> QED BY <1>5, <1>6

LEMMA SubmitRing ==
  ASSUME ReliableSubmit, ReaderInv, RingShape, Submit
  PROVE  /\ RingShape' /\ Requests' = Requests /\ sq' = {}
         /\ UNCHANGED <<cq, comps, mem>>
  <1>1. /\ Cardinality(sq) \in Nat /\ Cardinality(kernel) \in Nat
        /\ Cardinality(cq) \in Nat
        /\ Cardinality(sq) + Cardinality(kernel) + Cardinality(cq)
             <= Cardinality(Slots)
    BY RequestCount DEF RingShape
  <1>2. prepped = Cardinality(sq) /\ in_flight = Cardinality(kernel) + Cardinality(cq)
    BY DEF RingShape, CountersExact
  <1>3. UNCHANGED <<cq, comps, mem>>
    BY DEF Submit
  <1>4. CASE prepped = 0
    <2>1. sq = {}
      BY <1>2, <1>4, FS_EmptySet DEF ReaderInv, FiniteRequests
    <2>2. UNCHANGED <<sq, kernel, in_flight, prepped>>
      BY <1>4 DEF Submit
    <2> QED BY <1>3, <2>1, <2>2, SMTT(20)
               DEF RingShape, StagesApart, TokensDistinct, CountersExact, Requests
  <1>5. CASE prepped # 0
    <2>1. kernel' = kernel \cup sq /\ sq' = {} /\ prepped' = 0
          /\ in_flight' = Wrap(in_flight + Cardinality(sq))
      BY <1>5 DEF Submit, Accepts, ReliableSubmit
    <2>2. Requests' = Requests
      BY <1>3, <2>1 DEF Requests
    <2>3. StagesApart' /\ TokensDistinct'
      BY <1>3, <2>1, <2>2 DEF RingShape, StagesApart, TokensDistinct
    <2>4. Cardinality(kernel') = Cardinality(kernel) + Cardinality(sq)
      BY <2>1, DisjointCount
         DEF RingShape, StagesApart, ReaderInv, FiniteRequests
    <2>5. in_flight' = Cardinality(kernel') + Cardinality(cq')
      BY <1>1, <1>2, <1>3, <2>1, <2>4, NoWrap, CardinalSlots
    <2>6. prepped' = Cardinality(sq')
      BY <2>1, FS_EmptySet
    <2> QED BY <1>3, <2>1, <2>2, <2>3, <2>5, <2>6 DEF RingShape, CountersExact
  <1> QED BY <1>4, <1>5

LEMMA TakeRing ==
  ASSUME ReliableSubmit, ReaderInv, RingShape, comps = {}, TakeCompletions
  PROVE  RingShape' /\ Requests' = Requests /\ UNCHANGED <<sq, kernel, mem>>
  <1>1. PICK D \in SUBSET cq :
          /\ comps' = D /\ cq' = cq \ D
          /\ in_flight' = Wrap(in_flight - Cardinality(D))
          /\ UNCHANGED <<sq, kernel, prepped, mem>>
    BY DEF TakeCompletions
  <1>2. /\ Cardinality(sq) \in Nat /\ Cardinality(kernel) \in Nat
        /\ Cardinality(cq) \in Nat
        /\ Cardinality(sq) + Cardinality(kernel) + Cardinality(cq)
             <= Cardinality(Slots)
    BY RequestCount DEF RingShape
  <1>3. Requests' = Requests
    BY <1>1 DEF Requests
  <1>4. StagesApart' /\ TokensDistinct'
    BY <1>1, <1>3 DEF RingShape, StagesApart, TokensDistinct
  <1>5. IsFiniteSet(D) /\ IsFiniteSet(cq \ D)
    BY FS_Subset DEF ReaderInv, FiniteRequests
  <1>6. Cardinality(cq) = Cardinality(D) + Cardinality(cq \ D)
    <2>1. cq = D \cup (cq \ D) /\ D \cap (cq \ D) = {}
      OBVIOUS
    <2> QED BY <1>5, <2>1, DisjointCount
  <1>7. Cardinality(D) \in Nat /\ Cardinality(cq \ D) \in Nat
    BY <1>5, FS_CardinalityType
  <1>8. in_flight - Cardinality(D) = Cardinality(kernel) + Cardinality(cq \ D)
    BY <1>2, <1>6, <1>7 DEF RingShape, CountersExact
  <1>9. in_flight' = Cardinality(kernel') + Cardinality(cq')
    BY <1>1, <1>2, <1>6, <1>7, <1>8, NoWrap, CardinalSlots
  <1>10. CountersExact'
    BY <1>1, <1>9 DEF CountersExact, RingShape
  <1> QED BY <1>1, <1>3, <1>4, <1>10 DEF RingShape

LEMMA KernelRing ==
  ASSUME ReaderInv, RingShape, NEW r \in kernel, KernelComplete(r)
  PROVE  RingShape' /\ Requests' = Requests /\ UNCHANGED <<sq, comps>>
  <1>1. kernel' = kernel \ {r} /\ cq' = cq \cup {r} /\ r \notin cq
        /\ UNCHANGED <<sq, in_flight, prepped, comps>>
    BY DEF KernelComplete, RingShape, StagesApart
  <1>2. Requests' = Requests
    BY <1>1 DEF Requests
  <1>3. StagesApart' /\ TokensDistinct'
    BY <1>1, <1>2 DEF RingShape, StagesApart, TokensDistinct
  <1>4. /\ Cardinality(kernel') = Cardinality(kernel) - 1
        /\ Cardinality(cq') = Cardinality(cq) + 1
    BY <1>1, FS_RemoveElement, FS_AddElement DEF ReaderInv, FiniteRequests
  <1>5. Cardinality(kernel) \in Nat /\ Cardinality(cq) \in Nat
    BY FS_CardinalityType DEF ReaderInv, FiniteRequests
  <1>6. CountersExact'
    BY <1>1, <1>4, <1>5 DEF CountersExact, RingShape
  <1> QED BY <1>1, <1>2, <1>3, <1>6 DEF RingShape

LEMMA DispatchRing ==
  ASSUME RingShape, NEW q \in comps, comps' = comps \ {q},
         UNCHANGED <<sq, kernel, cq, in_flight, prepped>>
  PROVE  RingShape' /\ Requests' = Requests \ {q}
  <1>1. Requests' = Requests \ {q}
    BY DEF Requests, RingShape, StagesApart
  <1>2. StagesApart' /\ TokensDistinct'
    BY <1>1 DEF RingShape, StagesApart, TokensDistinct
  <1> QED BY <1>1, <1>2 DEF RingShape, CountersExact

LEMMA ShapeUnchanged ==
  ASSUME RingShape, UNCHANGED <<sq, kernel, cq, comps, in_flight, prepped>>
  PROVE  RingShape' /\ Requests' = Requests
  BY DEF RingShape, StagesApart, TokensDistinct, CountersExact, Requests
-----------------------------------------------------------------------------
(* The requests and their slots.                                            *)

LEMMA MatchKept ==
  ASSUME AllMatch, Requests' \subseteq Requests,
         \A q \in Requests' : /\ slots'[q.tok] = slots[q.tok]
                               /\ heap'[q.buf] = heap[q.buf]
  PROVE  AllMatch'
  BY DEF AllMatch, Matches, Length

LEMMA RequestFields ==
  ASSUME ReaderInv, NEW q \in Requests
  PROVE  q.tok \in Slots /\ q.buf \in Buffers /\ q.what \in Extent
  BY DEF ReaderInv, ReaderTypeOK, Requests, Request

(* What pending reads are directed to is held by their slots. *)
LEMMA MatchedBuffers ==
  ASSUME ReaderInv, AllMatch, NEW q \in Requests
  PROVE  q.tok \in InUse /\ slots[q.tok].buf = q.buf
  BY RequestFields DEF AllMatch, Matches, InUse

(* One more read, into a buffer that was just taken and is large enough. *)
LEMMA IssueMatches ==
  ASSUME ReliableSubmit, ReaderInv, SlotTypeOK, OwnInv, RingShape, AllMatch,
         NEW r \in Records, NEW type \in IoTypes, NEW s \in Slots,
         NEW b \in Buffers, NEW kind \in {"FixedVec", "VecPool", "Pool"},
         IssueRead(r, type, s, b, kind), Taken(b, kind),
         Length(r, type) <= heap'[b]
  PROVE  RingShape' /\ AllMatch' /\ UNCHANGED <<cq, comps, mem>>
  <1> DEFINE slot == [buf |-> b, cleanup |-> kind, type |-> type, rec |-> r]
             what == [rec |-> r, type |-> type]
             new == Sqe(s, b, what)
  <1>1. slot \in Slot /\ what \in Extent
    BY DEF Slot, Extent
  <1>2. AllocateSlot(s, slot) /\ PrepReadTagged(s, b, what)
    BY DEF IssueRead
  <1>3. slots[s] = Free /\ slots' = [slots EXCEPT ![s] = slot]
    BY <1>2 DEF AllocateSlot, OwnInv, SlotTableConsistent, SlotTypeOK
  <1>4. \A q \in Requests : q.tok # s
    BY <1>3 DEF AllMatch, Matches
  <1>5. RingShape' /\ Requests' = Requests \cup {new} /\ UNCHANGED <<cq, comps, mem>>
    BY <1>1, <1>2, <1>4, PrepRing
  <1>6. \A q \in Requests : q.buf \in Buffers \ {b}
    BY MatchedBuffers, RequestFields DEF Taken, Unowned
  <1>7. \A q \in Requests : slots'[q.tok] = slots[q.tok] /\ heap'[q.buf] = heap[q.buf]
    BY <1>3, <1>4, <1>6 DEF Taken, SlotTypeOK
  <1>8. \A q \in Requests : Matches(q)'
    BY <1>7 DEF AllMatch, Matches, Length
  <1>9. slots'[s] = slot /\ slot # Free
    BY <1>1, <1>3, SentinelAssumption DEF SlotTypeOK
  <1>10. new.tok = s /\ new.buf = b /\ new.what = what
    BY DEF Sqe
  <1>11. /\ slots'[new.tok] # Free /\ slots'[new.tok].buf = new.buf
         /\ slots'[new.tok].rec = new.what.rec
         /\ slots'[new.tok].type = new.what.type
         /\ Length(new.what.rec, new.what.type) <= heap'[new.buf]
    BY <1>9, <1>10
  <1> HIDE DEF new
  <1>12. \A q \in Requests' : /\ slots'[q.tok] # Free /\ slots'[q.tok].buf = q.buf
                               /\ slots'[q.tok].rec = q.what.rec
                               /\ slots'[q.tok].type = q.what.type
                               /\ Length(q.what.rec, q.what.type) <= heap'[q.buf]
    BY <1>5, <1>8, <1>11 DEF Matches, Length
  <1>13. AllMatch'
    BY <1>12 DEF AllMatch, Matches, Length
  <1> QED BY <1>5, <1>13
-----------------------------------------------------------------------------
(* Buffers are large enough.                                                *)

LEMMA AcquireFits ==
  ASSUME OwnInv, BufTypeOK, NEW b \in Buffers, NEW size \in Nat, Acquire(b, size)
  PROVE  size <= heap'[b]
  <1>1. size <= AlignUp(size) /\ AlignUp(size) \in Nat
    BY AlignUpType
  <1>2. CASE Fits(b, size) /\ UNCHANGED heap
    <2>1. capacity[b] = heap[b]
      BY <1>2 DEF Fits, OwnInv, BuffersAreLive
    <2> QED BY <1>1, <1>2, <2>1 DEF Fits, BufTypeOK, PoolTypeOK
  <1>3. CASE Allocated(b, AlignUp(size))
    BY <1>1, <1>3 DEF Allocated, BufTypeOK, PoolTypeOK
  <1> QED BY <1>2, <1>3 DEF Acquire

LEMMA AcquireVecFits ==
  ASSUME BufTypeOK, VecBuffersFit, NEW b \in Buffers, NEW kind,
         AcquireVecBuffer(b, kind)
  PROVE  VecBytes <= heap'[b]
  <1>1. VecBytes <= AlignUp(VecBytes)
    BY AlignUpType, SchedulerAssumption
  <1> QED BY <1>1 DEF AcquireVecBuffer, Allocated, VecBuffersFit, BufTypeOK, PoolTypeOK

LEMMA IssueKeepsFit ==
  ASSUME OwnInv, SlotTypeOK, BufTypeOK, BufTypeOK', VecBuffersFit,
         NEW s \in Slots, NEW slot \in Slot, NEW b \in Buffers, b = slot.buf,
         AllocateSlot(s, slot), Taken(b, slot.cleanup),
         slot.cleanup # "Pool" => VecBytes <= heap'[b],
         \A c \in Buffers \ {b} : free_fixed'[c] = free_fixed[c]
                                  /\ free_vec'[c] = free_vec[c]
  PROVE  VecBuffersFit'
  <1>1. free_fixed'[b] = 0 /\ free_vec'[b] = 0
    BY DEF Taken, FreeCount, BufTypeOK, PoolTypeOK
  <1>2. \A c \in Buffers : free_fixed'[c] > 0 \/ free_vec'[c] > 0 =>
                            VecBytes <= heap'[c]
    BY <1>1 DEF Taken, VecBuffersFit
  <1>3. \A t \in InUse' : \/ t \in InUse /\ slots'[t] = slots[t]
                          \/ t = s /\ slots'[t] = slot
    BY DEF AllocateSlot, InUse, SlotTypeOK
  <1>4. \A t \in InUse : slots[t].buf \in Buffers \ {b}
    BY SlotFields DEF Taken, Unowned
  <1>5. \A t \in InUse' : slots'[t].cleanup # "Pool" => VecBytes <= heap'[slots'[t].buf]
    BY <1>3, <1>4 DEF Taken, VecBuffersFit
  <1> QED BY <1>2, <1>5 DEF VecBuffersFit

LEMMA ReleaseKeepsFit ==
  ASSUME OwnInv, SlotTypeOK, BufTypeOK, VecBuffersFit, NEW S \in SUBSET InUse,
         ReleaseSlots(S), ReturnBuffers(S)
  PROVE  VecBuffersFit'
  <1>1. UNCHANGED heap
    BY DEF ReturnBuffers
  <1>2. \A t \in InUse' : t \in InUse /\ slots'[t] = slots[t]
    BY ReleasedSlots
  <1>3. ASSUME NEW b \in Buffers, free_fixed'[b] > 0 PROVE VecBytes <= heap[b]
    <2>1. CASE Returning(S, b, "FixedVec") = {}
      <3>1. free_fixed'[b] = free_fixed[b] + 0
        BY <2>1, FS_EmptySet DEF ReturnBuffers
      <3> QED BY <1>3, <3>1 DEF VecBuffersFit, BufTypeOK
    <2>2. CASE Returning(S, b, "FixedVec") # {}
      BY <2>2 DEF Returning, VecBuffersFit
    <2> QED BY <2>1, <2>2
  <1>4. ASSUME NEW b \in Buffers, free_vec'[b] > 0 PROVE VecBytes <= heap[b]
    <2>1. CASE Returning(S, b, "VecPool") = {}
      <3>1. free_vec'[b] = free_vec[b] + 0
        BY <2>1, FS_EmptySet DEF ReturnBuffers
      <3> QED BY <1>4, <3>1 DEF VecBuffersFit, BufTypeOK
    <2>2. CASE Returning(S, b, "VecPool") # {}
      BY <2>2 DEF Returning, VecBuffersFit
    <2> QED BY <2>1, <2>2
  <1> QED BY <1>1, <1>2, <1>3, <1>4 DEF VecBuffersFit

LEMMA FitUnchanged ==
  ASSUME VecBuffersFit, UNCHANGED <<slots, heap, free_fixed, free_vec>>
  PROVE  VecBuffersFit'
  BY DEF VecBuffersFit, InUse

LEMMA IssuePoolRing ==
  ASSUME ReliableSubmit, TypeInv, OwnInv, RingInv, NEW r \in Records,
         NEW type \in IoTypes, Length(r, type) > 0, NEW s \in Slots,
         NEW b \in Buffers, IssuePoolRead(r, type, s, b)
  PROVE  /\ RingShape' /\ AllMatch' /\ VecBuffersFit'
         /\ UNCHANGED <<cq, comps, mem>>
  <1> USE DEF TypeInv, TypeOK, ReaderInv, RingInv
  <1>1. Length(r, type) \in Nat \ {0}
    BY LengthType
  <1>2. Taken(b, "Pool") /\ Length(r, type) <= heap'[b]
    BY <1>1, AcquireTakes, AcquireFits DEF IssuePoolRead
  <1>3. RingShape' /\ AllMatch' /\ UNCHANGED <<cq, comps, mem>>
    BY <1>2, IssueMatches DEF IssuePoolRead
  <1>4. BufTypeOK'
    BY IssuePoolReadType
  <1> DEFINE slot == [buf |-> b, cleanup |-> "Pool", type |-> type, rec |-> r]
  <1>5. slot \in Slot /\ slot.buf = b /\ slot.cleanup = "Pool"
    BY DEF Slot
  <1>6. AllocateSlot(s, slot) /\ UNCHANGED <<free_fixed, free_vec>>
    BY DEF IssuePoolRead, IssueRead
  <1> HIDE DEF slot
  <1>7. VecBuffersFit'
    BY <1>2, <1>4, <1>5, <1>6, IssueKeepsFit
  <1> QED BY <1>3, <1>7

LEMMA IssueVecRing ==
  ASSUME ReliableSubmit, TypeInv, OwnInv, RingInv, NEW r \in Records,
         NEW s \in Slots, NEW b \in Buffers, NEW kind \in {"FixedVec", "VecPool"},
         AcquireVecBuffer(b, kind), IssueRead(r, "VEC_ONLY", s, b, kind)
  PROVE  /\ RingShape' /\ AllMatch' /\ VecBuffersFit'
         /\ UNCHANGED <<cq, comps, mem>>
  <1> USE DEF TypeInv, TypeOK, ReaderInv, RingInv
  <1>1. Length(r, "VEC_ONLY") = VecBytes /\ "VEC_ONLY" \in IoTypes
    BY DEF Length, IoTypes
  <1>2. Taken(b, kind) /\ VecBytes <= heap'[b]
    BY AcquireVecTakes, AcquireVecFits
  <1>3. RingShape' /\ AllMatch' /\ UNCHANGED <<cq, comps, mem>>
    BY <1>1, <1>2, IssueMatches
  <1>4. BufTypeOK'
    BY AcquireVecBufferType
  <1> DEFINE slot == [buf |-> b, cleanup |-> kind, type |-> "VEC_ONLY", rec |-> r]
  <1>5. slot \in Slot /\ slot.buf = b /\ slot.cleanup = kind
    BY <1>1 DEF Slot
  <1>6. AllocateSlot(s, slot)
    BY DEF IssueRead
  <1>7. \A c \in Buffers \ {b} : free_fixed'[c] = free_fixed[c]
                                 /\ free_vec'[c] = free_vec[c]
    BY DEF AcquireVecBuffer, BufTypeOK
  <1> HIDE DEF slot
  <1>8. VecBuffersFit'
    BY <1>2, <1>4, <1>5, <1>6, <1>7, IssueKeepsFit
  <1> QED BY <1>3, <1>8
-----------------------------------------------------------------------------
(* The steps of Search.                                                     *)

(* InFlight() = 0 means that there is nothing to wait for. *)
LEMMA NothingInFlight ==
  ASSUME ReaderInv, RingShape, in_flight = 0
  PROVE  kernel = {} /\ cq = {}
  <1>1. Cardinality(kernel) \in Nat /\ Cardinality(cq) \in Nat
    BY FS_CardinalityType DEF ReaderInv, FiniteRequests
  <1>2. Cardinality(kernel) = 0 /\ Cardinality(cq) = 0
    BY <1>1 DEF RingShape, CountersExact
  <1> QED BY <1>2, FS_EmptySet DEF ReaderInv, FiniteRequests

LEMMA NothingPrepped ==
  ASSUME ReaderInv, RingShape, prepped = 0
  PROVE  sq = {}
  BY FS_EmptySet DEF ReaderInv, FiniteRequests, RingShape, CountersExact

LEMMA CleanupRing ==
  ASSUME TypeInv, OwnInv, RingInv, Requests = {}, CleanupPendingSlots,
         UNCHANGED <<sq, kernel, cq, comps, in_flight, prepped>>
  PROVE  RingShape' /\ AllMatch' /\ VecBuffersFit' /\ Requests' = {}
  <1>1. RingShape' /\ Requests' = {}
    BY ShapeUnchanged DEF RingInv
  <1>2. AllMatch'
    BY <1>1 DEF AllMatch
  <1>3. VecBuffersFit'
    BY ReleaseKeepsFit DEF CleanupPendingSlots, TypeInv, TypeOK, RingInv
  <1> QED BY <1>1, <1>2, <1>3

LEMMA DispatchKeepsRing ==
  ASSUME TypeInv, OwnInv, RingInv, NEW q \in comps, Dispatch(q)
  PROVE  RingInv'
  <1> USE DEF TypeInv, TypeOK, ReaderInv, RingInv
  <1>1. RingShape' /\ Requests' = Requests \ {q}
    BY DispatchRing DEF Dispatch
  <1>2. q \in Requests /\ q.tok \in InUse
    BY MatchedBuffers DEF Requests
  <1>3. ReleaseSlots({q.tok}) /\ UNCHANGED heap
    BY <1>2 DEF Dispatch, InUse, ReturnBuffers, bufVars
  <1>4. \A p \in Requests' : slots'[p.tok] = slots[p.tok]
    BY <1>1, <1>2, <1>3, RequestFields DEF ReleaseSlots, RingShape, TokensDistinct
  <1>5. AllMatch'
    BY <1>1, <1>3, <1>4, MatchKept
  <1>6. VecBuffersFit'
    <2>1. CASE ReturnBuffers({q.tok})
      BY <1>2, <1>3, <2>1, ReleaseKeepsFit
    <2>2. CASE UNCHANGED bufVars
      <3>1. UNCHANGED <<heap, free_fixed, free_vec>>
        BY <2>2 DEF bufVars
      <3>2. \A t \in InUse' : t \in InUse /\ slots'[t] = slots[t]
        BY <1>2, <1>3, ReleasedSlots
      <3> QED BY <3>1, <3>2 DEF VecBuffersFit
    <2> QED BY <1>2, <2>1, <2>2 DEF Dispatch, InUse
  <1>7. RingByPlace'
    BY <1>1 DEF Dispatch, RingByPlace, Requests
  <1> QED BY <1>1, <1>5, <1>6, <1>7

LEMMA AssembleKeepsFit ==
  ASSUME TypeInv, OwnInv, VecBuffersFit, AssembleResults
  PROVE  VecBuffersFit'
  <1>1. UNCHANGED <<slots, free_fixed, free_vec>> /\ InUse' = InUse
    BY DEF AssembleResults, slotVars, InUse
  <1>2. ASSUME NEW b \in Buffers, b \in CachedBuffers
        PROVE  FreeCount(b) = 0 /\ \A s \in InUse : slots[s].buf # b
    <2>1. PICK r \in CacheOwners : cache[r].buf = b
      BY <1>2, SchedulerAssumption DEF CachedBuffers, CacheOwners
    <2> QED BY <2>1 DEF OwnInv, BufferHasOneOwner
  <1>3. \A b \in Buffers : b \notin CachedBuffers => heap'[b] = heap[b]
    BY DEF AssembleResults, FreeAll
  <1>4. \A b \in Buffers : free_fixed[b] > 0 \/ free_vec[b] > 0 => FreeCount(b) > 0
    BY FreeCounts DEF TypeInv, TypeOK
  <1>5. \A b \in Buffers : free_fixed'[b] > 0 \/ free_vec'[b] > 0 =>
                            VecBytes <= heap'[b]
    BY <1>1, <1>2, <1>3, <1>4 DEF VecBuffersFit
  <1>6. \A s \in InUse : heap'[slots[s].buf] = heap[slots[s].buf]
    BY <1>2, <1>3, SlotFields DEF TypeInv, TypeOK
  <1> QED BY <1>1, <1>5, <1>6 DEF VecBuffersFit

LEMMA RingInit == Init => RingInv
  <1> SUFFICES ASSUME Init PROVE RingInv
    OBVIOUS
  <1>1. Requests = {} /\ InUse = {}
    BY DEF Init, ReaderInit, Requests, InUse
  <1>2. RingShape
    BY <1>1, FS_EmptySet
       DEF Init, ReaderInit, RingShape, StagesApart, TokensDistinct, CountersExact
  <1>3. RingByPlace /\ AllMatch
    BY <1>1 DEF Init, ReaderInit, RingByPlace, AllMatch
  <1>4. VecBytes <= AlignUp(VecBytes)
    BY AlignUpType, SchedulerAssumption
  <1>5. VecBuffersFit
    BY <1>1, <1>4, SchedulerAssumption DEF Init, PoolInit, VecBuffersFit
  <1> QED BY <1>2, <1>3, <1>5 DEF RingInv

LEMMA RingStep ==
  ASSUME ReliableSubmit
  PROVE  TypeInv /\ FetchesPayloads /\ OwnInv /\ RingInv /\ [Next]_vars => RingInv'
  <1> SUFFICES ASSUME TypeInv, FetchesPayloads, OwnInv, RingInv, [Next]_vars
               PROVE  RingInv'
    OBVIOUS
  <1> USE DEF TypeInv, TypeOK, ReaderInv, RingInv
  <1>0. ASSUME UNCHANGED ringVars, UNCHANGED <<slotVars, bufVars>>
        PROVE  RingShape' /\ AllMatch' /\ VecBuffersFit' /\ Requests' = Requests
    <2>1. RingShape' /\ Requests' = Requests
      BY <1>0, ShapeUnchanged DEF ringVars
    <2>2. AllMatch'
      BY <1>0, <2>1, MatchKept DEF slotVars, bufVars
    <2>3. VecBuffersFit'
      BY <1>0, FitUnchanged DEF slotVars, bufVars
    <2> QED BY <2>1, <2>2, <2>3
  <1>00. ASSUME UNCHANGED <<slotVars, bufVars>>, RingShape', Requests' = Requests
         PROVE  AllMatch' /\ VecBuffersFit'
    <2>1. AllMatch'
      BY <1>00, MatchKept DEF slotVars, bufVars
    <2>2. VecBuffersFit'
      BY <1>00, FitUnchanged DEF slotVars, bufVars
    <2> QED BY <2>1, <2>2
  <1>1. CASE StartSearch
    <2>1. Requests = {}
      BY <1>1 DEF StartSearch, RingByPlace
    <2>2. RingShape' /\ AllMatch' /\ VecBuffersFit' /\ Requests' = {}
      BY <1>1, <2>1, CleanupRing DEF StartSearch
    <2>3. RingByPlace'
      BY <1>1, <2>2 DEF StartSearch, RingByPlace, Requests
    <2> QED BY <2>2, <2>3
  <1>2. CASE Probe
    <2>1. UNCHANGED ringVars /\ UNCHANGED <<slotVars, bufVars>>
          /\ pc = "probe" /\ comps = {} /\ pc' \in {"emit", "probe", "tail"}
      BY <1>2 DEF Probe, ProbeCluster
    <2>2. RingByPlace'
      BY <2>1 DEF RingByPlace, ringVars
    <2> QED BY <1>0, <2>1, <2>2
  <1>3. CASE FlushTail
    <2>1. UNCHANGED ringVars /\ UNCHANGED <<slotVars, bufVars>>
          /\ pc = "tail" /\ comps = {} /\ pc' \in {"tail_emit", "drain"}
      BY <1>3 DEF FlushTail, FlushHeld
    <2>2. RingByPlace'
      BY <2>1 DEF RingByPlace, ringVars
    <2> QED BY <1>0, <2>1, <2>2
  <1>4. ASSUME NEW r \in Records, NEW s \in Slots, NEW b \in Buffers,
               EmitAll(r, s, b)
        PROVE  RingInv'
    <2>1. Length(r, "VEC_ALL") > 0 /\ "VEC_ALL" \in IoTypes
      BY SchedulerAssumption DEF Length, IoTypes
    <2>2. RingShape' /\ AllMatch' /\ VecBuffersFit' /\ UNCHANGED <<cq, comps, mem>>
      BY <1>4, <2>1, IssuePoolRing DEF EmitAll
    <2> QED BY <1>4, <2>2 DEF EmitAll, Emitting, RingByPlace
  <1>5. ASSUME NEW r \in Records, NEW s \in Slots, NEW b \in Buffers,
               NEW kind \in {"FixedVec", "VecPool"}, EmitVecOnly(r, s, b, kind)
        PROVE  RingInv'
    <2>1. RingShape' /\ AllMatch' /\ VecBuffersFit' /\ UNCHANGED <<cq, comps, mem>>
      BY <1>5, IssueVecRing DEF EmitVecOnly
    <2> QED BY <1>5, <2>1 DEF EmitVecOnly, Emitting, RingByPlace
  <1>6. ASSUME NEW r \in Records, NEW s \in Slots, NEW b \in Buffers,
               FetchPayload(r, s, b)
        PROVE  RingInv'
    <2>1. Length(r, "PAYLOAD") > 0 /\ "PAYLOAD" \in IoTypes
      BY <1>6 DEF FetchPayload, FetchesPayloads, Length, IoTypes
    <2>2. RingShape' /\ AllMatch' /\ VecBuffersFit' /\ UNCHANGED <<cq, comps, mem>>
      BY <1>6, <2>1, IssuePoolRing DEF FetchPayload
    <2> QED BY <1>6, <2>2 DEF FetchPayload, RingByPlace
  <1>7. CASE SubmitWindow
    <2>1. RingShape' /\ Requests' = Requests /\ sq' = {} /\ UNCHANGED <<cq, comps>>
      BY <1>7, SubmitRing DEF SubmitWindow
    <2>2. RingByPlace'
      BY <1>7, <2>1 DEF SubmitWindow, Emitting, RingByPlace
    <2> QED BY <1>7, <1>00, <2>1, <2>2 DEF SubmitWindow
  <1>8. CASE PollWindow
    <2>1. RingShape' /\ Requests' = Requests /\ UNCHANGED <<sq, kernel>>
      BY <1>8, TakeRing DEF PollWindow, Poll
    <2>2. RingByPlace'
      BY <1>8, <2>1 DEF PollWindow, RingByPlace
    <2> QED BY <1>8, <1>00, <2>1, <2>2 DEF PollWindow
  <1>9. ASSUME NEW q \in comps, Dispatch(q) PROVE RingInv'
    BY <1>9, DispatchKeepsRing
  <1>10. CASE DrainWait
    <2>1. RingShape' /\ Requests' = Requests /\ UNCHANGED <<sq, kernel>>
      BY <1>10, TakeRing DEF DrainWait, WaitAndPoll
    <2>2. RingByPlace'
      BY <1>10, <2>1 DEF DrainWait, RingByPlace
    <2> QED BY <1>10, <1>00, <2>1, <2>2 DEF DrainWait
  <1>11. CASE DrainPoll
    <2>1. in_flight = 0 /\ cq # {}
      BY <1>11 DEF DrainPoll, RingByPlace
    <2> QED BY <2>1, NothingInFlight
  <1>12. CASE DrainDone
    <2>1. pc = "drain" /\ in_flight = 0 /\ comps = {}
      BY <1>12 DEF DrainDone, RingByPlace
    <2>2. Requests = {}
      BY <2>1, NothingInFlight DEF Requests, RingByPlace
    <2>3. RingShape' /\ AllMatch' /\ VecBuffersFit' /\ Requests' = {}
      BY <1>12, <2>2, CleanupRing DEF DrainDone, ringVars
    <2>4. RingByPlace'
      BY <1>12, <2>3 DEF DrainDone, RingByPlace, Requests
    <2> QED BY <2>3, <2>4
  <1>13. ASSUME NEW top \in SUBSET Records, ExecuteBuffered(top) PROVE RingInv'
    <2>1. Requests = {} /\ UNCHANGED ringVars /\ UNCHANGED <<slotVars, bufVars>>
          /\ pc' = "fetch"
      BY <1>13 DEF ExecuteBuffered, RingByPlace
    <2>2. RingByPlace'
      BY <2>1 DEF RingByPlace, Requests, ringVars
    <2> QED BY <1>0, <2>1, <2>2
  <1>14. CASE FetchSubmit
    <2>1. UNCHANGED <<slotVars, bufVars>> /\ comps = {}
      BY <1>14 DEF FetchSubmit, RingByPlace
    <2>2. CASE Submit /\ pc' = "fetch_drain"
      <3>1. RingShape' /\ Requests' = Requests /\ sq' = {} /\ UNCHANGED <<cq, comps>>
        BY <2>2, SubmitRing
      <3>2. RingByPlace'
        BY <2>2, <3>1 DEF RingByPlace
      <3> QED BY <1>00, <2>1, <3>1, <3>2
    <2>3. CASE prepped = 0 /\ in_flight = 0 /\ UNCHANGED ringVars /\ pc' = "assemble"
      <3>1. Requests = {}
        BY <2>1, <2>3, NothingInFlight, NothingPrepped DEF Requests
      <3>2. RingByPlace'
        BY <2>3, <3>1 DEF RingByPlace, Requests, ringVars
      <3> QED BY <1>0, <2>1, <2>3, <3>2
    <2> QED BY <1>14, <2>2, <2>3 DEF FetchSubmit
  <1>15. CASE FetchDone
    <2>1. pc = "fetch_drain" /\ in_flight = 0 /\ comps = {} /\ pc' = "assemble"
          /\ UNCHANGED ringVars /\ UNCHANGED <<slotVars, bufVars>>
      BY <1>15 DEF FetchDone, RingByPlace
    <2>2. Requests = {}
      BY <2>1, NothingInFlight DEF Requests, RingByPlace
    <2>3. RingByPlace'
      BY <2>1, <2>2 DEF RingByPlace, Requests, ringVars
    <2> QED BY <1>0, <2>1, <2>3
  <1>16. CASE AssembleResults
    <2>1. Requests = {} /\ UNCHANGED ringVars /\ pc' = "idle"
      BY <1>16 DEF AssembleResults, RingByPlace
    <2>2. RingShape' /\ Requests' = {}
      BY <2>1, ShapeUnchanged DEF ringVars
    <2>3. AllMatch' /\ RingByPlace'
      BY <2>1, <2>2 DEF AllMatch, RingByPlace, Requests
    <2> QED BY <1>16, <2>2, <2>3, AssembleKeepsFit
  <1>17. CASE Abort
    BY <1>17 DEF Abort, PrepReadFails, ReliableSubmit
  <1>18. ASSUME NEW r \in kernel, Kernel(r) PROVE RingInv'
    <2>1. RingShape' /\ Requests' = Requests /\ UNCHANGED <<sq, comps>>
      BY <1>18, KernelRing DEF Kernel
    <2>2. RingByPlace'
      BY <1>18, <2>1 DEF Kernel, RingByPlace
    <2> QED BY <1>18, <1>00, <2>1, <2>2 DEF Kernel
  <1>19. CASE UNCHANGED vars
    <2>1. UNCHANGED ringVars /\ UNCHANGED <<slotVars, bufVars>> /\ UNCHANGED pc
      BY <1>19 DEF vars
    <2>2. RingByPlace'
      BY <2>1 DEF RingByPlace, Requests, ringVars
    <2> QED BY <1>0, <2>1, <2>2
  <1> QED
    BY <1>1, <1>2, <1>3, <1>4, <1>5, <1>6, <1>7, <1>8, <1>9, <1>10, <1>11,
       <1>12, <1>13, <1>14, <1>15, <1>16, <1>17, <1>18, <1>19
       DEF Next, Scheduler
-----------------------------------------------------------------------------
LEMMA RingInvariant ==
  ASSUME ReliableSubmit
  PROVE  Spec => [](TypeInv /\ OwnInv /\ RingInv)
  <1>1. Init => TypeInv /\ FetchesPayloads /\ OwnInv /\ RingInv
    BY TypeInit, OwnInit, RingInit DEF Init, FetchesPayloads
  <1>2. TypeInv /\ FetchesPayloads /\ OwnInv /\ RingInv /\ [Next]_vars =>
          (TypeInv /\ FetchesPayloads /\ OwnInv /\ RingInv)'
    BY TypeStep, OwnStep, RingStep
  <1> QED BY <1>1, <1>2, PTL DEF Spec

(* The kernel never writes into a buffer that its read does not own, or     *)
(* beyond its end: no read outlives the slot that was allocated for it.     *)
THEOREM WritesOwnedBuffers ==
  ASSUME ReliableSubmit
  PROVE  Spec => []KernelWritesOwnedBuffers
  <1>1. TypeInv /\ OwnInv /\ RingInv => KernelWritesOwnedBuffers
    <2> SUFFICES ASSUME TypeInv, RingInv, NEW q \in sq \cup kernel
                 PROVE  /\ slots[q.tok] # Free
                        /\ slots[q.tok].buf = q.buf
                        /\ [rec |-> slots[q.tok].rec, type |-> slots[q.tok].type]
                             = q.what
                        /\ Length(q.what.rec, q.what.type) <= heap[q.buf]
      BY DEF KernelWritesOwnedBuffers
    <2>1. q \in Requests /\ q.what \in Extent
      BY RequestFields DEF Requests, TypeInv, TypeOK, ReaderInv
    <2>2. Matches(q)
      BY <2>1 DEF RingInv, AllMatch
    <2>3. q.what = [rec |-> q.what.rec, type |-> q.what.type]
      BY <2>1 DEF Extent
    <2> QED BY <2>2, <2>3 DEF Matches
  <1> QED BY <1>1, RingInvariant, PTL

(* prepped() and InFlight() count what they say they count. *)
THEOREM CountersStayExact ==
  ASSUME ReliableSubmit
  PROVE  Spec => []CountersExact
  <1>1. TypeInv /\ OwnInv /\ RingInv => CountersExact
    BY DEF RingInv, RingShape
  <1> QED BY <1>1, RingInvariant, PTL

(* When FinalDrain and FetchMissingPayloads return, the ring is empty. *)
THEOREM DrainIsComplete ==
  ASSUME ReliableSubmit
  PROVE  Spec => []DrainLeavesNothingPending
  <1>1. TypeInv /\ OwnInv /\ RingInv => DrainLeavesNothingPending
    BY DEF RingInv, RingByPlace, Requests, DrainLeavesNothingPending
  <1> QED BY <1>1, RingInvariant, PTL
-----------------------------------------------------------------------------
(* With reads that do not fail, completions come with their data.           *)
DataInv ==
  /\ \A q \in cq \cup comps : mem[q.buf] = q.what
  /\ RerankedVectorsAreOwn

LEMMA DistinctBuffers ==
  ASSUME TypeInv, OwnInv, RingInv, NEW p \in Requests, NEW q \in Requests, p # q
  PROVE  p.buf # q.buf
  <1>1. p.tok \in InUse /\ q.tok \in InUse
        /\ slots[p.tok].buf = p.buf /\ slots[q.tok].buf = q.buf
    BY MatchedBuffers DEF TypeInv, TypeOK, ReaderInv, RingInv
  <1>2. p.tok # q.tok
    BY DEF RingInv, RingShape, TokensDistinct
  <1> QED BY <1>1, <1>2 DEF OwnInv, BufferHasOneOwner

LEMMA DataStep ==
  ASSUME ReliableSubmit, ~ReadMayFail
  PROVE  TypeInv /\ FetchesPayloads /\ OwnInv /\ RingInv /\ DataInv /\ [Next]_vars
           => DataInv'
  <1> SUFFICES ASSUME TypeInv, FetchesPayloads, OwnInv, RingInv, DataInv, [Next]_vars
               PROVE  DataInv'
    OBVIOUS
  <1>1. ASSUME UNCHANGED <<cq, comps, mem, buffered, vec>> PROVE DataInv'
    BY <1>1 DEF DataInv, RerankedVectorsAreOwn
  <1>2. CASE StartSearch
    BY <1>2 DEF StartSearch, DataInv, RerankedVectorsAreOwn
  <1>3. CASE Probe \/ FlushTail \/ SubmitWindow \/ DrainDone \/ FetchSubmit
             \/ FetchDone \/ AssembleResults \/ Abort \/ UNCHANGED vars
    <2>1. UNCHANGED <<cq, comps, mem, buffered, vec>>
      BY <1>3 DEF Probe, ProbeCluster, FlushTail, FlushHeld, SubmitWindow, Submit,
                  DrainDone, FetchSubmit, FetchDone, AssembleResults, Abort, vars,
                  ringVars, rerankVars
    <2> QED BY <1>1, <2>1
  <1>4. ASSUME NEW r \in Records, NEW s \in Slots, NEW b \in Buffers,
               \/ EmitAll(r, s, b)
               \/ \E kind \in {"FixedVec", "VecPool"} : EmitVecOnly(r, s, b, kind)
               \/ FetchPayload(r, s, b)
        PROVE  DataInv'
    <2>1. UNCHANGED <<cq, comps, mem, buffered, vec>>
      BY <1>4 DEF EmitAll, EmitVecOnly, FetchPayload, IssuePoolRead, IssueRead,
                  PrepReadTagged, rerankVars
    <2> QED BY <1>1, <2>1
  <1>5. ASSUME NEW top \in SUBSET Records, ExecuteBuffered(top) PROVE DataInv'
    BY <1>5 DEF ExecuteBuffered, ringVars, DataInv, RerankedVectorsAreOwn
  <1>6. CASE PollWindow \/ DrainWait \/ DrainPoll
    <2>1. UNCHANGED <<mem, buffered, vec>> /\ cq' \cup comps' \subseteq cq \cup comps
      BY <1>6 DEF PollWindow, DrainWait, DrainPoll, Poll, WaitAndPoll,
                  TakeCompletions, rerankVars
    <2> QED BY <2>1 DEF DataInv, RerankedVectorsAreOwn
  <1>7. ASSUME NEW r \in kernel, Kernel(r) PROVE DataInv'
    <2>1. /\ cq' = cq \cup {r} /\ mem' = [mem EXCEPT ![r.buf] = r.what]
          /\ UNCHANGED <<comps, buffered, vec>>
      BY <1>7 DEF Kernel, KernelComplete, rerankVars
    <2>2. r \in Requests /\ r.buf \in Buffers
      BY RequestFields DEF Requests, TypeInv, TypeOK, ReaderInv
    <2>3. \A q \in cq \cup comps : q # r /\ q \in Requests
      BY DEF RingInv, RingShape, StagesApart, Requests
    <2>4. \A q \in cq \cup comps : q.buf # r.buf /\ q.buf \in Buffers
      BY <2>2, <2>3, DistinctBuffers, RequestFields DEF TypeInv, TypeOK, ReaderInv
    <2>5. \A q \in cq' \cup comps' : mem'[q.buf] = q.what
      BY <2>1, <2>2, <2>4 DEF DataInv, TypeInv, TypeOK, ReaderTypeOK
    <2> QED BY <2>1, <2>5 DEF DataInv, RerankedVectorsAreOwn
  <1>8. ASSUME NEW q \in comps, Dispatch(q) PROVE DataInv'
    <2>1. UNCHANGED <<cq, mem>> /\ comps' \subseteq comps
      BY <1>8 DEF Dispatch
    <2>2. q \in Requests /\ q.what \in Extent /\ mem[q.buf] = q.what /\ q.tok \in Slots
      BY RequestFields DEF Requests, TypeInv, TypeOK, ReaderInv, DataInv
    <2>3. Matches(q)
      BY <2>2 DEF RingInv, AllMatch
    <2>4. slots[q.tok].rec = q.what.rec /\ slots[q.tok].type = q.what.type
          /\ mem[slots[q.tok].buf] = q.what /\ slots[q.tok] # Free
      BY <2>2, <2>3 DEF Matches
    <2>5. CASE UNCHANGED <<buffered, vec>>
      BY <2>1, <2>5 DEF DataInv, RerankedVectorsAreOwn
    <2>6. CASE /\ q.what.type \in {"VEC_ONLY", "VEC_ALL"}
               /\ BufferCandidate(q.what.rec, q.what)
      <3>1. VectorIn(q.what) = q.what.rec /\ q.what.rec \in Records
        BY <2>2, <2>6, SentinelAssumption DEF VectorIn, Extent
      <3>2. RerankedVectorsAreOwn'
        BY <2>6, <3>1 DEF BufferCandidate, DataInv, RerankedVectorsAreOwn,
                          TypeInv, TypeOK, RerankTypeOK
      <3> QED BY <2>1, <3>2 DEF DataInv
    <2> QED BY <1>8, <2>4, <2>5, <2>6 DEF Dispatch
  <1> QED BY <1>2, <1>3, <1>4, <1>5, <1>6, <1>7, <1>8 DEF Next, Scheduler

(* When submits are complete and no read fails, the vector a candidate is   *)
(* reranked by is its own, never what an earlier read left in the buffer.   *)
THEOREM VectorsAreOwn ==
  ASSUME ReliableSubmit, ~ReadMayFail
  PROVE  Spec => []RerankedVectorsAreOwn
  <1>1. Init => TypeInv /\ FetchesPayloads /\ OwnInv /\ RingInv /\ DataInv
    BY TypeInit, OwnInit, RingInit
       DEF Init, ReaderInit, FetchesPayloads, DataInv, RerankedVectorsAreOwn
  <1>2. TypeInv /\ FetchesPayloads /\ OwnInv /\ RingInv /\ DataInv /\ [Next]_vars =>
          (TypeInv /\ FetchesPayloads /\ OwnInv /\ RingInv /\ DataInv)'
    BY TypeStep, OwnStep, RingStep, DataStep
  <1>3. DataInv => RerankedVectorsAreOwn
    BY DEF DataInv
  <1> QED BY <1>1, <1>2, <1>3, PTL DEF Spec
-----------------------------------------------------------------------------
(* What becomes of every planned record, result and buffer of a query.      *)
Cleanups == {"FixedVec", "VecPool", "Pool"}

Feeding == {"probe", "emit", "poll", "tail", "tail_emit", "drain"}
Fetching == {"fetch", "fetch_drain"}

Reading == {slots[s].rec : s \in InUse}
Candidates == {r \in Records : buffered[r] > 0}

(* A slot in use waits for a read that is in the ring, of a record no other *)
(* slot reads; while clusters are probed it is the read of a vector, and    *)
(* afterwards the read of a payload.                                        *)
SlotInv ==
  /\ \A s \in InUse : \E q \in Requests : q.tok = s
  /\ \A s, t \in InUse : slots[s].rec = slots[t].rec => s = t
  /\ \A s \in InUse : slots[s].type = "PAYLOAD" <=> pc \notin Feeding

(* A planned record is to be issued, being read, or a candidate: one of     *)
(* these, once.                                                             *)
LedgerInv ==
  /\ pc \in Feeding \cup {"rerank"} =>
       /\ planned = pending_all \cup pending_vec \cup Reading \cup Candidates
       /\ pending_all \cap pending_vec = {}
       /\ (pending_all \cup pending_vec) \cap (Reading \cup Candidates) = {}
       /\ Reading \cap Candidates = {}
       /\ \A r \in Records : buffered[r] <= 1
       /\ (unprobed \cup held) \cap planned = {}
       /\ unprobed \cap held = {}
  /\ pc \in {"poll", "drain", "rerank"} => pending_all \cup pending_vec = {}
  /\ pc \in Fetching \cup {"assemble"} => Candidates = {}

(* The cache owns buffers from the fetching of payloads to their assembly,  *)
(* and what is to be fetched or being fetched is not in it.                 *)
CacheInv ==
  /\ pc \notin Fetching \cup {"assemble"} => CacheOwners = {}
  /\ pc \in Fetching =>
       /\ to_fetch \cap Reading = {}
       /\ \A r \in to_fetch \cup Reading : cache[r] = NoData

(* A live buffer is free, held by a slot, or cached; Release knows the      *)
(* buffers of slots that go back to the pool.                               *)
BufferInv ==
  /\ \A s \in InUse : slots[s].cleanup = "Pool" => slots[s].buf \in outstanding
  /\ \A b \in Buffers : heap[b] > 0 =>
       \/ FreeCount(b) = 1
       \/ \E s \in InUse : slots[s].buf = b
       \/ \E r \in CacheOwners : cache[r].buf = b

(* A result with a payload is to be fetched, being fetched or cached, and   *)
(* what is cached is its own.                                               *)
AnswerInv ==
  /\ \A r \in Records : cache[r] # NoData =>
       cache[r].rec = r /\ PayloadBytes[r] > 0
  /\ \A s \in InUse : slots[s].type = "PAYLOAD" => PayloadBytes[slots[s].rec] > 0
  /\ pc \in Fetching \cup {"assemble"} =>
       \A r \in results : PayloadBytes[r] > 0 =>
         r \in to_fetch \cup Reading \/ cache[r] # NoData
  /\ pc \in {"fetch_drain", "assemble"} => to_fetch = {}
  /\ AnswersComplete

QueryInv == SlotInv /\ LedgerInv /\ CacheInv /\ BufferInv
-----------------------------------------------------------------------------
(* Where no read is in the ring, no slot is in use. *)
LEMMA QuietSlots ==
  ASSUME RingInv, SlotInv, pc \in {"idle", "rerank", "assemble"}
  PROVE  InUse = {} /\ Reading = {}
  BY DEF RingInv, RingByPlace, SlotInv, Reading

(* One more read. *)
LEMMA IssueSummary ==
  ASSUME ReliableSubmit, TypeInv, OwnInv, RingInv, NEW r \in Records,
         NEW type \in IoTypes, NEW s \in Slots, NEW b \in Buffers,
         NEW kind \in Cleanups, IssueRead(r, type, s, b, kind)
  PROVE  /\ s \notin InUse /\ InUse' = InUse \cup {s}
         /\ slots'[s] = [buf |-> b, cleanup |-> kind, type |-> type, rec |-> r]
         /\ \A t \in InUse : slots'[t] = slots[t]
         /\ Reading' = Reading \cup {r}
         /\ Requests \subseteq Requests' /\ \E q \in Requests' : q.tok = s
  <1> DEFINE slot == [buf |-> b, cleanup |-> kind, type |-> type, rec |-> r]
             what == [rec |-> r, type |-> type]
  <1>1. slot \in Slot /\ what \in Extent /\ slot.rec = r
    BY DEF Slot, Extent, Cleanups
  <1>2. AllocateSlot(s, slot) /\ PrepReadTagged(s, b, what)
    BY DEF IssueRead
  <1> HIDE DEF slot
  <1>3. slots[s] = Free /\ slots' = [slots EXCEPT ![s] = slot] /\ slot # Free
    BY <1>1, <1>2, SentinelAssumption
       DEF AllocateSlot, OwnInv, SlotTableConsistent, SlotTypeOK, TypeInv, TypeOK
  <1>4. \A q \in Requests : q.tok # s
    BY <1>3 DEF RingInv, AllMatch, Matches
  <1>5. Requests' = Requests \cup {Sqe(s, b, what)}
    BY <1>1, <1>2, <1>4, PrepRing DEF RingInv, TypeInv, TypeOK, ReaderInv
  <1>6. Requests \subseteq Requests' /\ \E q \in Requests' : q.tok = s
    <2>1. Sqe(s, b, what).tok = s
      BY DEF Sqe
    <2> HIDE DEF what
    <2> QED BY <1>5, <2>1
  <1>7. /\ s \notin InUse /\ InUse' = InUse \cup {s} /\ slots'[s] = slot
        /\ \A t \in InUse : slots'[t] = slots[t]
    BY <1>3 DEF InUse, TypeInv, TypeOK, SlotTypeOK
  <1>8. Reading' = Reading \cup {r}
    BY <1>1, <1>7 DEF Reading
  <1> QED BY <1>6, <1>7, <1>8 DEF slot

(* A completion finds its slot waiting, and ends it. *)
LEMMA DispatchSummary ==
  ASSUME TypeInv, OwnInv, RingInv, SlotInv, NEW q \in comps, Dispatch(q)
  PROVE  /\ q.tok \in InUse /\ InUse' = InUse \ {q.tok}
         /\ slots[q.tok].rec \in Records
         /\ \A t \in InUse' : slots'[t] = slots[t]
         /\ Reading' = Reading \ {slots[q.tok].rec}
         /\ Reading = Reading' \cup {slots[q.tok].rec}
         /\ \A t \in InUse' : \E p \in Requests' : p.tok = t
  <1>1. q \in Requests /\ q.tok \in InUse
    BY MatchedBuffers DEF Requests, TypeInv, TypeOK, ReaderInv, RingInv
  <1>2. ReleaseSlots({q.tok})
    BY <1>1 DEF Dispatch, InUse
  <1>3. InUse' = InUse \ {q.tok} /\ \A t \in InUse' : slots'[t] = slots[t]
    BY <1>1, <1>2, ReleasedSlots DEF TypeInv, TypeOK
  <1>4. Requests' = Requests \ {q}
    BY DispatchRing DEF RingInv, Dispatch
  <1>5. \A t \in InUse' : \E p \in Requests' : p.tok = t
    BY <1>3, <1>4 DEF SlotInv
  <1>6. slots[q.tok].rec \in Records
    BY <1>1, SlotFields DEF TypeInv, TypeOK, Slot
  <1>7. Reading' = Reading \ {slots[q.tok].rec}
    <2>1. \A t \in InUse' : slots[t].rec # slots[q.tok].rec
      BY <1>1, <1>3 DEF SlotInv
    <2> QED BY <1>1, <1>3, <2>1 DEF Reading
  <1>8. slots[q.tok].rec \in Reading
    BY <1>1 DEF Reading
  <1> QED BY <1>1, <1>3, <1>5, <1>6, <1>7, <1>8

LEMMA QuietCleanup ==
  ASSUME TypeInv, OwnInv, InUse = {}, CleanupPendingSlots
  PROVE  InUse' = {} /\ Reading' = {}
  <1>1. InUse' = InUse \ InUse
    BY ReleasedSlots DEF CleanupPendingSlots, TypeInv, TypeOK
  <1> QED BY <1>1 DEF Reading

(* Before DrainDone nothing is in the ring. *)
LEMMA DrainedSlots ==
  ASSUME TypeInv, RingInv, SlotInv, DrainDone \/ FetchDone
  PROVE  Requests = {} /\ InUse = {}
  <1>1. in_flight = 0 /\ comps = {} /\ sq = {}
    BY DEF DrainDone, FetchDone, RingInv, RingByPlace
  <1>2. Requests = {}
    BY <1>1, NothingInFlight DEF Requests, RingInv, TypeInv, TypeOK, ReaderInv
  <1> QED BY <1>2 DEF SlotInv

(* The steps that only move requests between the ring and its client. *)
LEMMA RingMoves ==
  ASSUME ReliableSubmit, TypeInv, RingInv,
         \/ SubmitWindow \/ PollWindow \/ DrainWait \/ DrainPoll \/ FetchSubmit
         \/ Abort \/ \E r \in kernel : Kernel(r)
  PROVE  /\ Requests' = Requests
         /\ UNCHANGED <<slotVars, bufVars, planVars, rerankVars, resultVars>>
         /\ ~Abort /\ ~DrainPoll
  <1> USE DEF RingInv, TypeInv, TypeOK, ReaderInv
  <1>1. ~Abort
    BY DEF Abort, PrepReadFails, ReliableSubmit
  <1>2. ~DrainPoll
    <2> SUFFICES ASSUME DrainPoll PROVE FALSE
      OBVIOUS
    <2>1. in_flight = 0 /\ cq # {}
      BY DEF DrainPoll, RingByPlace
    <2> QED BY <2>1, NothingInFlight
  <1>3. CASE SubmitWindow
    BY <1>1, <1>2, <1>3, SubmitRing DEF SubmitWindow
  <1>4. CASE PollWindow
    BY <1>1, <1>2, <1>4, TakeRing DEF PollWindow, Poll
  <1>5. CASE DrainWait
    BY <1>1, <1>2, <1>5, TakeRing DEF DrainWait, WaitAndPoll
  <1>6. CASE FetchSubmit
    BY <1>1, <1>2, <1>6, SubmitRing, ShapeUnchanged DEF FetchSubmit, ringVars
  <1>7. CASE \E r \in kernel : Kernel(r)
    BY <1>1, <1>2, <1>7, KernelRing DEF Kernel
  <1> QED BY <1>1, <1>2, <1>3, <1>4, <1>5, <1>6, <1>7

LEMMA IssueKeepsSlots ==
  ASSUME ReliableSubmit, TypeInv, OwnInv, RingInv, SlotInv, NEW r \in Records,
         NEW type \in IoTypes, NEW s \in Slots, NEW b \in Buffers,
         NEW kind \in Cleanups, IssueRead(r, type, s, b, kind),
         r \notin Reading, type = "PAYLOAD" <=> pc \notin Feeding, UNCHANGED pc
  PROVE  SlotInv'
  <1> DEFINE slot == [buf |-> b, cleanup |-> kind, type |-> type, rec |-> r]
  <1>1. /\ InUse' = InUse \cup {s} /\ slots'[s] = slot
        /\ \A t \in InUse : slots'[t] = slots[t]
        /\ Requests \subseteq Requests' /\ \E q \in Requests' : q.tok = s
    BY IssueSummary
  <1>2. \A t \in InUse : slots[t].rec # r
    BY DEF Reading
  <1>3. slot.rec = r /\ slot.type = type
    OBVIOUS
  <1> HIDE DEF slot
  <1>4. \A t \in InUse' : \E q \in Requests' : q.tok = t
    BY <1>1 DEF SlotInv
  <1>5. \A t, u \in InUse' : slots'[t].rec = slots'[u].rec => t = u
    BY <1>1, <1>2, <1>3 DEF SlotInv
  <1>6. \A t \in InUse' : slots'[t].type = "PAYLOAD" <=> pc' \notin Feeding
    BY <1>1, <1>3 DEF SlotInv
  <1> QED BY <1>4, <1>5, <1>6 DEF SlotInv

LEMMA SlotStep ==
  ASSUME ReliableSubmit, TypeInv, OwnInv, RingInv, QueryInv, [Next]_vars
  PROVE  SlotInv'
  <1> USE DEF QueryInv
  <1>0. ASSUME UNCHANGED slots, Requests' = Requests, pc' \in Feeding <=> pc \in Feeding
        PROVE  SlotInv'
    <2>1. InUse' = InUse
      BY <1>0 DEF InUse
    <2> QED BY <1>0, <2>1 DEF SlotInv
  <1>00. ASSUME InUse' = {} PROVE SlotInv'
    BY <1>00 DEF SlotInv
  <1>1. CASE StartSearch
    BY <1>00, <1>1, QuietSlots, QuietCleanup DEF StartSearch
  <1>2. CASE Probe
    BY <1>0, <1>2 DEF Probe, ProbeCluster, ringVars, slotVars, Feeding, Requests
  <1>3. CASE FlushTail
    BY <1>0, <1>3 DEF FlushTail, FlushHeld, ringVars, slotVars, Feeding, Requests
  <1>4. ASSUME NEW r \in Records, NEW s \in Slots, NEW b \in Buffers, EmitAll(r, s, b)
        PROVE  SlotInv'
    <2>1. r \notin Reading /\ pc \in Feeding /\ UNCHANGED pc
      BY <1>4 DEF EmitAll, Emitting, Feeding, LedgerInv
    <2>2. /\ IssueRead(r, "VEC_ALL", s, b, "Pool") /\ "VEC_ALL" \in IoTypes
          /\ "Pool" \in Cleanups
      BY <1>4 DEF EmitAll, IssuePoolRead, IoTypes, Cleanups
    <2> QED BY <2>1, <2>2, IssueKeepsSlots
  <1>5. ASSUME NEW r \in Records, NEW s \in Slots, NEW b \in Buffers,
               NEW kind \in {"FixedVec", "VecPool"}, EmitVecOnly(r, s, b, kind)
        PROVE  SlotInv'
    <2>1. r \notin Reading /\ pc \in Feeding /\ UNCHANGED pc
      BY <1>5 DEF EmitVecOnly, Emitting, Feeding, LedgerInv
    <2>2. /\ IssueRead(r, "VEC_ONLY", s, b, kind) /\ "VEC_ONLY" \in IoTypes
          /\ kind \in Cleanups
      BY <1>5 DEF EmitVecOnly, IoTypes, Cleanups
    <2> QED BY <2>1, <2>2, IssueKeepsSlots
  <1>6. ASSUME NEW r \in Records, NEW s \in Slots, NEW b \in Buffers,
               FetchPayload(r, s, b)
        PROVE  SlotInv'
    <2>1. r \notin Reading /\ pc \notin Feeding /\ UNCHANGED pc
      BY <1>6 DEF FetchPayload, Feeding, Fetching, CacheInv
    <2>2. /\ IssueRead(r, "PAYLOAD", s, b, "Pool") /\ "PAYLOAD" \in IoTypes
          /\ "Pool" \in Cleanups
      BY <1>6 DEF FetchPayload, IssuePoolRead, IoTypes, Cleanups
    <2> QED BY <2>1, <2>2, IssueKeepsSlots
  <1>7. ASSUME \/ SubmitWindow \/ PollWindow \/ DrainWait \/ DrainPoll \/ FetchSubmit
               \/ Abort \/ \E r \in kernel : Kernel(r)
        PROVE  SlotInv'
    <2>1. Requests' = Requests /\ UNCHANGED slots /\ ~Abort /\ ~DrainPoll
      BY <1>7, RingMoves DEF slotVars
    <2>2. pc' \in Feeding <=> pc \in Feeding
      BY <1>7, <2>1 DEF SubmitWindow, Emitting, PollWindow, DrainWait, FetchSubmit,
                        Kernel, Feeding
    <2> QED BY <1>0, <2>1, <2>2
  <1>8. ASSUME NEW q \in comps, Dispatch(q) PROVE SlotInv'
    <2>1. /\ InUse' = InUse \ {q.tok} /\ \A t \in InUse' : slots'[t] = slots[t]
          /\ \A t \in InUse' : \E p \in Requests' : p.tok = t
      BY <1>8, DispatchSummary
    <2>2. UNCHANGED pc
      BY <1>8 DEF Dispatch
    <2>3. \A t, u \in InUse' : slots'[t].rec = slots'[u].rec => t = u
      BY <2>1 DEF SlotInv
    <2> QED BY <2>1, <2>2, <2>3 DEF SlotInv
  <1>9. CASE DrainDone
    BY <1>00, <1>9, DrainedSlots, QuietCleanup DEF DrainDone
  <1>10. ASSUME NEW top \in SUBSET Records, ExecuteBuffered(top) PROVE SlotInv'
    <2>1. UNCHANGED slots /\ InUse = {}
      BY <1>10, QuietSlots DEF ExecuteBuffered, slotVars
    <2> QED BY <1>00, <2>1 DEF InUse
  <1>11. CASE FetchDone
    BY <1>0, <1>11 DEF FetchDone, ringVars, slotVars, Feeding, Requests
  <1>12. CASE AssembleResults
    BY <1>0, <1>12 DEF AssembleResults, ringVars, slotVars, Feeding, Requests
  <1>13. CASE UNCHANGED vars
    BY <1>0, <1>13 DEF vars, ringVars, slotVars, Requests
  <1> QED BY <1>1, <1>2, <1>3, <1>4, <1>5, <1>6, <1>7, <1>8, <1>9, <1>10, <1>11,
             <1>12, <1>13 DEF Next, Scheduler

(* Plans only move from the window to the reads, and reads to candidates.   *)
LEMMA LedgerStep ==
  ASSUME ReliableSubmit, TypeInv, OwnInv, RingInv, QueryInv, [Next]_vars
  PROVE  LedgerInv'
  <1> USE DEF QueryInv
  <1>0. TypeOK
    BY DEF TypeInv
  <1>a. ASSUME UNCHANGED <<planned, pending_all, pending_vec, unprobed, held>>,
               UNCHANGED buffered, Reading' = Reading,
               pc' \in Feeding \cup {"rerank"} => pc \in Feeding \cup {"rerank"},
               pc' \in Fetching \cup {"assemble"} => pc \in Fetching \cup {"assemble"},
               pc' \in {"poll", "drain", "rerank"} => pending_all \cup pending_vec = {}
        PROVE  LedgerInv'
    <2>1. Candidates' = Candidates
      BY <1>a DEF Candidates
    <2> QED BY <1>a, <2>1 DEF LedgerInv
  <1>1. CASE StartSearch
    <2>1. Reading' = {}
      BY <1>1, QuietSlots, QuietCleanup DEF StartSearch
    <2>2. Candidates' = {} /\ \A r \in Records : buffered'[r] <= 1
      BY <1>1 DEF StartSearch, Candidates
    <2>3. pc' \notin Fetching \cup {"assemble"}
      BY <1>1 DEF StartSearch, Fetching
    <2> QED BY <1>1, <2>1, <2>2, <2>3 DEF StartSearch, LedgerInv
  <1>2. ASSUME NEW C \in SUBSET unprobed, NEW A \in SUBSET (C \cup held),
               NEW V \in SUBSET (C \cup held), NEW H \in SUBSET (C \cup held),
               ProbeCluster(C, A, V, H)
        PROVE  LedgerInv'
    <2>1. /\ Reading' = Reading /\ Candidates' = Candidates /\ UNCHANGED buffered
          /\ pc \in Feeding /\ pc' \in {"emit", "probe", "tail"}
      BY <1>2 DEF ProbeCluster, slotVars, rerankVars, Reading, Candidates, InUse, Feeding
    <2>2. /\ planned' = planned \cup A \cup V /\ unprobed' = unprobed \ C /\ held' = H
          /\ pending_all' = pending_all \cup A /\ pending_vec' = pending_vec \cup V
          /\ A \cap V = {} /\ H \cap (A \cup V) = {}
      BY <1>2 DEF ProbeCluster
    <2>3. /\ planned = pending_all \cup pending_vec \cup Reading \cup Candidates
          /\ pending_all \cap pending_vec = {}
          /\ (pending_all \cup pending_vec) \cap (Reading \cup Candidates) = {}
          /\ Reading \cap Candidates = {}
          /\ \A r \in Records : buffered[r] <= 1
          /\ (unprobed \cup held) \cap planned = {}
          /\ unprobed \cap held = {}
      BY <2>1 DEF LedgerInv
    <2>4. (A \cup V) \cap planned = {}
      BY <2>3
    <2>5. planned' = pending_all' \cup pending_vec' \cup Reading' \cup Candidates'
      BY <2>1, <2>2, <2>3
    <2>6. /\ pending_all' \cap pending_vec' = {}
          /\ (pending_all' \cup pending_vec') \cap (Reading' \cup Candidates') = {}
      BY <2>1, <2>2, <2>3, <2>4
    <2>7. /\ (unprobed' \cup held') \cap planned' = {}
          /\ unprobed' \cap held' = {}
      BY <2>2, <2>3
    <2> QED BY <2>1, <2>3, <2>5, <2>6, <2>7 DEF LedgerInv, Fetching
  <1>3. ASSUME NEW A \in SUBSET held, NEW V \in SUBSET held, FlushHeld(A, V)
        PROVE  LedgerInv'
    <2>1. /\ Reading' = Reading /\ Candidates' = Candidates /\ UNCHANGED buffered
          /\ pc \in Feeding /\ pc' \in {"tail_emit", "drain"} /\ UNCHANGED unprobed
      BY <1>3 DEF FlushHeld, slotVars, rerankVars, Reading, Candidates, InUse, Feeding
    <2>2. /\ planned' = planned \cup A \cup V /\ held' = {}
          /\ pending_all' = pending_all \cup A /\ pending_vec' = pending_vec \cup V
          /\ A \cap V = {}
      BY <1>3 DEF FlushHeld
    <2>3. /\ planned = pending_all \cup pending_vec \cup Reading \cup Candidates
          /\ pending_all \cap pending_vec = {}
          /\ (pending_all \cup pending_vec) \cap (Reading \cup Candidates) = {}
          /\ Reading \cap Candidates = {}
          /\ \A r \in Records : buffered[r] <= 1
          /\ (unprobed \cup held) \cap planned = {}
          /\ unprobed \cap held = {}
      BY <2>1 DEF LedgerInv
    <2>4. planned' = pending_all' \cup pending_vec' \cup Reading' \cup Candidates'
      BY <2>1, <2>2, <2>3
    <2>5. /\ pending_all' \cap pending_vec' = {}
          /\ (pending_all' \cup pending_vec') \cap (Reading' \cup Candidates') = {}
      BY <2>1, <2>2, <2>3
    <2>6. /\ (unprobed' \cup held') \cap planned' = {}
          /\ unprobed' \cap held' = {}
      BY <2>1, <2>2, <2>3
    <2>7. pc' = "drain" => pending_all' \cup pending_vec' = {}
      <3>1. /\ IsFiniteSet(pending_all') /\ IsFiniteSet(pending_vec')
            /\ pc' = "drain" => ~(PendingCount(pending_all', pending_vec') > 0)
        <4>1. pending_all' \subseteq Records /\ pending_vec' \subseteq Records
          BY <1>0, <2>2 DEF TypeOK, PlanTypeOK
        <4> QED BY <1>3, <4>1, FS_Subset, SchedulerAssumption DEF FlushHeld
      <3>2. Cardinality(pending_all') \in Nat /\ Cardinality(pending_vec') \in Nat
        BY <3>1, FS_CardinalityType
      <3>3. pc' = "drain" => Cardinality(pending_all') = 0 /\ Cardinality(pending_vec') = 0
        BY <3>1, <3>2 DEF PendingCount
      <3> QED BY <3>1, <3>3, FS_EmptySet
    <2> QED BY <2>1, <2>3, <2>4, <2>5, <2>6, <2>7 DEF LedgerInv, Fetching
  <1>b. ASSUME NEW r \in Records, pc \in {"emit", "tail_emit"}, UNCHANGED pc,
               \/ r \in pending_all /\ pending_all' = pending_all \ {r}
                  /\ UNCHANGED pending_vec
               \/ r \in pending_vec /\ pending_vec' = pending_vec \ {r}
                  /\ UNCHANGED pending_all,
               Reading' = Reading \cup {r},
               UNCHANGED <<planned, unprobed, held, rerankVars>>
        PROVE  LedgerInv'
    <2>1. Candidates' = Candidates /\ UNCHANGED buffered
      BY <1>b DEF rerankVars, Candidates
    <2>2. /\ planned = pending_all \cup pending_vec \cup Reading \cup Candidates
          /\ pending_all \cap pending_vec = {}
          /\ (pending_all \cup pending_vec) \cap (Reading \cup Candidates) = {}
          /\ Reading \cap Candidates = {}
          /\ \A x \in Records : buffered[x] <= 1
          /\ (unprobed \cup held) \cap planned = {}
          /\ unprobed \cap held = {}
      BY <1>b DEF LedgerInv, Feeding
    <2>3. planned' = pending_all' \cup pending_vec' \cup Reading' \cup Candidates'
      BY <1>b, <2>1, <2>2
    <2>4. /\ pending_all' \cap pending_vec' = {}
          /\ (pending_all' \cup pending_vec') \cap (Reading' \cup Candidates') = {}
          /\ Reading' \cap Candidates' = {}
      BY <1>b, <2>1, <2>2
    <2> QED BY <1>b, <2>1, <2>2, <2>3, <2>4 DEF LedgerInv, Fetching
  <1>4. ASSUME NEW r \in Records, NEW s \in Slots, NEW b \in Buffers, EmitAll(r, s, b)
        PROVE  LedgerInv'
    <2>1. /\ IssueRead(r, "VEC_ALL", s, b, "Pool") /\ "VEC_ALL" \in IoTypes
          /\ "Pool" \in Cleanups
      BY <1>4 DEF EmitAll, IssuePoolRead, IoTypes, Cleanups
    <2>2. Reading' = Reading \cup {r}
      BY <2>1, IssueSummary
    <2> QED BY <1>4, <1>b, <2>2 DEF EmitAll, Emitting
  <1>5. ASSUME NEW r \in Records, NEW s \in Slots, NEW b \in Buffers,
               NEW kind \in {"FixedVec", "VecPool"}, EmitVecOnly(r, s, b, kind)
        PROVE  LedgerInv'
    <2>1. /\ IssueRead(r, "VEC_ONLY", s, b, kind) /\ "VEC_ONLY" \in IoTypes
          /\ kind \in Cleanups
      BY <1>5 DEF EmitVecOnly, IoTypes, Cleanups
    <2>2. Reading' = Reading \cup {r}
      BY <2>1, IssueSummary
    <2> QED BY <1>5, <1>b, <2>2 DEF EmitVecOnly, Emitting
  <1>6. ASSUME NEW r \in Records, NEW s \in Slots, NEW b \in Buffers,
               FetchPayload(r, s, b)
        PROVE  LedgerInv'
    <2>1. pc' = "fetch" /\ pc = "fetch" /\ Candidates' = Candidates
      BY <1>6 DEF FetchPayload, rerankVars, Candidates
    <2> QED BY <2>1 DEF LedgerInv, Feeding, Fetching
  <1>7. ASSUME \/ SubmitWindow \/ PollWindow \/ DrainWait \/ DrainPoll \/ FetchSubmit
               \/ Abort \/ \E r \in kernel : Kernel(r)
        PROVE  LedgerInv'
    <2>1. UNCHANGED <<slotVars, planVars, rerankVars>> /\ ~Abort /\ ~DrainPoll
      BY <1>7, RingMoves
    <2>2. Reading' = Reading
      BY <2>1 DEF slotVars, Reading, InUse
    <2>3. /\ pc' \in Feeding \cup {"rerank"} => pc \in Feeding \cup {"rerank"}
          /\ pc' \in Fetching \cup {"assemble"} => pc \in Fetching \cup {"assemble"}
          /\ pc' \in {"poll", "drain", "rerank"} => pending_all \cup pending_vec = {}
      BY <1>7, <2>1 DEF SubmitWindow, Emitting, PollWindow, DrainWait, FetchSubmit,
                        Kernel, Feeding, Fetching, LedgerInv
    <2> QED BY <1>a, <2>1, <2>2, <2>3 DEF planVars, rerankVars
  <1>8. ASSUME NEW q \in comps, Dispatch(q) PROVE LedgerInv'
    <2> DEFINE x == slots[q.tok].rec
    <2>1. /\ q.tok \in InUse /\ x \in Records
          /\ Reading' = Reading \ {x} /\ Reading = Reading' \cup {x}
      BY <1>8, DispatchSummary
    <2>2. UNCHANGED pc /\ UNCHANGED <<planned, pending_all, pending_vec, unprobed, held>>
      BY <1>8 DEF Dispatch, planVars
    <2> HIDE DEF x
    <2>3. CASE pc \in Feeding
      <3>1. slots[q.tok].type # "PAYLOAD" /\ slots[q.tok] # Free
        BY <2>1, <2>3 DEF SlotInv, InUse
      <3>2. buffered' = [buffered EXCEPT ![x] = @ + 1]
        BY <1>8, <3>1 DEF Dispatch, BufferCandidate, x
      <3>3. buffered \in [Records -> Nat]
        BY <1>0 DEF TypeOK, RerankTypeOK
      <3>4. Candidates' = Candidates \cup {x}
        BY <2>1, <3>2, <3>3 DEF Candidates
      <3>5. /\ planned = pending_all \cup pending_vec \cup Reading \cup Candidates
            /\ pending_all \cap pending_vec = {}
            /\ (pending_all \cup pending_vec) \cap (Reading \cup Candidates) = {}
            /\ Reading \cap Candidates = {}
            /\ \A r \in Records : buffered[r] <= 1
            /\ (unprobed \cup held) \cap planned = {}
            /\ unprobed \cap held = {}
        BY <2>3 DEF LedgerInv
      <3>6. \A r \in Records : buffered'[r] <= 1
        <4>1. x \notin Candidates
          BY <2>1, <3>5
        <4>2. buffered[x] = 0
          BY <2>1, <3>3, <4>1 DEF Candidates
        <4> QED BY <2>1, <3>2, <3>3, <3>5, <4>2
      <3>7. /\ planned' = pending_all' \cup pending_vec' \cup Reading' \cup Candidates'
            /\ (pending_all' \cup pending_vec') \cap (Reading' \cup Candidates') = {}
            /\ Reading' \cap Candidates' = {}
        BY <2>1, <2>2, <3>4, <3>5
      <3>8. pc' \notin Fetching \cup {"assemble"}
        BY <2>2, <2>3 DEF Feeding, Fetching
      <3>9. pc' \in {"poll", "drain", "rerank"} => pending_all' \cup pending_vec' = {}
        BY <2>2 DEF LedgerInv
      <3> QED BY <2>2, <3>5, <3>6, <3>7, <3>8, <3>9 DEF LedgerInv
    <2>4. CASE pc \notin Feeding
      <3>1. slots[q.tok].type = "PAYLOAD" /\ slots[q.tok] # Free
        BY <2>1, <2>4 DEF SlotInv, InUse
      <3>2. UNCHANGED buffered
        BY <1>8, <3>1 DEF Dispatch
      <3>3. pc # "rerank"
        BY <2>1, QuietSlots
      <3> QED BY <2>2, <2>4, <3>2, <3>3 DEF LedgerInv, Candidates, Feeding
    <2> QED BY <2>3, <2>4
  <1>9. CASE DrainDone
    <2>1. InUse = {} /\ InUse' = {} /\ Reading' = {}
      BY <1>9, DrainedSlots, QuietCleanup DEF DrainDone
    <2>2. Reading = {} /\ pc = "drain" /\ pc' = "rerank"
      BY <1>9, <2>1 DEF Reading, DrainDone, RingInv, RingByPlace
    <2> QED BY <1>9, <1>a, <2>1, <2>2
            DEF DrainDone, planVars, rerankVars, LedgerInv, Feeding, Fetching
  <1>10. ASSUME NEW top \in SUBSET Records, ExecuteBuffered(top) PROVE LedgerInv'
    <2>1. Candidates' = {} /\ pc' = "fetch"
      BY <1>10 DEF ExecuteBuffered, Candidates
    <2> QED BY <2>1 DEF LedgerInv, Feeding
  <1>11. CASE FetchDone
    BY <1>11 DEF FetchDone, rerankVars, LedgerInv, Candidates, RingInv, RingByPlace,
                 Feeding, Fetching
  <1>12. CASE AssembleResults
    BY <1>12 DEF AssembleResults, LedgerInv, Feeding, Fetching
  <1>13. CASE UNCHANGED vars
    <2>1. Reading' = Reading
      BY <1>13 DEF vars, slotVars, Reading, InUse
    <2> QED BY <1>13, <1>a, <2>1 DEF vars, planVars, rerankVars, LedgerInv
  <1> QED BY <1>1, <1>2, <1>3, <1>4, <1>5, <1>6, <1>7, <1>8, <1>9, <1>10, <1>11,
             <1>12, <1>13 DEF Next, Scheduler, Probe, FlushTail

(* Only the dispatch of payloads fills the cache with buffers.              *)
LEMMA CacheStep ==
  ASSUME ReliableSubmit, TypeInv, OwnInv, RingInv, QueryInv, [Next]_vars
  PROVE  CacheInv'
  <1> USE DEF QueryInv
  <1>0. TypeOK
    BY DEF TypeInv
  <1>a. ASSUME UNCHANGED <<cache, to_fetch>>, Reading' = Reading,
               pc' \in Fetching => pc \in Fetching,
               pc' \notin Fetching \cup {"assemble"} => pc \notin Fetching \cup {"assemble"}
        PROVE  CacheInv'
    BY <1>a DEF CacheInv, CacheOwners
  <1>b. ASSUME CacheOwners' = {}, pc' \notin Fetching PROVE CacheInv'
    BY <1>b DEF CacheInv
  <1>1. CASE StartSearch
    BY <1>1, <1>b DEF StartSearch, CacheOwners, NoRecordData, Fetching
  <1>2. CASE Probe \/ FlushTail
    <2>1. /\ UNCHANGED cache /\ pc \notin Fetching \cup {"assemble"}
          /\ pc' \notin Fetching \cup {"assemble"}
      BY <1>2 DEF Probe, ProbeCluster, FlushTail, FlushHeld, rerankVars, Fetching
    <2> QED BY <2>1, <1>b DEF CacheInv, CacheOwners
  <1>3. ASSUME NEW r \in Records, NEW s \in Slots, NEW b \in Buffers,
               \/ EmitAll(r, s, b)
               \/ \E kind \in {"FixedVec", "VecPool"} : EmitVecOnly(r, s, b, kind)
        PROVE  CacheInv'
    <2>1. /\ UNCHANGED cache /\ pc \notin Fetching \cup {"assemble"}
          /\ pc' \notin Fetching \cup {"assemble"}
      BY <1>3 DEF EmitAll, EmitVecOnly, Emitting, rerankVars, Fetching
    <2> QED BY <2>1, <1>b DEF CacheInv, CacheOwners
  <1>4. ASSUME NEW r \in Records, NEW s \in Slots, NEW b \in Buffers,
               FetchPayload(r, s, b)
        PROVE  CacheInv'
    <2>1. /\ IssueRead(r, "PAYLOAD", s, b, "Pool") /\ "PAYLOAD" \in IoTypes
          /\ "Pool" \in Cleanups
      BY <1>4 DEF FetchPayload, IssuePoolRead, IoTypes, Cleanups
    <2>2. Reading' = Reading \cup {r}
      BY <2>1, IssueSummary
    <2>3. /\ r \in to_fetch /\ to_fetch' = to_fetch \ {r} /\ UNCHANGED cache
          /\ pc = "fetch" /\ pc' = "fetch"
      BY <1>4 DEF FetchPayload, rerankVars
    <2> QED BY <2>2, <2>3 DEF CacheInv, Fetching
  <1>5. ASSUME \/ SubmitWindow \/ PollWindow \/ DrainWait \/ DrainPoll \/ FetchSubmit
               \/ Abort \/ \E r \in kernel : Kernel(r)
        PROVE  CacheInv'
    <2>1. UNCHANGED <<slotVars, rerankVars, resultVars>> /\ ~Abort /\ ~DrainPoll
      BY <1>5, RingMoves
    <2>2. Reading' = Reading /\ UNCHANGED <<cache, to_fetch>>
      BY <2>1 DEF slotVars, Reading, InUse, rerankVars, resultVars
    <2>3. /\ pc' \in Fetching => pc \in Fetching
          /\ pc' \notin Fetching \cup {"assemble"} => pc \notin Fetching \cup {"assemble"}
      BY <1>5, <2>1 DEF SubmitWindow, Emitting, PollWindow, DrainWait, FetchSubmit,
                        Kernel, Fetching
    <2> QED BY <1>a, <2>2, <2>3
  <1>6. ASSUME NEW q \in comps, Dispatch(q) PROVE CacheInv'
    <2> DEFINE x == slots[q.tok].rec
    <2>1. /\ q.tok \in InUse /\ x \in Records
          /\ Reading' = Reading \ {x} /\ Reading = Reading' \cup {x}
      BY <1>6, DispatchSummary
    <2>2. UNCHANGED <<pc, to_fetch>>
      BY <1>6 DEF Dispatch, resultVars
    <2> HIDE DEF x
    <2>3. CASE pc \in Feeding
      <3>1. slots[q.tok].type # "PAYLOAD" /\ slots[q.tok] # Free
        BY <2>1, <2>3 DEF SlotInv, InUse
      <3>2. \/ UNCHANGED cache
            \/ \E content : cache' = [cache EXCEPT ![x] = [buf |-> NoBuf, rec |-> content]]
        BY <1>6, <3>1 DEF Dispatch, x
      <3>3. CacheOwners = {} /\ pc' \notin Fetching
        BY <2>2, <2>3 DEF CacheInv, Feeding, Fetching
      <3>4. CacheOwners' = {}
        BY <1>0, <3>2, <3>3 DEF CacheOwners, TypeOK, RerankTypeOK
      <3> QED BY <1>b, <3>3, <3>4
    <2>4. CASE pc \notin Feeding
      <3>1. slots[q.tok].type = "PAYLOAD" /\ slots[q.tok] # Free
        BY <2>1, <2>4 DEF SlotInv, InUse
      <3>2. \A r \in Records : r # x => cache'[r] = cache[r]
        BY <1>0, <1>6, <3>1 DEF Dispatch, x, TypeOK, RerankTypeOK
      <3>3. Reading \subseteq Records /\ to_fetch \subseteq Records
        BY <1>0, SlotFields DEF Reading, Slot, TypeOK, ResultTypeOK
      <3>4. pc \notin {"idle", "rerank", "assemble"}
        BY <2>1, QuietSlots
      <3>5. pc \in Fetching
        BY <1>0, <2>4, <3>4 DEF TypeOK, Pcs, Feeding, Fetching, RingInv, RingByPlace
      <3> QED BY <2>1, <2>2, <3>2, <3>3, <3>5 DEF CacheInv
    <2> QED BY <2>3, <2>4
  <1>7. CASE DrainDone
    <2>1. /\ UNCHANGED cache /\ pc \notin Fetching \cup {"assemble"}
          /\ pc' \notin Fetching \cup {"assemble"}
      BY <1>7 DEF DrainDone, rerankVars, Fetching
    <2> QED BY <2>1, <1>b DEF CacheInv, CacheOwners
  <1>8. ASSUME NEW top \in SUBSET Records, ExecuteBuffered(top) PROVE CacheInv'
    <2>1. Reading' = {}
      <3>1. UNCHANGED slots /\ Reading = {}
        BY <1>8, QuietSlots DEF ExecuteBuffered, slotVars
      <3> QED BY <3>1 DEF Reading, InUse
    <2>2. /\ UNCHANGED cache /\ pc' = "fetch"
          /\ \A r \in to_fetch' : cache[r] = NoData
      BY <1>8 DEF ExecuteBuffered
    <2> QED BY <2>1, <2>2 DEF CacheInv, Fetching
  <1>9. CASE FetchDone
    BY <1>9 DEF FetchDone, CacheInv, Fetching
  <1>10. CASE AssembleResults
    BY <1>10, <1>b DEF AssembleResults, CacheOwners, NoRecordData, Fetching
  <1>11. CASE UNCHANGED vars
    BY <1>11, <1>a DEF vars, slotVars, rerankVars, resultVars, Reading, InUse
  <1> QED BY <1>1, <1>2, <1>3, <1>4, <1>5, <1>6, <1>7, <1>8, <1>9, <1>10, <1>11
          DEF Next, Scheduler
-----------------------------------------------------------------------------
(* Every live buffer has an owner.                                          *)

(* The buffer of a slot that ends goes back to one free list: Release knows *)
(* it when it is the pool's.                                                *)
LEMMA ReturnedOnce ==
  ASSUME OwnInv, SlotTypeOK, BufTypeOK, BufferInv, NEW S \in SUBSET InUse,
         ReturnBuffers(S), NEW s \in S, NEW b \in Buffers, slots[s].buf = b
  PROVE  FreeCount(b)' = 1
  <1> DEFINE n(kind) == Cardinality(Returning(S, b, kind))
  <1>1. s \in InUse /\ slots[s].cleanup \in {"FixedVec", "VecPool", "Pool"}
    BY SlotFields
  <1>2. \A kind : Returning(S, b, kind) = IF slots[s].cleanup = kind THEN {s} ELSE {}
    BY <1>1 DEF Returning, OwnInv, BufferHasOneOwner
  <1>3. FreeCount(b) = 0
    BY <1>1 DEF OwnInv, BufferHasOneOwner
  <1>4. free_fixed[b] = 0 /\ free_vec[b] = 0 /\ pool[b] = 0
    <2> HIDE DEF n
    <2>1. /\ free_fixed[b] \in Nat /\ free_vec[b] \in Nat /\ pool[b] \in Nat
          /\ FreeCount(b) = free_fixed[b] + free_vec[b] + pool[b]
      BY FreeCounts
    <2> QED BY <1>3, <2>1
  <1>5. \A kind : n(kind) = IF slots[s].cleanup = kind THEN 1 ELSE 0
    BY <1>2, FS_EmptySet, FS_Singleton
  <1>6. free_fixed'[b] = free_fixed[b] + n("FixedVec")
        /\ free_vec'[b] = free_vec[b] + n("VecPool")
    BY DEF ReturnBuffers
  <1>7. pool'[b] = IF Returning(S, b, "Pool") # {} /\ b \in outstanding
                     THEN pool[b] + 1 ELSE pool[b]
    BY DEF ReturnBuffers, Release
  <1>8. slots[s].cleanup = "Pool" => b \in outstanding
    BY <1>1 DEF BufferInv
  <1> HIDE DEF n
  <1>9. free_fixed'[b] = IF slots[s].cleanup = "FixedVec" THEN 1 ELSE 0
    BY <1>4, <1>5, <1>6
  <1>10. free_vec'[b] = IF slots[s].cleanup = "VecPool" THEN 1 ELSE 0
    BY <1>4, <1>5, <1>6
  <1>11. pool'[b] = IF slots[s].cleanup = "Pool" THEN 1 ELSE 0
    BY <1>2, <1>4, <1>7, <1>8
  <1> QED BY <1>1, <1>9, <1>10, <1>11 DEF FreeCount

LEMMA ReleaseKeepsBuffers ==
  ASSUME OwnInv, SlotTypeOK, BufTypeOK, BufferInv, NEW S \in SUBSET InUse,
         ReturnBuffers(S), ReleaseSlots(S), CacheOwners = {}, CacheOwners' = {}
  PROVE  BufferInv'
  <1>1. InUse' = InUse \ S /\ \A t \in InUse' : slots'[t] = slots[t]
    BY ReleasedSlots
  <1>2. /\ UNCHANGED heap
        /\ \A b \in Buffers : (\A s \in S : slots[s].buf # b) =>
             FreeCount(b)' = FreeCount(b)
    BY ReturnedBuffers
  <1>3. \A b \in Buffers : (\E s \in S : slots[s].buf = b) => FreeCount(b)' = 1
    BY ReturnedOnce
  <1>4. \A t \in InUse' : slots'[t].cleanup = "Pool" => slots'[t].buf \in outstanding'
    <2> SUFFICES ASSUME NEW t \in InUse', slots[t].cleanup = "Pool"
                 PROVE  slots[t].buf \in outstanding'
      BY <1>1
    <2>1. t \in InUse /\ slots[t].buf \in outstanding
      BY <1>1 DEF BufferInv
    <2>2. \A s \in S : slots[s].buf # slots[t].buf
      BY <1>1, <2>1 DEF OwnInv, BufferHasOneOwner
    <2>3. Returning(S, slots[t].buf, "Pool") = {}
      BY <2>2 DEF Returning
    <2> QED BY <2>1, <2>3 DEF ReturnBuffers, Release
  <1>5. ASSUME NEW b \in Buffers, heap[b] > 0
        PROVE  FreeCount(b)' = 1 \/ \E t \in InUse' : slots'[t].buf = b
    <2>1. CASE \E s \in S : slots[s].buf = b
      BY <1>3, <2>1
    <2>2. CASE \A s \in S : slots[s].buf # b
      <3>1. FreeCount(b)' = FreeCount(b)
        BY <1>2, <2>2
      <3>2. FreeCount(b) = 1 \/ \E t \in InUse : slots[t].buf = b
        BY <1>5 DEF BufferInv
      <3> QED BY <1>1, <2>2, <3>1, <3>2
    <2> QED BY <2>1, <2>2
  <1> QED BY <1>2, <1>4, <1>5 DEF BufferInv

LEMMA IssueKeepsBuffers ==
  ASSUME ReliableSubmit, TypeInv, OwnInv, RingInv, BufferInv, NEW r \in Records,
         NEW type \in IoTypes, NEW s \in Slots, NEW b \in Buffers,
         NEW kind \in Cleanups, IssueRead(r, type, s, b, kind), Taken(b, kind),
         kind = "Pool" => b \in outstanding', outstanding \subseteq outstanding',
         UNCHANGED cache
  PROVE  BufferInv'
  <1> DEFINE slot == [buf |-> b, cleanup |-> kind, type |-> type, rec |-> r]
  <1>1. /\ s \notin InUse /\ InUse' = InUse \cup {s} /\ slots'[s] = slot
        /\ \A t \in InUse : slots'[t] = slots[t]
    BY IssueSummary
  <1>2. slot.buf = b /\ slot.cleanup = kind
    OBVIOUS
  <1> HIDE DEF slot
  <1>3. \A t \in InUse' : slots'[t].cleanup = "Pool" => slots'[t].buf \in outstanding'
    BY <1>1, <1>2 DEF BufferInv
  <1>4. CacheOwners' = CacheOwners
    BY DEF CacheOwners
  <1>5. ASSUME NEW c \in Buffers, heap'[c] > 0
        PROVE  \/ FreeCount(c)' = 1
               \/ \E t \in InUse' : slots'[t].buf = c
               \/ \E x \in CacheOwners' : cache'[x].buf = c
    <2>1. CASE c = b
      BY <1>1, <1>2, <2>1
    <2>2. CASE c # b
      <3>1. FreeCount(c)' = FreeCount(c) /\ heap[c] > 0
        BY <1>5, <2>2 DEF Taken
      <3> QED BY <1>1, <1>4, <3>1 DEF BufferInv
    <2> QED BY <2>1, <2>2
  <1> QED BY <1>3, <1>5 DEF BufferInv

LEMMA BufferStep ==
  ASSUME ReliableSubmit, TypeInv, FetchesPayloads, OwnInv, RingInv, QueryInv,
         [Next]_vars
  PROVE  BufferInv'
  <1> USE DEF QueryInv
  <1>0. TypeOK
    BY DEF TypeInv
  <1>a. ASSUME UNCHANGED <<slotVars, bufVars, cache>> PROVE BufferInv'
    BY <1>a DEF BufferInv, InUse, CacheOwners, FreeCount, slotVars, bufVars
  <1>1. CASE StartSearch
    <2>1. CleanupPendingSlots /\ CacheOwners = {} /\ CacheOwners' = {}
      BY <1>1 DEF StartSearch, CacheOwners, NoRecordData, CacheInv, Fetching
    <2> QED BY <1>0, <2>1, ReleaseKeepsBuffers DEF CleanupPendingSlots, TypeOK
  <1>2. CASE Probe \/ FlushTail
    BY <1>2, <1>a DEF Probe, ProbeCluster, FlushTail, FlushHeld, rerankVars
  <1>3. ASSUME NEW r \in Records, NEW type \in IoTypes, Length(r, type) > 0,
               NEW s \in Slots, NEW b \in Buffers, IssuePoolRead(r, type, s, b),
               UNCHANGED cache
        PROVE  BufferInv'
    <2>1. Length(r, type) \in Nat \ {0}
      BY <1>3, LengthType
    <2>2. Taken(b, "Pool")
      BY <1>0, <1>3, <2>1, AcquireTakes DEF IssuePoolRead, TypeOK
    <2>3. IssueRead(r, type, s, b, "Pool") /\ outstanding' = outstanding \cup {b}
          /\ "Pool" \in Cleanups
      BY <1>3 DEF IssuePoolRead, Acquire, Cleanups
    <2> QED BY <1>3, <2>2, <2>3, IssueKeepsBuffers
  <1>4. ASSUME NEW r \in Records, NEW s \in Slots, NEW b \in Buffers, EmitAll(r, s, b)
        PROVE  BufferInv'
    <2>1. Length(r, "VEC_ALL") > 0 /\ "VEC_ALL" \in IoTypes
      BY SchedulerAssumption DEF Length, IoTypes
    <2> QED BY <1>3, <1>4, <2>1 DEF EmitAll, rerankVars
  <1>5. ASSUME NEW r \in Records, NEW s \in Slots, NEW b \in Buffers,
               NEW kind \in {"FixedVec", "VecPool"}, EmitVecOnly(r, s, b, kind)
        PROVE  BufferInv'
    <2>1. /\ IssueRead(r, "VEC_ONLY", s, b, kind) /\ "VEC_ONLY" \in IoTypes
          /\ kind \in Cleanups /\ kind # "Pool" /\ UNCHANGED <<cache, outstanding>>
      BY <1>5 DEF EmitVecOnly, AcquireVecBuffer, IoTypes, Cleanups, rerankVars
    <2>2. Taken(b, kind)
      BY <1>0, <1>5, AcquireVecTakes DEF EmitVecOnly, TypeOK
    <2> QED BY <2>1, <2>2, IssueKeepsBuffers
  <1>6. ASSUME NEW r \in Records, NEW s \in Slots, NEW b \in Buffers,
               FetchPayload(r, s, b)
        PROVE  BufferInv'
    <2>1. Length(r, "PAYLOAD") > 0 /\ "PAYLOAD" \in IoTypes
      BY <1>6 DEF FetchPayload, FetchesPayloads, Length, IoTypes
    <2> QED BY <1>3, <1>6, <2>1 DEF FetchPayload, rerankVars
  <1>7. ASSUME \/ SubmitWindow \/ PollWindow \/ DrainWait \/ DrainPoll \/ FetchSubmit
               \/ Abort \/ \E r \in kernel : Kernel(r)
        PROVE  BufferInv'
    <2>1. UNCHANGED <<slotVars, bufVars, rerankVars>>
      BY <1>7, RingMoves
    <2> QED BY <1>a, <2>1 DEF rerankVars
  <1>8. ASSUME NEW q \in comps, Dispatch(q) PROVE BufferInv'
    <2>1. /\ q.tok \in InUse /\ slots[q.tok].rec \in Records
          /\ InUse' = InUse \ {q.tok} /\ \A t \in InUse' : slots'[t] = slots[t]
      BY <1>8, DispatchSummary
    <2>2. slots[q.tok] # Free
      BY <2>1 DEF InUse
    <2>3. CASE pc \in Feeding
      <3>1. slots[q.tok].type # "PAYLOAD"
        BY <2>1, <2>3 DEF SlotInv
      <3>2. ReturnBuffers({q.tok}) /\ ReleaseSlots({q.tok}) /\ UNCHANGED pc
        BY <1>8, <2>2, <3>1 DEF Dispatch
      <3>3. pc' \notin Fetching \cup {"assemble"} /\ pc \notin Fetching \cup {"assemble"}
        BY <2>3, <3>2 DEF Feeding, Fetching
      <3>4. CacheOwners = {} /\ CacheOwners' = {}
        BY <3>3, CacheStep DEF CacheInv
      <3>5. {q.tok} \in SUBSET InUse
        BY <2>1
      <3> QED BY <1>0, <3>2, <3>4, <3>5, ReleaseKeepsBuffers DEF TypeOK
    <2>4. CASE pc \notin Feeding
      <3> DEFINE x == slots[q.tok].rec
                 b == slots[q.tok].buf
      <3>1. slots[q.tok].type = "PAYLOAD"
        BY <2>1, <2>4 DEF SlotInv
      <3>2. /\ UNCHANGED bufVars
            /\ \E content \in Records \cup {NoData} :
                 cache' = [cache EXCEPT ![x] = [buf |-> b, rec |-> content]]
        <4>1. UNCHANGED bufVars
              /\ cache' = [cache EXCEPT ![x] =
                             [buf |-> b, rec |-> PayloadIn(mem[b], "PAYLOAD")]]
          BY <1>8, <2>2, <3>1 DEF Dispatch
        <4>2. b \in Buffers
          BY <1>0, <2>1, SlotFields DEF TypeOK
        <4>3. mem[b] \in Extent \cup {NoData}
          BY <1>0, <4>2 DEF TypeOK, ReaderTypeOK
        <4>4. PayloadIn(mem[b], "PAYLOAD") \in Records \cup {NoData}
          BY <4>3, ContentType
        <4> QED BY <4>1, <4>4
      <3>3. x \in Reading /\ b \in Buffers
        BY <1>0, <2>1, SlotFields DEF Reading, TypeOK
      <3>4. cache[x] = NoData
        <4>1. pc \in Fetching
          BY <1>0, <2>1, <2>4, QuietSlots
             DEF TypeOK, Pcs, Feeding, Fetching, RingInv, RingByPlace
        <4> QED BY <3>3, <4>1 DEF CacheInv
      <3>5. x \in CacheOwners' /\ cache'[x].buf = b
        <4>1. PICK content \in Records \cup {NoData} :
                cache' = [cache EXCEPT ![x] = [buf |-> b, rec |-> content]]
          BY <3>2
        <4>2. cache'[x] = [buf |-> b, rec |-> content]
          BY <1>0, <2>1, <4>1 DEF TypeOK, RerankTypeOK
        <4>3. [buf |-> b, rec |-> content] \in Cached
          BY <3>3 DEF Cached
        <4>4. cache'[x] # NoData /\ cache'[x].buf = b /\ b # NoBuf
          BY <3>3, <4>2, <4>3, SchedulerAssumption, SentinelAssumption DEF Cached
        <4> QED BY <2>1, <4>4 DEF CacheOwners
      <3>6. \A r \in CacheOwners : r \in CacheOwners' /\ cache'[r] = cache[r]
        BY <1>0, <3>2, <3>4 DEF CacheOwners, TypeOK, RerankTypeOK
      <3> HIDE DEF x, b
      <3>7. \A t \in InUse' : slots'[t].cleanup = "Pool" => slots'[t].buf \in outstanding'
        BY <2>1, <3>2 DEF BufferInv, bufVars
      <3>8. ASSUME NEW c \in Buffers, heap'[c] > 0
            PROVE  \/ FreeCount(c)' = 1
                   \/ \E t \in InUse' : slots'[t].buf = c
                   \/ \E r \in CacheOwners' : cache'[r].buf = c
        <4>1. FreeCount(c)' = FreeCount(c) /\ heap[c] > 0
          BY <3>2, <3>8 DEF bufVars, FreeCount
        <4>2. CASE FreeCount(c) = 1
          BY <4>1, <4>2
        <4>3. CASE \E t \in InUse : slots[t].buf = c
          BY <2>1, <3>5, <4>3 DEF b
        <4>4. CASE \E r \in CacheOwners : cache[r].buf = c
          BY <3>6, <4>4
        <4> QED BY <4>1, <4>2, <4>3, <4>4 DEF BufferInv
      <3> QED BY <3>7, <3>8 DEF BufferInv
    <2> QED BY <2>3, <2>4
  <1>9. CASE DrainDone
    <2>1. CleanupPendingSlots /\ UNCHANGED cache /\ CacheOwners = {}
      BY <1>9 DEF DrainDone, rerankVars, CacheInv, Fetching
    <2>2. CacheOwners' = {}
      BY <2>1 DEF CacheOwners
    <2> QED BY <1>0, <2>1, <2>2, ReleaseKeepsBuffers DEF CleanupPendingSlots, TypeOK
  <1>10. ASSUME NEW top \in SUBSET Records, ExecuteBuffered(top) PROVE BufferInv'
    BY <1>10, <1>a DEF ExecuteBuffered
  <1>11. CASE FetchDone
    BY <1>11, <1>a DEF FetchDone, rerankVars
  <1>12. CASE AssembleResults
    <2>1. /\ heap' = [b \in Buffers |-> IF b \in CachedBuffers THEN 0 ELSE heap[b]]
          /\ UNCHANGED <<slots, pool, free_fixed, free_vec>> /\ pc = "assemble"
      BY <1>12 DEF AssembleResults, FreeAll, slotVars
    <2>2. InUse = {} /\ InUse' = {}
      BY <2>1, QuietSlots DEF InUse
    <2>3. ASSUME NEW b \in Buffers, heap'[b] > 0 PROVE FreeCount(b)' = 1
      <3>1. b \notin CachedBuffers /\ heap[b] > 0
        BY <2>1, <2>3
      <3>2. \A r \in CacheOwners : cache[r].buf # b
        BY <3>1 DEF CachedBuffers, CacheOwners
      <3>3. FreeCount(b) = 1
        BY <2>2, <3>1, <3>2 DEF BufferInv
      <3> QED BY <2>1, <3>3 DEF FreeCount
    <2> QED BY <2>2, <2>3 DEF BufferInv
  <1>13. CASE UNCHANGED vars
    BY <1>13, <1>a DEF vars, rerankVars
  <1> QED BY <1>1, <1>2, <1>4, <1>5, <1>6, <1>7, <1>8, <1>9, <1>10, <1>11, <1>12,
             <1>13 DEF Next, Scheduler

LEMMA QueryInit == Init => QueryInv
  <1> SUFFICES ASSUME Init PROVE QueryInv
    OBVIOUS
  <1>1. InUse = {} /\ CacheOwners = {} /\ pc = "idle"
    BY DEF Init, InUse, CacheOwners, NoRecordData
  <1>2. SlotInv /\ LedgerInv /\ CacheInv
    BY <1>1 DEF SlotInv, LedgerInv, CacheInv, Feeding, Fetching
  <1>3. \A b \in Buffers : heap[b] > 0 => FreeCount(b) = 1
    BY SchedulerAssumption DEF Init, PoolInit, FreeCount
  <1>4. BufferInv
    BY <1>1, <1>3 DEF BufferInv
  <1> QED BY <1>2, <1>4 DEF QueryInv

LEMMA QueryInvariant ==
  ASSUME ReliableSubmit
  PROVE  Spec => [](TypeInv /\ FetchesPayloads /\ OwnInv /\ RingInv /\ QueryInv)
  <1>1. Init => TypeInv /\ FetchesPayloads /\ OwnInv /\ RingInv /\ QueryInv
    BY TypeInit, OwnInit, RingInit, QueryInit DEF Init, FetchesPayloads
  <1>2. TypeInv /\ FetchesPayloads /\ OwnInv /\ RingInv /\ QueryInv /\ [Next]_vars =>
          (TypeInv /\ FetchesPayloads /\ OwnInv /\ RingInv /\ QueryInv)'
    <2>1. TypeInv /\ FetchesPayloads /\ OwnInv /\ RingInv /\ QueryInv /\ [Next]_vars
            => QueryInv'
      BY SlotStep, LedgerStep, CacheStep, BufferStep DEF QueryInv
    <2> QED BY <2>1, TypeStep, OwnStep, RingStep
  <1> QED BY <1>1, <1>2, PTL DEF Spec

(* Every record a query plans to read is ranked exactly once, with the      *)
(* others, and nothing that was not planned is: no plan is stranded in a    *)
(* submit window, no completion dropped, none dispatched twice.             *)
THEOREM PlansAreRerankedOnce ==
  ASSUME ReliableSubmit
  PROVE  Spec => []EveryPlanRerankedOnce
  <1>1. TypeInv /\ FetchesPayloads /\ OwnInv /\ RingInv /\ QueryInv
          => EveryPlanRerankedOnce
    <2> SUFFICES ASSUME TypeInv, RingInv, QueryInv, NEW r \in Records,
                        pc \in {"rerank", "fetch", "fetch_drain", "fetch_poll",
                                "assemble"}
                 PROVE  buffered[r] = IF pc = "rerank" /\ r \in planned THEN 1 ELSE 0
      BY DEF EveryPlanRerankedOnce
    <2>1. buffered[r] \in Nat
      BY DEF TypeInv, TypeOK, RerankTypeOK
    <2>2. r \in Candidates <=> buffered[r] > 0
      BY DEF Candidates
    <2>3. CASE pc = "rerank"
      <3>1. Reading = {}
        BY <2>3, QuietSlots DEF QueryInv
      <3>2. planned = Candidates /\ buffered[r] <= 1
        BY <2>3, <3>1 DEF QueryInv, LedgerInv
      <3> QED BY <2>1, <2>2, <2>3, <3>2
    <2>4. CASE pc # "rerank"
      <3>1. Candidates = {}
        BY <2>4 DEF QueryInv, LedgerInv, Fetching, RingInv, RingByPlace
      <3> QED BY <2>1, <2>2, <2>4, <3>1
    <2> QED BY <2>3, <2>4
  <1> QED BY <1>1, QueryInvariant, PTL

(* After a query every slot is free and every live buffer is on a free      *)
(* list: none is lost on the way through the slots, the pool, the free      *)
(* lists and the payload cache.                                             *)
THEOREM NothingIsLeaked ==
  ASSUME ReliableSubmit
  PROVE  Spec => []NothingLeaksBetweenQueries
  <1>1. TypeInv /\ FetchesPayloads /\ OwnInv /\ RingInv /\ QueryInv
          => NothingLeaksBetweenQueries
    <2> SUFFICES ASSUME RingInv, QueryInv, pc = "idle"
                 PROVE  InUse = {} /\ \A b \in Buffers : heap[b] > 0 => FreeCount(b) = 1
      BY DEF NothingLeaksBetweenQueries
    <2>1. InUse = {} /\ CacheOwners = {}
      BY QuietSlots DEF QueryInv, CacheInv, Fetching
    <2> QED BY <2>1 DEF QueryInv, BufferInv
  <1> QED BY <1>1, QueryInvariant, PTL
-----------------------------------------------------------------------------
(* A result keeps its claim to a payload until it has it.                   *)
LEMMA AnswerStep ==
  ASSUME ReliableSubmit, TypeInv, FetchesPayloads, OwnInv, RingInv, DataInv,
         QueryInv, AnswerInv, [Next]_vars
  PROVE  AnswerInv'
  <1> USE DEF QueryInv
  <1>0. TypeOK
    BY DEF TypeInv
  <1>a. ASSUME UNCHANGED <<slotVars, cache, resultVars>>,
               pc' \in Fetching \cup {"assemble"} => pc \in Fetching \cup {"assemble"},
               pc' \in {"fetch_drain", "assemble"} => to_fetch = {},
               pc' = "idle" => pc = "idle"
        PROVE  AnswerInv'
    <2>1. Reading' = Reading /\ InUse' = InUse
      BY <1>a DEF slotVars, Reading, InUse
    <2> QED BY <1>a, <2>1 DEF AnswerInv, AnswersComplete, slotVars, resultVars
  <1>1. CASE StartSearch
    <2>1. InUse' = {} /\ pc' \notin Fetching \cup {"assemble", "idle"}
          /\ cache' = NoRecordData
      BY <1>1, QuietSlots, QuietCleanup DEF StartSearch, Fetching
    <2> QED BY <2>1 DEF AnswerInv, AnswersComplete, NoRecordData, Fetching
  <1>2. CASE Probe \/ FlushTail
    <2>1. UNCHANGED <<slotVars, cache, resultVars>>
          /\ pc' \notin Fetching \cup {"assemble", "idle"}
      BY <1>2 DEF Probe, ProbeCluster, FlushTail, FlushHeld, rerankVars, Fetching
    <2> QED BY <1>a, <2>1 DEF Fetching
  <1>b. ASSUME NEW r \in Records, NEW type \in IoTypes, NEW s \in Slots,
               NEW b \in Buffers, NEW kind \in Cleanups,
               IssueRead(r, type, s, b, kind), UNCHANGED <<cache, results, pc>>,
               type = "PAYLOAD" => PayloadBytes[r] > 0,
               to_fetch \subseteq to_fetch' \cup {r}, pc # "idle",
               pc \in {"fetch_drain", "assemble"} => to_fetch' = {}
        PROVE  AnswerInv'
    <2> DEFINE slot == [buf |-> b, cleanup |-> kind, type |-> type, rec |-> r]
    <2>1. /\ InUse' = InUse \cup {s} /\ slots'[s] = slot
          /\ \A t \in InUse : slots'[t] = slots[t]
          /\ Reading' = Reading \cup {r}
      BY <1>b, IssueSummary
    <2>2. slot.rec = r /\ slot.type = type
      OBVIOUS
    <2> HIDE DEF slot
    <2>3. \A t \in InUse' : slots'[t].type = "PAYLOAD" => PayloadBytes[slots'[t].rec] > 0
      BY <1>b, <2>1, <2>2 DEF AnswerInv
    <2> QED BY <1>b, <2>1, <2>3 DEF AnswerInv, AnswersComplete
  <1>3. ASSUME NEW r \in Records, NEW s \in Slots, NEW b \in Buffers, EmitAll(r, s, b)
        PROVE  AnswerInv'
    <2>1. /\ IssueRead(r, "VEC_ALL", s, b, "Pool") /\ "VEC_ALL" \in IoTypes
          /\ "Pool" \in Cleanups
      BY <1>3 DEF EmitAll, IssuePoolRead, IoTypes, Cleanups
    <2>2. UNCHANGED <<cache, results, to_fetch, pc>>
          /\ pc \notin {"idle", "fetch_drain", "assemble"}
      BY <1>3 DEF EmitAll, Emitting, rerankVars, resultVars
    <2> QED BY <1>b, <2>1, <2>2
  <1>4. ASSUME NEW r \in Records, NEW s \in Slots, NEW b \in Buffers,
               NEW kind \in {"FixedVec", "VecPool"}, EmitVecOnly(r, s, b, kind)
        PROVE  AnswerInv'
    <2>1. /\ IssueRead(r, "VEC_ONLY", s, b, kind) /\ "VEC_ONLY" \in IoTypes
          /\ kind \in Cleanups
      BY <1>4 DEF EmitVecOnly, IoTypes, Cleanups
    <2>2. UNCHANGED <<cache, results, to_fetch, pc>>
          /\ pc \notin {"idle", "fetch_drain", "assemble"}
      BY <1>4 DEF EmitVecOnly, Emitting, rerankVars, resultVars
    <2> QED BY <1>b, <2>1, <2>2
  <1>5. ASSUME NEW r \in Records, NEW s \in Slots, NEW b \in Buffers,
               FetchPayload(r, s, b)
        PROVE  AnswerInv'
    <2>1. /\ IssueRead(r, "PAYLOAD", s, b, "Pool") /\ "PAYLOAD" \in IoTypes
          /\ "Pool" \in Cleanups
      BY <1>5 DEF FetchPayload, IssuePoolRead, IoTypes, Cleanups
    <2>2. /\ UNCHANGED <<cache, results, pc>> /\ pc = "fetch"
          /\ r \in to_fetch /\ to_fetch' = to_fetch \ {r}
      BY <1>5 DEF FetchPayload, rerankVars
    <2>3. PayloadBytes[r] > 0
      BY <2>2 DEF FetchesPayloads
    <2> QED BY <1>b, <2>1, <2>2, <2>3
  <1>6. ASSUME \/ SubmitWindow \/ PollWindow \/ DrainWait \/ DrainPoll \/ FetchSubmit
               \/ Abort \/ \E r \in kernel : Kernel(r)
        PROVE  AnswerInv'
    <2>1. UNCHANGED <<slotVars, rerankVars, resultVars>> /\ ~Abort /\ ~DrainPoll
      BY <1>6, RingMoves
    <2>2. /\ pc' \in Fetching \cup {"assemble"} => pc \in Fetching \cup {"assemble"}
          /\ pc' \in {"fetch_drain", "assemble"} => to_fetch = {}
          /\ pc' = "idle" => pc = "idle"
      BY <1>6, <2>1 DEF SubmitWindow, Emitting, PollWindow, DrainWait, FetchSubmit,
                        Kernel, Fetching, AnswerInv
    <2> QED BY <1>a, <2>1, <2>2 DEF rerankVars
  <1>7. ASSUME NEW q \in comps, Dispatch(q) PROVE AnswerInv'
    <2> DEFINE x == slots[q.tok].rec
    <2>1. /\ q.tok \in InUse /\ x \in Records
          /\ InUse' = InUse \ {q.tok} /\ \A t \in InUse' : slots'[t] = slots[t]
          /\ Reading' = Reading \ {x}
      BY <1>7, DispatchSummary
    <2>2. UNCHANGED <<pc, to_fetch, results, answer>> /\ slots[q.tok] # Free
      BY <1>7, <2>1 DEF Dispatch, resultVars, InUse
    <2>3. /\ q \in Requests /\ q.what \in Extent /\ q.what.rec = x
          /\ q.what.type = slots[q.tok].type /\ mem[slots[q.tok].buf] = q.what
      <3>1. q \in Requests /\ mem[q.buf] = q.what
        BY DEF Requests, DataInv
      <3>2. Matches(q) /\ q.what \in Extent
        BY <1>0, <3>1, RequestFields
           DEF RingInv, AllMatch, TypeInv, ReaderInv, TypeOK
      <3> QED BY <3>1, <3>2 DEF Matches
    <2>4. \A t \in InUse' : slots'[t].type = "PAYLOAD" => PayloadBytes[slots'[t].rec] > 0
      BY <2>1 DEF AnswerInv
    <2> HIDE DEF x
    <2>5. \/ UNCHANGED cache /\ pc \in Feeding
          \/ /\ PayloadBytes[x] > 0
             /\ \E b \in Buffers \cup {NoBuf} :
                  cache' = [cache EXCEPT ![x] = [buf |-> b, rec |-> x]]
      <3>1. CASE slots[q.tok].type = "VEC_ONLY"
        BY <1>7, <2>1, <2>2, <3>1 DEF Dispatch, SlotInv
      <3>2. CASE slots[q.tok].type = "VEC_ALL"
        <4>1. PayloadIn(q.what, "VEC_ALL") = x
          BY <2>3, <3>2, SentinelAssumption DEF PayloadIn
        <4>2. PayloadBytes[x] \in Nat
          BY <2>1, SchedulerAssumption
        <4>3. pc \in Feeding
          BY <2>1, <3>2 DEF SlotInv
        <4>4. cache' = IF PayloadBytes[x] = 0 THEN cache
                       ELSE [cache EXCEPT ![x] = [buf |-> NoBuf, rec |-> x]]
          BY <1>7, <2>2, <2>3, <3>2, <4>1 DEF Dispatch, x
        <4> QED BY <4>2, <4>3, <4>4
      <3>3. CASE slots[q.tok].type = "PAYLOAD"
        <4>1. PayloadIn(q.what, "PAYLOAD") = x
          BY <2>3, <3>3, SentinelAssumption DEF PayloadIn
        <4>2. PayloadBytes[x] > 0
          BY <2>1, <3>3 DEF AnswerInv, x
        <4>3. cache' = [cache EXCEPT ![x] = [buf |-> slots[q.tok].buf, rec |-> x]]
          BY <1>7, <2>2, <2>3, <3>3, <4>1 DEF Dispatch, x
        <4>4. slots[q.tok].buf \in Buffers
          BY <1>0, <2>1, SlotFields DEF TypeOK
        <4> QED BY <4>2, <4>3, <4>4
      <3> QED BY <1>7, <2>2, <3>1, <3>2, <3>3 DEF Dispatch
    <2>6. CASE UNCHANGED cache /\ pc \in Feeding
      BY <2>2, <2>4, <2>6 DEF AnswerInv, AnswersComplete, Feeding, Fetching
    <2>7. ASSUME PayloadBytes[x] > 0, NEW b \in Buffers \cup {NoBuf},
                 cache' = [cache EXCEPT ![x] = [buf |-> b, rec |-> x]]
          PROVE  AnswerInv'
      <3> DEFINE entry == [buf |-> b, rec |-> x]
      <3>1. entry \in Cached /\ entry # NoData /\ entry.rec = x
        BY <2>1, SentinelAssumption DEF Cached
      <3> HIDE DEF entry
      <3>2. cache'[x] = entry /\ \A r \in Records \ {x} : cache'[r] = cache[r]
        BY <1>0, <2>1, <2>7 DEF TypeOK, RerankTypeOK, entry
      <3>3. \A r \in Records : cache'[r] # NoData =>
              cache'[r].rec = r /\ PayloadBytes[r] > 0
        BY <2>7, <3>1, <3>2 DEF AnswerInv
      <3>4. results \subseteq Records
        BY <1>0 DEF TypeOK, ResultTypeOK
      <3>5. \A r \in results : r \in Reading \/ cache[r] # NoData =>
              r \in Reading' \/ cache'[r] # NoData
        BY <2>1, <3>1, <3>2, <3>4
      <3> QED BY <2>2, <2>4, <3>3, <3>5 DEF AnswerInv, AnswersComplete
    <2> QED BY <2>5, <2>6, <2>7
  <1>8. CASE DrainDone
    <2>1. InUse' = {} /\ UNCHANGED cache /\ pc' = "rerank"
      BY <1>8, DrainedSlots, QuietCleanup DEF DrainDone, rerankVars
    <2> QED BY <2>1 DEF AnswerInv, AnswersComplete, Fetching
  <1>9. ASSUME NEW top \in SUBSET Records, ExecuteBuffered(top) PROVE AnswerInv'
    <2>1. UNCHANGED <<cache, slotVars>> /\ pc' = "fetch" /\ results' = top
          /\ to_fetch' = {r \in top : cache[r] = NoData /\ PayloadBytes[r] > 0}
      BY <1>9 DEF ExecuteBuffered
    <2>2. InUse' = InUse
      BY <2>1 DEF slotVars, InUse
    <2> QED BY <2>1, <2>2 DEF AnswerInv, AnswersComplete, slotVars
  <1>10. CASE FetchDone
    BY <1>10, <1>a DEF FetchDone, rerankVars, RingInv, RingByPlace, Fetching, AnswerInv
  <1>11. CASE AssembleResults
    <2>1. /\ answer' = [r \in Records |->
               IF r \in results /\ cache[r] # NoData THEN cache[r].rec ELSE NoData]
          /\ cache' = NoRecordData /\ UNCHANGED <<slots, results>>
          /\ pc = "assemble" /\ pc' = "idle"
      BY <1>11 DEF AssembleResults, slotVars
    <2>2. InUse' = {} /\ Reading = {} /\ to_fetch = {}
      BY <2>1, QuietSlots DEF InUse, AnswerInv
    <2>3. \A r \in results : PayloadBytes[r] > 0 => cache[r] # NoData
      BY <2>1, <2>2 DEF AnswerInv
    <2>4. results \subseteq Records
      BY <1>0 DEF TypeOK, ResultTypeOK
    <2>5. \A r \in results : answer'[r] = IF PayloadBytes[r] > 0 THEN r ELSE NoData
      BY <2>1, <2>3, <2>4 DEF AnswerInv
    <2> QED BY <2>1, <2>2, <2>5 DEF AnswerInv, AnswersComplete, NoRecordData, Fetching
  <1>12. CASE UNCHANGED vars
    BY <1>12, <1>a DEF vars, rerankVars, AnswerInv
  <1> QED BY <1>1, <1>2, <1>3, <1>4, <1>5, <1>6, <1>7, <1>8, <1>9, <1>10, <1>11,
             <1>12 DEF Next, Scheduler

(* A search returns each of its results with the record's own payload when  *)
(* it has one, whether it came with the vector or was fetched afterwards.   *)
THEOREM AnswersAreComplete ==
  ASSUME ReliableSubmit, ~ReadMayFail
  PROVE  Spec => []AnswersComplete
  <1> DEFINE Inv == /\ TypeInv /\ FetchesPayloads /\ OwnInv /\ RingInv /\ DataInv
                    /\ QueryInv /\ AnswerInv
  <1>1. Init => Inv
    <2>1. Init => DataInv
      BY DEF Init, ReaderInit, DataInv, RerankedVectorsAreOwn
    <2>2. Init => AnswerInv
      BY DEF Init, AnswerInv, AnswersComplete, InUse, NoRecordData, Fetching
    <2> QED BY <2>1, <2>2, TypeInit, OwnInit, RingInit, QueryInit
            DEF Init, FetchesPayloads
  <1>2. Inv /\ [Next]_vars => Inv'
    <2> SUFFICES ASSUME Inv, [Next]_vars PROVE Inv'
      OBVIOUS
    <2>1. TypeInv' /\ FetchesPayloads' /\ OwnInv' /\ RingInv' /\ DataInv'
      BY TypeStep, OwnStep, RingStep, DataStep
    <2>2. QueryInv'
      BY SlotStep, LedgerStep, CacheStep, BufferStep DEF QueryInv
    <2>3. AnswerInv'
      BY AnswerStep
    <2> QED BY <2>1, <2>2, <2>3
  <1>3. Inv => AnswersComplete
    BY DEF AnswerInv
  <1> HIDE DEF Inv
  <1> QED BY <1>1, <1>2, <1>3, PTL DEF Spec
=============================================================================
