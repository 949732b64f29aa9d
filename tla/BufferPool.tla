------------------------------ MODULE BufferPool ------------------------------
(***************************************************************************)
(* BufferPool (src/query/buffer_pool.cpp): page-aligned read buffers that   *)
(* are handed out by Acquire and come back by Release.                      *)
(*                                                                         *)
(* The C++ allocator is external: `heap' gives the size of the live block   *)
(* at an address, 0 when there is none, and an allocation may return any    *)
(* address without a live block, in particular one that was freed before.   *)
(* pool_ is a bag, not a set, so that a buffer pooled twice is visible; the *)
(* order of its entries is abstracted (Acquire takes any entry that fits).  *)
(***************************************************************************)
EXTENDS Integers

CONSTANTS
  Buffers,  \* addresses the allocator can return
  PageSize  \* 4096: alignment and rounding of every buffer

VARIABLES
  heap,        \* [Buffers -> Nat]: size of the live block at the address
  pool,        \* [Buffers -> Nat]: entries of pool_ with this address
  capacity,    \* [Buffers -> Nat]: capacity recorded in the buffer's entry
  outstanding  \* keys of outstanding_

poolVars == <<heap, pool, capacity, outstanding>>

(* (size + 4095) & ~4095 *)
AlignUp(size) == ((size + PageSize - 1) \div PageSize) * PageSize

PoolTypeOK ==
  /\ heap \in [Buffers -> Nat]
  /\ pool \in [Buffers -> Nat]
  /\ capacity \in [Buffers -> Nat]
  /\ outstanding \subseteq Buffers

(* aligned_alloc returns address b. *)
Allocated(b, size) ==
  /\ heap[b] = 0
  /\ heap' = [heap EXCEPT ![b] = size]

(* std::free of every address of S. *)
FreeAll(S) == heap' = [b \in Buffers |-> IF b \in S THEN 0 ELSE heap[b]]

Fits(b, size) == pool[b] > 0 /\ capacity[b] >= AlignUp(size)

(* Seeded fault: a new block is recorded with the size asked for, not the   *)
(* size allocated.                                                          *)
AcquireUnrounded(b, size) ==
  /\ outstanding' = outstanding \cup {b}
  /\ \/ /\ Fits(b, size)
        /\ pool' = [pool EXCEPT ![b] = @ - 1]
        /\ UNCHANGED <<heap, capacity>>
     \/ /\ \A c \in Buffers : ~Fits(c, size)
        /\ Allocated(b, AlignUp(size))
        /\ capacity' = [capacity EXCEPT ![b] = size]
        /\ UNCHANGED pool

(* Acquire(size) returns b: a pooled buffer that is large enough when there *)
(* is one, a new block otherwise.                                           *)
Acquire(b, size) ==
  /\ outstanding' = outstanding \cup {b}
  /\ \/ /\ Fits(b, size)
        /\ pool' = [pool EXCEPT ![b] = @ - 1]
        /\ UNCHANGED <<heap, capacity>>
     \/ /\ \A c \in Buffers : ~Fits(c, size)
        /\ Allocated(b, AlignUp(size))
        /\ capacity' = [capacity EXCEPT ![b] = AlignUp(size)]
        /\ UNCHANGED pool

(* Release(b) for every b of S; an address that is not outstanding is       *)
(* ignored.                                                                 *)
Release(S) ==
  /\ pool' = [b \in Buffers |->
                IF b \in S \cap outstanding THEN pool[b] + 1 ELSE pool[b]]
  /\ outstanding' = outstanding \ S

(* State after Prime(size, |primed|) on an empty pool, with blocks `others'  *)
(* of the same size allocated elsewhere.                                    *)
PoolInit(primed, others, size) ==
  /\ heap = [b \in Buffers |-> IF b \in primed \cup others THEN AlignUp(size) ELSE 0]
  /\ pool = [b \in Buffers |-> IF b \in primed THEN 1 ELSE 0]
  /\ capacity = [b \in Buffers |-> IF b \in primed THEN AlignUp(size) ELSE 0]
  /\ outstanding = {}
=============================================================================
