---------------------------- MODULE IoUringReader ----------------------------
(***************************************************************************)
(* IoUringReader (src/query/io_uring_reader.cpp): one io_uring, its         *)
(* single-threaded client and the kernel that executes the reads.           *)
(*                                                                         *)
(* A request is an SQE: the token the caller tags it with (user_data), the  *)
(* buffer the kernel writes to and the part of the data file it asks for.   *)
(* `id' is auxiliary: it is the position of the SQE in the order of         *)
(* preparation, so that two SQEs with equal fields stay two and "the first  *)
(* n SQEs of the ring" can be said of a set.                                *)
(*                                                                         *)
(* The kernel is external.  It consumes a prefix of the submission ring on  *)
(* io_uring_submit, executes the consumed reads in any order and at any     *)
(* time, and posts one completion each.  SubmitMayFallShort lets it consume *)
(* less than the whole ring (a short or failed submit); ReadMayFail lets a  *)
(* read complete without data (a negative CQE result).                      *)
(***************************************************************************)
EXTENDS Integers, FiniteSets

CONSTANTS
  Tokens,             \* user_data values a caller tags its reads with
  Buffers,            \* addresses a read can be directed to
  Extents,            \* the parts of the data file that can be read
  NoData,             \* the content of a buffer nothing was read into
  QueueDepth,         \* SQ entries
  MaxBatch,           \* capacity of the caller's completion array (128)
  CounterModulus,     \* in_flight_ and prepped_ are uint32_t: 2^32
  SubmitMayFallShort, \* the kernel may accept only part of the ring
  ReadMayFail         \* a read may complete with an error

ASSUME ReaderAssumption ==
  /\ QueueDepth \in Nat \ {0}
  /\ MaxBatch \in Nat \ {0}
  /\ CounterModulus \in Nat \ {0}
  /\ SubmitMayFallShort \in BOOLEAN
  /\ ReadMayFail \in BOOLEAN
  /\ NoData \notin Extents

VARIABLES
  sq,        \* SQEs filled by the client, not yet consumed by the kernel
  kernel,    \* reads the kernel is executing
  cq,        \* completions posted, not yet consumed by the client
  in_flight, \* in_flight_
  prepped,   \* prepped_
  next_id,   \* auxiliary: the id of the next SQE
  comps,     \* the caller's IoCompletion array: polled, not yet dispatched
  mem        \* what each buffer holds

readerVars == <<sq, kernel, cq, in_flight, prepped, next_id, comps, mem>>

Request == [id : Nat, tok : Tokens, buf : Buffers, what : Extents]

(* Every request the reader or its caller still has to deal with.          *)
Requests == sq \cup kernel \cup cq \cup comps

(* Seeded fault: counters that are signed and do not wrap. *)
WrapSigned(n) == n

(* The counters are uint32_t and wrap in both directions.                  *)
Wrap(n) == n % CounterModulus

ReaderTypeOK ==
  /\ sq \subseteq Request
  /\ kernel \subseteq Request
  /\ cq \subseteq Request
  /\ comps \subseteq Request
  /\ in_flight \in 0..(CounterModulus - 1)
  /\ prepped \in 0..(CounterModulus - 1)
  /\ next_id \in Nat
  /\ mem \in [Buffers -> Extents \cup {NoData}]

ReaderInit ==
  /\ sq = {} /\ kernel = {} /\ cq = {} /\ comps = {}
  /\ in_flight = 0 /\ prepped = 0 /\ next_id = 0
  /\ mem = [b \in Buffers |-> NoData]
-----------------------------------------------------------------------------
(* io_uring_submit consumes the SQEs of A: the oldest ones of the ring.     *)
Accepts(A) ==
  /\ A \subseteq sq
  /\ \A a \in A, r \in sq \ A : a.id < r.id
  /\ SubmitMayFallShort \/ A = sq

Sqe(tok, buf, what) == [id |-> next_id, tok |-> tok, buf |-> buf, what |-> what]

SqHasRoom == Cardinality(sq) < QueueDepth

(* Seeded fault: the auto-flush does not count what it submits. *)
PrepReadTaggedUncounted(tok, buf, what) ==
  /\ next_id' = next_id + 1
  /\ UNCHANGED <<cq, comps, mem, in_flight>>
  /\ prepped' = IF SqHasRoom THEN prepped + 1 ELSE 1
  /\ sq' = (IF SqHasRoom THEN sq ELSE {}) \cup {Sqe(tok, buf, what)}
  /\ kernel' = IF SqHasRoom THEN kernel ELSE kernel \cup sq

(* PrepReadTagged and the fixed-file and registered-buffer variants, which  *)
(* differ in SQE flags only: get an SQE, and when the ring is full flush it *)
(* first.  The flush counts every prepared SQE as in flight, whatever       *)
(* number of them the kernel took.                                          *)
PrepReadTagged(tok, buf, what) ==
  /\ next_id' = next_id + 1
  /\ UNCHANGED <<cq, comps, mem>>
  /\ \/ /\ SqHasRoom
        /\ sq' = sq \cup {Sqe(tok, buf, what)}
        /\ prepped' = Wrap(prepped + 1)
        /\ UNCHANGED <<kernel, in_flight>>
     \/ /\ ~SqHasRoom
        /\ \E A \in SUBSET sq :
             /\ Accepts(A) /\ A # {}
             /\ kernel' = kernel \cup A
             /\ sq' = (sq \ A) \cup {Sqe(tok, buf, what)}
        /\ in_flight' = Wrap(in_flight + prepped)
        /\ prepped' = Wrap(1)

(* The ring is full and the flush frees no entry: the prep returns an error. *)
PrepReadFails == ~SqHasRoom /\ SubmitMayFallShort

(* Seeded fault: the batch counts as submitted, but the kernel is not told. *)
SubmitForgets ==
  /\ prepped' = 0
  /\ UNCHANGED <<sq, kernel, cq, in_flight, next_id, comps, mem>>

(* Submit: whatever the kernel took is in flight, and nothing counts as     *)
(* prepared any more.  With nothing prepared it does not enter the kernel.  *)
Submit ==
  /\ UNCHANGED <<cq, next_id, comps, mem>>
  /\ \/ /\ prepped = 0
        /\ UNCHANGED <<sq, kernel, in_flight, prepped>>
     \/ /\ prepped # 0
        /\ \E A \in SUBSET sq :
             /\ Accepts(A)
             /\ kernel' = kernel \cup A
             /\ sq' = sq \ A
             /\ in_flight' = Wrap(in_flight + Cardinality(A))
        /\ prepped' = 0

(* The kernel finishes read r: the data are in the buffer, or the read      *)
(* failed and the buffer keeps what it held.  IoCompletion.result, which    *)
(* tells the two apart, is read by no caller and is not kept.               *)
KernelComplete(r) ==
  /\ r \in kernel
  /\ kernel' = kernel \ {r}
  /\ cq' = cq \cup {r}
  /\ \/ mem' = [mem EXCEPT ![r.buf] = r.what]
     \/ ReadMayFail /\ UNCHANGED mem
  /\ UNCHANGED <<sq, in_flight, prepped, next_id, comps>>

(* Move as many completions as fit from the ring to the caller's array.     *)
TakeCompletions ==
  \E D \in SUBSET cq :
    /\ IF Cardinality(cq) <= MaxBatch THEN D = cq ELSE Cardinality(D) = MaxBatch
    /\ comps' = D
    /\ cq' = cq \ D
    /\ in_flight' = Wrap(in_flight - Cardinality(D))
    /\ UNCHANGED <<sq, kernel, prepped, next_id, mem>>

(* Poll: never blocks; delivers nothing when nothing has completed.         *)
Poll == comps = {} /\ TakeCompletions

(* Seeded fault: the entry is handed out although the wait failed. *)
WaitAndPollUnchecked ==
  /\ in_flight # 0
  /\ comps = {}
  /\ \E r \in kernel : comps' = {r} /\ kernel' = kernel \ {r}
  /\ in_flight' = Wrap(in_flight - 1)
  /\ UNCHANGED <<sq, cq, prepped, next_id, mem>>

(* WaitAndPoll blocks until there is a completion.  A wait that fails       *)
(* (EINTR) returns 0 and changes nothing: a stuttering step.                *)
WaitAndPoll ==
  /\ in_flight # 0
  /\ comps = {}
  /\ cq # {}
  /\ TakeCompletions
=============================================================================
