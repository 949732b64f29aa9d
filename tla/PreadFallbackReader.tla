------------------------- MODULE PreadFallbackReader -------------------------
(***************************************************************************)
(* PreadFallbackReader (src/query/pread_fallback_reader.cpp): the backend   *)
(* for systems without io_uring.  Submit executes every pending read with   *)
(* pread before it returns; Poll hands the results out in that order.       *)
(*                                                                         *)
(* The client prepares, submits, polls and works completions off as the one *)
(* of UringClient does.  InFlight() is 0 at all times: only the             *)
(* "poll until nothing comes" loops of the scheduler collect its results.   *)
(* What it promises, and the assumptions on the constants, are stated in    *)
(* ReaderClient, for both readers at once.                                  *)
(***************************************************************************)
EXTENDS Integers, Sequences, SequencesExt

CONSTANTS Tokens, Buffers, Extents, NoData,
  MaxBatch,  \* capacity of the client's completion array
  MaxReads   \* bound of the model: reads prepared in one behaviour

VARIABLES
  pending,    \* pending_
  completed,  \* completed_
  comps,      \* the client's completion array: polled, not yet dispatched
  next_id,    \* auxiliary: number of reads prepared
  mem         \* what each buffer holds

preadVars == <<pending, completed, comps, next_id, mem>>

Reads == [id : 0..(MaxReads - 1), tok : Tokens, buf : Buffers, what : Extents]

PreadTypeOK ==
  /\ pending \in Seq(Reads)
  /\ completed \in Seq(Reads)
  /\ comps \subseteq Reads
  /\ next_id \in 0..MaxReads
  /\ mem \in [Buffers -> Extents \cup {NoData}]

PreadInit ==
  /\ pending = <<>> /\ completed = <<>> /\ comps = {}
  /\ next_id = 0
  /\ mem = [b \in Buffers |-> NoData]

Waiting == ToSet(pending) \cup ToSet(completed) \cup comps

(* PrepReadTagged *)
PrepReadTagged(tok, buf, what) ==
  /\ next_id < MaxReads
  /\ \A q \in Waiting : q.tok # tok /\ q.buf # buf
  /\ pending' = Append(pending,
                  [id |-> next_id, tok |-> tok, buf |-> buf, what |-> what])
  /\ next_id' = next_id + 1
  /\ UNCHANGED <<completed, comps, mem>>

(* Memory after the preads of a sequence of reads. *)
AfterReads(reads) ==
  [b \in Buffers |->
     IF \E i \in DOMAIN reads : reads[i].buf = b
       THEN reads[CHOOSE i \in DOMAIN reads :
                    /\ reads[i].buf = b
                    /\ \A j \in DOMAIN reads : reads[j].buf = b => j <= i].what
       ELSE mem[b]]

Submit ==
  /\ mem' = AfterReads(pending)
  /\ completed' = completed \o pending
  /\ pending' = <<>>
  /\ UNCHANGED <<comps, next_id>>

(* Seeded fault: results that do not fit into the array are dropped. *)
PollDropsRest ==
  /\ comps = {}
  /\ LET n == IF MaxBatch <= Len(completed) THEN MaxBatch ELSE Len(completed) IN
       comps' = ToSet(SubSeq(completed, 1, n))
  /\ completed' = <<>>
  /\ UNCHANGED <<pending, next_id, mem>>

(* Poll, and WaitAndPoll, which is the same. *)
Poll ==
  /\ comps = {}
  /\ LET n == IF MaxBatch <= Len(completed) THEN MaxBatch ELSE Len(completed) IN
       /\ comps' = ToSet(SubSeq(completed, 1, n))
       /\ completed' = SubSeq(completed, n + 1, Len(completed))
  /\ UNCHANGED <<pending, next_id, mem>>

Dispatch(q) ==
  /\ q \in comps
  /\ comps' = comps \ {q}
  /\ UNCHANGED <<pending, completed, next_id, mem>>

PreadNext ==
  \/ \E tok \in Tokens, buf \in Buffers, what \in Extents :
       PrepReadTagged(tok, buf, what)
  \/ Submit
  \/ Poll
  \/ \E q \in comps : Dispatch(q)

PreadSpec == PreadInit /\ [][PreadNext]_preadVars
=============================================================================
