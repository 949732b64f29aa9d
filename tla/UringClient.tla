----------------------------- MODULE UringClient -----------------------------
(***************************************************************************)
(* IoUringReader under a client that follows the calling convention of      *)
(* OverlapScheduler: a buffer and a token belong to one read at a time, and *)
(* a completion array is worked off before the next Poll.  Apart from that  *)
(* the client calls in any order.                                           *)
(*                                                                         *)
(* With a kernel that takes every SQE and reads what it is asked to, the    *)
(* reader implements AsyncReader.                                           *)
(***************************************************************************)
EXTENDS IoUringReader

CONSTANT MaxReads  \* bound of the model: reads prepared in one behaviour

ASSUME ClientAssumption == MaxReads \in Nat

ClientPrepare(tok, buf, what) ==
  /\ next_id < MaxReads
  /\ \A q \in Requests : q.tok # tok /\ q.buf # buf
  /\ PrepReadTagged(tok, buf, what)

ClientConsume(q) ==
  /\ q \in comps
  /\ comps' = comps \ {q}
  /\ UNCHANGED <<sq, kernel, cq, in_flight, prepped, next_id, mem>>

ClientNext ==
  \/ \E tok \in Tokens, buf \in Buffers, what \in Extents :
       ClientPrepare(tok, buf, what)
  \/ Submit
  \/ Poll
  \/ WaitAndPoll
  \/ \E q \in comps : ClientConsume(q)
  \/ \E r \in kernel : KernelComplete(r)

ClientSpec == ReaderInit /\ [][ClientNext]_readerVars
-----------------------------------------------------------------------------
ClientReads ==
  [id : 0..(MaxReads - 1), tok : Tokens, buf : Buffers, what : Extents]

(* The four stages of a read are the four places a request can be in, and   *)
(* the memory is the buffers' content.                                      *)
Promise ==
  INSTANCE AsyncReader
    WITH Reads <- ClientReads, prepared <- sq, flying <- kernel, arrived <- cq,
         delivered <- comps, content <- mem

(* The reader, driven through PrepReadTagged, Submit, Poll and WaitAndPoll, *)
(* does nothing that AsyncReader does not allow: no read is lost, delivered *)
(* twice, or delivered before its data are in the buffer.                   *)
ImplementsAsyncReader == Promise!AsyncSpec

(* A request is in one place only, and two requests never share a token or  *)
(* a buffer.                                                                *)
StagesDisjoint ==
  /\ sq \cap kernel = {} /\ sq \cap cq = {} /\ sq \cap comps = {}
  /\ kernel \cap cq = {} /\ kernel \cap comps = {} /\ cq \cap comps = {}
  /\ \A p, q \in Requests : p # q => p.tok # q.tok /\ p.buf # q.buf

(* What is handed to the client has been read: the buffer of every posted   *)
(* or delivered completion holds the extent the read asked for.             *)
DataBeforeCompletion == \A q \in cq \cup comps : mem[q.buf] = q.what

(* prepped() and InFlight() are the number of SQEs waiting in the ring and  *)
(* the number of reads the kernel has or has posted: the loops of           *)
(* FinalDrain, which trust InFlight(), neither stop early nor wait forever. *)
ClientCountersExact ==
  /\ prepped = Cardinality(sq)
  /\ in_flight = Cardinality(kernel) + Cardinality(cq)
=============================================================================
