---------------------------- MODULE ReaderClient ----------------------------
(***************************************************************************)
(* A client that holds an AsyncReader and cannot tell which one.  Behind    *)
(* the interface is the io_uring reader (UringClient) or the pread fallback *)
(* (PreadFallbackReader); the completion array, the number of reads it has  *)
(* prepared and the memory are the client's and are the same for both.      *)
(* The reader is chosen when it is constructed and never changes.           *)
(***************************************************************************)
EXTENDS UringClient, Sequences, SequencesExt

VARIABLES
  backend,   \* which implementation the pointer leads to
  pending,   \* pending_ of the fallback
  completed  \* completed_ of the fallback

Pread == INSTANCE PreadFallbackReader

ringVars == <<sq, kernel, cq, in_flight, prepped>>
fallbackVars == <<pending, completed>>
vars == <<backend, fallbackVars, readerVars>>

Init ==
  /\ backend \in {"io_uring", "pread"}
  /\ ReaderInit
  /\ Pread!PreadInit

RingStep ==
  /\ backend = "io_uring"
  /\ ClientNext
  /\ UNCHANGED <<backend, fallbackVars>>

PreadStep ==
  /\ backend = "pread"
  /\ Pread!PreadNext
  /\ UNCHANGED <<backend, ringVars>>

Next == RingStep \/ PreadStep

Spec == Init /\ [][Next]_vars

Of(kind, A) == backend = kind /\ A /\ UNCHANGED backend

(* A client that submits what it prepared, polls, and works off what it is  *)
(* given; a kernel that finishes what it took.                              *)
FairSpec ==
  /\ Spec
  /\ WF_vars(Of("io_uring", Submit /\ UNCHANGED fallbackVars))
  /\ WF_vars(Of("io_uring", Poll /\ UNCHANGED fallbackVars))
  /\ WF_vars(Of("io_uring",
               \E q \in comps : ClientConsume(q) /\ UNCHANGED fallbackVars))
  /\ WF_vars(Of("io_uring",
               \E r \in kernel : KernelComplete(r) /\ UNCHANGED fallbackVars))
  /\ WF_vars(Of("pread", Pread!Submit /\ UNCHANGED ringVars))
  /\ WF_vars(Of("pread", Pread!Poll /\ UNCHANGED ringVars))
  /\ WF_vars(Of("pread", \E q \in comps : Pread!Dispatch(q) /\ UNCHANGED ringVars))
-----------------------------------------------------------------------------
(* The stages of a read, wherever it waits. *)
Prepared == sq \cup ToSet(pending)
Arrived == cq \cup ToSet(completed)

Held ==
  INSTANCE AsyncReader
    WITH Reads <- ClientReads, prepared <- Prepared, flying <- kernel,
         arrived <- Arrived, delivered <- comps, content <- mem

(* Whichever reader is behind the interface, driven through PrepReadTagged, *)
(* Submit, Poll and WaitAndPoll it does nothing that AsyncReader does not   *)
(* allow: no read is lost, delivered twice, or delivered before its data    *)
(* are in the buffer.  The client need not know whether reads are executed  *)
(* inside Submit or later.                                                  *)
EitherImplementsAsyncReader == Held!AsyncSpec

(* What is handed to the client has been read, by either reader: the buffer *)
(* of every posted or delivered completion holds the extent asked for.      *)
EitherDataFirst == \A q \in Arrived \cup comps : mem[q.buf] = q.what

(* Every read prepared on either reader is delivered to its client, though  *)
(* the fallback reports InFlight() = 0 while its results wait.              *)
EveryReadDelivered == \A i \in 0..(MaxReads - 1) :
  (\E q \in Prepared : q.id = i) ~> (\E q \in comps : q.id = i)
=============================================================================
