----------------------------- MODULE AsyncReader -----------------------------
(***************************************************************************)
(* AsyncReader (include/vdb/query/async_reader.h): what every I/O backend   *)
(* promises its client, whatever it does inside.                            *)
(*                                                                         *)
(* A read is prepared, submitted, has its data in the caller's buffer, and  *)
(* is delivered to the caller: in this order, each once.  A backend may     *)
(* submit prepared reads early (to make room) and may execute a read        *)
(* before Submit returns; it may not lose, repeat or reorder these stages.  *)
(***************************************************************************)
CONSTANTS
  Buffers,  \* the client's read buffers
  Reads,    \* the reads that can be asked for: records with buf and what
  Extents,  \* parts of the data file
  NoData    \* content of a buffer nothing was read into

VARIABLES
  prepared,   \* prepared, not submitted
  flying,     \* submitted, data not yet in the buffer
  arrived,    \* data in the buffer, not yet delivered
  delivered,  \* in the client's completion array
  content     \* what each buffer holds

asyncVars == <<prepared, flying, arrived, delivered, content>>

Known == prepared \cup flying \cup arrived \cup delivered

AsyncTypeOK ==
  /\ Known \subseteq Reads
  /\ content \in [Buffers -> Extents \cup {NoData}]

AsyncInit ==
  /\ prepared = {} /\ flying = {} /\ arrived = {} /\ delivered = {}
  /\ content = [b \in Buffers |-> NoData]

(* The buffers once the reads of A, no two of them into one buffer, have    *)
(* been executed.                                                           *)
Executed(A) ==
  [b \in Buffers |-> IF \E r \in A : r.buf = b
                       THEN (CHOOSE r \in A : r.buf = b).what
                       ELSE content[b]]

(* PrepReadTagged; F is what a backend submits to make room. *)
Prepare(r, F) ==
  /\ r \in Reads \ Known
  /\ F \subseteq prepared
  /\ prepared' = (prepared \ F) \cup {r}
  /\ flying' = flying \cup F
  /\ UNCHANGED <<arrived, delivered, content>>

(* Submit: nothing stays behind; the reads of A are executed on the spot. *)
SubmitAll(A) ==
  /\ A \subseteq prepared
  /\ prepared' = {}
  /\ flying' = flying \cup (prepared \ A)
  /\ arrived' = arrived \cup A
  /\ content' = Executed(A)
  /\ UNCHANGED delivered

Arrive(r) ==
  /\ r \in flying
  /\ flying' = flying \ {r}
  /\ arrived' = arrived \cup {r}
  /\ content' = [content EXCEPT ![r.buf] = r.what]
  /\ UNCHANGED <<prepared, delivered>>

(* Poll and WaitAndPoll. *)
Deliver(D) ==
  /\ delivered = {}
  /\ D \subseteq arrived
  /\ delivered' = D
  /\ arrived' = arrived \ D
  /\ UNCHANGED <<prepared, flying, content>>

(* The client takes note of a completion. *)
Consume(r) ==
  /\ r \in delivered
  /\ delivered' = delivered \ {r}
  /\ UNCHANGED <<prepared, flying, arrived, content>>

AsyncNext ==
  \/ \E r \in Reads : \E F \in SUBSET prepared : Prepare(r, F)
  \/ \E A \in SUBSET prepared : SubmitAll(A)
  \/ \E r \in flying : Arrive(r)
  \/ \E D \in SUBSET arrived : Deliver(D)
  \/ \E r \in delivered : Consume(r)

AsyncSpec == AsyncInit /\ [][AsyncNext]_asyncVars
=============================================================================
