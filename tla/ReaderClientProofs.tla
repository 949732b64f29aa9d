------------------------- MODULE ReaderClientProofs -------------------------
(***************************************************************************)
(* Theorems about ReaderClient: whichever reader is behind the interface,   *)
(* it implements AsyncReader.  First the io_uring reader under the client   *)
(* of UringClient, then the fallback, then either of them.                  *)
(***************************************************************************)
EXTENDS ReaderClient, TLAPS

(* The io_uring reader.                                                     *)
ReliableKernel == ~SubmitMayFallShort /\ ~ReadMayFail

(* Requests have ids that were given out, so the next one is new.           *)
ClientInv ==
  /\ Requests \subseteq ClientReads
  /\ \A q \in Requests : q.id < next_id
  /\ next_id \in 0..MaxReads
  /\ mem \in [Buffers -> Extents \cup {NoData}]
  /\ StagesDisjoint
  /\ DataBeforeCompletion

LEMMA ClientInvInit == ReaderInit => ClientInv
  BY ClientAssumption DEF ReaderInit, ClientInv, Requests, StagesDisjoint,
                          DataBeforeCompletion

LEMMA FlushTakesAll ==
  ASSUME ReliableKernel, NEW A \in SUBSET sq, Accepts(A)
  PROVE  A = sq
  BY DEF ReliableKernel, Accepts

LEMMA SqeIsClientRead ==
  ASSUME ClientInv, next_id < MaxReads,
         NEW tok \in Tokens, NEW buf \in Buffers, NEW what \in Extents
  PROVE  /\ Sqe(tok, buf, what) \in ClientReads
         /\ Sqe(tok, buf, what).id = next_id
         /\ Sqe(tok, buf, what).tok = tok
         /\ Sqe(tok, buf, what).buf = buf
  <1>1. next_id \in 0..(MaxReads - 1)
    BY ClientAssumption DEF ClientInv
  <1> QED BY <1>1 DEF Sqe, ClientReads

LEMMA ClientInvStep ==
  ASSUME ReliableKernel
  PROVE  ClientInv /\ [ClientNext]_readerVars => ClientInv'
  <1> SUFFICES ASSUME ClientInv, [ClientNext]_readerVars PROVE ClientInv'
    OBVIOUS
  <1>1. ASSUME UNCHANGED <<next_id, mem>>, Requests' \subseteq Requests,
               cq' \cup comps' \subseteq cq \cup comps,
               /\ sq' \cap kernel' = {} /\ sq' \cap cq' = {} /\ sq' \cap comps' = {}
               /\ kernel' \cap cq' = {} /\ kernel' \cap comps' = {}
               /\ cq' \cap comps' = {}
        PROVE  ClientInv'
    <2>1. StagesDisjoint'
      BY <1>1 DEF ClientInv, StagesDisjoint
    <2>2. DataBeforeCompletion'
      BY <1>1 DEF ClientInv, DataBeforeCompletion
    <2> QED BY <1>1, <2>1, <2>2 DEF ClientInv
  <1>2. ASSUME NEW tok \in Tokens, NEW buf \in Buffers, NEW what \in Extents,
               ClientPrepare(tok, buf, what)
        PROVE  ClientInv'
    <2> DEFINE new == Sqe(tok, buf, what)
    <2>1. new \in ClientReads /\ new.id = next_id /\ new.tok = tok /\ new.buf = buf
      BY <1>2, SqeIsClientRead DEF ClientPrepare
    <2>2. new \notin Requests /\ \A q \in Requests : q.tok # tok /\ q.buf # buf
      BY <1>2, <2>1 DEF ClientPrepare
    <2>3. /\ next_id' = next_id + 1 /\ UNCHANGED <<cq, comps, mem>>
          /\ \/ sq' = sq \cup {new} /\ kernel' = kernel
             \/ sq' = {new} /\ kernel' = kernel \cup sq
      BY <1>2, FlushTakesAll DEF ClientPrepare, PrepReadTagged
    <2>4. Requests' = Requests \cup {new}
      BY <2>3 DEF Requests
    <2> HIDE DEF new
    <2>5. StagesDisjoint'
      BY <2>1, <2>2, <2>3, <2>4 DEF ClientInv, StagesDisjoint, Requests
    <2>6. DataBeforeCompletion'
      BY <2>3 DEF ClientInv, DataBeforeCompletion
    <2>7. next_id' \in 0..MaxReads
      BY <1>2, <2>3, ClientAssumption DEF ClientInv, ClientPrepare
    <2>8. \A q \in Requests' : q.id < next_id'
      BY <2>1, <2>3, <2>4 DEF ClientInv, ClientReads
    <2> QED BY <2>1, <2>3, <2>4, <2>5, <2>6, <2>7, <2>8 DEF ClientInv
  <1>3. CASE Submit
    <2>1. /\ UNCHANGED <<cq, comps, mem, next_id>>
          /\ \/ UNCHANGED <<sq, kernel>>
             \/ sq' = {} /\ kernel' = kernel \cup sq
      BY <1>3, FlushTakesAll DEF Submit
    <2> QED BY <1>1, <2>1 DEF Requests, ClientInv, StagesDisjoint
  <1>4. CASE Poll \/ WaitAndPoll
    <2>1. PICK D \in SUBSET cq : comps' = D /\ cq' = cq \ D
      BY <1>4 DEF Poll, WaitAndPoll, TakeCompletions
    <2>2. comps = {} /\ UNCHANGED <<sq, kernel, next_id, mem>>
      BY <1>4 DEF Poll, WaitAndPoll, TakeCompletions
    <2> QED BY <1>1, <2>1, <2>2 DEF Requests, ClientInv, StagesDisjoint
  <1>5. ASSUME NEW q \in comps, ClientConsume(q) PROVE ClientInv'
    BY <1>1, <1>5 DEF ClientConsume, Requests, ClientInv, StagesDisjoint
  <1>6. ASSUME NEW r \in kernel, KernelComplete(r) PROVE ClientInv'
    <2>1. /\ kernel' = kernel \ {r} /\ cq' = cq \cup {r}
          /\ mem' = [mem EXCEPT ![r.buf] = r.what]
          /\ UNCHANGED <<sq, comps, next_id>>
      BY <1>6 DEF KernelComplete, ReliableKernel
    <2>2. r \in Requests /\ r.buf \in Buffers /\ r.what \in Extents
      BY DEF Requests, ClientInv, ClientReads
    <2>3. Requests' = Requests
      BY <2>1 DEF Requests
    <2>4. StagesDisjoint'
      BY <2>1, <2>3 DEF ClientInv, StagesDisjoint
    <2>5. \A q \in cq \cup comps : q # r /\ q.buf # r.buf /\ q.buf \in Buffers
      BY <2>2 DEF ClientInv, StagesDisjoint, Requests, ClientReads
    <2>6. DataBeforeCompletion'
      BY <2>1, <2>2, <2>5 DEF ClientInv, DataBeforeCompletion
    <2> QED BY <2>1, <2>2, <2>3, <2>4, <2>6 DEF ClientInv
  <1>7. CASE UNCHANGED readerVars
    BY <1>7, <1>1 DEF readerVars, Requests, ClientInv, StagesDisjoint
  <1> QED BY <1>2, <1>3, <1>4, <1>5, <1>6, <1>7 DEF ClientNext

LEMMA ClientInvariant ==
  ASSUME ReliableKernel
  PROVE  ClientSpec => []ClientInv
  <1> QED BY ClientInvInit, ClientInvStep, PTL DEF ClientSpec

(* A completion is never visible before its data. *)
THEOREM DataComesFirst ==
  ASSUME ReliableKernel
  PROVE  ClientSpec => []DataBeforeCompletion
  <1>1. ClientInv => DataBeforeCompletion
    BY DEF ClientInv
  <1> QED BY <1>1, ClientInvariant, PTL
-----------------------------------------------------------------------------
LEMMA StepRefines ==
  ASSUME ReliableKernel
  PROVE  ClientInv /\ [ClientNext]_readerVars =>
           [Promise!AsyncNext]_(Promise!asyncVars)
  <1> SUFFICES ASSUME ClientInv, ClientNext \/ UNCHANGED readerVars
               PROVE  Promise!AsyncNext \/ UNCHANGED Promise!asyncVars
    OBVIOUS
  <1> USE DEF Promise!AsyncNext, Promise!asyncVars
  <1>1. ASSUME NEW tok \in Tokens, NEW buf \in Buffers, NEW what \in Extents,
               ClientPrepare(tok, buf, what)
        PROVE  Promise!AsyncNext
    <2> DEFINE new == Sqe(tok, buf, what)
    <2>1. new \in ClientReads /\ new.id = next_id
      BY <1>1, SqeIsClientRead DEF ClientPrepare
    <2>2. new \notin Requests
      BY <2>1 DEF ClientInv, ClientReads
    <2>3. /\ UNCHANGED <<cq, comps, mem>>
          /\ \/ sq' = (sq \ {}) \cup {new} /\ kernel' = kernel \cup {}
             \/ sq' = (sq \ sq) \cup {new} /\ kernel' = kernel \cup sq
      BY <1>1, FlushTakesAll DEF ClientPrepare, PrepReadTagged
    <2> HIDE DEF new
    <2>4. new \in ClientReads \ Promise!Known
      BY <2>1, <2>2 DEF Promise!Known, Requests
    <2>5. Promise!Prepare(new, {}) \/ Promise!Prepare(new, sq)
      BY <2>3, <2>4 DEF Promise!Prepare
    <2>6. \E F \in SUBSET sq : Promise!Prepare(new, F)
      BY <2>5
    <2> QED BY <2>1, <2>6
  <1>2. CASE Submit
    <2>1. CASE prepped = 0
      BY <1>2, <2>1 DEF Submit
    <2>2. CASE prepped # 0
      <3>1. sq' = {} /\ kernel' = kernel \cup sq /\ UNCHANGED <<cq, comps, mem>>
        BY <1>2, <2>2, FlushTakesAll DEF Submit
      <3>2. Promise!Executed({}) = mem
        BY DEF Promise!Executed, ClientInv
      <3>3. Promise!SubmitAll({})
        BY <3>1, <3>2 DEF Promise!SubmitAll
      <3> QED BY <3>3
    <2> QED BY <2>1, <2>2
  <1>3. CASE Poll \/ WaitAndPoll
    <2>1. PICK D \in SUBSET cq : comps' = D /\ cq' = cq \ D
      BY <1>3 DEF Poll, WaitAndPoll, TakeCompletions
    <2>2. comps = {} /\ UNCHANGED <<sq, kernel, mem>>
      BY <1>3 DEF Poll, WaitAndPoll, TakeCompletions
    <2>3. Promise!Deliver(D)
      BY <2>1, <2>2 DEF Promise!Deliver
    <2> QED BY <2>3
  <1>4. ASSUME NEW q \in comps, ClientConsume(q) PROVE Promise!AsyncNext
    <2>1. Promise!Consume(q)
      BY <1>4 DEF ClientConsume, Promise!Consume
    <2> QED BY <2>1
  <1>5. ASSUME NEW r \in kernel, KernelComplete(r) PROVE Promise!AsyncNext
    <2>1. Promise!Arrive(r)
      BY <1>5 DEF KernelComplete, ReliableKernel, Promise!Arrive
    <2> QED BY <2>1
  <1>6. CASE UNCHANGED readerVars
    BY <1>6 DEF readerVars
  <1> QED BY <1>1, <1>2, <1>3, <1>4, <1>5, <1>6 DEF ClientNext

(* For every queue depth, batch size and number of reads, the io_uring      *)
(* backend does only what AsyncReader allows, when the kernel takes what is *)
(* submitted and reads succeed.                                             *)
THEOREM UringImplementsAsyncReader ==
  ASSUME ReliableKernel
  PROVE  ClientSpec => ImplementsAsyncReader
  <1>1. ReaderInit => Promise!AsyncInit
    BY DEF ReaderInit, Promise!AsyncInit
  <1> QED BY <1>1, StepRefines, ClientInvariant, PTL
             DEF ClientSpec, ImplementsAsyncReader, Promise!AsyncSpec
-----------------------------------------------------------------------------
(* The pread fallback.  No two positions of a queue read into one buffer.   *)
OwnBuffers(s) == \A i, j \in DOMAIN s : i # j => s[i].buf # s[j].buf

(* The reads the fallback holds have ids given out before, buffers of their *)
(* own, and, once executed, their data.                                     *)
PreadInv ==
  /\ pending \in Seq(ClientReads)
  /\ completed \in Seq(ClientReads)
  /\ comps \subseteq ClientReads
  /\ next_id \in 0..MaxReads
  /\ mem \in [Buffers -> Extents \cup {NoData}]
  /\ \A q \in ToSet(pending) \cup ToSet(completed) \cup comps : q.id < next_id
  /\ OwnBuffers(pending)
  /\ OwnBuffers(completed)
  /\ \A p \in ToSet(pending), q \in ToSet(completed) \cup comps : p.buf # q.buf
  /\ \A p \in ToSet(completed), q \in comps : p.buf # q.buf
  /\ \A q \in ToSet(completed) \cup comps : mem[q.buf] = q.what

(* The reader that was not chosen holds nothing. *)
EitherInv ==
  \/ backend = "io_uring" /\ ClientInv /\ pending = <<>> /\ completed = <<>>
  \/ backend = "pread" /\ PreadInv /\ sq = {} /\ kernel = {} /\ cq = {}
-----------------------------------------------------------------------------
LEMMA ToSetEmpty == ToSet(<<>>) = {}
  BY DEF ToSet

LEMMA ToSetElement ==
  ASSUME NEW s, NEW x
  PROVE  x \in ToSet(s) <=> \E i \in DOMAIN s : s[i] = x
  BY DEF ToSet

LEMMA ToSetAppend ==
  ASSUME NEW S, NEW s \in Seq(S), NEW e \in S
  PROVE  ToSet(Append(s, e)) = ToSet(s) \cup {e}
  <1> DEFINE t == Append(s, e)
  <1>1. \A i \in DOMAIN s : i \in DOMAIN t /\ t[i] = s[i]
    OBVIOUS
  <1>2. Len(s) + 1 \in DOMAIN t /\ t[Len(s) + 1] = e
    OBVIOUS
  <1>3. \A k \in DOMAIN t : k = Len(s) + 1 \/ k \in DOMAIN s
    <2>1. Len(s) \in Nat /\ DOMAIN s = 1..Len(s) /\ DOMAIN t = 1..(Len(s) + 1)
      OBVIOUS
    <2> QED BY <2>1
  <1> HIDE DEF t
  <1>4. \A x : x \in ToSet(t) <=> x \in ToSet(s) \cup {e}
    BY <1>1, <1>2, <1>3, ToSetElement
  <1> QED BY <1>4 DEF t

LEMMA ToSetConcat ==
  ASSUME NEW S, NEW s \in Seq(S), NEW t \in Seq(S)
  PROVE  ToSet(s \o t) = ToSet(s) \cup ToSet(t)
  <1> DEFINE c == s \o t
  <1>1. \A i \in DOMAIN s : i \in DOMAIN c /\ c[i] = s[i]
    OBVIOUS
  <1>2. \A j \in DOMAIN t : Len(s) + j \in DOMAIN c /\ c[Len(s) + j] = t[j]
    OBVIOUS
  <1>3. \A k \in DOMAIN c :
          \/ k \in DOMAIN s /\ c[k] = s[k]
          \/ k - Len(s) \in DOMAIN t /\ c[k] = t[k - Len(s)]
    OBVIOUS
  <1> HIDE DEF c
  <1>4. \A x : x \in ToSet(c) <=> x \in ToSet(s) \cup ToSet(t)
    BY <1>1, <1>2, <1>3, ToSetElement
  <1> QED BY <1>4 DEF c

(* The front and the rest of a queue. *)
LEMMA Split ==
  ASSUME NEW S, NEW s \in Seq(S), NEW n \in 0..Len(s), OwnBuffers(s)
  PROVE  /\ SubSeq(s, n + 1, Len(s)) \in Seq(S)
         /\ OwnBuffers(SubSeq(s, n + 1, Len(s)))
         /\ ToSet(s) = ToSet(SubSeq(s, 1, n)) \cup ToSet(SubSeq(s, n + 1, Len(s)))
         /\ \A p \in ToSet(SubSeq(s, 1, n)), q \in ToSet(SubSeq(s, n + 1, Len(s))) :
              p.buf # q.buf
  <1> DEFINE front == SubSeq(s, 1, n)
             rest == SubSeq(s, n + 1, Len(s))
  <1>1. rest \in Seq(S) /\ front \in Seq(S) /\ Len(front) = n /\ Len(rest) = Len(s) - n
    OBVIOUS
  <1>2. \A i \in DOMAIN front : i \in DOMAIN s /\ i <= n /\ front[i] = s[i]
    OBVIOUS
  <1>3. \A j \in DOMAIN rest : n + j \in DOMAIN s /\ j > 0 /\ rest[j] = s[n + j]
    OBVIOUS
  <1>4. \A k \in DOMAIN s :
          \/ k \in DOMAIN front /\ front[k] = s[k]
          \/ k - n \in DOMAIN rest /\ rest[k - n] = s[k]
    OBVIOUS
  <1> HIDE DEF front, rest
  <1>5. OwnBuffers(rest)
    BY <1>1, <1>3 DEF OwnBuffers
  <1>6. \A x : x \in ToSet(s) <=> x \in ToSet(front) \cup ToSet(rest)
    BY <1>2, <1>3, <1>4, ToSetElement
  <1>7. ASSUME NEW p \in ToSet(front), NEW q \in ToSet(rest) PROVE p.buf # q.buf
    <2>1. PICK i \in DOMAIN front : front[i] = p
      BY DEF ToSet
    <2>2. PICK j \in DOMAIN rest : rest[j] = q
      BY DEF ToSet
    <2>3. i # n + j
      BY <1>1, <1>2, <1>3
    <2> QED BY <1>2, <1>3, <2>1, <2>2, <2>3 DEF OwnBuffers
  <1> QED BY <1>1, <1>5, <1>6, <1>7 DEF front, rest

LEMMA Joined ==
  ASSUME NEW S, NEW s \in Seq(S), NEW t \in Seq(S), OwnBuffers(s), OwnBuffers(t),
         \A p \in ToSet(s), q \in ToSet(t) : p.buf # q.buf
  PROVE  OwnBuffers(s \o t)
  <1> SUFFICES ASSUME NEW i \in DOMAIN (s \o t), NEW j \in DOMAIN (s \o t), i # j
               PROVE  (s \o t)[i].buf # (s \o t)[j].buf
    BY DEF OwnBuffers
  <1>1. \A k \in DOMAIN (s \o t) :
          \/ k \in DOMAIN s /\ (s \o t)[k] = s[k] /\ s[k] \in ToSet(s)
          \/ /\ k - Len(s) \in DOMAIN t /\ (s \o t)[k] = t[k - Len(s)]
             /\ t[k - Len(s)] \in ToSet(t)
    BY DEF ToSet
  <1>2. i \in Int /\ j \in Int /\ Len(s) \in Int
    OBVIOUS
  <1>3. i - Len(s) # j - Len(s)
    BY <1>2
  <1> QED BY <1>1, <1>3 DEF OwnBuffers

LEMMA Appended ==
  ASSUME NEW S, NEW s \in Seq(S), NEW e \in S, OwnBuffers(s),
         \A q \in ToSet(s) : q.buf # e.buf
  PROVE  OwnBuffers(Append(s, e))
  <1>1. \A k \in DOMAIN Append(s, e) :
          \/ k \in DOMAIN s /\ Append(s, e)[k] = s[k] /\ s[k] \in ToSet(s)
          \/ k = Len(s) + 1 /\ Append(s, e)[k] = e
    BY DEF ToSet
  <1> QED BY <1>1 DEF OwnBuffers
-----------------------------------------------------------------------------
LEMMA SameToSet == ASSUME NEW s PROVE Pread!ToSet(s) = ToSet(s)
  BY DEF ToSet, Pread!ToSet

LEMMA PreadInvInit == Pread!PreadInit => PreadInv
  <1> SUFFICES ASSUME Pread!PreadInit PROVE PreadInv
    OBVIOUS
  <1>1. /\ pending = <<>> /\ completed = <<>> /\ comps = {} /\ next_id = 0
        /\ mem = [b \in Buffers |-> NoData]
    BY DEF Pread!PreadInit
  <1>2. OwnBuffers(<<>>)
    BY DEF OwnBuffers
  <1> QED BY <1>1, <1>2, ToSetEmpty, ClientAssumption DEF PreadInv

(* The pending reads executed one after the other leave in each buffer what *)
(* its one read asked for.                                                  *)
LEMMA ReadsDone ==
  ASSUME PreadInv, NEW b \in Buffers
  PROVE  /\ \A q \in ToSet(pending) :
              q.buf = b => /\ Pread!AfterReads(pending)[b] = q.what
                           /\ Held!Executed(ToSet(pending))[b] = q.what
         /\ (\A q \in ToSet(pending) : q.buf # b) =>
              /\ Pread!AfterReads(pending)[b] = mem[b]
              /\ Held!Executed(ToSet(pending))[b] = mem[b]
  <1>1. ASSUME NEW q \in ToSet(pending), q.buf = b
        PROVE  /\ Pread!AfterReads(pending)[b] = q.what
               /\ Held!Executed(ToSet(pending))[b] = q.what
    <2>1. PICK i \in DOMAIN pending : pending[i] = q
      BY ToSetElement
    <2>2. \A j \in DOMAIN pending : pending[j].buf = b => j = i
      BY <1>1, <2>1 DEF PreadInv, OwnBuffers
    <2> DEFINE Latest(j) == /\ pending[j].buf = b
                            /\ \A k \in DOMAIN pending : pending[k].buf = b => k <= j
    <2>3. Latest(i)
      <3>1. i \in Nat
        BY DEF PreadInv
      <3> QED BY <1>1, <2>1, <2>2, <3>1
    <2>4. (CHOOSE j \in DOMAIN pending : Latest(j)) = i
      BY <2>2, <2>3
    <2>5. Pread!AfterReads(pending)[b] = q.what
      BY <1>1, <2>1, <2>4 DEF Pread!AfterReads
    <2>6. \A r \in ToSet(pending) : r.buf = b => r = q
      BY <2>1, <2>2, ToSetElement
    <2>7. (CHOOSE r \in ToSet(pending) : r.buf = b) = q
      BY <1>1, <2>6
    <2>8. Held!Executed(ToSet(pending))[b] = q.what
      BY <1>1, <2>7 DEF Held!Executed
    <2> QED BY <2>5, <2>8
  <1>2. ASSUME \A q \in ToSet(pending) : q.buf # b
        PROVE  /\ Pread!AfterReads(pending)[b] = mem[b]
               /\ Held!Executed(ToSet(pending))[b] = mem[b]
    <2>1. ~ \E i \in DOMAIN pending : pending[i].buf = b
      BY <1>2, ToSetElement
    <2> QED BY <1>2, <2>1 DEF Pread!AfterReads, Held!Executed
  <1> QED BY <1>1, <1>2

LEMMA SubmitExecutesAll ==
  ASSUME PreadInv
  PROVE  Pread!AfterReads(pending) = Held!Executed(ToSet(pending))
  <1>1. \A b \in Buffers : Pread!AfterReads(pending)[b] = Held!Executed(ToSet(pending))[b]
    BY ReadsDone
  <1>2. DOMAIN Pread!AfterReads(pending) = Buffers
    BY DEF Pread!AfterReads
  <1> HIDE DEF Pread!AfterReads
  <1> QED BY <1>1 DEF Held!Executed, Pread!AfterReads
-----------------------------------------------------------------------------
LEMMA HeldAreReads ==
  ASSUME PreadInv
  PROVE  ToSet(pending) \cup ToSet(completed) \cup comps \subseteq ClientReads
  <1>1. ASSUME NEW S, NEW s \in Seq(S) PROVE ToSet(s) \subseteq S
    <2>1. \A i \in DOMAIN s : s[i] \in S
      OBVIOUS
    <2> QED BY <2>1 DEF ToSet
  <1>2. /\ pending \in Seq(ClientReads) /\ completed \in Seq(ClientReads)
        /\ comps \subseteq ClientReads
    BY DEF PreadInv
  <1> QED BY <1>1, <1>2

(* What a Poll of the fallback takes is a front of completed_.              *)
LEMMA PollTakesFront ==
  ASSUME PreadInv, Pread!Poll
  PROVE  /\ ToSet(completed) = comps' \cup ToSet(completed')
         /\ completed' \in Seq(ClientReads) /\ OwnBuffers(completed')
         /\ \A p \in ToSet(completed'), q \in comps' : p.buf # q.buf
         /\ comps = {} /\ UNCHANGED <<pending, next_id, mem>>
  <1>1. PICK n \in 0..Len(completed) :
           /\ comps' = ToSet(SubSeq(completed, 1, n))
           /\ completed' = SubSeq(completed, n + 1, Len(completed))
    <2> DEFINE n == IF MaxBatch <= Len(completed) THEN MaxBatch ELSE Len(completed)
    <2>1. Len(completed) \in Nat /\ MaxBatch \in Nat
      BY ReaderAssumption DEF PreadInv
    <2>2. n \in 0..Len(completed)
      BY <2>1
    <2>3. /\ comps' = Pread!ToSet(SubSeq(completed, 1, n))
          /\ completed' = SubSeq(completed, n + 1, Len(completed))
      BY DEF Pread!Poll
    <2> HIDE DEF n
    <2>4. comps' = ToSet(SubSeq(completed, 1, n))
      BY <2>3, SameToSet
    <2> QED BY <2>2, <2>3, <2>4
  <1>2. completed \in Seq(ClientReads) /\ OwnBuffers(completed)
    BY DEF PreadInv
  <1> DEFINE front == SubSeq(completed, 1, n)
             rest == SubSeq(completed, n + 1, Len(completed))
  <1>3. /\ rest \in Seq(ClientReads) /\ OwnBuffers(rest)
        /\ ToSet(completed) = ToSet(front) \cup ToSet(rest)
        /\ \A p \in ToSet(front), q \in ToSet(rest) : p.buf # q.buf
    BY <1>2, Split
  <1>4. comps = {} /\ UNCHANGED <<pending, next_id, mem>>
    BY DEF Pread!Poll
  <1>5. comps' = ToSet(front) /\ completed' = rest
    BY <1>1
  <1> HIDE DEF front, rest
  <1> QED BY <1>3, <1>4, <1>5

LEMMA PrepareAppends ==
  ASSUME PreadInv, NEW tok \in Tokens, NEW buf \in Buffers, NEW what \in Extents,
         Pread!PrepReadTagged(tok, buf, what)
  PROVE  \E new \in ClientReads :
           /\ new.id = next_id /\ new.buf = buf
           /\ pending' = Append(pending, new)
           /\ ToSet(pending') = ToSet(pending) \cup {new}
           /\ \A q \in ToSet(pending) \cup ToSet(completed) \cup comps : q.buf # buf
           /\ next_id < MaxReads /\ next_id' = next_id + 1
           /\ UNCHANGED <<completed, comps, mem>>
  <1> DEFINE new == [id |-> next_id, tok |-> tok, buf |-> buf, what |-> what]
  <1>1. next_id < MaxReads /\ next_id \in 0..(MaxReads - 1)
    BY ClientAssumption DEF PreadInv, Pread!PrepReadTagged
  <1>2. new \in ClientReads /\ new.id = next_id /\ new.buf = buf
    BY <1>1 DEF ClientReads
  <1>3. /\ pending' = Append(pending, new) /\ next_id' = next_id + 1
        /\ UNCHANGED <<completed, comps, mem>>
        /\ \A q \in ToSet(pending) \cup ToSet(completed) \cup comps : q.buf # buf
    BY SameToSet DEF Pread!PrepReadTagged, Pread!Waiting
  <1> HIDE DEF new
  <1>4. ToSet(pending') = ToSet(pending) \cup {new}
    BY <1>2, <1>3, ToSetAppend DEF PreadInv
  <1> QED BY <1>1, <1>2, <1>3, <1>4

LEMMA PreadInvStep ==
  /\ PreadInv
  /\ Pread!PreadNext \/ UNCHANGED <<pending, completed, comps, next_id, mem>>
  => PreadInv'
  <1> SUFFICES ASSUME PreadInv,
                      \/ Pread!PreadNext
                      \/ UNCHANGED <<pending, completed, comps, next_id, mem>>
               PROVE  PreadInv'
    OBVIOUS
  <1>1. ASSUME NEW tok \in Tokens, NEW buf \in Buffers, NEW what \in Extents,
               Pread!PrepReadTagged(tok, buf, what)
        PROVE  PreadInv'
    <2>1. PICK new \in ClientReads :
           /\ new.id = next_id /\ new.buf = buf
           /\ pending' = Append(pending, new)
           /\ ToSet(pending') = ToSet(pending) \cup {new}
           /\ \A q \in ToSet(pending) \cup ToSet(completed) \cup comps : q.buf # buf
           /\ next_id < MaxReads /\ next_id' = next_id + 1
           /\ UNCHANGED <<completed, comps, mem>>
      BY <1>1, PrepareAppends
    <2>2. pending' \in Seq(ClientReads)
      BY <2>1 DEF PreadInv
    <2>3. OwnBuffers(pending')
      BY <2>1, Appended DEF PreadInv
    <2>4. next_id' \in 0..MaxReads
      BY <2>1, ClientAssumption DEF PreadInv
    <2>5. \A q \in ToSet(pending') \cup ToSet(completed') \cup comps' :
            q.id < next_id'
      <3>1. next_id < next_id + 1
        BY DEF PreadInv
      <3>2. ASSUME NEW q \in ToSet(pending) \cup ToSet(completed) \cup comps
            PROVE  q.id < next_id + 1
        <4>1. q \in ClientReads
          BY HeldAreReads
        <4>2. q.id \in Int /\ next_id \in Int
          BY <4>1, ClientAssumption DEF ClientReads, PreadInv
        <4> QED BY <4>2 DEF PreadInv
      <3> QED BY <2>1, <3>1, <3>2
    <2>6. \A p \in ToSet(pending'), q \in ToSet(completed') \cup comps' :
            p.buf # q.buf
      BY <2>1 DEF PreadInv
    <2> QED BY <2>1, <2>2, <2>3, <2>4, <2>5, <2>6 DEF PreadInv
  <1>2. CASE Pread!Submit
    <2>1. /\ mem' = Pread!AfterReads(pending) /\ completed' = completed \o pending
          /\ pending' = <<>> /\ UNCHANGED <<comps, next_id>>
      BY <1>2 DEF Pread!Submit
    <2>2. ToSet(completed') = ToSet(completed) \cup ToSet(pending)
      BY <2>1, ToSetConcat DEF PreadInv
    <2>3. OwnBuffers(completed')
      BY <2>1, Joined DEF PreadInv
    <2>4. pending' \in Seq(ClientReads) /\ completed' \in Seq(ClientReads)
      BY <2>1 DEF PreadInv
    <2>5. ToSet(pending') = {} /\ OwnBuffers(pending')
      BY <2>1, ToSetEmpty DEF OwnBuffers
    <2>6. \A q \in ToSet(pending) \cup ToSet(completed) \cup comps :
            q.buf \in Buffers /\ q.what \in Extents
      BY HeldAreReads DEF ClientReads
    <2>7. \A q \in ToSet(completed') \cup comps' : mem'[q.buf] = q.what
      <3>1. ASSUME NEW q \in ToSet(pending) PROVE mem'[q.buf] = q.what
        BY <2>1, <2>6, ReadsDone
      <3>2. ASSUME NEW q \in ToSet(completed) \cup comps PROVE mem'[q.buf] = q.what
        <4>1. \A p \in ToSet(pending) : p.buf # q.buf
          BY DEF PreadInv
        <4>2. mem'[q.buf] = mem[q.buf]
          BY <2>1, <2>6, <4>1, ReadsDone
        <4> QED BY <4>2 DEF PreadInv
      <3> QED BY <2>1, <2>2, <3>1, <3>2
    <2>8. mem' \in [Buffers -> Extents \cup {NoData}]
      <3>1. ASSUME NEW b \in Buffers PROVE mem'[b] \in Extents \cup {NoData}
        <4>1. CASE \E q \in ToSet(pending) : q.buf = b
          BY <2>1, <2>6, <4>1, ReadsDone
        <4>2. CASE \A q \in ToSet(pending) : q.buf # b
          BY <2>1, <4>2, ReadsDone DEF PreadInv
        <4> QED BY <4>1, <4>2
      <3>2. mem' = [b \in Buffers |-> mem'[b]]
        BY <2>1 DEF Pread!AfterReads
      <3> QED BY <3>1, <3>2
    <2> QED BY <2>1, <2>2, <2>3, <2>4, <2>5, <2>7, <2>8 DEF PreadInv
  <1>3. CASE Pread!Poll
    <2>1. /\ ToSet(completed) = comps' \cup ToSet(completed')
          /\ completed' \in Seq(ClientReads) /\ OwnBuffers(completed')
          /\ \A p \in ToSet(completed'), q \in comps' : p.buf # q.buf
          /\ comps = {} /\ UNCHANGED <<pending, next_id, mem>>
      BY <1>3, PollTakesFront
    <2>2. comps' \subseteq ClientReads
      BY <2>1, HeldAreReads
    <2>3. ToSet(completed') \cup comps' = ToSet(completed) \cup comps
      BY <2>1
    <2>4. OwnBuffers(pending')
      BY <2>1 DEF PreadInv, OwnBuffers
    <2> QED BY <2>1, <2>2, <2>3, <2>4 DEF PreadInv
  <1>4. ASSUME NEW q \in comps, Pread!Dispatch(q) PROVE PreadInv'
    BY <1>4 DEF Pread!Dispatch, PreadInv
  <1>5. CASE UNCHANGED <<pending, completed, comps, next_id, mem>>
    BY <1>5 DEF PreadInv, OwnBuffers
  <1> QED BY <1>1, <1>2, <1>3, <1>4, <1>5 DEF Pread!PreadNext
-----------------------------------------------------------------------------
LEMMA EitherInvInit == Init => EitherInv
  BY ClientInvInit, PreadInvInit
  DEF Init, EitherInv, ReaderInit, Pread!PreadInit

LEMMA EitherInvStep ==
  ASSUME ReliableKernel
  PROVE  EitherInv /\ [Next]_vars => EitherInv'
  <1> SUFFICES ASSUME EitherInv, Next \/ UNCHANGED vars PROVE EitherInv'
    OBVIOUS
  <1>1. CASE RingStep
    <2>1. /\ backend = "io_uring" /\ ClientInv /\ pending = <<>> /\ completed = <<>>
          /\ ClientNext /\ UNCHANGED <<backend, pending, completed>>
      BY <1>1 DEF RingStep, EitherInv, fallbackVars
    <2>2. ClientInv'
      BY <2>1, ClientInvStep
    <2> QED BY <2>1, <2>2 DEF EitherInv
  <1>2. CASE PreadStep
    <2>1. /\ backend = "pread" /\ PreadInv /\ sq = {} /\ kernel = {} /\ cq = {}
          /\ Pread!PreadNext /\ UNCHANGED <<backend, sq, kernel, cq>>
      BY <1>2 DEF PreadStep, EitherInv, ringVars
    <2>2. PreadInv'
      BY <2>1, PreadInvStep
    <2> QED BY <2>1, <2>2 DEF EitherInv
  <1>3. CASE UNCHANGED vars
    <2>1. /\ UNCHANGED readerVars /\ UNCHANGED <<backend, pending, completed>>
          /\ UNCHANGED <<pending, completed, comps, next_id, mem>>
          /\ UNCHANGED <<sq, kernel, cq>>
      BY <1>3 DEF vars, fallbackVars, readerVars
    <2>2. ClientInv => ClientInv'
      BY <2>1, ClientInvStep
    <2>3. PreadInv => PreadInv'
      BY <2>1, PreadInvStep
    <2> QED BY <2>1, <2>2, <2>3 DEF EitherInv
  <1> QED BY <1>1, <1>2, <1>3 DEF Next

LEMMA EitherInvariant ==
  ASSUME ReliableKernel
  PROVE  Spec => []EitherInv
  BY EitherInvInit, EitherInvStep, PTL DEF Spec

(* Behind either reader a completion is never visible before its data.  The *)
(* fallback needs nothing of the kernel; the ring needs one that takes what *)
(* is submitted and reads what it takes.                                    *)
THEOREM EitherDataComesFirst ==
  ASSUME ReliableKernel
  PROVE  Spec => []EitherDataFirst
  <1>1. EitherInv => EitherDataFirst
    BY ToSetEmpty DEF EitherInv, EitherDataFirst, ClientInv, DataBeforeCompletion,
                      PreadInv, Arrived
  <1> QED BY <1>1, EitherInvariant, PTL
-----------------------------------------------------------------------------
LEMMA RingRefines ==
  ASSUME ReliableKernel, EitherInv, RingStep
  PROVE  Held!AsyncNext \/ UNCHANGED Held!asyncVars
  <1>1. /\ ClientInv /\ ClientNext /\ pending = <<>> /\ completed = <<>>
        /\ UNCHANGED <<pending, completed>>
    BY DEF RingStep, EitherInv, fallbackVars
  <1>2. /\ Prepared = sq /\ Prepared' = sq'
        /\ Arrived = cq /\ Arrived' = cq'
    BY <1>1, ToSetEmpty DEF Prepared, Arrived
  <1>3. Promise!AsyncNext \/ UNCHANGED Promise!asyncVars
    BY <1>1, StepRefines
  <1> HIDE DEF Prepared, Arrived
  <1>4. ASSUME UNCHANGED Promise!asyncVars PROVE UNCHANGED Held!asyncVars
    BY <1>2, <1>4 DEF Promise!asyncVars, Held!asyncVars
  <1>5. ASSUME NEW r, NEW F, Promise!Prepare(r, F) PROVE Held!Prepare(r, F)
    BY <1>2, <1>5 DEF Promise!Prepare, Held!Prepare, Promise!Known, Held!Known
  <1>6. ASSUME NEW A, Promise!SubmitAll(A) PROVE Held!SubmitAll(A)
    BY <1>2, <1>6 DEF Promise!SubmitAll, Held!SubmitAll, Promise!Executed, Held!Executed
  <1>7. ASSUME NEW r, Promise!Arrive(r) PROVE Held!Arrive(r)
    BY <1>2, <1>7 DEF Promise!Arrive, Held!Arrive
  <1>8. ASSUME NEW D, Promise!Deliver(D) PROVE Held!Deliver(D)
    BY <1>2, <1>8 DEF Promise!Deliver, Held!Deliver
  <1>9. ASSUME NEW r, Promise!Consume(r) PROVE Held!Consume(r)
    BY <1>2, <1>9 DEF Promise!Consume, Held!Consume
  <1> QED BY <1>2, <1>3, <1>4, <1>5, <1>6, <1>7, <1>8, <1>9
          DEF Promise!AsyncNext, Held!AsyncNext

LEMMA PreadRefines ==
  ASSUME EitherInv, PreadStep
  PROVE  Held!AsyncNext
  <1>1. /\ PreadInv /\ sq = {} /\ kernel = {} /\ cq = {}
        /\ Pread!PreadNext /\ UNCHANGED <<sq, kernel, cq>>
    BY DEF PreadStep, EitherInv, ringVars
  <1>2. /\ Prepared = ToSet(pending) /\ Prepared' = ToSet(pending')
        /\ Arrived = ToSet(completed) /\ Arrived' = ToSet(completed')
    BY <1>1 DEF Prepared, Arrived
  <1> HIDE DEF Prepared, Arrived
  <1>3. ASSUME NEW tok \in Tokens, NEW buf \in Buffers, NEW what \in Extents,
               Pread!PrepReadTagged(tok, buf, what)
        PROVE  Held!AsyncNext
    <2>1. PICK new \in ClientReads :
           /\ new.id = next_id
           /\ ToSet(pending') = ToSet(pending) \cup {new}
           /\ UNCHANGED <<completed, comps, mem>>
      BY <1>1, <1>3, PrepareAppends
    <2>2. new \notin ToSet(pending) \cup ToSet(completed) \cup comps
      BY <1>1, <2>1 DEF PreadInv
    <2>3. Held!Prepare(new, {})
      BY <1>1, <1>2, <2>1, <2>2 DEF Held!Prepare, Held!Known
    <2> QED BY <2>1, <2>3 DEF Held!AsyncNext
  <1>4. ASSUME Pread!Submit PROVE Held!AsyncNext
    <2>1. /\ mem' = Held!Executed(ToSet(pending)) /\ completed' = completed \o pending
          /\ pending' = <<>> /\ UNCHANGED comps
      BY <1>1, <1>4, SubmitExecutesAll DEF Pread!Submit
    <2>2. ToSet(completed') = ToSet(completed) \cup ToSet(pending)
      BY <1>1, <2>1, ToSetConcat DEF PreadInv
    <2>3. ToSet(pending') = {}
      BY <2>1, ToSetEmpty
    <2>4. Held!SubmitAll(ToSet(pending))
      BY <1>1, <1>2, <2>1, <2>2, <2>3 DEF Held!SubmitAll
    <2> QED BY <1>2, <2>4 DEF Held!AsyncNext
  <1>5. ASSUME Pread!Poll PROVE Held!AsyncNext
    <2>1. /\ ToSet(completed) = comps' \cup ToSet(completed')
          /\ \A p \in ToSet(completed'), q \in comps' : p.buf # q.buf
          /\ comps = {} /\ UNCHANGED <<pending, mem>>
      BY <1>1, <1>5, PollTakesFront
    <2>2. ToSet(completed') = ToSet(completed) \ comps'
      BY <2>1
    <2>3. Held!Deliver(comps')
      BY <1>1, <1>2, <2>1, <2>2 DEF Held!Deliver
    <2> QED BY <1>2, <2>1, <2>3 DEF Held!AsyncNext
  <1>6. ASSUME NEW q \in comps, Pread!Dispatch(q) PROVE Held!AsyncNext
    <2>1. Held!Consume(q)
      BY <1>1, <1>2, <1>6 DEF Pread!Dispatch, Held!Consume
    <2> QED BY <2>1 DEF Held!AsyncNext
  <1> QED BY <1>1, <1>3, <1>4, <1>5, <1>6 DEF Pread!PreadNext

(* Whichever reader is constructed, every step of it and of its client is   *)
(* one AsyncReader allows, or is invisible: for every queue depth, array    *)
(* size and number of reads.                                                *)
THEOREM EitherReaderImplementsAsyncReader ==
  ASSUME ReliableKernel
  PROVE  Spec => EitherImplementsAsyncReader
  <1>1. Init => Held!AsyncInit
    BY ToSetEmpty DEF Init, ReaderInit, Pread!PreadInit, Held!AsyncInit,
                      Prepared, Arrived
  <1>2. EitherInv /\ [Next]_vars => [Held!AsyncNext]_(Held!asyncVars)
    <2> SUFFICES ASSUME EitherInv, Next \/ UNCHANGED vars
                 PROVE  Held!AsyncNext \/ UNCHANGED Held!asyncVars
      OBVIOUS
    <2>1. UNCHANGED vars => UNCHANGED Held!asyncVars
      BY DEF vars, fallbackVars, readerVars, Held!asyncVars, Prepared, Arrived
    <2> QED BY <2>1, RingRefines, PreadRefines DEF Next
  <1> QED BY <1>1, <1>2, EitherInvariant, PTL
             DEF Spec, EitherImplementsAsyncReader, Held!AsyncSpec
=============================================================================
