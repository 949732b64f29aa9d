------------------------------ MODULE BasicLemmas ------------------------------
(***************************************************************************)
(* Facts the proofs of several components use: recursive functions,         *)
(* sequences and their flattening, sums, powers, bits, inner products and   *)
(* isometries, enumerations.                                                *)
(***************************************************************************)
EXTENDS Arithmetic, FiniteSets, Functions, SequenceTheorems, FiniteSetTheorems,
        WellFoundedInduction, TLAPS

LEMMA SubsetInduction ==
  ASSUME NEW S, 0 \in S, \A n \in Nat : n \in S => n + 1 \in S
  PROVE  \A n \in Nat : n \in S
<1> DEFINE R == {p \in Nat \X Nat : p[1] < p[2]}
           T == Nat \ S
<1>1. IsWellFoundedOn(R, Nat)
  <2>1. R = OpToRel(<, Nat)
    BY DEF OpToRel
  <2> QED BY <2>1, NatLessThanWellFounded
<1>2. SUFFICES ASSUME T # {} PROVE FALSE
  OBVIOUS
<1>3. PICK x \in T : \A y \in T : ~(<<y, x>> \in R)
  <2>1. T \subseteq Nat
    OBVIOUS
  <2> HIDE DEF R, T
  <2> QED BY <1>1, <1>2, <2>1, WFMin
<1>4. x # 0 /\ x \in Nat /\ x - 1 \in Nat
  BY <1>3
<1>5. <<x - 1, x>> \in R
  BY <1>4
<1>6. x - 1 \in S
  <2> HIDE DEF R
  <2> QED BY <1>3, <1>4, <1>5
<1>7. (x - 1) + 1 \in S
  BY <1>4, <1>6
<1> QED BY <1>4, <1>7

(* A definition by recursion on 0..n, each value from the one before it, is *)
(* one of a function.                                                       *)
Recursive(f, V, c, n, D) ==
  /\ f \in [0..n -> V]
  /\ f[0] = c
  /\ \A i \in 1..n : f[i] = D[<<f[i - 1], i>>]

LEMMA RecursionExists ==
  ASSUME NEW V, NEW c \in V, NEW n \in Nat, NEW D \in [V \X (1..n) -> V]
  PROVE  \E f : Recursive(f, V, c, n, D)
<1> DEFINE Good(f, k) == /\ f \in [0..k -> V]
                         /\ f[0] = c
                         /\ \A i \in 1..k : f[i] = D[<<f[i - 1], i>>]
           S == {k \in Nat : k <= n => \E f : Good(f, k)}
<1>1. 0 \in S
  <2>1. Good([i \in 0..0 |-> c], 0)
    OBVIOUS
  <2> QED BY <2>1
<1>2. ASSUME NEW k \in Nat, k \in S PROVE k + 1 \in S
  <2> SUFFICES ASSUME k + 1 <= n PROVE \E f : Good(f, k + 1)
    OBVIOUS
  <2>1. PICK f : Good(f, k)
    BY <1>2
  <2> DEFINE v == D[<<f[k], k + 1>>]
             g == [i \in 0..(k + 1) |-> IF i = k + 1 THEN v ELSE f[i]]
  <2>2. f[k] \in V /\ k + 1 \in 1..n
    BY <2>1
  <2>3. v \in V
    BY <2>2
  <2>4. g \in [0..(k + 1) -> V] /\ g[0] = c
    BY <2>1, <2>3
  <2>5. ASSUME NEW i \in 1..(k + 1) PROVE g[i] = D[<<g[i - 1], i>>]
    <3>1. CASE i = k + 1
      <4>1. k \in 0..(k + 1) /\ k # k + 1 /\ k + 1 \in 0..(k + 1) /\ i - 1 = k
        BY <3>1
      <4>2. g[k] = f[k] /\ g[k + 1] = v
        BY <4>1
      <4> QED BY <3>1, <4>1, <4>2
    <3>2. CASE i # k + 1
      <4>1. i \in 1..k /\ i - 1 \in 0..k /\ i \in 0..(k + 1) /\ i - 1 \in 0..(k + 1)
            /\ i - 1 # k + 1
        BY <3>2
      <4>2. g[i] = f[i] /\ g[i - 1] = f[i - 1]
        BY <3>2, <4>1
      <4> QED BY <2>1, <4>1, <4>2
    <3> QED BY <3>1, <3>2
  <2>6. Good(g, k + 1)
    <3> HIDE DEF g
    <3> QED BY <2>4, <2>5
  <2> QED BY <2>6
<1> HIDE DEF S
<1>3. n \in S
  BY <1>1, <1>2, SubsetInduction
<1> QED BY <1>3 DEF S, Recursive
-----------------------------------------------------------------------------
(* FlattenSeq. *)
Flattening(s) ==
  CHOOSE f : f = [i \in 1..Len(s) |-> IF i = 1 THEN s[i] ELSE f[i - 1] \o s[i]]

LEMMA FlattenNone == FlattenSeq(<< >>) = << >>
  BY DEF FlattenSeq

LEMMA FlatteningUnfolds ==
  ASSUME NEW S, NEW s \in Seq(Seq(S)), s # << >>
  PROVE  /\ FlattenSeq(s) = Flattening(s)[Len(s)]
         /\ \A i \in 1..Len(s) : Flattening(s)[i] \in Seq(S)
         /\ Flattening(s)[1] = s[1]
         /\ \A i \in 2..Len(s) : Flattening(s)[i] = Flattening(s)[i - 1] \o s[i]
<1> DEFINE n == Len(s)
           Eq(f) == f = [i \in 1..n |-> IF i = 1 THEN s[i] ELSE f[i - 1] \o s[i]]
<1>1. n \in Nat \ {0} /\ \A i \in 1..n : s[i] \in Seq(S)
  BY LenProperties, EmptySeq, ElementOfSeq
<1>2. FlattenSeq(s) = Flattening(s)[n]
  <2>1. Len(s) # 0
    BY <1>1
  <2> QED BY <2>1, Zenon DEF FlattenSeq, Flattening
<1>3. \E f : Eq(f)
  <2> DEFINE D == [p \in Seq(S) \X (1..n) |-> p[1] \o s[p[2]]]
  <2>1. D \in [Seq(S) \X (1..n) -> Seq(S)]
    <3>1. \A p \in Seq(S) \X (1..n) : p[1] \o s[p[2]] \in Seq(S)
      BY <1>1, ConcatProperties
    <3> QED BY <3>1
  <2>2. << >> \in Seq(S)
    BY EmptySeq
  <2>3. PICK f : Recursive(f, Seq(S), << >>, n, D)
    <3> HIDE DEF D, n
    <3> QED BY <1>1, <2>1, <2>2, RecursionExists
  <2> DEFINE g == [i \in 1..n |-> f[i]]
  <2>4. ASSUME NEW i \in 1..n PROVE f[i] = f[i - 1] \o s[i]
    <3>1. i - 1 \in 0..n
      BY <1>1
    <3>2. f[i - 1] \in Seq(S)
      <4> HIDE DEF n, D
      <4> QED BY <2>3, <3>1 DEF Recursive
    <3> QED BY <2>3, <3>2 DEF Recursive
  <2>5. f[1] = s[1]
    <3>1. 1 \in 1..n /\ 1 - 1 = 0
      BY <1>1
    <3>2. f[1] = << >> \o s[1]
      BY <2>3, <2>4, <3>1 DEF Recursive
    <3> QED BY <1>1, <3>1, <3>2, ConcatEmptySeq
  <2>6. \A i \in 1..n : g[i] = IF i = 1 THEN s[i] ELSE g[i - 1] \o s[i]
    <3> TAKE i \in 1..n
    <3>1. CASE i = 1
      BY <2>5, <3>1
    <3>2. CASE i # 1
      <4>1. i - 1 \in 1..n
        BY <3>2, <1>1
      <4> QED BY <2>4, <3>2, <4>1
    <3> QED BY <3>1, <3>2
  <2>7. Eq(g)
    BY <2>6
  <2> QED BY <2>7
<1>4. Eq(Flattening(s))
  BY <1>3, Zenon DEF Flattening
<1>5. Flattening(s)[1] = s[1]
  BY <1>1, <1>4
<1>6. ASSUME NEW i \in 2..n PROVE Flattening(s)[i] = Flattening(s)[i - 1] \o s[i]
  <2>1. i \in 1..n /\ i # 1
    BY <1>1
  <2> QED BY <1>4, <2>1
<1>7. \A i \in 1..n : Flattening(s)[i] \in Seq(S)
  <2> DEFINE T == {k \in Nat : k + 1 <= n => Flattening(s)[k + 1] \in Seq(S)}
  <2>1. 0 \in T
    BY <1>1, <1>5
  <2>2. ASSUME NEW k \in Nat, k \in T PROVE k + 1 \in T
    <3> SUFFICES ASSUME (k + 1) + 1 <= n PROVE Flattening(s)[(k + 1) + 1] \in Seq(S)
      OBVIOUS
    <3>1. (k + 1) + 1 \in 2..n /\ (k + 1) + 1 \in 1..n
      BY <1>1
    <3>2. Flattening(s)[((k + 1) + 1) - 1] \in Seq(S)
      BY <2>2, <1>1
    <3>3. s[(k + 1) + 1] \in Seq(S)
      BY <1>1, <3>1
    <3> QED BY <1>6, <3>1, <3>2, <3>3, ConcatProperties
  <2> HIDE DEF T
  <2>3. \A k \in Nat : k \in T
    BY <2>1, <2>2, SubsetInduction
  <2> TAKE i \in 1..n
  <2>4. i - 1 \in T /\ (i - 1) + 1 <= n /\ (i - 1) + 1 = i
    BY <1>1, <2>3
  <2> QED BY <2>4 DEF T
<1> QED BY <1>2, <1>5, <1>6, <1>7

LEMMA FlattenType ==
  ASSUME NEW S, NEW s \in Seq(Seq(S))
  PROVE  FlattenSeq(s) \in Seq(S)
<1>1. CASE s = << >>
  BY <1>1, FlattenNone, EmptySeq
<1>2. CASE s # << >>
  <2>1. Len(s) \in 1..Len(s)
    BY <1>2, LenProperties, EmptySeq
  <2> QED BY <1>2, <2>1, FlatteningUnfolds
<1> QED BY <1>1, <1>2

LEMMA FlattenAppend ==
  ASSUME NEW S, NEW s \in Seq(Seq(S)), NEW t \in Seq(S)
  PROVE  FlattenSeq(Append(s, t)) = FlattenSeq(s) \o t
<1> DEFINE u == Append(s, t)
           n == Len(s)
<1>1. /\ n \in Nat /\ u \in Seq(Seq(S)) /\ Len(u) = n + 1 /\ u # << >>
      /\ u[n + 1] = t /\ \A i \in 1..n : u[i] = s[i]
  BY LenProperties, AppendProperties
<1> HIDE DEF u
<1>2. /\ FlattenSeq(u) = Flattening(u)[n + 1]
      /\ Flattening(u)[1] = u[1]
      /\ \A i \in 2..(n + 1) : Flattening(u)[i] = Flattening(u)[i - 1] \o u[i]
  BY <1>1, FlatteningUnfolds
<1>3. CASE s = << >>
  <2>1. n = 0 /\ FlattenSeq(s) = << >>
    BY <1>3, FlattenNone
  <2>2. FlattenSeq(u) = t
    BY <1>1, <1>2, <2>1
  <2> QED BY <2>1, <2>2, ConcatEmptySeq DEF u
<1>4. CASE s # << >>
  <2>1. /\ FlattenSeq(s) = Flattening(s)[n]
        /\ Flattening(s)[1] = s[1]
        /\ \A i \in 2..n : Flattening(s)[i] = Flattening(s)[i - 1] \o s[i]
    BY <1>4, FlatteningUnfolds
  <2>2. n >= 1
    BY <1>1, <1>4, EmptySeq
  <2> DEFINE T == {k \in Nat : k + 1 <= n => Flattening(u)[k + 1] = Flattening(s)[k + 1]}
  <2>3. 0 \in T
    BY <1>1, <1>2, <2>1, <2>2
  <2>4. ASSUME NEW k \in Nat, k \in T PROVE k + 1 \in T
    <3> SUFFICES ASSUME (k + 1) + 1 <= n
                 PROVE  Flattening(u)[(k + 1) + 1] = Flattening(s)[(k + 1) + 1]
      OBVIOUS
    <3> DEFINE i == (k + 1) + 1
    <3>1. i \in 2..n /\ i \in 2..(n + 1) /\ i \in 1..n /\ i - 1 = k + 1 /\ k + 1 <= n
      BY <1>1
    <3>2. Flattening(u)[i - 1] = Flattening(s)[i - 1]
      BY <2>4, <3>1
    <3> HIDE DEF i
    <3>3. Flattening(u)[i] = Flattening(u)[i - 1] \o u[i]
      BY <1>2, <3>1
    <3>4. Flattening(s)[i] = Flattening(s)[i - 1] \o s[i]
      BY <2>1, <3>1
    <3>5. Flattening(u)[i] = Flattening(s)[i]
      BY <1>1, <3>1, <3>2, <3>3, <3>4
    <3> QED BY <3>5 DEF i
  <2> HIDE DEF T
  <2>5. n - 1 \in T
    <3>1. \A k \in Nat : k \in T
      BY <2>3, <2>4, SubsetInduction
    <3> QED BY <1>1, <2>2, <3>1
  <2>6. Flattening(u)[n] = Flattening(s)[n]
    BY <1>1, <2>2, <2>5 DEF T
  <2>7. Flattening(u)[n + 1] = Flattening(u)[n] \o t
    <3>1. n + 1 \in 2..(n + 1) /\ (n + 1) - 1 = n
      BY <1>1, <2>2
    <3> QED BY <1>1, <1>2, <3>1
  <2> QED BY <1>2, <2>1, <2>6, <2>7 DEF u
<1> QED BY <1>3, <1>4

(* Part k of a flattened sequence is the k-th sequence, behind the ones     *)
(* before it.                                                               *)
LEMMA FlattenPart ==
  ASSUME NEW S, NEW s \in Seq(Seq(S)), NEW k \in 1..Len(s)
  PROVE  /\ FlattenSeq(SubSeq(s, 1, k)) = FlattenSeq(SubSeq(s, 1, k - 1)) \o s[k]
         /\ FlattenSeq(SubSeq(s, 1, k - 1)) \in Seq(S)
         /\ s[k] \in Seq(S)
<1>1. SubSeq(s, 1, k - 1) \in Seq(Seq(S)) /\ s[k] \in Seq(S)
  <2>1. \A i \in 1..(k - 1) : s[i] \in Seq(S)
    BY ElementOfSeq
  <2> QED BY <2>1, SubSeqProperties, ElementOfSeq
<1>2. SubSeq(s, 1, k) = Append(SubSeq(s, 1, k - 1), s[k])
  <2>1. SubSeq(s, 1, k) = SubSeq(s, 1, k - 1) \o <<s[k]>>
    BY SubSeqRecursiveSecond
  <2> QED BY <1>1, <2>1, AppendIsConcat
<1> QED BY <1>1, <1>2, FlattenAppend, FlattenType

LEMMA FlattenLonger ==
  ASSUME NEW S, NEW s \in Seq(Seq(S)), NEW k \in 0..Len(s)
  PROVE  \E rest \in Seq(S) : FlattenSeq(s) = FlattenSeq(SubSeq(s, 1, k)) \o rest
<1> DEFINE n == Len(s)
           F(j) == FlattenSeq(SubSeq(s, 1, j))
           Longer(j) == \E rest \in Seq(S) : F(j) = F(k) \o rest
           T == {j \in Nat : k + j <= n => Longer(k + j)}
<1>0. n \in Nat /\ k \in Nat /\ k <= n
  BY LenProperties
<1>1. ASSUME NEW j \in 0..n PROVE F(j) \in Seq(S)
  <2>1. \A i \in 1..j : s[i] \in Seq(S)
    BY ElementOfSeq
  <2>2. SubSeq(s, 1, j) \in Seq(Seq(S))
    BY <1>0, <2>1, SubSeqProperties
  <2> QED BY <2>2, FlattenType
<1>2. Longer(k)
  <2>1. F(k) \in Seq(S)
    BY <1>1
  <2> HIDE DEF F
  <2>2. F(k) = F(k) \o << >> /\ << >> \in Seq(S)
    BY <2>1, ConcatEmptySeq, EmptySeq
  <2> QED BY <2>2
<1>3. ASSUME NEW j \in 0..(n - 1), Longer(j) PROVE Longer(j + 1)
  <2>1. PICK rest \in Seq(S) : F(j) = F(k) \o rest
    BY <1>3
  <2>2. j + 1 \in 1..n /\ (j + 1) - 1 = j
    BY <1>0
  <2>3. F(j + 1) = F(j) \o s[j + 1] /\ s[j + 1] \in Seq(S)
    BY <2>2, FlattenPart
  <2>4. F(k) \in Seq(S)
    BY <1>1
  <2> DEFINE part == s[j + 1]
             more == rest \o part
  <2>5. more \in Seq(S)
    BY <2>3, ConcatProperties
  <2>6. F(j + 1) = F(k) \o more
    <3> DEFINE front == F(k)
    <3>1. front \in Seq(S) /\ part \in Seq(S)
      BY <2>3, <2>4
    <3>2. F(j + 1) = (front \o rest) \o part
      BY <2>1, <2>3
    <3> HIDE DEF front, part
    <3>3. (front \o rest) \o part = front \o (rest \o part)
      BY <3>1, ConcatAssociative, SMTT(20)
    <3> QED BY <3>2, <3>3 DEF front
  <2> HIDE DEF F, more
  <2> QED BY <2>5, <2>6
<1> HIDE DEF Longer
<1>4. 0 \in T
  BY <1>0, <1>2
<1>5. ASSUME NEW j \in Nat, j \in T PROVE j + 1 \in T
  <2> SUFFICES ASSUME k + (j + 1) <= n PROVE Longer(k + (j + 1))
    OBVIOUS
  <2>1. k + j \in 0..(n - 1) /\ (k + j) + 1 = k + (j + 1)
    BY <1>0
  <2>2. Longer((k + j) + 1)
    BY <1>3, <1>5, <2>1
  <2> QED BY <2>1, <2>2
<1>6. \A j \in Nat : j \in T
  <2> HIDE DEF T
  <2> QED BY <1>4, <1>5, SubsetInduction
<1>7. Longer(n)
  <2>1. n - k \in T /\ k + (n - k) = n
    <3> HIDE DEF T, n
    <3> QED BY <1>0, <1>6
  <2> QED BY <2>1, <1>0
<1>8. SubSeq(s, 1, n) = s
  BY SubSeqFull
<1> QED BY <1>7, <1>8 DEF Longer
-----------------------------------------------------------------------------
(* A sequence lies in a buffer from some place on. *)
LiesAt(buf, at, s) ==
  /\ at + Len(s) <= Len(buf)
  /\ \A j \in 1..Len(s) : buf[at + j] = s[j]

LEMMA ConcatElements ==
  ASSUME NEW S, NEW s \in Seq(S), NEW t \in Seq(S)
  PROVE  /\ s \o t \in Seq(S)
         /\ Len(s) \in Nat /\ Len(t) \in Nat
         /\ Len(s \o t) = Len(s) + Len(t)
         /\ \A j \in 1..Len(s) : (s \o t)[j] = s[j]
         /\ \A j \in 1..Len(t) : (s \o t)[Len(s) + j] = t[j]
<1>1. /\ s \o t \in Seq(S)
      /\ Len(s) \in Nat /\ Len(t) \in Nat
      /\ Len(s \o t) = Len(s) + Len(t)
  BY ConcatProperties, LenProperties
<1>2. ASSUME NEW j \in 1..Len(s) PROVE (s \o t)[j] = s[j]
  BY <1>1, ConcatProperties
<1>3. ASSUME NEW j \in 1..Len(t) PROVE (s \o t)[Len(s) + j] = t[j]
  BY <1>1, ConcatProperties
<1> QED BY <1>1, <1>2, <1>3

LEMMA LiesAtEnd ==
  ASSUME NEW S, NEW buf \in Seq(S), NEW s \in Seq(S)
  PROVE  LiesAt(buf \o s, Len(buf), s)
  BY ConcatElements DEF LiesAt

LEMMA LiesAtStart ==
  ASSUME NEW S, NEW s \in Seq(S), NEW rest \in Seq(S)
  PROVE  LiesAt(s \o rest, 0, s)
  BY ConcatElements DEF LiesAt

(* It stays there when the buffer grows at its end. *)
LEMMA LiesAtGrows ==
  ASSUME NEW S, NEW buf \in Seq(S), NEW more \in Seq(S), NEW s \in Seq(S),
         NEW at \in Nat, LiesAt(buf, at, s)
  PROVE  LiesAt(buf \o more, at, s)
<1>1. /\ Len(buf \o more) = Len(buf) + Len(more)
      /\ Len(buf) \in Nat /\ Len(more) \in Nat /\ Len(s) \in Nat
      /\ \A j \in 1..Len(buf) : (buf \o more)[j] = buf[j]
  BY ConcatElements, LenProperties
<1>2. ASSUME NEW j \in 1..Len(s) PROVE (buf \o more)[at + j] = s[j]
  <2>1. at + j \in 1..Len(buf)
    BY <1>1 DEF LiesAt
  <2> QED BY <1>1, <2>1 DEF LiesAt
<1> QED BY <1>1, <1>2 DEF LiesAt

LEMMA LiesAtParts ==
  ASSUME NEW S, NEW s \in Seq(S), NEW t \in Seq(S), NEW buf \in Seq(S),
         NEW at \in Nat, LiesAt(buf, at, s \o t)
  PROVE  LiesAt(buf, at, s) /\ LiesAt(buf, at + Len(s), t)
<1>1. /\ Len(s) \in Nat /\ Len(t) \in Nat /\ Len(buf) \in Nat
      /\ Len(s \o t) = Len(s) + Len(t)
      /\ \A j \in 1..Len(s) : (s \o t)[j] = s[j]
      /\ \A j \in 1..Len(t) : (s \o t)[Len(s) + j] = t[j]
  BY ConcatElements, LenProperties
<1>2. ASSUME NEW j \in 1..Len(s) PROVE buf[at + j] = s[j]
  BY <1>1 DEF LiesAt
<1>3. ASSUME NEW j \in 1..Len(t) PROVE buf[(at + Len(s)) + j] = t[j]
  <2>1. Len(s) + j \in 1..Len(s \o t) /\ at + (Len(s) + j) = (at + Len(s)) + j
    BY <1>1
  <2> QED BY <1>1, <2>1 DEF LiesAt
<1> QED BY <1>1, <1>2, <1>3 DEF LiesAt

(* What lies within something that lies in a buffer lies in the buffer. *)
LEMMA LiesAtWithin ==
  ASSUME NEW S, NEW s \in Seq(S), NEW t \in Seq(S), NEW buf \in Seq(S),
         NEW at \in Nat, NEW from \in Nat, LiesAt(buf, at, s), LiesAt(s, from, t)
  PROVE  LiesAt(buf, at + from, t)
<1>1. Len(s) \in Nat /\ Len(t) \in Nat /\ Len(buf) \in Nat
  BY LenProperties
<1>2. ASSUME NEW j \in 1..Len(t) PROVE buf[(at + from) + j] = t[j]
  <2>1. from + j \in 1..Len(s) /\ at + (from + j) = (at + from) + j
    BY <1>1 DEF LiesAt
  <2> QED BY <2>1 DEF LiesAt
<1> QED BY <1>1, <1>2 DEF LiesAt

(* Reading as many cells as it has gives it back. *)
LEMMA LiesAtRead ==
  ASSUME NEW S, NEW s \in Seq(S), NEW buf \in Seq(S), NEW at \in Nat, LiesAt(buf, at, s)
  PROVE  SubSeq(buf, at + 1, at + Len(s)) = s
<1> DEFINE r == SubSeq(buf, at + 1, at + Len(s))
<1>1. Len(s) \in Nat /\ Len(buf) \in Nat /\ at + Len(s) <= Len(buf)
  BY LenProperties DEF LiesAt
<1>2. \A i \in (at + 1)..(at + Len(s)) : buf[i] \in S
  BY <1>1, ElementOfSeq
<1>3. /\ r \in Seq(S) /\ Len(r) = Len(s)
      /\ \A i \in 1..Len(s) : r[i] = buf[at + i]
  <2>1. /\ r \in Seq(S)
        /\ Len(r) = IF at + 1 <= at + Len(s) THEN (at + Len(s)) - (at + 1) + 1 ELSE 0
        /\ \A i \in 1..((at + Len(s)) - (at + 1) + 1) : r[i] = buf[(at + 1) + i - 1]
    <3> DEFINE m == at + 1
               n == at + Len(s)
    <3>1. m \in Int /\ n \in Int
      BY <1>1
    <3> HIDE DEF m, n
    <3>2. \A i \in m..n : buf[i] \in S
      BY <1>2 DEF m, n
    <3>3. /\ SubSeq(buf, m, n) \in Seq(S)
          /\ Len(SubSeq(buf, m, n)) = IF m <= n THEN n - m + 1 ELSE 0
          /\ \A i \in 1..(n - m + 1) : SubSeq(buf, m, n)[i] = buf[m + i - 1]
      BY <3>1, <3>2, SubSeqProperties
    <3> QED BY <3>3 DEF m, n
  <2> HIDE DEF r
  <2>2. \A i \in 1..Len(s) : r[i] = buf[at + i]
    BY <1>1, <2>1
  <2> QED BY <1>1, <2>1, <2>2
<1> HIDE DEF r
<1>4. \A i \in 1..Len(s) : r[i] = s[i]
  BY <1>3 DEF LiesAt
<1>5. r = s
  BY <1>3, <1>4, SeqEqual
<1> QED BY <1>5 DEF r

(* Part k of a flattened sequence of sequences. *)
LEMMA FlattenPartLies ==
  ASSUME NEW S, NEW s \in Seq(Seq(S)), NEW k \in 1..Len(s)
  PROVE  LiesAt(FlattenSeq(s), Len(FlattenSeq(SubSeq(s, 1, k - 1))), s[k])
<1> DEFINE front == FlattenSeq(SubSeq(s, 1, k - 1))
           upto == FlattenSeq(SubSeq(s, 1, k))
           all == FlattenSeq(s)
           part == s[k]
<1>1. upto = front \o part /\ front \in Seq(S) /\ part \in Seq(S)
  BY FlattenPart
<1>2. PICK rest \in Seq(S) : all = upto \o rest
  <2>1. k \in 0..Len(s)
    BY LenProperties
  <2> QED BY <2>1, FlattenLonger
<1> HIDE DEF front, upto, all, part
<1>3. LiesAt(upto, Len(front), part) /\ upto \in Seq(S) /\ Len(front) \in Nat
  BY <1>1, LiesAtEnd, ConcatProperties, LenProperties
<1>4. LiesAt(all, Len(front), part)
  BY <1>1, <1>2, <1>3, LiesAtGrows
<1> QED BY <1>4 DEF front, all, part
-----------------------------------------------------------------------------
(* A sequence cut into pieces. *)
LEMMA SliceElements ==
  ASSUME NEW S, NEW s \in Seq(S), NEW a \in Nat, NEW b \in Nat, a <= b, b <= Len(s)
  PROVE  /\ SubSeq(s, a + 1, b) \in Seq(S) /\ Len(SubSeq(s, a + 1, b)) = b - a
         /\ \A i \in 1..(b - a) : SubSeq(s, a + 1, b)[i] = s[a + i]
<1>1. Len(s) \in Nat
  BY LenProperties
<1>2. \A i \in (a + 1)..b : s[i] \in S
  BY <1>1, ElementOfSeq
<1> DEFINE r == SubSeq(s, a + 1, b)
<1>3. /\ r \in Seq(S)
      /\ Len(r) = IF a + 1 <= b THEN b - (a + 1) + 1 ELSE 0
      /\ \A i \in 1..(b - (a + 1) + 1) : r[i] = s[(a + 1) + i - 1]
  BY <1>1, <1>2, SubSeqProperties
<1> HIDE DEF r
<1>4. Len(r) = b - a
  BY <1>3
<1>5. ASSUME NEW i \in 1..(b - a) PROVE r[i] = s[a + i]
  <2>1. i \in 1..(b - (a + 1) + 1) /\ (a + 1) + i - 1 = a + i
    OBVIOUS
  <2> QED BY <1>3, <2>1
<1> QED BY <1>3, <1>4, <1>5 DEF r

LEMMA ConcatSized ==
  ASSUME NEW S, NEW s \in Seq(S), NEW t \in Seq(S), NEW m, NEW n, Len(s) = m, Len(t) = n
  PROVE  /\ s \o t \in Seq(S) /\ Len(s \o t) = m + n
         /\ \A j \in 1..m : (s \o t)[j] = s[j]
         /\ \A j \in 1..n : (s \o t)[m + j] = t[j]
<1>1. s \o t \in Seq(S) /\ Len(s \o t) = m + n
  BY ConcatElements
<1>2. \A j \in 1..Len(s) : (s \o t)[j] = s[j]
  BY ConcatElements
<1>3. \A j \in 1..Len(t) : (s \o t)[Len(s) + j] = t[j]
  BY ConcatElements
<1> QED BY <1>1, <1>2, <1>3

LEMMA ConsElements ==
  ASSUME NEW S, NEW x \in S, NEW t \in Seq(S)
  PROVE  /\ <<x>> \o t \in Seq(S) /\ Len(<<x>> \o t) = Len(t) + 1
         /\ (<<x>> \o t)[1] = x
         /\ \A j \in 1..Len(t) : (<<x>> \o t)[j + 1] = t[j]
<1> DEFINE s == <<x>>
           r == s \o t
<1>1. s \in Seq(S) /\ Len(s) = 1 /\ s[1] = x /\ 1 \in 1..1
  OBVIOUS
<1> HIDE DEF s
<1>2. r \in Seq(S) /\ Len(r) = 1 + Len(t) /\ Len(t) \in Nat
  BY <1>1, ConcatElements
<1>3. \A j \in 1..1 : r[j] = s[j]
  BY <1>1, ConcatElements
<1>4. \A j \in 1..Len(t) : r[Len(s) + j] = t[j]
  <2>1. s \in Seq(S)
    BY <1>1
  <2> QED BY <2>1, ConcatElements
<1> HIDE DEF r
<1>5. \A j \in 1..Len(t) : r[j + 1] = t[j]
  BY <1>1, <1>2, <1>4
<1>6. r[1] = x /\ Len(r) = Len(t) + 1
  BY <1>1, <1>2, <1>3
<1> QED BY <1>2, <1>5, <1>6 DEF r, s

LEMMA SlicesJoin ==
  ASSUME NEW S, NEW s \in Seq(S), NEW a \in Nat, NEW b \in Nat, a <= b, b <= Len(s)
  PROVE  SubSeq(s, 1, a) \o SubSeq(s, a + 1, b) = SubSeq(s, 1, b)
<1> DEFINE front == SubSeq(s, 1, a)
           back == SubSeq(s, a + 1, b)
           whole == SubSeq(s, 1, b)
<1>0. Len(s) \in Nat
  BY LenProperties
<1>1. front \in Seq(S) /\ Len(front) = a /\ \A i \in 1..a : front[i] = s[i]
  <2>1. /\ SubSeq(s, 0 + 1, a) \in Seq(S) /\ Len(SubSeq(s, 0 + 1, a)) = a - 0
        /\ \A i \in 1..(a - 0) : SubSeq(s, 0 + 1, a)[i] = s[0 + i]
    BY <1>0, SliceElements
  <2> QED BY <2>1
<1>2. whole \in Seq(S) /\ Len(whole) = b /\ \A i \in 1..b : whole[i] = s[i]
  <2>1. /\ SubSeq(s, 0 + 1, b) \in Seq(S) /\ Len(SubSeq(s, 0 + 1, b)) = b - 0
        /\ \A i \in 1..(b - 0) : SubSeq(s, 0 + 1, b)[i] = s[0 + i]
    BY SliceElements
  <2> QED BY <2>1
<1>3. /\ back \in Seq(S) /\ Len(back) = b - a
      /\ \A i \in 1..(b - a) : back[i] = s[a + i]
  BY SliceElements
<1> HIDE DEF front, back, whole
<1> DEFINE both == front \o back
           c == b - a
<1>4. /\ both \in Seq(S) /\ Len(both) = a + c
      /\ \A i \in 1..a : both[i] = front[i]
      /\ \A i \in 1..c : both[a + i] = back[i]
  <2>1. front \in Seq(S) /\ back \in Seq(S) /\ Len(front) = a /\ Len(back) = c
    BY <1>1, <1>3
  <2> HIDE DEF c
  <2>2. /\ front \o back \in Seq(S) /\ Len(front \o back) = a + c
        /\ \A i \in 1..a : (front \o back)[i] = front[i]
        /\ \A i \in 1..c : (front \o back)[a + i] = back[i]
    BY <2>1, ConcatSized, SMTT(30)
  <2> QED BY <2>2
<1> HIDE DEF both
<1>5. ASSUME NEW i \in 1..b PROVE both[i] = whole[i]
  <2>1. CASE i <= a
    <3>1. i \in 1..a
      BY <2>1
    <3> QED BY <1>1, <1>2, <1>4, <3>1
  <2>2. CASE ~(i <= a)
    <3>1. i - a \in 1..c /\ a + (i - a) = i
      BY <2>2
    <3>2. both[a + (i - a)] = back[i - a] /\ back[i - a] = s[a + (i - a)]
      BY <1>3, <1>4, <3>1
    <3> QED BY <1>2, <3>1, <3>2
  <2> QED BY <2>1, <2>2
<1>6. both = whole
  <2>1. Len(both) = b
    BY <1>4
  <2> QED BY <1>2, <1>4, <1>5, <2>1, SeqEqual
<1> QED BY <1>6 DEF front, back, whole, both

(* The pieces between cut[0] = 0 and cut[m] = Len(s) make the sequence.     *)
LEMMA FlattenCuts ==
  ASSUME NEW S, NEW s \in Seq(S), NEW m \in Nat, NEW cut \in [0..m -> Nat],
         cut[0] = 0, cut[m] = Len(s),
         \A b \in 1..m : cut[b - 1] <= cut[b] /\ cut[b] <= Len(s),
         NEW parts \in Seq(Seq(S)), Len(parts) = m,
         \A b \in 1..m : parts[b] = SubSeq(s, cut[b - 1] + 1, cut[b])
  PROVE  FlattenSeq(parts) = s
<1> DEFINE T == {k \in Nat : k <= m => FlattenSeq(SubSeq(parts, 1, k)) = SubSeq(s, 1, cut[k])}
<1>1. 0 \in T
  <2>1. SubSeq(parts, 1, 0) = << >> /\ SubSeq(s, 1, 0) = << >>
    BY EmptySeq
  <2> QED BY <2>1, FlattenNone
<1>2. ASSUME NEW k \in Nat, k \in T PROVE k + 1 \in T
  <2> SUFFICES ASSUME k + 1 <= m
               PROVE  FlattenSeq(SubSeq(parts, 1, k + 1)) = SubSeq(s, 1, cut[k + 1])
    OBVIOUS
  <2> DEFINE before == FlattenSeq(SubSeq(parts, 1, k))
             c0 == cut[k]
             c1 == cut[k + 1]
  <2>1. k + 1 \in 1..m /\ (k + 1) - 1 = k /\ k \in 0..m /\ k + 1 \in 0..m /\ k <= m
    OBVIOUS
  <2>2. FlattenSeq(SubSeq(parts, 1, k + 1)) = before \o parts[k + 1]
    <3>1. FlattenSeq(SubSeq(parts, 1, k + 1))
            = FlattenSeq(SubSeq(parts, 1, (k + 1) - 1)) \o parts[k + 1]
      BY <2>1, FlattenPart
    <3> QED BY <2>1, <3>1
  <2>3. before = SubSeq(s, 1, c0)
    BY <1>2, <2>1
  <2>4. c0 \in Nat /\ c1 \in Nat /\ c0 <= c1 /\ c1 <= Len(s)
    BY <2>1
  <2>5. parts[k + 1] = SubSeq(s, c0 + 1, c1)
    BY <2>1
  <2> HIDE DEF before, c0, c1
  <2>6. SubSeq(s, 1, c0) \o SubSeq(s, c0 + 1, c1) = SubSeq(s, 1, c1)
    BY <2>4, SlicesJoin
  <2> QED BY <2>2, <2>3, <2>5, <2>6 DEF c1
<1> HIDE DEF T
<1>3. \A k \in Nat : k \in T
  BY <1>1, <1>2, SubsetInduction
<1>4. FlattenSeq(SubSeq(parts, 1, m)) = SubSeq(s, 1, Len(s))
  <2>1. m \in T
    BY <1>3
  <2> QED BY <2>1 DEF T
<1>5. SubSeq(s, 1, Len(s)) = s
  BY SubSeqFull
<1>6. SubSeq(parts, 1, m) = parts
  BY SubSeqFull
<1> QED BY <1>4, <1>5, <1>6

(* How much the parts before part k take. *)
LEMMA PartLengths ==
  ASSUME NEW S, NEW s \in Seq(Seq(S))
  PROVE  /\ Len(FlattenSeq(SubSeq(s, 1, 0))) = 0
         /\ \A k \in 1..Len(s) :
              /\ Len(FlattenSeq(SubSeq(s, 1, k - 1))) \in Nat
              /\ Len(FlattenSeq(SubSeq(s, 1, k)))
                   = Len(FlattenSeq(SubSeq(s, 1, k - 1))) + Len(s[k])
         /\ FlattenSeq(SubSeq(s, 1, Len(s))) = FlattenSeq(s)
<1>1. Len(FlattenSeq(SubSeq(s, 1, 0))) = 0
  <2>1. SubSeq(s, 1, 0) = << >>
    BY EmptySeq
  <2>2. Len(<< >>) = 0
    OBVIOUS
  <2> QED BY <2>1, <2>2, FlattenNone
<1>2. ASSUME NEW k \in 1..Len(s)
      PROVE  /\ Len(FlattenSeq(SubSeq(s, 1, k - 1))) \in Nat
             /\ Len(FlattenSeq(SubSeq(s, 1, k)))
                  = Len(FlattenSeq(SubSeq(s, 1, k - 1))) + Len(s[k])
  <2> DEFINE front == FlattenSeq(SubSeq(s, 1, k - 1))
             upto == FlattenSeq(SubSeq(s, 1, k))
             part == s[k]
  <2>1. upto = front \o part /\ front \in Seq(S) /\ part \in Seq(S)
    BY FlattenPart
  <2> HIDE DEF front, upto, part
  <2>2. Len(upto) = Len(front) + Len(part) /\ Len(front) \in Nat
    BY <2>1, ConcatElements
  <2> QED BY <2>2 DEF front, upto, part
<1>3. SubSeq(s, 1, Len(s)) = s
  BY SubSeqFull
<1> QED BY <1>1, <1>2, <1>3

LEMMA EqualParts ==
  ASSUME NEW S, NEW s \in Seq(Seq(S)), NEW w \in Nat, \A k \in 1..Len(s) : Len(s[k]) = w
  PROVE  \A k \in 0..Len(s) : Len(FlattenSeq(SubSeq(s, 1, k))) = k * w
<1> DEFINE L(k) == Len(FlattenSeq(SubSeq(s, 1, k)))
           T == {k \in Nat : k <= Len(s) => L(k) = k * w}
<1>1. L(0) = 0 /\ \A k \in 1..Len(s) : L(k) = L(k - 1) + w
  BY PartLengths
<1>2. Len(s) \in Nat
  BY LenProperties
<1> HIDE DEF L
<1>3. 0 \in T
  <2>1. 0 * w = 0
    OBVIOUS
  <2> QED BY <1>1, <2>1
<1>4. ASSUME NEW k \in Nat, k \in T PROVE k + 1 \in T
  <2> SUFFICES ASSUME k + 1 <= Len(s) PROVE L(k + 1) = (k + 1) * w
    OBVIOUS
  <2>1. k + 1 \in 1..Len(s) /\ (k + 1) - 1 = k /\ L(k) = k * w
    BY <1>2, <1>4
  <2>2. L(k + 1) = k * w + w
    BY <1>1, <2>1
  <2>3. (k + 1) * w = k * w + w
    BY Z3
  <2> QED BY <2>2, <2>3
<1> HIDE DEF T
<1>5. \A k \in Nat : k \in T
  BY <1>3, <1>4, SubsetInduction
<1> QED BY <1>2, <1>5 DEF T, L
-----------------------------------------------------------------------------
(* Sums.  The sums of a sequence's beginnings, which every sum is one of.   *)
RunningSums(P, n, f) ==
  /\ P \in [0..n -> Int] /\ P[0] = 0
  /\ \A i \in 0..(n - 1) : P[i + 1] = P[i] + f[i]

(* What the halving recursion of Total unfolds to. *)
Halves(s, n, f) ==
  s = [i \in 0..n |->
        [k \in 0..n |->
          IF i = k THEN 0
          ELSE IF i + 1 = k THEN f[i]
          ELSE s[i][(i + k) \div 2] + s[(i + k) \div 2][k]]]

(* A sum has prefixes, one for each length. *)
LEMMA RunningSumsExist ==
  ASSUME NEW n \in Nat, NEW f \in [0..(n - 1) -> Int]
  PROVE  \E P : RunningSums(P, n, f)
<1> DEFINE D == [p \in Int \X (1..n) |-> p[1] + f[p[2] - 1]]
<1>1. D \in [Int \X (1..n) -> Int] /\ 0 \in Int
  OBVIOUS
<1>2. PICK P : Recursive(P, Int, 0, n, D)
  <2> HIDE DEF D
  <2> QED BY <1>1, RecursionExists
<1>3. P \in [0..n -> Int] /\ P[0] = 0 /\ \A i \in 1..n : P[i] = D[<<P[i - 1], i>>]
  <2> HIDE DEF D
  <2> QED BY <1>2 DEF Recursive
<1>4. ASSUME NEW i \in 0..(n - 1) PROVE P[i + 1] = P[i] + f[i]
  <2>1. i + 1 \in 1..n /\ (i + 1) - 1 = i /\ P[i] \in Int
    BY <1>3
  <2> QED BY <1>3, <2>1
<1> QED BY <1>3, <1>4 DEF RunningSums

(* Total's recursion has a solution ... *)
LEMMA HalvesExist ==
  ASSUME NEW n \in Nat, NEW f \in [0..(n - 1) -> Int], NEW P, RunningSums(P, n, f)
  PROVE  \E s : Halves(s, n, f)
<1> DEFINE s == [i \in 0..n |-> [k \in 0..n |-> P[k] - P[i]]]
<1>1. ASSUME NEW i \in 0..n, NEW k \in 0..n
      PROVE  P[k] - P[i] =
               IF i = k THEN 0
               ELSE IF i + 1 = k THEN f[i]
               ELSE s[i][(i + k) \div 2] + s[(i + k) \div 2][k]
  <2>1. PICK m \in 0..n : m = (i + k) \div 2
    OBVIOUS
  <2>2. P[i] \in Int /\ P[k] \in Int /\ P[m] \in Int
    BY DEF RunningSums
  <2>3. s[i][m] = P[m] - P[i] /\ s[m][k] = P[k] - P[m]
    OBVIOUS
  <2> HIDE DEF s
  <2>4. CASE i = k
    BY <2>2, <2>4
  <2>5. CASE i + 1 = k
    <3>1. i \in 0..(n - 1) /\ i # k
      BY <2>5
    <3>2. P[k] = P[i] + f[i] /\ f[i] \in Int
      BY <2>5, <3>1 DEF RunningSums
    <3> QED BY <2>2, <2>5, <3>1, <3>2
  <2>6. CASE i # k /\ i + 1 # k
    BY <2>1, <2>2, <2>3, <2>6
  <2> QED BY <2>4, <2>5, <2>6
<1>2. Halves(s, n, f)
  BY <1>1 DEF Halves
<1> QED BY <1>2

(* ... and every solution is the difference of two prefixes. *)
LEMMA HalvesAreDifferences ==
  ASSUME NEW n \in Nat, NEW f \in [0..(n - 1) -> Int], NEW P, RunningSums(P, n, f),
         NEW s, Halves(s, n, f)
  PROVE  \A i, k \in 0..n : i <= k => s[i][k] = P[k] - P[i]
<1> DEFINE Good(d) == \A i, k \in 0..n : k - i \in 0..d => s[i][k] = P[k] - P[i]
           S == {d \in Nat : Good(d)}
<1>0. \A i \in 0..n : P[i] \in Int
  BY DEF RunningSums
<1>1. \A i, k \in 0..n : s[i][k] =
        IF i = k THEN 0
        ELSE IF i + 1 = k THEN f[i]
        ELSE s[i][(i + k) \div 2] + s[(i + k) \div 2][k]
  <2> DEFINE cell(i, k) == IF i = k THEN 0
                           ELSE IF i + 1 = k THEN f[i]
                           ELSE s[i][(i + k) \div 2] + s[(i + k) \div 2][k]
  <2>1. s = [i \in 0..n |-> [k \in 0..n |-> cell(i, k)]]
    BY DEF Halves
  <2> HIDE DEF cell
  <2>2. \A i, k \in 0..n : s[i][k] = cell(i, k)
    BY <2>1
  <2> QED BY <2>2 DEF cell
<1>2. Good(0)
  <2> TAKE i, k \in 0..n
  <2> SUFFICES ASSUME i = k PROVE s[i][k] = P[k] - P[i]
    OBVIOUS
  <2> QED BY <1>0, <1>1
<1>3. ASSUME NEW d \in Nat, Good(d) PROVE Good(d + 1)
  <2> TAKE i, k \in 0..n
  <2> SUFFICES ASSUME k - i = d + 1 PROVE s[i][k] = P[k] - P[i]
    BY <1>3
  <2>0. i # k
    OBVIOUS
  <2>1. CASE i + 1 = k
    <3>1. i \in 0..(n - 1)
      BY <2>1
    <3>2. P[k] = P[i] + f[i] /\ f[i] \in Int
      BY <2>1, <3>1 DEF RunningSums
    <3>3. s[i][k] = f[i]
      BY <1>1, <2>0, <2>1
    <3> QED BY <1>0, <3>2, <3>3
  <2>2. CASE i + 1 # k
    <3>1. PICK m \in 0..n : m = (i + k) \div 2 /\ m - i \in 0..d /\ k - m \in 0..d
      BY <2>0, <2>2
    <3>2. s[i][m] = P[m] - P[i] /\ s[m][k] = P[k] - P[m]
      BY <1>3, <3>1
    <3>3. s[i][k] = s[i][m] + s[m][k]
      BY <1>1, <2>0, <2>2, <3>1
    <3> QED BY <1>0, <3>2, <3>3
  <2> QED BY <2>1, <2>2
<1>4. \A d \in Nat : d \in S
  <2>1. 0 \in S
    BY <1>2
  <2>2. \A d \in Nat : Good(d) => Good(d + 1)
    BY <1>3
  <2> HIDE DEF Good
  <2>3. \A d \in Nat : d \in S => d + 1 \in S
    BY <2>2
  <2> HIDE DEF S
  <2> QED BY <2>1, <2>3, SubsetInduction
<1>5. Good(n)
  BY <1>4
<1> QED BY <1>5

(* Total is the last of the running sums. *)
LEMMA TotalIs ==
  ASSUME NEW n \in Nat, NEW f \in [0..(n - 1) -> Int], NEW P, RunningSums(P, n, f)
  PROVE  Total(n, f) = P[n] /\ Total(n, f) \in Int
<1> DEFINE s == CHOOSE s : Halves(s, n, f)
<1>1. Halves(s, n, f)
  <2>1. \E t : Halves(t, n, f)
    BY HalvesExist
  <2> QED BY <2>1
<1>2. Total(n, f) = s[0][n]
  BY Zenon DEF Total, Halves
<1> HIDE DEF s
<1>3. s[0][n] = P[n] - P[0] /\ P[0] = 0 /\ P[n] \in Int
  <2>1. 0 \in 0..n /\ n \in 0..n /\ 0 <= n
    OBVIOUS
  <2>2. s[0][n] = P[n] - P[0]
    BY <1>1, <2>1, HalvesAreDifferences
  <2> QED BY <2>1, <2>2 DEF RunningSums
<1> QED BY <1>2, <1>3

(* A sum is an integer.                                                     *)
LEMMA TotalType ==
  ASSUME NEW n \in Nat, NEW f \in [0..(n - 1) -> Int]
  PROVE  Total(n, f) \in Int
<1>1. PICK P : RunningSums(P, n, f)
  BY RunningSumsExist
<1> QED BY <1>1, TotalIs

(* A sum of four numbers ...                                                *)
LEMMA TotalOfFour ==
  ASSUME NEW f \in [0..3 -> Int]
  PROVE  Total(4, f) = f[0] + f[1] + f[2] + f[3]
<1>0. 4 - 1 = 3
  OBVIOUS
<1>1. PICK P : RunningSums(P, 4, f)
  BY <1>0, RunningSumsExist
<1>2. Total(4, f) = P[4]
  BY <1>0, <1>1, TotalIs
<1>3. P[0] = 0 /\ \A i \in 0..3 : P[i + 1] = P[i] + f[i]
  BY <1>0, <1>1 DEF RunningSums
<1>4. P[1] = f[0] /\ P[2] = P[1] + f[1] /\ P[3] = P[2] + f[2] /\ P[4] = P[3] + f[3]
  <2>1. P[0 + 1] = P[0] + f[0] /\ P[1 + 1] = P[1] + f[1] /\ P[2 + 1] = P[2] + f[2]
        /\ P[3 + 1] = P[3] + f[3]
    BY <1>3
  <2> QED BY <1>3, <2>1
<1> QED BY <1>2, <1>4

(* ... and of one or two.                                                   *)
LEMMA TotalOfFew ==
  /\ \A f \in [0..0 -> Int] : Total(1, f) = f[0]
  /\ \A f \in [0..1 -> Int] : Total(2, f) = f[0] + f[1]
<1>1. ASSUME NEW f \in [0..0 -> Int] PROVE Total(1, f) = f[0]
  <2>0. 1 - 1 = 0
    OBVIOUS
  <2>1. PICK P : RunningSums(P, 1, f)
    BY <2>0, RunningSumsExist
  <2>2. Total(1, f) = P[1]
    BY <2>0, <2>1, TotalIs
  <2>3. P[0] = 0 /\ P[0 + 1] = P[0] + f[0]
    BY <2>0, <2>1 DEF RunningSums
  <2> QED BY <2>2, <2>3
<1>2. ASSUME NEW f \in [0..1 -> Int] PROVE Total(2, f) = f[0] + f[1]
  <2>0. 2 - 1 = 1
    OBVIOUS
  <2>1. PICK P : RunningSums(P, 2, f)
    BY <2>0, RunningSumsExist
  <2>2. Total(2, f) = P[2]
    BY <2>0, <2>1, TotalIs
  <2>3. P[0] = 0 /\ P[0 + 1] = P[0] + f[0] /\ P[1 + 1] = P[1] + f[1]
    BY <2>0, <2>1 DEF RunningSums
  <2> QED BY <2>2, <2>3
<1> QED BY <1>1, <1>2

(* Sums are linear. *)
LEMMA TotalLinear ==
  ASSUME NEW n \in Nat, NEW a \in Int, NEW b \in Int,
         NEW f \in [0..(n - 1) -> Int], NEW g \in [0..(n - 1) -> Int]
  PROVE  Total(n, [i \in 0..(n - 1) |-> a * f[i] + b * g[i]])
           = a * Total(n, f) + b * Total(n, g)
<1> DEFINE h == [i \in 0..(n - 1) |-> a * f[i] + b * g[i]]
<1>1. PICK P : RunningSums(P, n, f)
  BY RunningSumsExist
<1>2. PICK Q : RunningSums(Q, n, g)
  BY RunningSumsExist
<1> DEFINE R == [i \in 0..n |-> a * P[i] + b * Q[i]]
<1>0. \A x, y \in Int : a * x \in Int /\ b * y \in Int /\ a * x + b * y \in Int
  OBVIOUS
<1>3. h \in [0..(n - 1) -> Int] /\ R \in [0..n -> Int]
  <2>1. \A i \in 0..(n - 1) : a * f[i] + b * g[i] \in Int
    BY <1>0
  <2>2. \A i \in 0..n : P[i] \in Int /\ Q[i] \in Int
    BY <1>1, <1>2 DEF RunningSums
  <2>3. \A i \in 0..n : a * P[i] + b * Q[i] \in Int
    BY <1>0, <2>2
  <2> QED BY <2>1, <2>3
<1>4. RunningSums(R, n, h)
  <2>1. R[0] = 0
    <3>1. P[0] = 0 /\ Q[0] = 0 /\ 0 \in 0..n
      BY <1>1, <1>2 DEF RunningSums
    <3> QED BY <3>1
  <2>2. ASSUME NEW i \in 0..(n - 1) PROVE R[i + 1] = R[i] + h[i]
    <3>1. P[i + 1] = P[i] + f[i] /\ Q[i + 1] = Q[i] + g[i]
          /\ P[i] \in Int /\ Q[i] \in Int /\ f[i] \in Int /\ g[i] \in Int
          /\ i \in 0..n /\ i + 1 \in 0..n
      BY <1>1, <1>2 DEF RunningSums
    <3>2. a * (P[i] + f[i]) = a * P[i] + a * f[i] /\ b * (Q[i] + g[i]) = b * Q[i] + b * g[i]
      BY <3>1
    <3>3. R[i + 1] = a * (P[i] + f[i]) + b * (Q[i] + g[i]) /\ R[i] = a * P[i] + b * Q[i]
          /\ h[i] = a * f[i] + b * g[i]
      BY <3>1
    <3>4. /\ a * P[i] \in Int /\ a * f[i] \in Int /\ b * Q[i] \in Int /\ b * g[i] \in Int
      BY <1>0, <3>1
    <3> DEFINE w == a * P[i]
               x == a * f[i]
               y == b * Q[i]
               z == b * g[i]
    <3>5. w \in Int /\ x \in Int /\ y \in Int /\ z \in Int
      BY <3>4
    <3>6. (w + x) + (y + z) = (w + y) + (x + z)
      <4> HIDE DEF w, x, y, z
      <4> QED BY <3>5
    <3>7. R[i + 1] = (w + x) + (y + z) /\ R[i] = w + y /\ h[i] = x + z
      BY ONLY <3>2, <3>3, Zenon
    <3> HIDE DEF R, h, w, x, y, z
    <3> QED BY <3>6, <3>7, Zenon
  <2> HIDE DEF R, h
  <2> QED BY <1>3, <2>1, <2>2 DEF RunningSums
<1>5. Total(n, h) = R[n]
  <2> HIDE DEF R, h
  <2> QED BY <1>3, <1>4, TotalIs
<1>6. Total(n, f) = P[n] /\ Total(n, g) = Q[n]
  BY <1>1, <1>2, TotalIs
<1> QED BY <1>5, <1>6

(* A sum of n numbers within limits is within n times those. *)
LEMMA TotalBounds ==
  ASSUME NEW n \in Nat, NEW lo \in Int, NEW hi \in Int,
         NEW f \in [0..(n - 1) -> Int], \A i \in 0..(n - 1) : lo <= f[i] /\ f[i] <= hi
  PROVE  n * lo <= Total(n, f) /\ Total(n, f) <= n * hi
<1>1. PICK P : RunningSums(P, n, f)
  BY RunningSumsExist
<1> DEFINE S == {k \in Nat : k <= n => k * lo <= P[k] /\ P[k] <= k * hi}
<1>2. 0 \in S
  BY <1>1 DEF RunningSums
<1>3. ASSUME NEW k \in Nat, k \in S PROVE k + 1 \in S
  <2> SUFFICES ASSUME k + 1 <= n
               PROVE  (k + 1) * lo <= P[k + 1] /\ P[k + 1] <= (k + 1) * hi
    OBVIOUS
  <2>1. k \in 0..(n - 1) /\ k \in 0..n
    OBVIOUS
  <2>2. P[k + 1] = P[k] + f[k] /\ P[k] \in Int /\ f[k] \in Int
        /\ k * lo <= P[k] /\ P[k] <= k * hi
    BY <1>1, <1>3, <2>1 DEF RunningSums
  <2>3. lo <= f[k] /\ f[k] <= hi
    BY <2>1
  <2>4. (k + 1) * lo = k * lo + lo /\ (k + 1) * hi = k * hi + hi
        /\ k * lo \in Int /\ k * hi \in Int
    OBVIOUS
  <2> QED BY <2>2, <2>3, <2>4
<1> HIDE DEF S
<1>4. n \in S
  BY <1>2, <1>3, SubsetInduction
<1>5. n * lo <= P[n] /\ P[n] <= n * hi
  BY <1>4 DEF S
<1> QED BY <1>1, <1>5, TotalIs

(* A sum may be taken in groups of the same size. *)
LEMMA TotalInGroups ==
  ASSUME NEW a \in Nat, NEW b \in Nat, NEW f \in [0..(a * b - 1) -> Int]
  PROVE  Total(a * b, f) =
           Total(a, [m \in 0..(a - 1) |-> Total(b, [j \in 0..(b - 1) |-> f[b * m + j]])])
<1> DEFINE part(m) == [j \in 0..(b - 1) |-> f[b * m + j]]
           g == [m \in 0..(a - 1) |-> Total(b, part(m))]
<1>0. a * b \in Nat
  OBVIOUS
<1>1. PICK P : RunningSums(P, a * b, f)
  BY <1>0, RunningSumsExist
<1>2. ASSUME NEW m \in 0..a PROVE b * m \in 0..(a * b)
  BY <1>2
<1>3. ASSUME NEW m \in 0..(a - 1)
      PROVE  /\ Total(b, part(m)) = P[b * m + b] - P[b * m]
             /\ Total(b, part(m)) \in Int
             /\ b * m + b = b * (m + 1)
  <2>0. b * m \in Nat /\ b * m + b <= a * b /\ b * m + b = b * (m + 1)
    <3>1. m + 1 \in 0..a
      OBVIOUS
    <3>2. b * (m + 1) \in 0..(a * b)
      BY <1>2, <3>1
    <3>3. b * (m + 1) = b * m + b /\ b * m \in Nat
      OBVIOUS
    <3> QED BY <3>2, <3>3
  <2> DEFINE from == b * m
             Q == [j \in 0..b |-> P[from + j] - P[from]]
  <2>1. from \in Nat /\ from + b <= a * b /\ a * b \in Nat
    BY <1>0, <2>0
  <2> HIDE DEF from
  <2>2. \A j \in 0..b : from + j \in 0..(a * b) /\ P[from + j] \in Int
    <3> TAKE j \in 0..b
    <3>1. from + j \in 0..(a * b)
      BY <2>1
    <3> QED BY <1>1, <3>1 DEF RunningSums
  <2>3. part(m) \in [0..(b - 1) -> Int] /\ \A j \in 0..(b - 1) : part(m)[j] = f[from + j]
    <3> DEFINE N == a * b
    <3>1. \A j \in 0..(b - 1) : from + j \in 0..(N - 1)
      <4>1. N \in Nat /\ from + b <= N
        BY <2>1
      <4> HIDE DEF N
      <4> QED BY <2>1, <4>1
    <3>2. f \in [0..(N - 1) -> Int]
      OBVIOUS
    <3> HIDE DEF N
    <3>3. \A j \in 0..(b - 1) : f[from + j] \in Int
      BY <3>1, <3>2
    <3>4. part(m) = [j \in 0..(b - 1) |-> f[from + j]]
      BY DEF from
    <3> HIDE DEF part
    <3> QED BY <3>3, <3>4
  <2>4. RunningSums(Q, b, part(m))
    <3>1. Q \in [0..b -> Int] /\ Q[0] = 0
      <4>1. \A j \in 0..b : P[from + j] - P[from] \in Int
        <5>1. from + 0 = from /\ 0 \in 0..b
          BY <2>1
        <5>2. P[from] \in Int
          BY <2>2, <5>1
        <5> QED BY <2>2, <5>2
      <4>2. from + 0 = from /\ 0 \in 0..b
        BY <2>1
      <4>3. P[from] \in Int
        BY <2>2, <4>2
      <4> QED BY <4>1, <4>2, <4>3
    <3>2. ASSUME NEW j \in 0..(b - 1) PROVE Q[j + 1] = Q[j] + part(m)[j]
      <4> DEFINE N == a * b
      <4>0. N \in Nat /\ from + b <= N
        BY <2>1
      <4>1. \A i \in 0..(N - 1) : P[i + 1] = P[i] + f[i]
        BY <1>1 DEF RunningSums
      <4> HIDE DEF N
      <4>2. from + j \in 0..(N - 1) /\ (from + j) + 1 = from + (j + 1)
            /\ j \in 0..b /\ j + 1 \in 0..b /\ from + 0 = from /\ 0 \in 0..b
        BY <2>1, <4>0
      <4>3. P[from + (j + 1)] = P[from + j] + part(m)[j]
        <5> HIDE DEF part
        <5> QED BY <2>3, <4>1, <4>2
      <4>4. P[from] \in Int /\ P[from + j] \in Int /\ P[from + (j + 1)] \in Int
            /\ part(m)[j] \in Int
        <5> HIDE DEF part
        <5> QED BY <2>2, <2>3, <4>2
      <4>5. Q[j + 1] = P[from + (j + 1)] - P[from] /\ Q[j] = P[from + j] - P[from]
        BY <4>2
      <4> HIDE DEF Q, part
      <4> QED BY <4>3, <4>4, <4>5
    <3> HIDE DEF Q, part
    <3> QED BY <3>1, <3>2 DEF RunningSums
  <2>5. Total(b, part(m)) = Q[b] /\ Total(b, part(m)) \in Int
    <3> HIDE DEF Q, part
    <3> QED BY <2>3, <2>4, TotalIs
  <2>6. Q[b] = P[from + b] - P[from]
    OBVIOUS
  <2> QED BY <2>0, <2>5, <2>6 DEF from
<1> DEFINE R == [m \in 0..a |-> P[b * m]]
<1>4. R \in [0..a -> Int]
  <2>1. \A m \in 0..a : P[b * m] \in Int
    BY <1>1, <1>2 DEF RunningSums
  <2> QED BY <2>1
<1>5. g \in [0..(a - 1) -> Int]
  <2> HIDE DEF part
  <2> QED BY <1>3
<1>6. RunningSums(R, a, g)
  <2>1. R[0] = 0
    <3>1. b * 0 = 0 /\ 0 \in 0..a
      OBVIOUS
    <3> QED BY <1>1, <3>1 DEF RunningSums
  <2>2. ASSUME NEW m \in 0..(a - 1) PROVE R[m + 1] = R[m] + g[m]
    <3> HIDE DEF part
    <3>1. m \in 0..a /\ m + 1 \in 0..a
      OBVIOUS
    <3>2. R[m] = P[b * m] /\ R[m + 1] = P[b * (m + 1)]
      BY <3>1
    <3>3. g[m] = P[b * (m + 1)] - P[b * m]
      BY <1>3
    <3>4. R[m] \in Int /\ R[m + 1] \in Int
      BY <1>4, <3>1
    <3> HIDE DEF R, g
    <3> QED BY <3>2, <3>3, <3>4
  <2> HIDE DEF R, g
  <2> QED BY <1>4, <2>1, <2>2 DEF RunningSums
<1>7. Total(a, g) = R[a]
  <2> HIDE DEF R, g
  <2> QED BY <1>5, <1>6, TotalIs
<1>8. R[a] = P[a * b]
  <2>1. b * a = a * b /\ a \in 0..a
    OBVIOUS
  <2> QED BY <2>1
<1>9. Total(a * b, f) = P[a * b]
  BY <1>0, <1>1, TotalIs
<1> HIDE DEF R
<1> QED BY <1>7, <1>8, <1>9

(* A table is the function it is made from.                                 *)
LEMMA TableIs == \A f : Table(f) = f
BY DEF Table

-----------------------------------------------------------------------------
(* Sums of sums. *)

(* Two halves may be summed side by side. *)
LEMMA TotalOfHalves ==
  ASSUME NEW h \in Nat, NEW f \in [0..(2 * h - 1) -> Int]
  PROVE  Total(2 * h, f) = Total(h, [i \in 0..(h - 1) |-> f[i] + f[h + i]])
<1> DEFINE g == [i \in 0..(h - 1) |-> f[i] + f[h + i]]
<1>0. 2 * h \in Nat
  OBVIOUS
<1>1. PICK P : RunningSums(P, 2 * h, f)
  BY <1>0, RunningSumsExist
<1>2. /\ \A k \in 0..(2 * h) : P[k] \in Int
      /\ P[0] = 0
      /\ \A k \in 0..(2 * h - 1) : P[k + 1] = P[k] + f[k]
  BY <1>1 DEF RunningSums
<1> DEFINE R == [k \in 0..h |-> P[k] + P[h + k] - P[h]]
<1>3. \A k \in 0..h : k \in 0..(2 * h) /\ h + k \in 0..(2 * h) /\ h \in 0..(2 * h)
  OBVIOUS
<1>4. R \in [0..h -> Int]
  <2>1. ASSUME NEW k \in 0..h PROVE P[k] + P[h + k] - P[h] \in Int
    <3>1. P[k] \in Int /\ P[h + k] \in Int /\ P[h] \in Int
      BY <1>2, <1>3
    <3> QED BY <3>1
  <2> QED BY <2>1
<1>5. g \in [0..(h - 1) -> Int]
  <2>1. \A i \in 0..(h - 1) : i \in 0..(2 * h - 1) /\ h + i \in 0..(2 * h - 1)
    OBVIOUS
  <2>2. \A i \in 0..(h - 1) : f[i] + f[h + i] \in Int
    BY <2>1
  <2> QED BY <2>2
<1>6. RunningSums(R, h, g)
  <2>1. R[0] = 0
    <3>1. h + 0 = h /\ 0 \in 0..h
      OBVIOUS
    <3> QED BY <1>2, <1>3, <3>1
  <2>2. ASSUME NEW i \in 0..(h - 1) PROVE R[i + 1] = R[i] + g[i]
    <3>1. i \in 0..(2 * h - 1) /\ h + i \in 0..(2 * h - 1) /\ h + (i + 1) = (h + i) + 1
          /\ i \in 0..h /\ i + 1 \in 0..h
      OBVIOUS
    <3>2. P[i + 1] = P[i] + f[i] /\ P[h + (i + 1)] = P[h + i] + f[h + i]
      BY <1>2, <3>1
    <3>3. R[i + 1] = P[i + 1] + P[h + (i + 1)] - P[h] /\ R[i] = P[i] + P[h + i] - P[h]
          /\ g[i] = f[i] + f[h + i]
      BY <3>1
    <3>4. P[i] \in Int /\ P[h + i] \in Int /\ P[h] \in Int /\ f[i] \in Int /\ f[h + i] \in Int
      BY <1>2, <1>3, <3>1
    <3> HIDE DEF R, g
    <3> QED BY <3>2, <3>3, <3>4
  <2> HIDE DEF R, g
  <2> QED BY <1>4, <2>1, <2>2 DEF RunningSums
<1>7. Total(h, g) = R[h]
  <2> HIDE DEF R, g
  <2> QED BY <1>5, <1>6, TotalIs
<1>8. R[h] = P[2 * h]
  <2>1. h + h = 2 * h /\ h \in 0..h
    OBVIOUS
  <2> QED BY <1>2, <1>3, <2>1
<1>9. Total(2 * h, f) = P[2 * h]
  BY <1>0, <1>1, TotalIs
<1> HIDE DEF R
<1> QED BY <1>7, <1>8, <1>9

(* A sum of terms that are zero outside a window is that of the window. *)
LEMMA TotalOfWindow ==
  ASSUME NEW n \in Nat, NEW from \in Nat, NEW w \in Nat, from + w <= n,
         NEW f \in [0..(n - 1) -> Int],
         \A i \in 0..(n - 1) : ~(i \in from..(from + w - 1)) => f[i] = 0
  PROVE  Total(n, f) = Total(w, [j \in 0..(w - 1) |-> f[from + j]])
<1> DEFINE g == [j \in 0..(w - 1) |-> f[from + j]]
<1>1. g \in [0..(w - 1) -> Int]
  <2>1. \A j \in 0..(w - 1) : from + j \in 0..(n - 1)
    OBVIOUS
  <2> QED BY <2>1
<1>2. PICK Q : RunningSums(Q, w, g)
  <2> HIDE DEF g
  <2> QED BY <1>1, RunningSumsExist
<1>3. /\ \A k \in 0..w : Q[k] \in Int
      /\ Q[0] = 0
      /\ \A j \in 0..(w - 1) : Q[j + 1] = Q[j] + f[from + j]
  <2>1. \A j \in 0..(w - 1) : g[j] = f[from + j]
    OBVIOUS
  <2> HIDE DEF g
  <2> QED BY <1>2, <2>1 DEF RunningSums
<1> DEFINE c(k) == IF k < from THEN 0 ELSE IF k > from + w THEN w ELSE k - from
           R == [k \in 0..n |-> Q[c(k)]]
<1>4. \A k \in 0..n : c(k) \in 0..w
  OBVIOUS
<1>5. R \in [0..n -> Int]
  <2> HIDE DEF c
  <2>1. \A k \in 0..n : Q[c(k)] \in Int
    BY <1>3, <1>4
  <2> QED BY <2>1
<1>6. RunningSums(R, n, f)
  <2>1. R[0] = 0
    <3>1. c(0) = 0 /\ 0 \in 0..n
      OBVIOUS
    <3> HIDE DEF c
    <3> QED BY <1>3, <3>1
  <2>2. ASSUME NEW i \in 0..(n - 1) PROVE R[i + 1] = R[i] + f[i]
    <3>1. i \in 0..n /\ i + 1 \in 0..n
      OBVIOUS
    <3>2. R[i + 1] = Q[c(i + 1)] /\ R[i] = Q[c(i)]
      <4> HIDE DEF c
      <4> QED BY <3>1
    <3>3. CASE i \in from..(from + w - 1)
      <4>1. PICK j \in 0..(w - 1) : i = from + j
        <5>1. i - from \in 0..(w - 1) /\ i = from + (i - from)
          BY <3>3
        <5> QED BY <5>1
      <4>2. c(i) = j /\ c(i + 1) = j + 1
        BY <4>1
      <4> HIDE DEF c, R, g
      <4> QED BY <1>3, <3>2, <4>1, <4>2
    <3>4. CASE ~(i \in from..(from + w - 1))
      <4>1. c(i) = c(i + 1)
        BY <3>4
      <4>2. f[i] = 0
        BY <3>4
      <4>3. R[i] \in Int
        <5> HIDE DEF R
        <5> QED BY <1>5, <3>1
      <4> HIDE DEF c, R, g
      <4> QED BY <3>2, <4>1, <4>2, <4>3
    <3> QED BY <3>3, <3>4
  <2> HIDE DEF R
  <2> QED BY <1>5, <2>1, <2>2 DEF RunningSums
<1>7. Total(n, f) = R[n]
  <2> HIDE DEF R
  <2> QED BY <1>6, TotalIs
<1>8. R[n] = Q[w]
  <2>1. c(n) = w /\ n \in 0..n
    OBVIOUS
  <2> HIDE DEF c
  <2> QED BY <2>1
<1>9. Total(w, g) = Q[w]
  <2> HIDE DEF g
  <2> QED BY <1>1, <1>2, TotalIs
<1> QED BY <1>7, <1>8, <1>9

(* A sum with one term. *)
LEMMA TotalOfOne ==
  ASSUME NEW n \in Nat, NEW k \in 0..(n - 1), NEW f \in [0..(n - 1) -> Int],
         \A i \in 0..(n - 1) : i # k => f[i] = 0
  PROVE  Total(n, f) = f[k]
<1> DEFINE g == [j \in 0..(1 - 1) |-> f[k + j]]
<1>1. Total(n, f) = Total(1, g)
  <2>1. \A i \in 0..(n - 1) : ~(i \in k..(k + 1 - 1)) => f[i] = 0
    <3> TAKE i \in 0..(n - 1)
    <3>1. ~(i \in k..(k + 1 - 1)) => i # k
      OBVIOUS
    <3> QED BY <3>1
  <2>2. k \in Nat /\ 1 \in Nat /\ k + 1 <= n
    OBVIOUS
  <2> HIDE DEF g
  <2>3. Total(n, f) = Total(1, [j \in 0..(1 - 1) |-> f[k + j]])
    BY ONLY <2>1, <2>2, TotalOfWindow, n \in Nat, f \in [0..(n - 1) -> Int]
  <2> QED BY <2>3 DEF g
<1>2. g \in [0..0 -> Int] /\ g[0] = f[k]
  <2>1. 1 - 1 = 0 /\ k + 0 = k
    OBVIOUS
  <2>2. f[k] \in Int
    OBVIOUS
  <2>3. g = [j \in 0..0 |-> f[k + j]]
    BY <2>1
  <2>4. \A j \in 0..0 : j = 0 /\ k + j = k
    OBVIOUS
  <2> HIDE DEF g
  <2> QED BY <2>2, <2>3, <2>4
<1> HIDE DEF g
<1> QED BY <1>1, <1>2, TotalOfFew

(* Rows first or columns first. *)
LEMMA TotalSwap ==
  ASSUME NEW n \in Nat, NEW m \in Nat, NEW M \in [0..(n - 1) -> [0..(m - 1) -> Int]]
  PROVE  Total(n, [i \in 0..(n - 1) |-> Total(m, M[i])])
           = Total(m, [j \in 0..(m - 1) |-> Total(n, [i \in 0..(n - 1) |-> M[i][j]])])
<1> DEFINE column(j) == [i \in 0..(n - 1) |-> M[i][j]]
           P == [j \in 0..(m - 1) |-> CHOOSE P : RunningSums(P, n, column(j))]
           sums == [i \in 0..(n - 1) |-> Total(m, M[i])]
           prefix(k) == [j \in 0..(m - 1) |-> P[j][k]]
           R == [k \in 0..n |-> Total(m, prefix(k))]
<1>1. \A j \in 0..(m - 1) : column(j) \in [0..(n - 1) -> Int]
  OBVIOUS
<1>2. ASSUME NEW j \in 0..(m - 1)
      PROVE  /\ RunningSums(P[j], n, column(j))
             /\ Total(n, column(j)) = P[j][n]
             /\ \A k \in 0..n : P[j][k] \in Int
             /\ P[j][0] = 0
             /\ \A i \in 0..(n - 1) : P[j][i + 1] = P[j][i] + M[i][j]
  <2>0. column(j) \in [0..(n - 1) -> Int] /\ \A i \in 0..(n - 1) : column(j)[i] = M[i][j]
    OBVIOUS
  <2> HIDE DEF column
  <2>1. \E Q : RunningSums(Q, n, column(j))
    BY <2>0, RunningSumsExist
  <2>2. RunningSums(P[j], n, column(j))
    BY <2>1
  <2> HIDE DEF P
  <2>3. Total(n, column(j)) = P[j][n]
    BY <2>0, <2>2, TotalIs
  <2> QED BY <2>0, <2>2, <2>3 DEF RunningSums
<1> HIDE DEF P
<1>3. \A k \in 0..n : prefix(k) \in [0..(m - 1) -> Int]
  BY <1>2
<1>4. sums \in [0..(n - 1) -> Int]
  <2>1. \A i \in 0..(n - 1) : M[i] \in [0..(m - 1) -> Int]
    OBVIOUS
  <2>2. \A i \in 0..(n - 1) : Total(m, M[i]) \in Int
    BY <2>1, TotalType
  <2> QED BY <2>2
<1>5. RunningSums(R, n, sums)
  <2>1. R \in [0..n -> Int]
    <3> HIDE DEF prefix
    <3>1. \A k \in 0..n : Total(m, prefix(k)) \in Int
      BY <1>3, TotalType
    <3> QED BY <3>1
  <2>2. R[0] = 0
    <3> DEFINE z == prefix(0)
    <3>1. z \in [0..(m - 1) -> Int] /\ \A j \in 0..(m - 1) : 0 <= z[j] /\ z[j] <= 0
      <4>1. \A j \in 0..(m - 1) : z[j] = 0
        BY <1>2
      <4>2. z \in [0..(m - 1) -> Int]
        BY <1>3
      <4> HIDE DEF z
      <4> QED BY <4>1, <4>2
    <3>2. R[0] = Total(m, z)
      OBVIOUS
    <3> HIDE DEF z, R
    <3>3. m * 0 <= Total(m, z) /\ Total(m, z) <= m * 0 /\ Total(m, z) \in Int
      <4>1. 0 \in Int
        OBVIOUS
      <4> QED BY <3>1, <4>1, TotalBounds, TotalType
    <3> QED BY <3>2, <3>3
  <2>3. ASSUME NEW i \in 0..(n - 1) PROVE R[i + 1] = R[i] + sums[i]
    <3>0. i \in 0..n /\ i + 1 \in 0..n
      OBVIOUS
    <3> DEFINE p == prefix(i)
               q == prefix(i + 1)
               r == M[i]
               s == [j \in 0..(m - 1) |-> 1 * p[j] + 1 * r[j]]
    <3>1. p \in [0..(m - 1) -> Int] /\ q \in [0..(m - 1) -> Int] /\ r \in [0..(m - 1) -> Int]
      <4> HIDE DEF prefix
      <4> QED BY <1>3, <3>0
    <3>2. \A j \in 0..(m - 1) : q[j] = p[j] + r[j]
      BY <1>2
    <3>3. R[i] = Total(m, p) /\ R[i + 1] = Total(m, q) /\ sums[i] = Total(m, r)
      <4> HIDE DEF prefix
      <4> QED BY <3>0
    <3> HIDE DEF p, q, r, R, sums
    <3>4. q = s
      BY <3>1, <3>2
    <3>5. Total(m, s) = 1 * Total(m, p) + 1 * Total(m, r)
      <4>1. 1 \in Int
        OBVIOUS
      <4> QED BY <3>1, <4>1, TotalLinear
    <3>6. Total(m, p) \in Int /\ Total(m, r) \in Int
      BY <3>1, TotalType
    <3> HIDE DEF s
    <3> QED BY <3>3, <3>4, <3>5, <3>6
  <2> HIDE DEF R, sums
  <2> QED BY <2>1, <2>2, <2>3 DEF RunningSums
<1>6. Total(n, sums) = R[n]
  <2> HIDE DEF R, sums
  <2> QED BY <1>4, <1>5, TotalIs
<1>7. R[n] = Total(m, prefix(n))
  <2> HIDE DEF prefix
  <2> QED OBVIOUS
<1>8. prefix(n) = [j \in 0..(m - 1) |-> Total(n, column(j))]
  <2> HIDE DEF column
  <2> QED BY <1>2
<1> HIDE DEF R, sums, prefix
<1> QED BY <1>6, <1>7, <1>8 DEF sums

-----------------------------------------------------------------------------
(* Powers. *)

(* Two to the power k counts the subsets of a set of k, which is how the    *)
(* prover learns that it doubles.                                           *)
LEMMA PowersOfTwo ==
  /\ 2^0 = 1
  /\ \A k \in Nat : 2^k \in Nat \ {0}
  /\ \A k \in Nat : 2^(k + 1) = 2 * 2^k
<1> DEFINE A(k) == SUBSET (1..k)
<1>1. ASSUME NEW k \in Nat
      PROVE  IsFiniteSet(A(k)) /\ Cardinality(A(k)) = 2^k /\ Cardinality(A(k)) \in Nat
  <2>1. IsFiniteSet(1..k) /\ Cardinality(1..k) = k
    <3>1. 1 \in Int /\ k \in Int /\ (IF 1 > k THEN 0 ELSE k - 1 + 1) = k
      OBVIOUS
    <3>2. IsFiniteSet(1..k) /\ Cardinality(1..k) = IF 1 > k THEN 0 ELSE k - 1 + 1
      BY <3>1, FS_Interval
    <3> QED BY <3>1, <3>2
  <2>2. IsFiniteSet(A(k)) /\ Cardinality(A(k)) = 2^Cardinality(1..k)
    BY <2>1, FS_SUBSET
  <2>3. Cardinality(A(k)) = 2^k
    BY <2>1, <2>2
  <2> QED BY <2>2, <2>3, FS_CardinalityType
<1>2. ASSUME NEW k \in Nat
      PROVE  Cardinality(A(k + 1)) = 2 * Cardinality(A(k))
  <2> DEFINE B == {X \cup {k + 1} : X \in A(k)}
             add == [X \in A(k) |-> X \cup {k + 1}]
  <2>1. A(k + 1) = A(k) \cup B
    <3>1. ASSUME NEW X \in A(k + 1) PROVE X \in A(k) \cup B
      <4>1. CASE k + 1 \in X
        <5>1. X \ {k + 1} \in A(k) /\ X = (X \ {k + 1}) \cup {k + 1}
          BY <4>1
        <5> QED BY <5>1
      <4>2. CASE k + 1 \notin X
        BY <4>2
      <4> QED BY <4>1, <4>2
    <3>2. A(k) \subseteq A(k + 1)
      OBVIOUS
    <3>3. B \subseteq A(k + 1)
      <4>1. \A X \in A(k) : X \cup {k + 1} \in A(k + 1)
        OBVIOUS
      <4> HIDE DEF A
      <4> QED BY <4>1
    <3> QED BY <3>1, <3>2, <3>3
  <2>2. A(k) \cap B = {}
    <3>1. k + 1 \notin 1..k
      OBVIOUS
    <3>2. \A X \in A(k) : k + 1 \notin X
      BY <3>1
    <3>3. \A X \in B : k + 1 \in X
      OBVIOUS
    <3> HIDE DEF A, B
    <3> QED BY <3>2, <3>3
  <2>3. ExistsBijection(A(k), B)
    <3>1. \A X, Y \in A(k) : add[X] = add[Y] => X = Y
      <4>1. k + 1 \notin 1..k
        OBVIOUS
      <4> TAKE X, Y \in A(k)
      <4>2. k + 1 \notin X /\ k + 1 \notin Y
        BY <4>1
      <4>3. add[X] = X \cup {k + 1} /\ add[Y] = Y \cup {k + 1}
        OBVIOUS
      <4> HIDE DEF A, add
      <4> QED BY <4>2, <4>3
    <3>2. add \in [A(k) -> B] /\ \A Y \in B : \E X \in A(k) : add[X] = Y
      <4> HIDE DEF A
      <4> QED OBVIOUS
    <3> HIDE DEF A, B, add
    <3>3. add \in Bijection(A(k), B)
      BY <3>1, <3>2 DEF Bijection, Injection, Surjection, IsInjective
    <3> QED BY <3>3 DEF ExistsBijection
  <2>4. IsFiniteSet(A(k)) /\ Cardinality(A(k)) \in Nat
    BY <1>1
  <2> HIDE DEF A, B, add
  <2>5. IsFiniteSet(B) /\ Cardinality(B) = Cardinality(A(k))
    BY <2>3, <2>4, FS_Bijection
  <2>6. Cardinality(A(k) \cup B)
          = Cardinality(A(k)) + Cardinality(B) - Cardinality(A(k) \cap B)
    BY <2>4, <2>5, FS_Union
  <2>7. Cardinality(A(k) \cap B) = 0
    BY <2>2, FS_EmptySet
  <2>8. PICK a \in Nat : a = Cardinality(A(k))
    BY <2>4
  <2>9. Cardinality(A(k + 1)) = a + a - 0
    BY <2>1, <2>5, <2>6, <2>7, <2>8
  <2> QED BY <2>8, <2>9
<1> HIDE DEF A
<1>3. \A k \in Nat : 2^(k + 1) = 2 * 2^k /\ 2^k \in Nat
  <2> TAKE k \in Nat
  <2>1. k + 1 \in Nat
    OBVIOUS
  <2>2. 2^(k + 1) = Cardinality(A(k + 1)) /\ 2^k = Cardinality(A(k))
    BY <1>1, <2>1
  <2> QED BY <1>1, <1>2, <2>2
<1> DEFINE P == [k \in Nat |-> 2^k]
           S == {k \in Nat : P[k] \in Nat \ {0}}
<1>4. 2^0 = 1
  OBVIOUS
<1>7. \A k \in Nat : 2^k = P[k]
  OBVIOUS
<1>5. P[0] = 1 /\ \A k \in Nat : P[k + 1] = 2 * P[k] /\ P[k] \in Nat
  <2> HIDE DEF P
  <2>1. 0 \in Nat /\ \A k \in Nat : k + 1 \in Nat
    OBVIOUS
  <2> QED BY <1>3, <1>4, <1>7, <2>1
<1>6. \A k \in Nat : k \in S
  <2> HIDE DEF P
  <2>1. 0 \in S
    BY <1>5
  <2>2. \A k \in Nat : k \in S => k + 1 \in S
    BY <1>5
  <2> HIDE DEF S
  <2> QED BY <2>1, <2>2, SubsetInduction
<1>8. \A k \in Nat : P[k] \in Nat \ {0}
  <2> HIDE DEF P
  <2> QED BY <1>6
<1> HIDE DEF P
<1> QED BY <1>3, <1>4, <1>7, <1>8

(* They add up in the exponent, and grow.                                   *)
LEMMA PowersMultiply == \A j, k \in Nat : 2^(j + k) = 2^j * 2^k
<1> SUFFICES ASSUME NEW j \in Nat PROVE \A k \in Nat : 2^(j + k) = 2^j * 2^k
  OBVIOUS
<1> DEFINE P == [k \in Nat |-> 2^k]
           S == {k \in Nat : P[j + k] = P[j] * P[k]}
<1>1. P[0] = 1 /\ \A k \in Nat : P[k + 1] = 2 * P[k] /\ P[k] \in Nat
  BY PowersOfTwo
<1>2. \A k \in Nat : 2^k = P[k] /\ j + k \in Nat
  OBVIOUS
<1> HIDE DEF P
<1>3. 0 \in S
  <2>1. j + 0 = j /\ P[j] \in Nat
    BY <1>1
  <2> QED BY <1>1, <2>1
<1>4. ASSUME NEW k \in Nat, k \in S PROVE k + 1 \in S
  <2>1. j + (k + 1) = (j + k) + 1 /\ j + k \in Nat
    OBVIOUS
  <2>2. P[(j + k) + 1] = 2 * P[j + k] /\ P[k + 1] = 2 * P[k] /\ P[j + k] = P[j] * P[k]
    BY <1>1, <1>4, <2>1
  <2>3. PICK a \in Nat, b \in Nat : a = P[j] /\ b = P[k]
    BY <1>1
  <2>4. 2 * (a * b) = a * (2 * b)
    OBVIOUS
  <2> QED BY <2>1, <2>2, <2>3, <2>4
<1> HIDE DEF S
<1>5. \A k \in Nat : k \in S
  BY <1>3, <1>4, SubsetInduction
<1> QED BY <1>2, <1>5 DEF S

(* They grow faster than their exponents.                                   *)
LEMMA PowersGrow ==
  /\ \A k \in Nat : k < 2^k
  /\ \A j, k \in Nat : j < k => 2 * 2^j <= 2^k
  /\ \A j, k \in Nat : j <= k <=> 2^j <= 2^k
<1>1. \A k \in Nat : k < 2^k
  <2> DEFINE P == [k \in Nat |-> 2^k]
             S == {k \in Nat : k < P[k]}
  <2>1. P[0] = 1 /\ \A k \in Nat : P[k + 1] = 2 * P[k] /\ P[k] \in Nat
    BY PowersOfTwo
  <2>2. \A k \in Nat : 2^k = P[k]
    OBVIOUS
  <2> HIDE DEF P
  <2>3. 0 \in S /\ \A k \in Nat : k \in S => k + 1 \in S
    BY <2>1
  <2> HIDE DEF S
  <2>4. \A k \in Nat : k \in S
    BY <2>3, SubsetInduction
  <2> QED BY <2>2, <2>4 DEF S
<1>2. ASSUME NEW j \in Nat, NEW k \in Nat, j < k PROVE 2 * 2^j <= 2^k
  <2>1. PICK d \in Nat : k = (j + 1) + d
    <3>1. k - (j + 1) \in Nat /\ k = (j + 1) + (k - (j + 1))
      BY <1>2
    <3> QED BY <3>1
  <2>2. j + 1 \in Nat
    OBVIOUS
  <2>3. 2^k = (2 * 2^j) * 2^d
    BY <2>1, <2>2, PowersOfTwo, PowersMultiply
  <2>4. PICK a \in Nat, b \in Nat : a = 2^j /\ b = 2^d /\ b # 0
    BY PowersOfTwo
  <2>5. 2 * a <= (2 * a) * b
    BY <2>4
  <2> QED BY <2>3, <2>4, <2>5
<1>3. ASSUME NEW j \in Nat, NEW k \in Nat PROVE j <= k <=> 2^j <= 2^k
  <2>1. 2^j \in Nat /\ 2^k \in Nat /\ 2^j # 0 /\ 2^k # 0
    BY PowersOfTwo
  <2>2. PICK a \in Nat, b \in Nat : a = 2^j /\ b = 2^k /\ a # 0 /\ b # 0
    BY <2>1
  <2>3. CASE j < k
    <3>1. 2 * a <= b
      BY <1>2, <2>2, <2>3
    <3> QED BY <2>2, <2>3, <3>1
  <2>4. CASE k < j
    <3>1. 2 * b <= a
      BY <1>2, <2>2, <2>4
    <3> QED BY <2>2, <2>4, <3>1
  <2>5. CASE j = k
    BY <2>1, <2>5
  <2> QED BY <2>3, <2>4, <2>5
<1> QED BY <1>1, <1>2, <1>3

(* The powers Power goes through. *)
LEMMA PowerSteps ==
  ASSUME NEW b \in Int, NEW n \in Nat
  PROVE  \E P \in [0..n -> Int] :
           /\ P[0] = 1 /\ P[n] = Power(b, n)
           /\ \A k \in 1..n : P[k] = b * P[k - 1]
<1> DEFINE Unfolds(x) == x = [k \in 0..n |-> IF k = 0 THEN 1 ELSE b * x[k - 1]]
           D == [p \in Int \X (1..n) |-> b * p[1]]
<1>1. PICK f : Recursive(f, Int, 1, n, D)
  <2>1. D \in [Int \X (1..n) -> Int] /\ 1 \in Int
    OBVIOUS
  <2> HIDE DEF D
  <2> QED BY <2>1, RecursionExists
<1>2. /\ f \in [0..n -> Int] /\ f[0] = 1
      /\ \A k \in 1..n : f[k] = b * f[k - 1]
  <2>1. f \in [0..n -> Int] /\ f[0] = 1 /\ \A k \in 1..n : f[k] = D[<<f[k - 1], k>>]
    <3> HIDE DEF D
    <3> QED BY <1>1 DEF Recursive
  <2>2. \A k \in 1..n : f[k - 1] \in Int
    BY <2>1
  <2> QED BY <2>1, <2>2
<1>3. Unfolds(f)
  BY <1>2
<1> DEFINE P == CHOOSE x : Unfolds(x)
<1>4. Unfolds(P)
  <2> HIDE DEF Unfolds
  <2> QED BY <1>3
<1>5. Power(b, n) = P[n]
  BY DEF Power, Iterate
<1> HIDE DEF P
<1>6. P[0] = 1 /\ \A k \in 1..n : P[k] = b * P[k - 1]
  BY <1>4
<1>7. P \in [0..n -> Int]
  <2> DEFINE S == {k \in Nat : k <= n => P[k] \in Int}
  <2>1. 0 \in S
    BY <1>6
  <2>2. ASSUME NEW k \in Nat, k \in S PROVE k + 1 \in S
    <3>1. k + 1 <= n => (k + 1 \in 1..n /\ (k + 1) - 1 = k)
      OBVIOUS
    <3> QED BY <1>6, <2>2, <3>1
  <2> HIDE DEF S
  <2>3. \A k \in Nat : k \in S
    BY <2>1, <2>2, SubsetInduction
  <2>4. \A k \in 0..n : P[k] \in Int
    BY <2>3 DEF S
  <2>5. P = [k \in 0..n |-> P[k]]
    BY <1>4
  <2> QED BY <2>4, <2>5
<1> QED BY <1>5, <1>6, <1>7

-----------------------------------------------------------------------------
(* Linear algebra over the integers. *)

(* Vectors, and the transforms of them that change inner products by a      *)
(* scale s only, each with the transform that undoes it but for s.          *)
Vec(n) == [0..(n - 1) -> Int]

ScaledIsometry(T, S, s, n) ==
  /\ T \in [Vec(n) -> Vec(n)] /\ S \in [Vec(n) -> Vec(n)] /\ s \in Int
  /\ \A u, v \in Vec(n) : Inner(T[u], v) = Inner(u, S[v])
  /\ \A u, v \in Vec(n) : Inner(T[u], T[v]) = s * Inner(u, v)

(* An inner product is a sum of products, an integer.                       *)
LEMMA InnerIs ==
  ASSUME NEW n \in Nat, NEW u \in Vec(n), NEW v \in Vec(n)
  PROVE  /\ Inner(u, v) = Total(n, [i \in 0..(n - 1) |-> u[i] * v[i]])
         /\ [i \in 0..(n - 1) |-> u[i] * v[i]] \in Vec(n)
         /\ Inner(u, v) \in Int
<1>1. DOMAIN u = 0..(n - 1)
  BY DEF Vec
<1>2. Cardinality(0..(n - 1)) = n
  <2>1. 0 \in Int /\ n - 1 \in Int /\ (IF 0 > n - 1 THEN 0 ELSE n - 1 - 0 + 1) = n
    OBVIOUS
  <2> QED BY <2>1, FS_Interval
<1>3. [i \in 0..(n - 1) |-> u[i] * v[i]] \in Vec(n)
  <2>1. \A i \in 0..(n - 1) : u[i] * v[i] \in Int
    <3> TAKE i \in 0..(n - 1)
    <3>1. u[i] \in Int /\ v[i] \in Int
      BY DEF Vec
    <3> QED BY <3>1
  <2> QED BY <2>1 DEF Vec
<1>4. Inner(u, v) = Total(n, [i \in 0..(n - 1) |-> u[i] * v[i]])
  BY <1>1, <1>2, Zenon DEF Inner, SumTo
<1> QED BY <1>3, <1>4, TotalType DEF Vec

(* It commutes ...                                                          *)
LEMMA InnerCommutes ==
  ASSUME NEW n \in Nat, NEW u \in Vec(n), NEW v \in Vec(n)
  PROVE  Inner(u, v) = Inner(v, u)
<1>1. ASSUME NEW i \in 0..(n - 1) PROVE u[i] * v[i] = v[i] * u[i]
  <2>1. u[i] \in Int /\ v[i] \in Int
    BY DEF Vec
  <2> QED BY <2>1
<1>2. [i \in 0..(n - 1) |-> u[i] * v[i]] = [i \in 0..(n - 1) |-> v[i] * u[i]]
  BY <1>1
<1>3. Inner(u, v) = Total(n, [i \in 0..(n - 1) |-> u[i] * v[i]])
  BY InnerIs
<1>4. Inner(v, u) = Total(n, [i \in 0..(n - 1) |-> v[i] * u[i]])
  BY InnerIs
<1> QED BY <1>2, <1>3, <1>4

(* A common factor comes out of a sum. *)
LEMMA TotalTimes ==
  ASSUME NEW n \in Nat, NEW c \in Int, NEW f \in Vec(n)
  PROVE  Total(n, [i \in 0..(n - 1) |-> c * f[i]]) = c * Total(n, f)
<1>1. f \in [0..(n - 1) -> Int] /\ 0 \in Int
  BY DEF Vec
<1>2. Total(n, [i \in 0..(n - 1) |-> c * f[i] + 0 * f[i]])
        = c * Total(n, f) + 0 * Total(n, f)
  BY <1>1, TotalLinear
<1>3. ASSUME NEW i \in 0..(n - 1) PROVE c * f[i] + 0 * f[i] = c * f[i]
  <2>1. f[i] \in Int
    BY <1>1
  <2> QED BY <2>1
<1>4. [i \in 0..(n - 1) |-> c * f[i] + 0 * f[i]] = [i \in 0..(n - 1) |-> c * f[i]]
  BY <1>3
<1>5. PICK t \in Int : t = Total(n, f)
  BY <1>1, TotalType
<1>6. c * t + 0 * t = c * t
  OBVIOUS
<1> QED BY <1>2, <1>4, <1>5, <1>6

(* ... and scales.                                                          *)
LEMMA InnerScales ==
  ASSUME NEW n \in Nat, NEW c \in Int, NEW u \in Vec(n), NEW v \in Vec(n)
  PROVE  /\ [i \in 0..(n - 1) |-> c * v[i]] \in Vec(n)
         /\ Inner(u, [i \in 0..(n - 1) |-> c * v[i]]) = c * Inner(u, v)
<1> DEFINE w == [i \in 0..(n - 1) |-> c * v[i]]
           f == [i \in 0..(n - 1) |-> u[i] * v[i]]
<1>1. \A i \in 0..(n - 1) : u[i] \in Int /\ v[i] \in Int
  BY DEF Vec
<1>2. w \in Vec(n)
  <2>1. \A i \in 0..(n - 1) : c * v[i] \in Int
    <3> TAKE i \in 0..(n - 1)
    <3>1. PICK b \in Int : b = v[i]
      BY <1>1
    <3> QED BY <3>1
  <2> QED BY <2>1 DEF Vec
<1>3. ASSUME NEW i \in 0..(n - 1) PROVE u[i] * w[i] = c * f[i]
  <2>1. PICK a \in Int, b \in Int : a = u[i] /\ b = v[i]
    BY <1>1
  <2>2. a * (c * b) = c * (a * b)
    OBVIOUS
  <2>3. w[i] = c * v[i] /\ f[i] = u[i] * v[i]
    OBVIOUS
  <2> HIDE DEF w, f
  <2> QED BY <2>1, <2>2, <2>3
<1> HIDE DEF w, f
<1>4. [i \in 0..(n - 1) |-> u[i] * w[i]] = [i \in 0..(n - 1) |-> c * f[i]]
  BY <1>3
<1>5. Inner(u, w) = Total(n, [i \in 0..(n - 1) |-> u[i] * w[i]])
  BY <1>2, InnerIs
<1>6. f \in Vec(n) /\ Inner(u, v) = Total(n, f)
  BY InnerIs DEF f
<1>7. Total(n, [i \in 0..(n - 1) |-> c * f[i]]) = c * Total(n, f)
  BY <1>6, TotalTimes
<1>8. Inner(u, w) = c * Inner(u, v)
  BY <1>4, <1>5, <1>6, <1>7
<1> QED BY <1>2, <1>8 DEF w

(* One after the other, scales multiply and the ways back are taken in the  *)
(* opposite order.                                                          *)
LEMMA IsometriesCompose ==
  ASSUME NEW n \in Nat, NEW T, NEW S, NEW s, ScaledIsometry(T, S, s, n),
         NEW U, NEW R, NEW r, ScaledIsometry(U, R, r, n)
  PROVE  ScaledIsometry([v \in Vec(n) |-> U[T[v]]], [v \in Vec(n) |-> S[R[v]]], r * s, n)
<1> DEFINE F == [v \in Vec(n) |-> U[T[v]]]
           G == [v \in Vec(n) |-> S[R[v]]]
<1>1. /\ \A v \in Vec(n) : T[v] \in Vec(n) /\ S[v] \in Vec(n) /\ U[v] \in Vec(n) /\ R[v] \in Vec(n)
      /\ s \in Int /\ r \in Int
      /\ \A u, v \in Vec(n) : Inner(T[u], v) = Inner(u, S[v])
      /\ \A u, v \in Vec(n) : Inner(T[u], T[v]) = s * Inner(u, v)
      /\ \A u, v \in Vec(n) : Inner(U[u], v) = Inner(u, R[v])
      /\ \A u, v \in Vec(n) : Inner(U[u], U[v]) = r * Inner(u, v)
  BY DEF ScaledIsometry
<1>2. F \in [Vec(n) -> Vec(n)] /\ G \in [Vec(n) -> Vec(n)] /\ r * s \in Int
  BY <1>1
<1>3. ASSUME NEW u \in Vec(n), NEW v \in Vec(n)
      PROVE  Inner(F[u], v) = Inner(u, G[v]) /\ Inner(F[u], F[v]) = (r * s) * Inner(u, v)
  <2>1. Inner(U[T[u]], v) = Inner(T[u], R[v]) /\ Inner(T[u], R[v]) = Inner(u, S[R[v]])
    BY <1>1
  <2>2. Inner(U[T[u]], U[T[v]]) = r * Inner(T[u], T[v]) /\ Inner(T[u], T[v]) = s * Inner(u, v)
    BY <1>1
  <2>3. PICK x \in Int : x = Inner(u, v)
    BY InnerIs
  <2>4. r * (s * x) = (r * s) * x
    BY <1>1
  <2>5. F[u] = U[T[u]] /\ F[v] = U[T[v]] /\ G[v] = S[R[v]]
    OBVIOUS
  <2> HIDE DEF F, G
  <2> QED BY <2>1, <2>2, <2>3, <2>4, <2>5
<1> HIDE DEF F, G
<1>4. ScaledIsometry(F, G, r * s, n)
  BY <1>2, <1>3 DEF ScaledIsometry
<1> QED BY <1>4 DEF F, G

-----------------------------------------------------------------------------
(* Numbers and their bits. *)

(* Quotients and remainders.                                                *)
LEMMA Quotients ==
  ASSUME NEW c \in Nat \ {0}, NEW t \in Int, NEW r \in 0..(c - 1)
  PROVE  (c * t + r) \div c = t /\ (c * t + r) % c = r
<1> DEFINE x == c * t + r
<1>1. x \in Int /\ (x \div c) \in Int /\ x % c \in 0..(c - 1)
  <2>1. \A y \in Int : (y \div c) \in Int /\ y % c \in 0..(c - 1)
    OBVIOUS
  <2>2. x \in Int
    OBVIOUS
  <2> HIDE DEF x
  <2> QED BY <2>1, <2>2
<1>2. x = c * (x \div c) + (x % c)
  <2>1. \A y \in Int : y = c * (y \div c) + (y % c)
    OBVIOUS
  <2> HIDE DEF x
  <2> QED BY <1>1, <2>1
<1>3. PICK q \in Int, s \in 0..(c - 1) : q = x \div c /\ s = x % c
  <2> HIDE DEF x
  <2> QED BY <1>1
<1>4. c * t + r = c * q + s
  BY <1>2, <1>3
<1>5. q = t
  <2>1. ASSUME q < t PROVE FALSE
    <3>1. PICK d \in Nat : t = q + 1 + d
      <4>1. t - q - 1 \in Nat /\ t = q + 1 + (t - q - 1)
        BY <2>1
      <4> QED BY <4>1
    <3>2. c * t = c * q + c + c * d
      BY <3>1
    <3>3. c * d \in Nat
      OBVIOUS
    <3>4. PICK e \in Nat, f \in Int : e = c * d /\ f = c * q
      BY <3>3
    <3>5. f + c + e + r = f + s
      BY <1>4, <3>2, <3>4
    <3> QED BY <3>5
  <2>2. ASSUME t < q PROVE FALSE
    <3>1. PICK d \in Nat : q = t + 1 + d
      <4>1. q - t - 1 \in Nat /\ q = t + 1 + (q - t - 1)
        BY <2>2
      <4> QED BY <4>1
    <3>2. c * q = c * t + c + c * d
      BY <3>1
    <3>3. c * d \in Nat
      OBVIOUS
    <3>4. PICK e \in Nat, f \in Int : e = c * d /\ f = c * t
      BY <3>3
    <3>5. f + c + e + s = f + r
      BY <1>4, <3>2, <3>4
    <3> QED BY <3>5
  <2> QED BY <2>1, <2>2
<1>6. s = r
  BY <1>4, <1>5
<1> HIDE DEF x
<1>7. x \div c = t /\ x % c = r
  BY <1>3, <1>5, <1>6
<1> QED BY <1>7 DEF x

(* Any number has a quotient and a remainder.                               *)
LEMMA QuotientOfNat ==
  ASSUME NEW c \in Nat \ {0}, NEW x \in Nat
  PROVE  \E q \in Nat, r \in 0..(c - 1) :
           x = c * q + r /\ x \div c = q /\ x % c = r /\ q <= x
<1>1. (x \div c) \in Int /\ x % c \in 0..(c - 1) /\ x = c * (x \div c) + (x % c)
  OBVIOUS
<1>2. PICK q \in Int, r \in 0..(c - 1) : q = x \div c /\ r = x % c
  BY <1>1
<1>3. x = c * q + r
  BY <1>1, <1>2
<1>4. q \in Nat
  <2>1. ASSUME q < 0 PROVE FALSE
    <3>1. PICK d \in Nat : q = -1 - d
      <4>1. -1 - q \in Nat /\ q = -1 - (-1 - q)
        BY <2>1
      <4> QED BY <4>1
    <3>2. c * q = -c - c * d /\ c * d \in Nat
      BY <3>1
    <3>3. PICK e \in Nat : e = c * d
      BY <3>2
    <3> QED BY <1>3, <3>2, <3>3
  <2> QED BY <2>1
<1>5. q <= c * q
  BY <1>4
<1>6. PICK p \in Nat : p = c * q
  BY <1>4
<1>7. q <= x
  BY <1>3, <1>5, <1>6
<1> QED BY <1>2, <1>3, <1>4, <1>7

(* The bits of a number.                                                    *)
BitOf(x, k) == (x \div 2^k) % 2

TopBit(x, a, p, m) == a \in 0..(2^m - 1) /\ p \in 0..1 /\ x = a + p * 2^m

(* The bits below the top bit are those of the rest.                        *)
LEMMA Bits ==
  ASSUME NEW m \in Nat, NEW a, NEW p, NEW x, TopBit(x, a, p, m)
  PROVE  /\ x \in 0..(2^(m + 1) - 1)
         /\ \A k \in Nat : BitOf(a, k) = 1 => k < m /\ k < a
         /\ \A k \in 0..(m - 1) : BitOf(x, k) = BitOf(a, k)
         /\ BitOf(x, m) = p
         /\ \A k \in Nat : BitOf(x, k) = 1 => k <= m /\ k < x
<1>0. a \in 0..(2^m - 1) /\ p \in 0..1 /\ x = a + p * 2^m
  BY DEF TopBit
<1>1. PICK w \in Nat \ {0} : w = 2^m /\ 2^(m + 1) = 2 * w
  BY PowersOfTwo
<1>2. a \in Nat /\ a < w /\ p \in Nat
  BY <1>0, <1>1
<1>3. a + p * w \in Nat /\ a + p * w < 2 * w
  <2>1. CASE p = 0
    BY <1>1, <1>2, <2>1
  <2>2. CASE p = 1
    BY <1>1, <1>2, <2>2
  <2> QED BY <1>0, <2>1, <2>2
<1>4. ASSUME NEW z \in Nat, NEW k \in Nat, NEW n \in Nat, z < 2^n, BitOf(z, k) = 1
      PROVE  k < n /\ k < z
  <2>1. PICK c \in Nat \ {0} : c = 2^k
    BY PowersOfTwo
  <2>2. PICK q \in Nat, r \in 0..(c - 1) : z = c * q + r /\ z \div c = q
    BY QuotientOfNat
  <2>3. q # 0
    <3>1. 0 % 2 = 0
      OBVIOUS
    <3> QED BY <1>4, <2>1, <2>2, <3>1 DEF BitOf
  <2>4. c <= c * q
    BY <2>3
  <2>5. PICK e \in Nat : e = c * q
    OBVIOUS
  <2>6. c <= z
    BY <2>2, <2>4, <2>5
  <2>7. k < c
    BY <2>1, PowersGrow
  <2>8. k < n
    <3>1. PICK d \in Nat : d = 2^n
      BY PowersOfTwo
    <3>2. n <= k => d <= c
      BY <2>1, <3>1, PowersGrow
    <3> QED BY <1>4, <2>6, <3>1, <3>2
  <2> QED BY <2>6, <2>7, <2>8
<1>5. \A k \in Nat : BitOf(a, k) = 1 => k < m /\ k < a
  <2> TAKE k \in Nat
  <2>1. a < 2^m
    BY <1>1, <1>2
  <2> QED BY <1>2, <1>4, <2>1
<1>6. \A k \in Nat : BitOf(x, k) = 1 => k <= m /\ k < x
  <2> TAKE k \in Nat
  <2>1. x \in Nat /\ x < 2^(m + 1) /\ m + 1 \in Nat
    BY <1>0, <1>1, <1>3
  <2>2. BitOf(x, k) = 1 => k < m + 1 /\ k < x
    BY <1>4, <2>1
  <2> QED BY <2>2
<1>7. ASSUME NEW k \in 0..(m - 1) PROVE BitOf(x, k) = BitOf(a, k)
  <2>1. PICK d \in Nat : m = k + (1 + d)
    <3>1. m - k - 1 \in Nat /\ m = k + (1 + (m - k - 1))
      OBVIOUS
    <3> QED BY <3>1
  <2>2. k \in Nat /\ 1 + d \in Nat /\ 1 + d = d + 1
    OBVIOUS
  <2>3. 2^m = 2^k * 2^(d + 1) /\ 2^(d + 1) = 2 * 2^d
    <3>1. 2^m = 2^(k + (1 + d))
      BY <2>1
    <3>2. 2^(k + (1 + d)) = 2^k * 2^(1 + d)
      BY <2>2, PowersMultiply
    <3>3. 2^(d + 1) = 2 * 2^d
      BY PowersOfTwo
    <3> QED BY <2>2, <3>1, <3>2, <3>3
  <2>4. PICK c \in Nat \ {0}, e \in Nat : c = 2^k /\ e = 2^d
    BY <2>2, PowersOfTwo
  <2>5. PICK q \in Nat, r \in 0..(c - 1) : a = c * q + r /\ a \div c = q
    BY <1>2, QuotientOfNat
  <2>6. w = c * (2 * e)
    BY <1>1, <2>3, <2>4
  <2>7. a + p * w = c * (q + 2 * (p * e)) + r
    BY <1>2, <2>5, <2>6
  <2>8. PICK f \in Nat : f = p * e
    BY <1>2
  <2>9. (a + p * w) \div c = q + 2 * f
    <3>1. PICK t \in Int : t = q + 2 * f
      OBVIOUS
    <3>2. (c * t + r) \div c = t
      BY Quotients
    <3> QED BY <2>7, <2>8, <3>1, <3>2
  <2>10. (q + 2 * f) % 2 = q % 2
    OBVIOUS
  <2> QED BY <1>0, <1>1, <2>4, <2>5, <2>9, <2>10 DEF BitOf
<1>8. BitOf(x, m) = p
  <2>1. a + p * w = w * p + a /\ a \in 0..(w - 1)
    BY <1>0, <1>1
  <2>2. (a + p * w) \div w = p
    BY <1>2, <2>1, Quotients
  <2>3. p % 2 = p
    BY <1>0
  <2> QED BY <1>0, <1>1, <2>2, <2>3 DEF BitOf
<1>9. x \in 0..(2^(m + 1) - 1)
  BY <1>0, <1>1, <1>3
<1> QED BY <1>5, <1>6, <1>7, <1>8, <1>9

Common(i, j) == {k \in 0..i : (i \div 2^k) % 2 = 1 /\ (j \div 2^k) % 2 = 1}

(* Every number of m + 1 bits is one of m bits and a top bit.               *)
LEMMA TopBits ==
  ASSUME NEW m \in Nat, NEW x \in 0..(2^(m + 1) - 1)
  PROVE  \E a, p : TopBit(x, a, p, m)
<1>1. PICK w \in Nat \ {0} : w = 2^m /\ 2^(m + 1) = 2 * w
  BY PowersOfTwo
<1>2. CASE x < w
  <2>1. x \in 0..(w - 1) /\ 0 \in 0..1 /\ x = x + 0 * w
    BY <1>1, <1>2
  <2> QED BY <1>1, <2>1 DEF TopBit
<1>3. CASE x >= w
  <2>1. x - w \in 0..(w - 1) /\ 1 \in 0..1 /\ x = (x - w) + 1 * w
    BY <1>1, <1>3
  <2> QED BY <1>1, <2>1 DEF TopBit
<1> QED BY <1>1, <1>2, <1>3

-----------------------------------------------------------------------------
(* Runs of steps. *)

(* n steps, each a function of the one before and its number.               *)
Steps(x, V, c, n, D) ==
  /\ x \in [0..n -> V]
  /\ x[0] = c
  /\ \A k \in 1..n : x[k] = D[<<x[k - 1], k - 1>>]

(* There is such a run of steps ...                                         *)
LEMMA StepsExist ==
  ASSUME NEW V, NEW c \in V, NEW n \in Nat, NEW D \in [V \X (0..(n - 1)) -> V]
  PROVE  \E x : Steps(x, V, c, n, D)
<1> DEFINE E == [p \in V \X (1..n) |-> D[<<p[1], p[2] - 1>>]]
<1>1. E \in [V \X (1..n) -> V]
  <2>1. \A k \in 1..n : k - 1 \in 0..(n - 1)
    OBVIOUS
  <2> QED BY <2>1
<1>2. PICK x : Recursive(x, V, c, n, E)
  <2> HIDE DEF E
  <2> QED BY <1>1, RecursionExists
<1>3. x \in [0..n -> V] /\ x[0] = c /\ \A k \in 1..n : x[k] = E[<<x[k - 1], k>>]
  <2> HIDE DEF E
  <2> QED BY <1>2 DEF Recursive
<1>4. ASSUME NEW k \in 1..n PROVE x[k] = D[<<x[k - 1], k - 1>>]
  <2>1. k - 1 \in 0..n
    OBVIOUS
  <2>2. x[k - 1] \in V
    BY <1>3, <2>1
  <2> QED BY <1>3, <2>2
<1> QED BY <1>3, <1>4 DEF Steps

(* ... within any set the steps do not leave.                               *)
LEMMA StepsStay ==
  ASSUME NEW V, NEW n \in Nat, NEW x, x[0] \in V,
         \A k \in 1..n : x[k - 1] \in V => x[k] \in V
  PROVE  \A k \in 0..n : x[k] \in V
<1> DEFINE S == {k \in Nat : k <= n => x[k] \in V}
<1>1. 0 \in S
  OBVIOUS
<1>2. ASSUME NEW k \in Nat, k \in S PROVE k + 1 \in S
  <2>1. k + 1 <= n => (k + 1 \in 1..n /\ (k + 1) - 1 = k)
    OBVIOUS
  <2> QED BY <1>2, <2>1
<1> HIDE DEF S
<1>3. \A k \in Nat : k \in S
  BY <1>1, <1>2, SubsetInduction
<1> QED BY <1>3 DEF S

-----------------------------------------------------------------------------
(* Equal products. *)

SameProducts(n, u, v, x, y) == \A i \in 0..(n - 1) : u[i] * v[i] = x[i] * y[i]

(* Equal products have equal sums.                                          *)
LEMMA InnerSame ==
  ASSUME NEW n \in Nat, NEW u \in Vec(n), NEW v \in Vec(n), NEW x \in Vec(n), NEW y \in Vec(n),
         SameProducts(n, u, v, x, y)
  PROVE  Inner(u, v) = Inner(x, y)
<1>1. Inner(u, v) = Total(n, [i \in 0..(n - 1) |-> u[i] * v[i]])
  BY InnerIs
<1>2. Inner(x, y) = Total(n, [i \in 0..(n - 1) |-> x[i] * y[i]])
  BY InnerIs
<1>3. [i \in 0..(n - 1) |-> u[i] * v[i]] = [i \in 0..(n - 1) |-> x[i] * y[i]]
  BY DEF SameProducts
<1> QED BY <1>1, <1>2, <1>3

-----------------------------------------------------------------------------
(* Sums, roots and powers, step by step. *)

(* A sum with one more at the end, or at the front.                         *)
LEMMA TotalNext ==
  ASSUME NEW n \in Nat, NEW f \in [0..n -> Int]
  PROVE  /\ Total(n + 1, f) = Total(n, [i \in 0..(n - 1) |-> f[i]]) + f[n]
         /\ Total(n + 1, f) = f[0] + Total(n, [i \in 0..(n - 1) |-> f[i + 1]])
<1> DEFINE g == [i \in 0..(n - 1) |-> f[i]]
           h == [i \in 0..(n - 1) |-> f[i + 1]]
<1>0. n + 1 \in Nat /\ (n + 1) - 1 = n
  OBVIOUS
<1>1. PICK P : RunningSums(P, n + 1, f)
  BY <1>0, RunningSumsExist
<1>2. P \in [0..(n + 1) -> Int] /\ P[0] = 0 /\ \A i \in 0..n : P[i + 1] = P[i] + f[i]
  BY <1>0, <1>1 DEF RunningSums
<1>3. Total(n + 1, f) = P[n + 1]
  BY <1>0, <1>1, TotalIs
<1> DEFINE Q == [k \in 0..n |-> P[k]]
           R == [k \in 0..n |-> P[k + 1] - f[0]]
<1>4. RunningSums(Q, n, g) /\ g \in [0..(n - 1) -> Int]
  <2>1. \A i \in 0..(n - 1) : i \in 0..n /\ i + 1 \in 0..n
    OBVIOUS
  <2>2. \A i \in 0..n : i \in 0..(n + 1)
    OBVIOUS
  <2>3. Q \in [0..n -> Int] /\ Q[0] = 0
    BY <1>2, <2>2
  <2>4. \A i \in 0..(n - 1) : Q[i + 1] = Q[i] + g[i]
    BY <1>2, <2>1
  <2>5. g \in [0..(n - 1) -> Int]
    BY <2>1
  <2> QED BY <2>3, <2>4, <2>5 DEF RunningSums
<1>5. RunningSums(R, n, h) /\ h \in [0..(n - 1) -> Int]
  <2>1. \A i \in 0..(n - 1) : i \in 0..n /\ i + 1 \in 0..n
    OBVIOUS
  <2>2. \A i \in 0..n : i + 1 \in 0..(n + 1) /\ f[i] \in Int
    OBVIOUS
  <2>3. f[0] \in Int /\ 0 \in 0..n
    OBVIOUS
  <2>4. P[0 + 1] = 0 + f[0]
    BY <1>2, <2>3
  <2>5. R \in [0..n -> Int] /\ R[0] = 0
    <3>1. \A i \in 0..n : P[i + 1] - f[0] \in Int
      BY <1>2, <2>2, <2>3
    <3>2. R[0] = P[0 + 1] - f[0]
      BY <2>3
    <3> QED BY <2>3, <2>4, <3>1, <3>2
  <2>6. ASSUME NEW i \in 0..(n - 1) PROVE R[i + 1] = R[i] + h[i]
    <3>1. P[(i + 1) + 1] = P[i + 1] + f[i + 1]
      BY <1>2, <2>1
    <3>2. PICK a \in Int, b \in Int, c \in Int : a = P[i + 1] /\ b = f[i + 1] /\ c = f[0]
      BY <1>2, <2>1, <2>2, <2>3
    <3>3. R[i + 1] = P[(i + 1) + 1] - c /\ R[i] = a - c /\ h[i] = b
      BY <2>1, <3>2
    <3> HIDE DEF R, h
    <3> QED BY <3>1, <3>2, <3>3
  <2>7. h \in [0..(n - 1) -> Int]
    BY <2>1
  <2> HIDE DEF R, h
  <2> QED BY <2>5, <2>6, <2>7 DEF RunningSums
<1>6. Total(n, g) = P[n]
  <2>1. Q[n] = P[n]
    OBVIOUS
  <2> HIDE DEF Q, g
  <2> QED BY <1>4, <2>1, TotalIs
<1>7. Total(n, h) = P[n + 1] - f[0]
  <2>1. R[n] = P[n + 1] - f[0]
    OBVIOUS
  <2> HIDE DEF R, h
  <2> QED BY <1>5, <2>1, TotalIs
<1>8. P[n] \in Int /\ P[n + 1] \in Int /\ f[0] \in Int /\ f[n] \in Int /\ P[n + 1] = P[n] + f[n]
  BY <1>2
<1> HIDE DEF g, h
<1>9. Total(n + 1, f) = Total(n, g) + f[n] /\ Total(n + 1, f) = f[0] + Total(n, h)
  BY <1>3, <1>6, <1>7, <1>8
<1> QED BY <1>9 DEF g, h

(* A sum of nothing is zero.                                                *)
LEMMA TotalOfNone == \A f : Total(0, f) = 0
<1> TAKE f
<1> DEFINE S(s) == s = [i \in 0..0 |-> [k \in 0..0 |->
                     IF i = k THEN 0 ELSE IF i + 1 = k THEN f[i]
                     ELSE s[i][(i + k) \div 2] + s[(i + k) \div 2][k]]]
           z == [i \in 0..0 |-> [k \in 0..0 |-> 0]]
<1>1. S(z)
  <2>1. \A i, k \in 0..0 : i = k
    OBVIOUS
  <2> QED BY <2>1
<1> DEFINE c == CHOOSE s : S(s)
<1>2. S(c)
  <2> HIDE DEF S
  <2> QED BY <1>1
<1>3. c[0][0] = 0
  <2> HIDE DEF c
  <2> QED BY <1>2
<1> QED BY <1>3 DEF Total

(* The root of a power of two is one.                                       *)
LEMMA RootOfPower ==
  ASSUME NEW e \in Nat, NEW r \in Nat, r * r = 2^e
  PROVE  \E d \in Nat : r = 2^d /\ e = d + d
<1> DEFINE Good(n) == \A x \in Nat : x * x = 2^n => \E d \in Nat : x = 2^d /\ n = d + d
           S == {n \in Nat : Good(n) /\ Good(n + 1)}
<1>0. 2^0 = 1 /\ 2^1 = 2
  OBVIOUS
<1>1. 0 \in S
  <2>1. ASSUME NEW x \in Nat, x * x = 1 PROVE x = 1
    <3>1. x # 0
      BY <2>1
    <3>2. ASSUME x >= 2 PROVE FALSE
      <4>1. PICK y \in Nat : x = 2 + y
        <5>1. x - 2 \in Nat /\ x = 2 + (x - 2)
          BY <3>2
        <5> QED BY <5>1
      <4>2. x * x = 4 + 4 * y + y * y /\ y * y \in Nat
        BY <4>1
      <4>3. PICK z \in Nat : z = y * y
        BY <4>2
      <4> QED BY <2>1, <4>2, <4>3
    <3> QED BY <3>1, <3>2
  <2>2. Good(0)
    <3>1. ASSUME NEW x \in Nat, x * x = 2^0 PROVE \E d \in Nat : x = 2^d /\ 0 = d + d
      <4>1. x = 2^0 /\ 0 = 0 + 0 /\ 0 \in Nat
        BY <1>0, <2>1, <3>1
      <4> QED BY <4>1
    <3> QED BY <3>1
  <2>3. Good(1)
    <3>1. ASSUME NEW x \in Nat, x * x = 2 PROVE FALSE
      <4>1. x # 0 /\ x # 1
        BY <3>1
      <4>2. PICK y \in Nat : x = 2 + y
        <5>1. x - 2 \in Nat /\ x = 2 + (x - 2)
          BY <4>1
        <5> QED BY <5>1
      <4>3. x * x = 4 + 4 * y + y * y /\ y * y \in Nat
        BY <4>2
      <4>4. PICK z \in Nat : z = y * y
        BY <4>3
      <4> QED BY <3>1, <4>3, <4>4
    <3> QED BY <1>0, <3>1
  <2>4. 0 + 1 = 1
    OBVIOUS
  <2> HIDE DEF Good
  <2> QED BY <2>2, <2>3, <2>4
<1>2. ASSUME NEW n \in Nat, n \in S PROVE n + 1 \in S
  <2>1. ASSUME NEW x \in Nat, x * x = 2^((n + 1) + 1)
        PROVE  \E d \in Nat : x = 2^d /\ (n + 1) + 1 = d + d
    <3>1. PICK p \in Nat : p = 2^n /\ 2^(n + 1) = 2 * p /\ 2^((n + 1) + 1) = 4 * p
      <4>1. n + 1 \in Nat
        OBVIOUS
      <4>2. 2^((n + 1) + 1) = 2 * 2^(n + 1)
        BY <4>1, PowersOfTwo
      <4>3. 2^n \in Nat /\ 2^(n + 1) = 2 * 2^n
        BY PowersOfTwo
      <4> QED BY <4>2, <4>3
    <3>2. PICK y \in Nat : x = 2 * y
      <4>1. PICK q \in Nat, t \in 0..1 : x = 2 * q + t
        <5>1. (x \div 2) \in Nat /\ x % 2 \in 0..1 /\ x = 2 * (x \div 2) + (x % 2)
          OBVIOUS
        <5> QED BY <5>1
      <4>2. ASSUME t = 1 PROVE FALSE
        <5>1. x * x = 4 * (q * q) + 4 * q + 1
          BY <4>1, <4>2
        <5>2. PICK z \in Nat : z = q * q
          OBVIOUS
        <5> QED BY <2>1, <3>1, <5>1, <5>2
      <4>3. t = 0
        BY <4>2
      <4> QED BY <4>1, <4>3
    <3>3. y * y = 2^n
      <4>1. x * x = 4 * (y * y)
        BY <3>2
      <4>2. PICK z \in Nat : z = y * y
        OBVIOUS
      <4> QED BY <2>1, <3>1, <4>1, <4>2
    <3>4. PICK d \in Nat : y = 2^d /\ n = d + d
      BY <1>2, <3>3
    <3>5. x = 2^(d + 1) /\ (n + 1) + 1 = (d + 1) + (d + 1) /\ d + 1 \in Nat
      BY <3>2, <3>4, PowersOfTwo
    <3> QED BY <3>5
  <2>2. Good((n + 1) + 1)
    BY <2>1
  <2> HIDE DEF Good
  <2> QED BY <1>2, <2>2
<1> HIDE DEF Good
<1>3. \A n \in Nat : n \in S
  <2> HIDE DEF S
  <2> QED BY <1>1, <1>2, SubsetInduction
<1> QED BY <1>3 DEF Good

(* IsPowerOf2 looks far enough.                                             *)
LEMMA PowerOf2Is ==
  ASSUME NEW n \in Nat
  PROVE  IsPowerOf2(n) <=> \E e \in Nat : n = 2^e
<1>1. \A e \in Nat : n = 2^e => e \in 0..n
  <2> TAKE e \in Nat
  <2> HAVE n = 2^e
  <2>1. e < n
    BY PowersGrow
  <2> QED BY <2>1
<1>2. \A e \in 0..n : e \in Nat
  OBVIOUS
<1> QED BY <1>1, <1>2 DEF IsPowerOf2

(* FloorPowerOf2 is the largest power of two not above its argument.        *)
LEMMA FloorIs ==
  ASSUME NEW n \in Nat, n >= 1
  PROVE  /\ FloorPowerOf2(n) \in 1..n
         /\ \E e \in Nat : FloorPowerOf2(n) = 2^e
         /\ 2 * FloorPowerOf2(n) > n
         /\ IsPowerOf2(n) => FloorPowerOf2(n) = n
<1> DEFINE Good(m) == \E p \in 1..m : IsPowerOf2(p) /\ 2 * p > m
           S == {m \in Nat : Good(m + 1)}
<1>1. 0 \in S
  <2>1. 1 = 2^0 /\ 0 \in Nat /\ 1 \in Nat
    OBVIOUS
  <2>2. IsPowerOf2(1)
    BY <2>1, PowerOf2Is
  <2>3. 1 \in 1..(0 + 1) /\ 2 * 1 > 0 + 1
    OBVIOUS
  <2>4. Good(0 + 1)
    BY <2>2, <2>3
  <2> QED BY <2>4
<1>2. ASSUME NEW m \in Nat, m \in S PROVE m + 1 \in S
  <2>1. PICK p \in 1..(m + 1) : IsPowerOf2(p) /\ 2 * p > m + 1
    BY <1>2
  <2>2. CASE 2 * p > (m + 1) + 1
    <3>1. p \in 1..((m + 1) + 1)
      OBVIOUS
    <3>2. Good((m + 1) + 1)
      BY <2>1, <2>2, <3>1
    <3> QED BY <3>2
  <2>3. CASE ~(2 * p > (m + 1) + 1)
    <3>1. 2 * p = (m + 1) + 1 /\ 2 * p \in 1..((m + 1) + 1) /\ 2 * (2 * p) > (m + 1) + 1
          /\ p \in Nat /\ 2 * p \in Nat
      BY <2>1, <2>3
    <3>2. PICK e \in Nat : p = 2^e
      BY <2>1, <3>1, PowerOf2Is
    <3>3. 2 * p = 2^(e + 1) /\ e + 1 \in Nat
      BY <3>2, PowersOfTwo
    <3>4. IsPowerOf2(2 * p)
      BY <3>1, <3>3, PowerOf2Is
    <3>5. Good((m + 1) + 1)
      BY <3>1, <3>4
    <3> QED BY <3>5
  <2> QED BY <2>2, <2>3
<1>3. Good(n)
  <2>1. \A m \in Nat : m \in S
    <3> HIDE DEF S
    <3> QED BY <1>1, <1>2, SubsetInduction
  <2>2. n - 1 \in Nat /\ (n - 1) + 1 = n
    OBVIOUS
  <2>3. n - 1 \in S
    BY <2>1, <2>2
  <2> QED BY <2>2, <2>3
<1>4. /\ FloorPowerOf2(n) \in 1..n /\ IsPowerOf2(FloorPowerOf2(n)) /\ 2 * FloorPowerOf2(n) > n
  BY <1>3 DEF FloorPowerOf2
<1>5. PICK p \in Nat \ {0} : p = FloorPowerOf2(n) /\ p <= n /\ 2 * p > n
  BY <1>4
<1>6. PICK e \in Nat : p = 2^e
  BY <1>4, <1>5, PowerOf2Is
<1>7. ASSUME IsPowerOf2(n) PROVE p = n
  <2>1. PICK d \in Nat : n = 2^d
    BY <1>7, PowerOf2Is
  <2>2. ~(e < d)
    <3>1. ASSUME e < d PROVE FALSE
      <4>1. 2 * 2^e <= 2^d
        BY <3>1, PowersGrow
      <4> QED BY <1>5, <1>6, <2>1, <4>1
    <3> QED BY <3>1
  <2>3. d <= e
    BY <2>2
  <2>4. 2^d <= 2^e
    BY <2>3, PowersGrow
  <2> QED BY <1>5, <1>6, <2>1, <2>4
<1> QED BY <1>4, <1>5, <1>6, <1>7

(* A definition by recursion on smaller numbers is one of a function.       *)
Descending(f, V, c, n, prev, D) ==
  /\ f \in [0..n -> V]
  /\ f[0] = c
  /\ \A i \in 1..n : f[i] = D[<<f[prev[i]], i>>]

(* The recursion of GreedyPowerOf2Blocks has a solution.                    *)
LEMMA DescentExists ==
  ASSUME NEW V, NEW c \in V, NEW n \in Nat, NEW prev,
         \A i \in 1..n : prev[i] \in 0..(i - 1),
         NEW D \in [V \X (1..n) -> V]
  PROVE  \E f : Descending(f, V, c, n, prev, D)
<1> DEFINE S == {k \in Nat : k <= n => \E f : Descending(f, V, c, k, prev, D)}
<1>1. 0 \in S
  <2>1. Descending([i \in 0..0 |-> c], V, c, 0, prev, D)
    BY DEF Descending
  <2> QED BY <2>1
<1>2. ASSUME NEW k \in Nat, k \in S PROVE k + 1 \in S
  <2> SUFFICES ASSUME k + 1 <= n PROVE \E f : Descending(f, V, c, k + 1, prev, D)
    OBVIOUS
  <2>1. PICK f : Descending(f, V, c, k, prev, D)
    BY <1>2
  <2>2. f \in [0..k -> V] /\ f[0] = c /\ \A i \in 1..k : f[i] = D[<<f[prev[i]], i>>]
    BY <2>1 DEF Descending
  <2> DEFINE v == D[<<f[prev[k + 1]], k + 1>>]
             g == [i \in 0..(k + 1) |-> IF i = k + 1 THEN v ELSE f[i]]
  <2>3. k + 1 \in 1..n /\ prev[k + 1] \in 0..k
    <3>1. k + 1 \in 1..n /\ (k + 1) - 1 = k
      OBVIOUS
    <3> QED BY <3>1
  <2>4. v \in V
    BY <2>2, <2>3
  <2> HIDE DEF v
  <2>5. g \in [0..(k + 1) -> V] /\ g[0] = c /\ g[k + 1] = v /\ \A i \in 0..k : g[i] = f[i]
    <3>1. \A i \in 0..(k + 1) : i = k + 1 \/ i \in 0..k
      OBVIOUS
    <3>2. \A i \in 0..k : i \in 0..(k + 1) /\ i # k + 1
      OBVIOUS
    <3> QED BY <2>2, <2>4, <3>1, <3>2
  <2> HIDE DEF g
  <2>6. ASSUME NEW i \in 1..(k + 1) PROVE g[i] = D[<<g[prev[i]], i>>]
    <3>1. CASE i = k + 1
      BY <2>3, <2>5, <3>1 DEF v
    <3>2. CASE i # k + 1
      <4>1. i \in 1..k /\ i \in 0..k /\ i \in 1..n
        BY <3>2
      <4>2. prev[i] \in 0..(i - 1)
        BY <4>1
      <4>3. prev[i] \in 0..k
        BY <4>1, <4>2
      <4> QED BY <2>2, <2>5, <4>1, <4>3
    <3> QED BY <3>1, <3>2
  <2>7. Descending(g, V, c, k + 1, prev, D)
    BY <2>5, <2>6 DEF Descending
  <2> QED BY <2>7
<1> HIDE DEF S
<1>3. \A k \in Nat : k \in S
  BY <1>1, <1>2, SubsetInduction
<1> QED BY <1>3 DEF S

(* What lies before a block ends before it.                                 *)
LEMMA SumsGrow ==
  ASSUME NEW L \in Nat, NEW o \in [1..(L + 1) -> Nat], NEW f \in [1..L -> Nat],
         \A q \in 1..L : o[q + 1] = o[q] + f[q],
         NEW j \in 1..L, NEW k \in 1..L, j < k
  PROVE  o[j] + f[j] <= o[k]
<1> DEFINE Far(m) == \A h \in 1..L : h = (j + 1) + m => o[j] + f[j] <= o[h]
           S == {m \in Nat : Far(m)}
<1>1. 0 \in S
  <2>1. \A h \in 1..L : h = (j + 1) + 0 => h = j + 1
    OBVIOUS
  <2>2. Far(0)
    BY <2>1
  <2> QED BY <2>2
<1>2. ASSUME NEW m \in Nat, m \in S PROVE m + 1 \in S
  <2>1. ASSUME NEW g \in 1..L, g = (j + 1) + (m + 1) PROVE o[j] + f[j] <= o[g]
    <3>1. PICK h \in 1..L : h = (j + 1) + m /\ g = h + 1
      <4> HIDE DEF Far, S
      <4>1. g - 1 \in 1..L /\ g - 1 = (j + 1) + m /\ g = (g - 1) + 1
        BY <2>1
      <4> QED BY <4>1
    <3>2. o[j] + f[j] <= o[h]
      BY <1>2, <3>1
    <3>3. h \in 1..(L + 1) /\ j \in 1..(L + 1) /\ g \in 1..(L + 1)
      OBVIOUS
    <3>4. PICK x \in Nat, y \in Nat, z \in Nat, w \in Nat :
            x = o[h] /\ y = f[h] /\ z = o[j] /\ w = f[j]
      <4>1. o[h] \in Nat /\ o[j] \in Nat
        <5> HIDE DEF Far, S
        <5> QED BY <3>3
      <4>2. f[h] \in Nat
        <5> HIDE DEF Far, S
        <5>1. \A q \in 1..L : f[q] \in Nat
          OBVIOUS
        <5> QED BY <5>1
      <4>3. f[j] \in Nat
        <5> HIDE DEF Far, S
        <5>1. \A q \in 1..L : f[q] \in Nat
          OBVIOUS
        <5> QED BY <5>1
      <4> QED BY <4>1, <4>2, <4>3
    <3>5. o[g] = x + y
      <4> HIDE DEF Far, S
      <4>1. o[h + 1] = o[h] + f[h]
        OBVIOUS
      <4> QED BY <3>1, <3>4, <4>1
    <3> HIDE DEF Far, S
    <3>6. z + w <= x
      BY <3>2, <3>4
    <3>7. z + w <= x + y
      BY <3>6
    <3> QED BY <3>4, <3>5, <3>7
  <2>2. Far(m + 1)
    <3> HIDE DEF S
    <3> QED BY <2>1
  <2> HIDE DEF Far
  <2> QED BY <2>2
<1> HIDE DEF S
<1>3. \A m \in Nat : m \in S
  BY <1>1, <1>2, SubsetInduction
<1>4. PICK m \in Nat : k = (j + 1) + m
  <2>1. k - (j + 1) \in Nat /\ k = (j + 1) + (k - (j + 1))
    OBVIOUS
  <2> QED BY <2>1
<1>5. Far(m)
  BY <1>3 DEF S
<1> QED BY <1>4, <1>5

-----------------------------------------------------------------------------
(* Rounds of isometries. *)

(* Rounds that scale alike, and what undoes each; k of them in order, and k *)
(* of them undone from the last.                                            *)
Rounds(D, E, b, n, R) ==
  /\ D \in [Vec(n) \X (0..(R - 1)) -> Vec(n)] /\ E \in [Vec(n) \X (0..(R - 1)) -> Vec(n)]
  /\ \A k \in 0..(R - 1) : \A u, v \in Vec(n) :
       /\ Inner(D[<<u, k>>], v) = Inner(u, E[<<v, k>>])
       /\ Inner(D[<<u, k>>], D[<<v, k>>]) = b * Inner(u, v)

Onward(x, v, D, n, R) ==
  /\ x \in [0..R -> Vec(n)] /\ x[0] = v
  /\ \A k \in 0..(R - 1) : x[k + 1] = D[<<x[k], k>>]

Backward(y, v, E, n, R) ==
  /\ y \in [0..R -> Vec(n)] /\ y[0] = v
  /\ \A k \in 0..(R - 1) : y[k + 1] = E[<<y[k], R - 1 - k>>]

(* Undoing the rounds is the adjoint of going through them.                 *)
LEMMA RoundsAdjoint ==
  ASSUME NEW n \in Nat, NEW R \in Nat, NEW D, NEW E, NEW b, Rounds(D, E, b, n, R),
         NEW u, NEW x, Onward(x, u, D, n, R), NEW v, NEW y, Backward(y, v, E, n, R)
  PROVE  Inner(x[R], v) = Inner(u, y[R])
<1> DEFINE S == {k \in Nat : k <= R => Inner(x[R], v) = Inner(x[R - k], y[k])}
<1>1. 0 \in S
  <2>1. R - 0 = R /\ y[0] = v
    BY DEF Backward
  <2> QED BY <2>1
<1>2. ASSUME NEW k \in Nat, k \in S PROVE k + 1 \in S
  <2> SUFFICES ASSUME k + 1 <= R PROVE Inner(x[R], v) = Inner(x[R - (k + 1)], y[k + 1])
    OBVIOUS
  <2>1. PICK j \in 0..(R - 1) : j = R - 1 - k /\ j = R - (k + 1) /\ j + 1 = R - k
    <3>1. R - 1 - k \in 0..(R - 1) /\ R - 1 - k = R - (k + 1) /\ (R - 1 - k) + 1 = R - k
      OBVIOUS
    <3> QED BY <3>1
  <2>2. Inner(x[R], v) = Inner(x[R - k], y[k])
    BY <1>2
  <2>3. k \in 0..(R - 1) /\ k \in 0..R /\ j \in 0..R
    BY <2>1
  <2> HIDE DEF S
  <2>4. x[j + 1] = D[<<x[j], j>>] /\ x[j] \in Vec(n)
    BY <2>3 DEF Onward
  <2>5. y[k + 1] = E[<<y[k], R - 1 - k>>] /\ y[k] \in Vec(n)
    BY <2>3 DEF Backward
  <2>6. Inner(D[<<x[j], j>>], y[k]) = Inner(x[j], E[<<y[k], j>>])
    BY <2>4, <2>5 DEF Rounds
  <2>7. y[k + 1] = E[<<y[k], j>>]
    BY <2>1, <2>5
  <2>8. Inner(x[R - k], y[k]) = Inner(x[j], y[k + 1])
    BY <2>1, <2>4, <2>6, <2>7
  <2> QED BY <2>1, <2>2, <2>8
<1>3. \A k \in Nat : k \in S
  <2> HIDE DEF S
  <2> QED BY <1>1, <1>2, SubsetInduction
<1>4. R - R = 0
  OBVIOUS
<1>5. Inner(x[R], v) = Inner(x[R - R], y[R])
  BY <1>3
<1> QED BY <1>4, <1>5 DEF Onward

(* Every round multiplies inner products by the same factor.                *)
LEMMA RoundsScale ==
  ASSUME NEW n \in Nat, NEW R \in Nat, NEW D, NEW E, NEW b \in Int, Rounds(D, E, b, n, R),
         NEW u, NEW x, Onward(x, u, D, n, R), NEW v, NEW y, Onward(y, v, D, n, R)
  PROVE  Inner(x[R], y[R]) = Power(b, R) * Inner(u, v)
<1>1. PICK P \in [0..R -> Int] :
        P[0] = 1 /\ P[R] = Power(b, R) /\ \A k \in 1..R : P[k] = b * P[k - 1]
  BY PowerSteps
<1>2. /\ x \in [0..R -> Vec(n)] /\ x[0] = u /\ \A k \in 0..(R - 1) : x[k + 1] = D[<<x[k], k>>]
      /\ y \in [0..R -> Vec(n)] /\ y[0] = v /\ \A k \in 0..(R - 1) : y[k + 1] = D[<<y[k], k>>]
  BY DEF Onward
<1>3. PICK c \in Int : c = Inner(u, v)
  <2>1. 0 \in 0..R
    OBVIOUS
  <2>2. u \in Vec(n) /\ v \in Vec(n)
    BY <1>2, <2>1
  <2> QED BY <2>2, InnerIs
<1> DEFINE S == {k \in Nat : k <= R => Inner(x[k], y[k]) = P[k] * c}
<1>4. 0 \in S
  <2>1. 1 * c = c
    OBVIOUS
  <2> QED BY <1>1, <1>2, <1>3, <2>1
<1>5. ASSUME NEW k \in Nat, k \in S PROVE k + 1 \in S
  <2> SUFFICES ASSUME k + 1 <= R PROVE Inner(x[k + 1], y[k + 1]) = P[k + 1] * c
    OBVIOUS
  <2>1. k \in 0..(R - 1) /\ k \in 0..R /\ k + 1 \in 1..R /\ (k + 1) - 1 = k
    OBVIOUS
  <2>2. Inner(x[k], y[k]) = P[k] * c
    BY <1>5
  <2> HIDE DEF S
  <2>3. P[k] \in Int /\ P[k + 1] = b * P[k]
    BY <1>1, <2>1
  <2>4. x[k] \in Vec(n) /\ y[k] \in Vec(n)
    BY <1>2, <2>1
  <2>5. Inner(D[<<x[k], k>>], D[<<y[k], k>>]) = b * Inner(x[k], y[k])
    BY <2>1, <2>4 DEF Rounds
  <2>6. Inner(x[k + 1], y[k + 1]) = b * (P[k] * c)
    BY <1>2, <2>1, <2>2, <2>5
  <2>7. PICK p \in Int : p = P[k]
    BY <2>3
  <2>8. b * (p * c) = (b * p) * c
    OBVIOUS
  <2> QED BY <2>3, <2>6, <2>7, <2>8
<1>6. \A k \in Nat : k \in S
  <2> HIDE DEF S
  <2> QED BY <1>4, <1>5, SubsetInduction
<1>7. Inner(x[R], y[R]) = P[R] * c
  BY <1>6
<1> QED BY <1>1, <1>3, <1>7

(* Together: rounds of isometries are an isometry.                          *)
LEMMA FoldIsometry ==
  ASSUME NEW n \in Nat, NEW R \in Nat, NEW D, NEW E, NEW b \in Int, Rounds(D, E, b, n, R),
         NEW X, \A v \in Vec(n) : Onward(X[v], v, D, n, R),
         NEW Y, \A v \in Vec(n) : Backward(Y[v], v, E, n, R)
  PROVE  ScaledIsometry([v \in Vec(n) |-> X[v][R]], [v \in Vec(n) |-> Y[v][R]], Power(b, R), n)
<1> DEFINE T == [v \in Vec(n) |-> X[v][R]]
           S == [v \in Vec(n) |-> Y[v][R]]
<1>1. R \in 0..R
  OBVIOUS
<1>2. T \in [Vec(n) -> Vec(n)] /\ \A v \in Vec(n) : T[v] = X[v][R]
  BY <1>1 DEF Onward
<1>3. S \in [Vec(n) -> Vec(n)] /\ \A v \in Vec(n) : S[v] = Y[v][R]
  BY <1>1 DEF Backward
<1>4. Power(b, R) \in Int
  <2>1. PICK P \in [0..R -> Int] : P[R] = Power(b, R)
    BY PowerSteps
  <2> QED BY <1>1, <2>1
<1> HIDE DEF T, S
<1>5. ASSUME NEW u \in Vec(n), NEW v \in Vec(n) PROVE Inner(T[u], v) = Inner(u, S[v])
  BY <1>2, <1>3, RoundsAdjoint
<1>6. ASSUME NEW u \in Vec(n), NEW v \in Vec(n) PROVE Inner(T[u], T[v]) = Power(b, R) * Inner(u, v)
  BY <1>2, RoundsScale
<1>7. ScaledIsometry(T, S, Power(b, R), n)
  BY <1>2, <1>3, <1>4, <1>5, <1>6 DEF ScaledIsometry
<1> QED BY <1>7 DEF T, S

-----------------------------------------------------------------------------
(* Joining. *)

IsJoin(f, s, t) == f = s \o t

JoinIs(f, s, t, p, q) ==
  /\ Len(f) = p + q
  /\ \A i \in 1..p : f[i] = s[i]
  /\ \A i \in 1..q : f[p + i] = t[i]

(* The elements of two sequences joined.                                    *)
LEMMA Joined ==
  ASSUME NEW S, NEW s \in Seq(S), NEW t \in Seq(S), NEW p, NEW q, Len(s) = p, Len(t) = q,
         NEW f, IsJoin(f, s, t)
  PROVE  f \in Seq(S) /\ JoinIs(f, s, t, p, q)
<1> DEFINE r == s \o t
<1>1. r \in Seq(S) /\ Len(r) = p + q
  BY ConcatElements
<1>2. \A i \in 1..p : r[i] = s[i]
  BY ConcatElements
<1>3. \A i \in 1..q : r[p + i] = t[i]
  BY ConcatElements
<1>4. f = r
  BY DEF IsJoin
<1> HIDE DEF r
<1> QED BY <1>1, <1>2, <1>3, <1>4 DEF JoinIs

-----------------------------------------------------------------------------
(* Enumerations of finite sets. *)

(* o goes through S once.                                                   *)
Enumerates(o, S) ==
  /\ o \in [1..Cardinality(S) -> S]
  /\ \A i, j \in 1..Cardinality(S) : o[i] = o[j] => i = j
  /\ \A c \in S : \E i \in 1..Cardinality(S) : o[i] = c

(* An injective sequence of all of S ...                                    *)
LEMMA SetToSeqsEnumerates ==
  ASSUME NEW S, IsFiniteSet(S), NEW o \in SetToSeqs(S)
  PROVE  Enumerates(o, S)
<1> DEFINE n == Cardinality(S)
<1>1. n \in Nat
  BY FS_CardinalityType
<1>2. o \in [1..n -> S] /\ \A i, j \in 1..n : o[i] = o[j] => i = j
  BY DEF SetToSeqs
<1>3. IsFiniteSet(1..n) /\ Cardinality(1..n) = n
  <2>1. 1 \in Int /\ n \in Int
    BY <1>1
  <2> HIDE DEF n
  <2> QED BY <1>1, <2>1, FS_Interval
<1> HIDE DEF n
<1>4. o \in Injection(1..n, S)
  BY <1>2 DEF Injection, IsInjective
<1>5. o \in Surjection(1..n, S)
  <2>1. Cardinality(1..n) = Cardinality(S) <=> o \in Surjection(1..n, S)
    BY <1>4, FS_Injection
  <2> QED BY <1>3, <2>1 DEF n
<1>6. \A c \in S : \E i \in 1..n : o[i] = c
  BY <1>5 DEF Surjection
<1> QED BY <1>2, <1>6 DEF Enumerates, n

(* ... and the other way round.                                             *)
LEMMA EnumerationIsSetToSeqs ==
  ASSUME NEW S, NEW o, Enumerates(o, S)
  PROVE  o \in SetToSeqs(S)
  BY DEF Enumerates, SetToSeqs

(* An enumeration as a sequence.                                            *)
LEMMA EnumerationIsSeq ==
  ASSUME NEW S, IsFiniteSet(S), NEW o, Enumerates(o, S)
  PROVE  /\ o \in Seq(S) /\ Len(o) = Cardinality(S) /\ DOMAIN o = 1..Cardinality(S)
         /\ ToSet(o) = S
<1>1. PICK n \in Nat : n = Cardinality(S)
  BY FS_CardinalityType
<1>2. /\ o \in [1..n -> S] /\ \A c \in S : \E i \in 1..n : o[i] = c
  BY <1>1 DEF Enumerates
<1>3. o \in Seq(S) /\ Len(o) = n
  BY <1>2
<1>4. ToSet(o) = S
  BY <1>2 DEF ToSet
<1> QED BY <1>1, <1>2, <1>3, <1>4

-----------------------------------------------------------------------------
(* Orders. *)

(* Neighbours in order are all in order.                                    *)
LEMMA NeighboursOrder ==
  ASSUME NEW n \in Nat, NEW s \in [1..n -> Int], \A i \in 1..(n - 1) : s[i] <= s[i + 1]
  PROVE  \A i, j \in 1..n : i < j => s[i] <= s[j]
<1> DEFINE Good(k) == \A i \in 1..n : i + k <= n => s[i] <= s[i + k]
           K == {k \in Nat : Good(k)}
<1>1. 0 \in K
  BY Z3
<1>2. ASSUME NEW k \in Nat, k \in K PROVE k + 1 \in K
  <2>1. ASSUME NEW i \in 1..n, i + (k + 1) <= n PROVE s[i] <= s[i + (k + 1)]
    <3>1. PICK j \in 1..(n - 1) : j = i + k
      BY <2>1
    <3>2. j \in 1..n /\ j + 1 \in 1..n /\ i + (k + 1) = j + 1 /\ i + k <= n
      BY <2>1, <3>1
    <3>3. s[i] <= s[j]
      BY <1>2, <3>1, <3>2
    <3>4. s[j] <= s[j + 1]
      OBVIOUS
    <3>5. s[i] \in Int /\ s[j] \in Int /\ s[j + 1] \in Int
      BY <3>2
    <3>6. s[i] <= s[j + 1]
      BY <3>3, <3>4, <3>5
    <3> QED BY <3>2, <3>6
  <2> QED BY <2>1
<1> HIDE DEF K
<1>3. \A k \in Nat : k \in K
  BY <1>1, <1>2, SubsetInduction
<1>4. ASSUME NEW i \in 1..n, NEW j \in 1..n, i < j PROVE s[i] <= s[j]
  <2>1. PICK k \in Nat : k = j - i
    BY <1>4
  <2>2. i + k = j /\ i + k <= n
    BY <2>1
  <2>3. Good(k)
    BY <1>3 DEF K
  <2> QED BY <2>2, <2>3
<1> QED BY <1>4

-----------------------------------------------------------------------------
(* Groups. *)

(* CeilDiv(a, b) groups of b are enough for a, and no fewer are.            *)
LEMMA CeilDivIs ==
  ASSUME NEW a \in Nat, NEW b \in Nat \ {0}
  PROVE  /\ CeilDiv(a, b) \in Nat /\ a <= CeilDiv(a, b) * b
         /\ a # 0 => CeilDiv(a, b) # 0
         /\ \A x \in Nat : x * b < a => x < CeilDiv(a, b)
         /\ \A x \in Nat : a <= x * b => CeilDiv(a, b) <= x
<1>1. PICK y \in Nat : y = a + b - 1
  OBVIOUS
<1>2. PICK q \in Nat, r \in 0..(b - 1) : y = b * q + r /\ y \div b = q
  BY QuotientOfNat
<1>3. CeilDiv(a, b) = q
  BY <1>1, <1>2 DEF CeilDiv
<1>4. PICK m \in Nat : m = b * q
  OBVIOUS
<1>5. a <= m /\ m < a + b /\ m = q * b
  BY <1>1, <1>2, <1>4
<1>6. a # 0 => q # 0
  <2>1. q = 0 => m = 0
    BY <1>4
  <2> QED BY <1>5, <2>1
<1>7. ASSUME NEW x \in Nat, x * b < a PROVE x < q
  <2>1. SUFFICES ASSUME q <= x PROVE FALSE
    OBVIOUS
  <2>2. PICK k \in Nat : x = q + k
    BY <2>1
  <2>3. x * b = q * b + k * b /\ k * b \in Nat
    BY <2>2
  <2> QED BY <1>5, <1>7, <2>3
<1>8. ASSUME NEW x \in Nat, a <= x * b PROVE q <= x
  <2>1. SUFFICES ASSUME x < q PROVE FALSE
    OBVIOUS
  <2>2. PICK k \in Nat : q = x + 1 + k
    <3>1. q - x - 1 \in Nat /\ q = x + 1 + (q - x - 1)
      BY <2>1
    <3> QED BY <3>1
  <2>3. q * b = x * b + b + k * b /\ k * b \in Nat /\ x * b \in Nat
    BY <2>2
  <2> QED BY <1>5, <1>8, <2>3
<1> QED BY <1>3, <1>5, <1>6, <1>7, <1>8

-----------------------------------------------------------------------------
(* Positions. *)

(* A set of positions with no gap below is that of the first ones.          *)
LEMMA NoGapBelow ==
  \A n \in Nat : \A P \in SUBSET (1..n) :
    (\A i \in P, j \in 1..n : j < i => j \in P) => P = 1..Cardinality(P)
<1> DEFINE Good(n) == \A P \in SUBSET (1..n) :
             (\A i \in P, j \in 1..n : j < i => j \in P) => P = 1..Cardinality(P)
           N == {n \in Nat : Good(n)}
<1>1. 0 \in N
  <2>1. ASSUME NEW P \in SUBSET (1..0) PROVE P = 1..Cardinality(P)
    <3>1. P = {}
      OBVIOUS
    <3>2. Cardinality(P) = 0
      BY <3>1, FS_EmptySet
    <3>3. 1..0 = {}
      OBVIOUS
    <3> QED BY <3>1, <3>2, <3>3
  <2> QED BY <2>1
<1>2. ASSUME NEW n \in Nat, n \in N PROVE n + 1 \in N
  <2>1. ASSUME NEW P \in SUBSET (1..(n + 1)),
               \A i \in P, j \in 1..(n + 1) : j < i => j \in P
        PROVE  P = 1..Cardinality(P)
    <3>1. CASE n + 1 \in P
      <4>1. \A j \in 1..(n + 1) : j = n + 1 \/ j < n + 1
        OBVIOUS
      <4>2. P = 1..(n + 1)
        BY <2>1, <3>1, <4>1
      <4>3. Cardinality(1..(n + 1)) = n + 1
        <5>1. 1 \in Int /\ n + 1 \in Int /\ ~(1 > n + 1) /\ (n + 1) - 1 + 1 = n + 1
          OBVIOUS
        <5> QED BY <5>1, FS_Interval
      <4> QED BY <4>2, <4>3
    <3>2. CASE ~(n + 1 \in P)
      <4>1. \A j \in 1..(n + 1) : j = n + 1 \/ j \in 1..n
        OBVIOUS
      <4>2. P \in SUBSET (1..n) /\ \A j \in 1..n : j \in 1..(n + 1)
        BY <2>1, <3>2, <4>1
      <4>3. Good(n)
        BY <1>2
      <4>4. \A i \in P, j \in 1..n : j < i => j \in P
        BY <2>1, <4>2
      <4> QED BY <4>2, <4>3, <4>4
    <3> QED BY <3>1, <3>2
  <2> QED BY <2>1
<1> HIDE DEF N
<1>3. \A n \in Nat : n \in N
  BY <1>1, <1>2, SubsetInduction
<1> QED BY <1>3 DEF N

-----------------------------------------------------------------------------
(* Sequences without repetition. *)

(* No element comes twice.                                                  *)
Distinct(s) == \A i, j \in 1..Len(s) : s[i] = s[j] => i = j

(* The elements of two sequences without common elements, joined.           *)
LEMMA DistinctJoin ==
  ASSUME NEW S, NEW s \in Seq(S), NEW t \in Seq(S), Distinct(s), Distinct(t),
         ToSet(s) \cap ToSet(t) = {}
  PROVE  Distinct(s \o t) /\ ToSet(s \o t) = ToSet(s) \cup ToSet(t)
<1>1. PICK m \in Nat, n \in Nat : m = Len(s) /\ n = Len(t)
  BY LenProperties
<1>2. /\ s \o t \in Seq(S) /\ Len(s \o t) = m + n
      /\ \A j \in 1..m : (s \o t)[j] = s[j]
      /\ \A j \in 1..n : (s \o t)[m + j] = t[j]
  BY <1>1, ConcatElements
<1>3. PICK r \in Seq(S) : r = s \o t
  BY <1>2
<1>4. /\ DOMAIN r = 1..(m + n) /\ DOMAIN s = 1..m /\ DOMAIN t = 1..n
      /\ \A j \in 1..m : r[j] = s[j]
      /\ \A j \in 1..n : r[m + j] = t[j]
  BY <1>1, <1>2, <1>3, LenProperties
<1>5. \A i \in 1..(m + n) : i \in 1..m \/ \E j \in 1..n : i = m + j
  <2> TAKE i \in 1..(m + n)
  <2>1. i \in 1..m \/ (i - m \in 1..n /\ i = m + (i - m))
    OBVIOUS
  <2> QED BY <2>1
<1>6. /\ \A i, j \in 1..m : s[i] = s[j] => i = j
      /\ \A i, j \in 1..n : t[i] = t[j] => i = j
      /\ \A i \in 1..m, j \in 1..n : s[i] # t[j]
  <2>1. \A i \in 1..m, j \in 1..n : s[i] \in ToSet(s) /\ t[j] \in ToSet(t)
    BY <1>4 DEF ToSet
  <2> QED BY <1>1, <2>1 DEF Distinct
<1>7. ASSUME NEW i \in 1..(m + n), NEW j \in 1..(m + n), r[i] = r[j] PROVE i = j
  <2>1. CASE i \in 1..m /\ j \in 1..m
    BY <1>4, <1>6, <1>7, <2>1
  <2>2. CASE i \in 1..m /\ \E y \in 1..n : j = m + y
    <3>1. PICK y \in 1..n : j = m + y
      BY <2>2
    <3>2. r[i] = s[i] /\ r[j] = t[y]
      BY <1>4, <2>2, <3>1
    <3> QED BY <1>6, <1>7, <2>2, <3>2
  <2>3. CASE (\E x \in 1..n : i = m + x) /\ j \in 1..m
    <3>1. PICK x \in 1..n : i = m + x
      BY <2>3
    <3>2. r[i] = t[x] /\ r[j] = s[j]
      BY <1>4, <2>3, <3>1
    <3> QED BY <1>6, <1>7, <2>3, <3>2
  <2>4. CASE (\E x \in 1..n : i = m + x) /\ \E y \in 1..n : j = m + y
    <3>1. PICK x \in 1..n, y \in 1..n : i = m + x /\ j = m + y
      BY <2>4
    <3>2. r[i] = t[x] /\ r[j] = t[y]
      BY <1>4, <3>1
    <3> QED BY <1>6, <1>7, <3>1, <3>2
  <2> QED BY <1>5, <2>1, <2>2, <2>3, <2>4
<1>8. Distinct(r)
  BY <1>2, <1>3, <1>7 DEF Distinct
<1>9. ToSet(r) = ToSet(s) \cup ToSet(t)
  <2>1. ASSUME NEW c \in ToSet(r) PROVE c \in ToSet(s) \cup ToSet(t)
    <3>1. PICK i \in 1..(m + n) : c = r[i]
      BY <1>4, <2>1 DEF ToSet
    <3> QED BY <1>4, <1>5, <3>1 DEF ToSet
  <2>2. \A j \in 1..m : j \in 1..(m + n)
    OBVIOUS
  <2>3. \A j \in 1..n : m + j \in 1..(m + n)
    OBVIOUS
  <2>4. ASSUME NEW c \in ToSet(s) PROVE c \in ToSet(r)
    BY <1>4, <2>2, <2>4 DEF ToSet
  <2>5. ASSUME NEW c \in ToSet(t) PROVE c \in ToSet(r)
    BY <1>4, <2>3, <2>5 DEF ToSet
  <2> QED BY <2>1, <2>4, <2>5
<1> QED BY <1>3, <1>8, <1>9

(* The elements of sequences without common elements, flattened.            *)
LEMMA FlattenDistinct ==
  ASSUME NEW S, NEW s \in Seq(Seq(S)), \A k \in 1..Len(s) : Distinct(s[k]),
         \A k, l \in 1..Len(s) : k # l => ToSet(s[k]) \cap ToSet(s[l]) = {}
  PROVE  /\ FlattenSeq(s) \in Seq(S) /\ Distinct(FlattenSeq(s))
         /\ ToSet(FlattenSeq(s)) = UNION {ToSet(s[k]) : k \in 1..Len(s)}
<1>1. PICK n \in Nat : n = Len(s)
  BY LenProperties
<1> DEFINE F(k) == FlattenSeq(SubSeq(s, 1, k))
           Good(k) == k <= n => /\ F(k) \in Seq(S) /\ Distinct(F(k))
                                /\ ToSet(F(k)) = UNION {ToSet(s[i]) : i \in 1..k}
           K == {k \in Nat : Good(k)}
<1>2. F(0) = << >>
  <2>1. SubSeq(s, 1, 0) = << >>
    OBVIOUS
  <2> QED BY <2>1, FlattenNone
<1>3. F(n) = FlattenSeq(s)
  <2>1. SubSeq(s, 1, Len(s)) = s
    OBVIOUS
  <2> QED BY <1>1, <2>1
<1>4. \A k \in 1..n : F(k) = F(k - 1) \o s[k] /\ F(k - 1) \in Seq(S) /\ s[k] \in Seq(S)
  BY <1>1, FlattenPart
<1> HIDE DEF F
<1>5. 0 \in K
  <2>1. F(0) \in Seq(S) /\ Len(F(0)) = 0 /\ DOMAIN F(0) = {}
    <3>1. << >> \in Seq(S) /\ Len(<< >>) = 0 /\ DOMAIN << >> = {}
      OBVIOUS
    <3> QED BY <1>2, <3>1
  <2>2. Distinct(F(0))
    <3>1. \A i \in 1..0 : FALSE
      OBVIOUS
    <3> QED BY <2>1, <3>1 DEF Distinct
  <2>3. ToSet(F(0)) = {}
    BY <2>1 DEF ToSet
  <2>4. UNION {ToSet(s[i]) : i \in 1..0} = {}
    <3>1. 1..0 = {}
      OBVIOUS
    <3> QED BY <3>1
  <2> QED BY <2>1, <2>2, <2>3, <2>4
<1>6. ASSUME NEW k \in Nat, k \in K PROVE k + 1 \in K
  <2>1. ASSUME k + 1 <= n
        PROVE  /\ F(k + 1) \in Seq(S) /\ Distinct(F(k + 1))
               /\ ToSet(F(k + 1)) = UNION {ToSet(s[i]) : i \in 1..(k + 1)}
    <3>1. k + 1 \in 1..n /\ (k + 1) - 1 = k /\ k <= n
      BY <2>1
    <3>2. F(k + 1) = F(k) \o s[k + 1] /\ s[k + 1] \in Seq(S)
      BY <1>4, <3>1
    <3>3. F(k) \in Seq(S) /\ Distinct(F(k)) /\ ToSet(F(k)) = UNION {ToSet(s[i]) : i \in 1..k}
      BY <1>6, <3>1
    <3>4. Distinct(s[k + 1])
      BY <1>1, <3>1
    <3>5. ToSet(F(k)) \cap ToSet(s[k + 1]) = {}
      <4>1. \A i \in 1..k : i \in 1..n /\ i # k + 1
        BY <3>1
      <4>2. \A i \in 1..k : ToSet(s[i]) \cap ToSet(s[k + 1]) = {}
        BY <1>1, <3>1, <4>1
      <4> QED BY <3>3, <4>2
    <3>6. PICK x \in Seq(S) : x = F(k)
      BY <3>3
    <3>7. PICK y \in Seq(S) : y = s[k + 1]
      BY <3>2
    <3>8. Distinct(x \o y) /\ ToSet(x \o y) = ToSet(x) \cup ToSet(y)
      BY <3>3, <3>4, <3>5, <3>6, <3>7, DistinctJoin
    <3>9. UNION {ToSet(s[i]) : i \in 1..(k + 1)} = (UNION {ToSet(s[i]) : i \in 1..k}) \cup ToSet(s[k + 1])
      <4>1. 1..(k + 1) = (1..k) \cup {k + 1}
        OBVIOUS
      <4> QED BY <4>1
    <3>10. x \o y \in Seq(S)
      OBVIOUS
    <3> QED BY <3>2, <3>3, <3>6, <3>7, <3>8, <3>9, <3>10
  <2> QED BY <2>1
<1> HIDE DEF K
<1>7. \A k \in Nat : k \in K
  BY <1>5, <1>6, SubsetInduction
<1>8. F(n) \in Seq(S) /\ Distinct(F(n)) /\ ToSet(F(n)) = UNION {ToSet(s[i]) : i \in 1..n}
  BY <1>7 DEF K
<1> QED BY <1>1, <1>3, <1>8

(* A sequence of some things is one of more.                                *)
LEMMA WiderSeq ==
  ASSUME NEW S, NEW T, S \subseteq T, NEW s \in Seq(S)
  PROVE  s \in Seq(T)
<1>1. Len(s) \in Nat /\ s \in [1..Len(s) -> S]
  BY LenProperties
<1>2. s \in [1..Len(s) -> T]
  BY <1>1
<1> QED BY <1>1, <1>2
=============================================================================
