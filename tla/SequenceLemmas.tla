--------------------------- MODULE SequenceLemmas ---------------------------
(***************************************************************************)
(* What FlattenSeq, with which the collectives lay out their buffers, does *)
(* to any sequence of sequences, and what the running sum of a function    *)
(* is.  Both are recursive functions, so that their equations and          *)
(* everything after them need induction over the naturals.                 *)
(*                                                                         *)
(* Induction is stated here for a SET of numbers, and follows from the     *)
(* well-foundedness of < on Nat.  The usual statement, for a predicate,    *)
(* would have to be instantiated with an operator, which the provers       *)
(* cannot do.                                                              *)
(***************************************************************************)
EXTENDS Integers, Sequences, SequencesExt, FiniteSetsExt, SequenceTheorems, WellFoundedInduction, TLAPS

\* Every nonempty set of natural numbers has a least element.
LEMMA LeastNatural ==
  ASSUME NEW T \in SUBSET Nat, T # {}
  PROVE  \E n \in T : \A m \in T : n <= m
<1>1. PICK n \in T : \A m \in T : ~(<<m, n>> \in OpToRel(<, Nat))
  BY NatLessThanWellFounded, WFMin
<1>2. ASSUME NEW m \in T PROVE n <= m
  <2>1. ~(<<m, n>> \in OpToRel(<, Nat)) /\ <<m, n>> \in Nat \X Nat
    BY <1>1
  <2>2. QED
    BY <2>1 DEF OpToRel
<1>3. QED
  BY <1>2

\* Induction: a set with 0, and with n + 1 whenever it has n, has every number.
LEMMA SetInduction ==
  ASSUME NEW T, 0 \in T, \A n \in Nat : n \in T => n + 1 \in T
  PROVE  \A n \in Nat : n \in T
<1> DEFINE Missing == {n \in Nat : n \notin T}
<1> SUFFICES ASSUME Missing # {} PROVE FALSE
  OBVIOUS
<1>1. PICK n \in Missing : \A m \in Missing : n <= m
  BY LeastNatural
<1>2. n # 0
  BY <1>1
<1>3. n - 1 \in Nat /\ n - 1 \notin Missing
  BY <1>1, <1>2
<1>4. QED
  BY <1>1, <1>2, <1>3

------------------------------------------------------------------------------
(***************************************************************************)
(* FlattenSeq                                                              *)
(***************************************************************************)

\* f holds the partial concatenations of the first n members of seqs: the
\* function that FlattenSeq defines by recursion.
IsConcat(f, seqs, n) ==
  f = [i \in 1..n |-> IF i = 1 THEN seqs[i] ELSE f[i - 1] \o seqs[i]]

\* The equation at one index.
LEMMA ConcatAt ==
  ASSUME NEW seqs, NEW n \in Nat, NEW f, IsConcat(f, seqs, n), NEW i \in 1..n
  PROVE  f[i] = IF i = 1 THEN seqs[i] ELSE f[i - 1] \o seqs[i]
<1> DEFINE e == [k \in 1..n |-> IF k = 1 THEN seqs[k] ELSE f[k - 1] \o seqs[k]]
<1>1. f[i] = e[i]
  BY Zenon DEF IsConcat
<1>2. QED
  BY <1>1

\* A function that satisfies it at every index is a solution.
LEMMA ConcatFromPoints ==
  ASSUME NEW seqs, NEW n \in Nat, NEW f, f = [i \in 1..n |-> f[i]],
         \A i \in 1..n : f[i] = IF i = 1 THEN seqs[i] ELSE f[i - 1] \o seqs[i]
  PROVE  IsConcat(f, seqs, n)
<1>1. [i \in 1..n |-> f[i]]
        = [i \in 1..n |-> IF i = 1 THEN seqs[i] ELSE f[i - 1] \o seqs[i]]
  OBVIOUS
<1>2. QED
  BY <1>1, Zenon DEF IsConcat

\* The recursion has a solution ...
LEMMA ConcatExists ==
  ASSUME NEW seqs
  PROVE  \A n \in Nat : \E f : IsConcat(f, seqs, n)
<1> DEFINE T == {n \in Nat : \E f : IsConcat(f, seqs, n)}
<1>1. 0 \in T
  <2>1. IsConcat([i \in 1..0 |-> 0], seqs, 0)
    BY DEF IsConcat
  <2>2. QED
    BY <2>1
<1>2. ASSUME NEW n \in Nat, n \in T PROVE n + 1 \in T
  <2>1. PICK f : IsConcat(f, seqs, n)
    BY <1>2
  <2> DEFINE h == [i \in 1..(n + 1) |-> IF i = 1 THEN seqs[i] ELSE f[i - 1] \o seqs[i]]
  <2>2. \A i \in 1..n : h[i] = f[i]
    BY <2>1, ConcatAt
  <2>3. \A i \in 1..(n + 1) : h[i] = IF i = 1 THEN seqs[i] ELSE h[i - 1] \o seqs[i]
    <3>1. \A i \in 1..(n + 1) : h[i] = IF i = 1 THEN seqs[i] ELSE f[i - 1] \o seqs[i]
      OBVIOUS
    <3> HIDE DEF h
    <3>2. \A i \in 1..(n + 1) : i # 1 => i - 1 \in 1..n
      OBVIOUS
    <3>3. QED
      BY <2>2, <3>1, <3>2
  <2>4. h = [i \in 1..(n + 1) |-> h[i]]
    OBVIOUS
  <2>5. IsConcat(h, seqs, n + 1)
    <3> HIDE DEF h
    <3>1. n + 1 \in Nat
      OBVIOUS
    <3>2. QED
      BY <2>3, <2>4, <3>1, ConcatFromPoints
  <2>6. QED
    BY <2>5
<1>3. \A n \in Nat : n \in T
  <2> HIDE DEF T
  <2>1. QED
    BY <1>1, <1>2, SetInduction
<1>4. QED
  BY <1>3

\* ... and only one.
LEMMA ConcatUnique ==
  ASSUME NEW seqs, NEW n \in Nat, NEW f, IsConcat(f, seqs, n), NEW h, IsConcat(h, seqs, n)
  PROVE  \A i \in Nat : i \in 1..n => f[i] = h[i]
<1> DEFINE T == {k \in Nat : k \in 1..n => f[k] = h[k]}
<1>1. 0 \in T
  OBVIOUS
<1>2. ASSUME NEW k \in Nat, k \in T PROVE k + 1 \in T
  <2> SUFFICES ASSUME k + 1 \in 1..n PROVE f[k + 1] = h[k + 1]
    OBVIOUS
  <2>1. f[k + 1] = IF k + 1 = 1 THEN seqs[k + 1] ELSE f[k] \o seqs[k + 1]
    BY ConcatAt
  <2>2. h[k + 1] = IF k + 1 = 1 THEN seqs[k + 1] ELSE h[k] \o seqs[k + 1]
    BY ConcatAt
  <2>3. QED
    BY <1>2, <2>1, <2>2
<1>3. \A k \in Nat : k \in T
  <2> HIDE DEF T
  <2>1. QED
    BY <1>1, <1>2, SetInduction
<1>4. QED
  BY <1>3

\* FlattenSeq is the last value of any solution.
LEMMA FlattenIsConcat ==
  ASSUME NEW seqs, NEW n \in Nat \ {0}, Len(seqs) = n, NEW f, IsConcat(f, seqs, n)
  PROVE  FlattenSeq(seqs) = f[n]
<1>1. ASSUME NEW h, IsConcat(h, seqs, n) PROVE h[n] = f[n]
  <2>1. n \in Nat /\ n \in 1..n
    OBVIOUS
  <2>2. \A i \in Nat : i \in 1..n => h[i] = f[i]
    BY <1>1, <2>1, ConcatUnique
  <2>3. QED
    BY <2>1, <2>2
<1> DEFINE c == CHOOSE h : h = [i \in 1..n |-> IF i = 1 THEN seqs[i] ELSE h[i - 1] \o seqs[i]]
<1>2. IsConcat(c, seqs, n)
  BY Zenon DEF IsConcat
<1>3. FlattenSeq(seqs) = c[n]
  BY DEF FlattenSeq
<1>4. c[n] = f[n]
  <2> HIDE DEF c
  <2>1. QED
    BY <1>1, <1>2
<1>5. QED
  BY <1>3, <1>4

\* Nothing concatenated is nothing.
LEMMA FlattenEmpty == FlattenSeq(<<>>) = <<>>
  BY DEF FlattenSeq

\* The equation of FlattenSeq, for a sequence and the same without its last member.
LEMMA FlattenLast ==
  ASSUME NEW seqs, NEW more, NEW n \in Nat \ {0}, NEW m \in Nat \ {0}, m = n + 1,
         Len(seqs) = n, Len(more) = m, \A i \in 1..n : seqs[i] = more[i]
  PROVE  FlattenSeq(more) = FlattenSeq(seqs) \o more[m]
<1>1. n \in Nat /\ m \in Nat /\ m \in 1..m /\ n \in 1..n /\ m # 1 /\ m - 1 = n
  OBVIOUS
<1>2. PICK h : IsConcat(h, more, m)
  BY <1>1, ConcatExists
<1>3. \A i \in 1..n : h[i] = IF i = 1 THEN more[i] ELSE h[i - 1] \o more[i]
  BY <1>1, <1>2, ConcatAt
<1>4. PICK f : f = [i \in 1..n |-> h[i]]
  OBVIOUS
<1>5. IsConcat(f, seqs, n)
  <2>1. f = [i \in 1..n |-> f[i]]
    BY <1>4
  <2>2. \A i \in 1..n : f[i] = IF i = 1 THEN seqs[i] ELSE f[i - 1] \o seqs[i]
    BY <1>3, <1>4
  <2>3. QED
    BY <1>1, <2>1, <2>2, ConcatFromPoints
<1>6. FlattenSeq(seqs) = f[n] /\ FlattenSeq(more) = h[m]
  BY <1>2, <1>5, FlattenIsConcat
<1>7. h[m] = h[n] \o more[m]
  <2>1. h[m] = IF m = 1 THEN more[m] ELSE h[m - 1] \o more[m]
    BY <1>1, <1>2, ConcatAt, ZenonT(60)
  <2>2. QED
    BY <1>1, <2>1
<1>8. QED
  BY <1>1, <1>4, <1>6, <1>7

\* One sequence is itself.
LEMMA FlattenOne ==
  ASSUME NEW seqs, Len(seqs) = 1
  PROVE  FlattenSeq(seqs) = seqs[1]
<1>1. 1 \in Nat \ {0} /\ 1 \in Nat /\ 1 \in 1..1
  OBVIOUS
<1>2. PICK f : IsConcat(f, seqs, 1)
  BY <1>1, ConcatExists
<1>3. FlattenSeq(seqs) = f[1]
  BY <1>1, <1>2, FlattenIsConcat
<1>4. f[1] = seqs[1]
  BY <1>1, <1>2, ConcatAt
<1>5. QED
  BY <1>3, <1>4

\* The equation of FlattenSeq: one more member is appended at the end.
LEMMA FlattenAppend ==
  ASSUME NEW S, NEW seqs \in Seq(Seq(S)), NEW s \in Seq(S)
  PROVE  FlattenSeq(Append(seqs, s)) = FlattenSeq(seqs) \o s
<1>1. PICK n \in Nat : Len(seqs) = n
  BY LenProperties
<1>2. PICK more \in Seq(Seq(S)) : more = Append(seqs, s)
  BY AppendProperties
<1>3. /\ Len(more) = n + 1 /\ more[n + 1] = s
      /\ \A i \in 1..n : seqs[i] = more[i]
  BY <1>1, <1>2, AppendProperties
<1>4. CASE n = 0
  <2>1. seqs = <<>>
    BY <1>1, <1>4, EmptySeq
  <2>2. FlattenSeq(more) = s
    BY <1>3, <1>4, FlattenOne
  <2>3. QED
    BY <1>2, <2>1, <2>2, FlattenEmpty, ConcatEmptySeq
<1>5. CASE n > 0
  <2>1. PICK m \in Nat \ {0} : m = n + 1
    OBVIOUS
  <2>2. Len(more) = m /\ more[m] = s /\ n \in Nat \ {0}
    BY <1>3, <1>5, <2>1
  <2>3. FlattenSeq(more) = FlattenSeq(seqs) \o more[m]
    BY <1>1, <1>3, <2>1, <2>2, FlattenLast
  <2>4. QED
    BY <1>2, <2>2, <2>3
<1>6. QED
  BY <1>4, <1>5

\* FlattenSeq of sequences over S is a sequence over S.
LEMMA FlattenType ==
  ASSUME NEW S
  PROVE  \A seqs \in Seq(Seq(S)) : FlattenSeq(seqs) \in Seq(S)
<1> DEFINE T == {n \in Nat : \A seqs \in Seq(Seq(S)) : Len(seqs) = n => FlattenSeq(seqs) \in Seq(S)}
<1>1. 0 \in T
  <2>1. \A seqs \in Seq(Seq(S)) : Len(seqs) = 0 => seqs = <<>>
    BY EmptySeq
  <2>2. QED
    BY <2>1, FlattenEmpty, EmptySeq
<1>2. ASSUME NEW n \in Nat, n \in T PROVE n + 1 \in T
  <2> SUFFICES ASSUME NEW seqs \in Seq(Seq(S)), Len(seqs) = n + 1
               PROVE  FlattenSeq(seqs) \in Seq(S)
    OBVIOUS
  <2>1. PICK front \in Seq(Seq(S)), s \in Seq(S) : seqs = Append(front, s)
    <3>1. seqs # <<>>
      BY EmptySeq
    <3>2. QED
      BY <3>1, SequenceEmptyOrAppend
  <2>2. Len(front) = n
    BY <2>1, AppendProperties, LenProperties
  <2>3. FlattenSeq(front) \in Seq(S)
    BY <1>2, <2>2
  <2>4. QED
    BY <2>1, <2>3, FlattenAppend, ConcatProperties
<1>3. \A n \in Nat : n \in T
  <2> HIDE DEF T
  <2>1. QED
    BY <1>1, <1>2, SetInduction
<1>4. QED
  BY <1>3, LenProperties

\* The last member of a sequence of sequences is the last block of its
\* concatenation.
LEMMA FlattenLastBlock ==
  ASSUME NEW S, NEW seqs \in Seq(Seq(S)), NEW s \in Seq(S)
  PROVE  LET at == Len(FlattenSeq(seqs))
         IN  SubSeq(FlattenSeq(Append(seqs, s)), at + 1, at + Len(s)) = s
<1> DEFINE flat == FlattenSeq(seqs)
<1>1. flat \in Seq(S) /\ FlattenSeq(Append(seqs, s)) = flat \o s
  BY FlattenType, FlattenAppend
<1> HIDE DEF flat
<1>2. SubSeq(flat \o s, Len(flat) + 1, Len(flat) + Len(s)) = s
  <2>1. Len(flat) \in Nat /\ Len(s) \in Nat
    BY <1>1, LenProperties
  <2>2. CASE Len(s) = 0
    BY <2>1, <2>2, SubSeqEmpty, EmptySeq
  <2>3. CASE Len(s) > 0
    <3>1. SubSeq(flat \o s, Len(flat) + 1, Len(flat) + Len(s)) = SubSeq(s, 1, Len(s))
      BY <1>1, <2>1, <2>3, SubSeqOfConcat2
    <3>2. QED
      BY <3>1, SubSeqFull
  <2>4. QED
    BY <2>1, <2>2, <2>3
<1>3. QED
  BY <1>1, <1>2 DEF flat

\* Earlier blocks stay where they are when a member is appended.
LEMMA FlattenKeepsBlocks ==
  ASSUME NEW S, NEW seqs \in Seq(Seq(S)), NEW s \in Seq(S),
         NEW i \in Nat, NEW j \in Nat, i <= j, j <= Len(FlattenSeq(seqs))
  PROVE  SubSeq(FlattenSeq(Append(seqs, s)), i + 1, j) = SubSeq(FlattenSeq(seqs), i + 1, j)
<1>1. FlattenSeq(seqs) \in Seq(S) /\ FlattenSeq(Append(seqs, s)) = FlattenSeq(seqs) \o s
  BY FlattenType, FlattenAppend
<1>2. CASE i = j
  BY <1>1, <1>2, SubSeqEmpty
<1>3. CASE i < j
  <2>1. Len(FlattenSeq(seqs)) \in Nat
    BY <1>1, LenProperties
  <2>2. i + 1 \in 1..Len(FlattenSeq(seqs)) /\ j \in 1..Len(FlattenSeq(seqs))
    BY <1>3, <2>1
  <2>3. QED
    BY <1>1, <2>2, SubSeqOfConcat1
<1>4. QED
  BY <1>2, <1>3

\* Flattening singletons gives the sequence of their elements.
LEMMA FlattenSingletons ==
  ASSUME NEW S
  PROVE  \A t \in Seq(S) : FlattenSeq([i \in 1..Len(t) |-> <<t[i]>>]) = t
<1> DEFINE Ones(t) == [i \in 1..Len(t) |-> <<t[i]>>]
           T == {n \in Nat : \A t \in Seq(S) : Len(t) = n => FlattenSeq(Ones(t)) = t}
<1>1. 0 \in T
  <2> SUFFICES ASSUME NEW t \in Seq(S), Len(t) = 0 PROVE FlattenSeq(Ones(t)) = t
    OBVIOUS
  <2>1. t = <<>> /\ Ones(t) = <<>>
    BY EmptySeq
  <2>2. QED
    BY <2>1, FlattenEmpty
<1>2. ASSUME NEW n \in Nat, n \in T PROVE n + 1 \in T
  <2> SUFFICES ASSUME NEW t \in Seq(S), Len(t) = n + 1 PROVE FlattenSeq(Ones(t)) = t
    OBVIOUS
  <2>1. PICK front \in Seq(S), x \in S : t = Append(front, x)
    <3>1. t # <<>>
      BY EmptySeq
    <3>2. QED
      BY <3>1, SequenceEmptyOrAppend
  <2>2. Len(front) = n
    BY <2>1, AppendProperties, LenProperties
  <2>3. Ones(front) \in Seq(Seq(S)) /\ <<x>> \in Seq(S)
    BY LenProperties, ElementOfSeq
  <2>4. Ones(t) = Append(Ones(front), <<x>>)
    BY <2>1, <2>2
  <2>5. FlattenSeq(Ones(front)) = front
    BY <1>2, <2>2
  <2>6. FlattenSeq(Ones(t)) = front \o <<x>>
    BY <2>3, <2>4, <2>5, FlattenAppend
  <2>7. QED
    BY <2>1, <2>6, AppendIsConcat
<1>3. \A n \in Nat : n \in T
  <2> HIDE DEF T
  <2>1. QED
    BY <1>1, <1>2, SetInduction
<1>4. QED
  BY <1>3, LenProperties


------------------------------------------------------------------------------
(***************************************************************************)
(* Running sums                                                            *)
(***************************************************************************)

\* f holds the sums of the first members of w, which counts from 0.
IsSum(f, w, n) ==
  f = [i \in 0..n |-> IF i = 0 THEN 0 ELSE f[i - 1] + w[i - 1]]

\* The equation at one index.
LEMMA SumAt ==
  ASSUME NEW w, NEW n \in Nat, NEW f, IsSum(f, w, n), NEW i \in 0..n
  PROVE  f[i] = IF i = 0 THEN 0 ELSE f[i - 1] + w[i - 1]
<1> DEFINE e == [k \in 0..n |-> IF k = 0 THEN 0 ELSE f[k - 1] + w[k - 1]]
<1>1. f[i] = e[i]
  BY Zenon DEF IsSum
<1>2. QED
  BY <1>1

\* A function that satisfies it at every index is a solution.
LEMMA SumFromPoints ==
  ASSUME NEW w, NEW n \in Nat, NEW f, f = [i \in 0..n |-> f[i]],
         \A i \in 0..n : f[i] = IF i = 0 THEN 0 ELSE f[i - 1] + w[i - 1]
  PROVE  IsSum(f, w, n)
<1>1. [i \in 0..n |-> f[i]] = [i \in 0..n |-> IF i = 0 THEN 0 ELSE f[i - 1] + w[i - 1]]
  OBVIOUS
<1>2. QED
  BY <1>1, Zenon DEF IsSum

\* The recursion has a solution.
LEMMA SumExists ==
  ASSUME NEW w
  PROVE  \A n \in Nat : \E f : IsSum(f, w, n)
<1> DEFINE T == {n \in Nat : \E f : IsSum(f, w, n)}
<1>1. 0 \in T
  <2> DEFINE f == [i \in 0..0 |-> 0]
  <2>1. /\ f = [i \in 0..0 |-> f[i]]
        /\ \A i \in 0..0 : f[i] = IF i = 0 THEN 0 ELSE f[i - 1] + w[i - 1]
    OBVIOUS
  <2> HIDE DEF f
  <2>2. IsSum(f, w, 0)
    BY <2>1, SumFromPoints
  <2>3. QED
    BY <2>2
<1>2. ASSUME NEW n \in Nat, n \in T PROVE n + 1 \in T
  <2>1. PICK f : IsSum(f, w, n)
    BY <1>2
  <2> DEFINE h == [i \in 0..(n + 1) |-> IF i = 0 THEN 0 ELSE f[i - 1] + w[i - 1]]
  <2>2. \A i \in 0..n : h[i] = f[i]
    BY <2>1, SumAt
  <2>3. \A i \in 0..(n + 1) : h[i] = IF i = 0 THEN 0 ELSE h[i - 1] + w[i - 1]
    <3>1. \A i \in 0..(n + 1) : h[i] = IF i = 0 THEN 0 ELSE f[i - 1] + w[i - 1]
      OBVIOUS
    <3> HIDE DEF h
    <3>2. \A i \in 0..(n + 1) : i # 0 => i - 1 \in 0..n
      OBVIOUS
    <3>3. QED
      BY <2>2, <3>1, <3>2
  <2>4. h = [i \in 0..(n + 1) |-> h[i]]
    OBVIOUS
  <2>5. IsSum(h, w, n + 1)
    <3> HIDE DEF h
    <3>1. n + 1 \in Nat
      OBVIOUS
    <3>2. QED
      BY <2>3, <2>4, <3>1, SumFromPoints
  <2>6. QED
    BY <2>5
<1>3. \A n \in Nat : n \in T
  <2> HIDE DEF T
  <2>1. QED
    BY <1>1, <1>2, SetInduction
<1>4. QED
  BY <1>3

\* The equations of a running sum.
LEMMA SumEquations ==
  ASSUME NEW w, NEW n \in Nat, NEW f, IsSum(f, w, n)
  PROVE  /\ f[0] = 0
         /\ \A i \in 0..(n - 1) : f[i + 1] = f[i] + w[i]
<1>1. \A j \in 0..n : f[j] = IF j = 0 THEN 0 ELSE f[j - 1] + w[j - 1]
  BY SumAt
<1>2. f[0] = 0
  <2>1. 0 \in 0..n
    OBVIOUS
  <2>2. QED
    BY <1>1, <2>1
<1>3. ASSUME NEW i \in 0..(n - 1) PROVE f[i + 1] = f[i] + w[i]
  <2>1. PICK j \in 0..n : j = i + 1
    OBVIOUS
  <2>2. f[j] = IF j = 0 THEN 0 ELSE f[j - 1] + w[j - 1]
    BY <1>1
  <2>3. j # 0 /\ j - 1 = i
    BY <2>1
  <2>4. QED
    BY <2>1, <2>2, <2>3
<1>4. QED
  BY <1>2, <1>3

\* The function that the recursion defines is a running sum.
LEMMA RunningSum ==
  ASSUME NEW w, NEW n \in Nat, NEW f,
         f = CHOOSE h : h = [i \in 0..n |-> IF i = 0 THEN 0 ELSE h[i - 1] + w[i - 1]]
  PROVE  IsSum(f, w, n)
<1>1. PICK h : IsSum(h, w, n)
  BY SumExists
<1>2. QED
  BY <1>1, Zenon DEF IsSum

\* displ[i] is the sum of the lengths of the first i members of seqs.
IsDispl(displ, seqs, n) ==
  /\ displ[0] = 0
  /\ \A i \in 0..(n - 1) : displ[i + 1] = displ[i] + Len(seqs[i + 1])

\* Displacements are numbers, and grow.
LEMMA DisplGrows ==
  ASSUME NEW S, NEW n \in Nat, NEW seqs \in [1..n -> Seq(S)], NEW displ, IsDispl(displ, seqs, n)
  PROVE  \A m \in Nat : m <= n => /\ displ[m] \in Nat
                                   /\ \A i \in 0..m : displ[i] \in Nat /\ displ[i] <= displ[m]
<1> DEFINE T == {m \in Nat : m <= n => /\ displ[m] \in Nat
                                        /\ \A i \in 0..m : displ[i] \in Nat /\ displ[i] <= displ[m]}
<1>1. 0 \in T
  BY DEF IsDispl
<1>2. ASSUME NEW m \in Nat, m \in T PROVE m + 1 \in T
  <2> SUFFICES ASSUME m + 1 <= n
               PROVE  /\ displ[m + 1] \in Nat
                      /\ \A i \in 0..(m + 1) : displ[i] \in Nat /\ displ[i] <= displ[m + 1]
    OBVIOUS
  <2>1. m \in 0..(n - 1) /\ m + 1 \in 1..n
    OBVIOUS
  <2>2. PICK l \in Nat : l = Len(seqs[m + 1])
    BY <2>1, LenProperties
  <2>3. displ[m + 1] = displ[m] + l
    BY <2>1, <2>2 DEF IsDispl
  <2>4. \A i \in 0..m : displ[i] \in Nat /\ displ[i] <= displ[m]
    BY <1>2, <2>1
  <2>5. displ[m] \in Nat
    BY <1>2, <2>1
  <2>6. ASSUME NEW i \in 0..(m + 1) PROVE displ[i] \in Nat /\ displ[i] <= displ[m + 1]
    <3>1. CASE i = m + 1
      BY <2>3, <2>5, <3>1
    <3>2. CASE i \in 0..m
      BY <2>3, <2>4, <3>2
    <3>3. QED
      BY <3>1, <3>2
  <2>7. QED
    BY <2>3, <2>5, <2>6
<1>3. \A m \in Nat : m \in T
  <2> HIDE DEF T
  <2>1. QED
    BY <1>1, <1>2, SetInduction
<1>4. QED
  BY <1>3

\* The first m members, and that the blocks are where displ says in flat.
FirstBlocks(seqs, m) == [i \in 1..m |-> seqs[i]]
Placed(flat, displ, seqs, m) ==
  /\ Len(flat) = displ[m]
  /\ \A i \in 1..m : SubSeq(flat, displ[i - 1] + 1, displ[i]) = seqs[i]

\* One more block is appended to the first ones.
LEMMA FirstBlocksProperties ==
  ASSUME NEW S, NEW n \in Nat, NEW seqs \in [1..n -> Seq(S)], NEW m \in 0..n
  PROVE  /\ FirstBlocks(seqs, m) \in Seq(Seq(S)) /\ Len(FirstBlocks(seqs, m)) = m
         /\ \A j \in 1..n : j = m + 1 => FirstBlocks(seqs, j) = Append(FirstBlocks(seqs, m), seqs[j])
<1>1. FirstBlocks(seqs, m) \in [1..m -> Seq(S)]
  BY DEF FirstBlocks
<1>2. FirstBlocks(seqs, m) \in Seq(Seq(S)) /\ Len(FirstBlocks(seqs, m)) = m
  BY DEF FirstBlocks
<1>3. QED
  BY <1>2 DEF FirstBlocks

\* Where the blocks of a concatenation are: behind the sum of the lengths of the
\* blocks before them.
LEMMA FlattenBlocks ==
  ASSUME NEW S, NEW n \in Nat, NEW seqs \in [1..n -> Seq(S)], NEW displ,
         IsDispl(displ, seqs, n)
  PROVE  Placed(FlattenSeq(seqs), displ, seqs, n)
<1> DEFINE T == {m \in Nat : m <= n => Placed(FlattenSeq(FirstBlocks(seqs, m)), displ, seqs, m)}
<1>1. 0 \in T
  <2>1. FirstBlocks(seqs, 0) = <<>>
    BY DEF FirstBlocks
  <2>2. FlattenSeq(FirstBlocks(seqs, 0)) = <<>>
    BY <2>1, FlattenEmpty
  <2>3. QED
    BY <2>2 DEF Placed, IsDispl
<1>2. ASSUME NEW m \in Nat, m \in T PROVE m + 1 \in T
  <2> SUFFICES ASSUME m + 1 <= n
               PROVE  Placed(FlattenSeq(FirstBlocks(seqs, m + 1)), displ, seqs, m + 1)
    OBVIOUS
  <2>1. PICK j \in 1..n : j = m + 1 /\ m \in 0..(n - 1) /\ m \in 0..n /\ m <= n
    OBVIOUS
  <2>2. PICK s \in Seq(S) : s = seqs[j]
    OBVIOUS
  <2>3. PICK front \in Seq(Seq(S)) : front = FirstBlocks(seqs, m)
    BY <2>1, FirstBlocksProperties
  <2>4. FirstBlocks(seqs, j) = Append(front, s)
    <3>1. FirstBlocks(seqs, j) = Append(FirstBlocks(seqs, m), seqs[j])
      BY <2>1, FirstBlocksProperties, ZenonT(30)
    <3>2. QED
      BY <2>1, <2>2, <2>3, <3>1
  <2>5. PICK flat \in Seq(S) : flat = FlattenSeq(front)
    BY FlattenType
  <2>6. PICK all : all = FlattenSeq(Append(front, s))
    OBVIOUS
  <2>7. Placed(flat, displ, seqs, m)
    BY <1>2, <2>3, <2>5
  <2>8. /\ displ[m] \in Nat /\ Len(s) \in Nat /\ displ[j] \in Nat
        /\ displ[j] = displ[m] + Len(s)
    <3>1. displ[m + 1] = displ[m] + Len(seqs[m + 1])
      BY <2>1 DEF IsDispl
    <3>2. displ[m] \in Nat
      BY <2>1, DisplGrows, ZenonT(30)
    <3>3. Len(s) \in Nat
      BY LenProperties
    <3>4. QED
      BY <2>1, <2>2, <3>1, <3>2, <3>3
  <2>9. Len(all) = displ[j]
    <3>1. all = flat \o s
      BY <2>5, <2>6, FlattenAppend
    <3>2. QED
      BY <2>7, <2>8, <3>1, ConcatProperties DEF Placed
  <2>10. ASSUME NEW i \in 1..j PROVE SubSeq(all, displ[i - 1] + 1, displ[i]) = seqs[i]
    <3>1. CASE i = j
      <4>1. SubSeq(all, displ[m] + 1, displ[m] + Len(s)) = s
        BY <2>5, <2>6, <2>7, FlattenLastBlock DEF Placed
      <4>2. i - 1 = m
        BY <2>1, <3>1
      <4>3. QED
        BY <2>2, <2>8, <3>1, <4>1, <4>2
    <3>2. CASE i # j
      <4>1. i \in 1..m /\ i - 1 \in 0..i /\ i - 1 \in 0..m /\ i \in 0..m /\ i <= n /\ i \in Nat /\ m <= n
        BY <2>1, <3>2
      <4>2. PICK a \in Nat, b \in Nat : a = displ[i - 1] /\ b = displ[i] /\ a <= b /\ b <= displ[m]
        BY <4>1, DisplGrows
      <4>3. SubSeq(flat, a + 1, b) = seqs[i] /\ b <= Len(flat)
        BY <2>7, <4>1, <4>2 DEF Placed
      <4>4. SubSeq(all, a + 1, b) = SubSeq(flat, a + 1, b)
        <5>1. b <= Len(FlattenSeq(front)) /\ a <= b
          BY <2>5, <4>2, <4>3
        <5>2. SubSeq(FlattenSeq(Append(front, s)), a + 1, b) = SubSeq(FlattenSeq(front), a + 1, b)
          BY <5>1, FlattenKeepsBlocks, ZenonT(60)
        <5>3. QED
          BY <2>5, <2>6, <5>2
      <4>5. QED
        BY <4>2, <4>3, <4>4
    <3>3. QED
      BY <3>1, <3>2
  <2>11. Placed(all, displ, seqs, j)
    BY <2>9, <2>10 DEF Placed
  <2>12. QED
    BY <2>1, <2>4, <2>6, <2>11
<1>3. \A m \in Nat : m \in T
  <2> HIDE DEF T
  <2>1. QED
    BY <1>1, <1>2, SetInduction
<1>4. FirstBlocks(seqs, n) = seqs
  BY DEF FirstBlocks
<1>5. QED
  BY <1>3, <1>4

------------------------------------------------------------------------------
(***************************************************************************)
(* Reverse                                                                 *)
(***************************************************************************)

\* The members of a reversed sequence ...
LEMMA ReverseProperties ==
  ASSUME NEW S, NEW s \in Seq(S)
  PROVE  /\ Reverse(s) \in Seq(S)
         /\ Len(Reverse(s)) = Len(s)
         /\ \A i \in 1..Len(s) : Reverse(s)[i] = s[(Len(s) - i) + 1]
<1>1. PICK n \in Nat : n = Len(s)
  BY LenProperties
<1>2. Reverse(s) = [i \in 1..n |-> s[(n - i) + 1]]
  BY <1>1 DEF Reverse
<1>3. \A i \in 1..n : s[(n - i) + 1] \in S
  <2>1. \A i \in 1..n : (n - i) + 1 \in 1..n
    OBVIOUS
  <2>2. QED
    BY <1>1, <2>1, ElementOfSeq
<1>4. Reverse(s) \in [1..n -> S]
  BY <1>2, <1>3
<1>5. Reverse(s) \in Seq(S)
  BY <1>4, SeqDef
<1>6. Len(Reverse(s)) = n
  BY <1>2
<1>7. QED
  BY <1>1, <1>2, <1>5, <1>6

\* ... the same with a name for the length.
LEMMA ReverseOfLength ==
  ASSUME NEW S, NEW s \in Seq(S), NEW n, Len(s) = n
  PROVE  /\ Reverse(s) \in Seq(S) /\ Len(Reverse(s)) = n
         /\ \A i \in 1..n : Reverse(s)[i] = s[(n - i) + 1]
<1>1. /\ Reverse(s) \in Seq(S) /\ Len(Reverse(s)) = Len(s)
      /\ \A i \in 1..Len(s) : Reverse(s)[i] = s[(Len(s) - i) + 1]
  BY ReverseProperties
<1>2. QED
  BY <1>1

\* The members of a concatenation, with names for the lengths.
LEMMA ConcatOfLengths ==
  ASSUME NEW S, NEW s \in Seq(S), NEW t \in Seq(S), NEW m, Len(s) = m, NEW n, Len(t) = n
  PROVE  /\ s \o t \in Seq(S) /\ Len(s \o t) = m + n
         /\ \A i \in 1..(m + n) : (s \o t)[i] = IF i <= m THEN s[i] ELSE t[i - m]
<1>1. /\ s \o t \in Seq(S) /\ Len(s \o t) = Len(s) + Len(t)
      /\ \A i \in 1..(Len(s) + Len(t)) : (s \o t)[i] = IF i <= Len(s) THEN s[i] ELSE t[i - Len(s)]
  BY ConcatProperties
<1>2. QED
  BY <1>1

\* Two sequences that agree everywhere are equal.
LEMMA SameSequence ==
  ASSUME NEW S, NEW s \in Seq(S), NEW t \in Seq(S), NEW n, Len(s) = n, Len(t) = n,
         \A i \in 1..n : s[i] = t[i]
  PROVE  s = t
  BY SeqEqual

\* A sequence that has the members of one and then those of another is both in turn.
LEMMA Joined ==
  ASSUME NEW S, NEW a \in Seq(S), NEW b \in Seq(S), NEW c \in Seq(S), Len(c) = Len(a) + Len(b),
         \A i \in 1..Len(a) : c[i] = a[i], \A i \in 1..Len(b) : c[Len(a) + i] = b[i]
  PROVE  c = a \o b
<1>1. PICK m \in Nat, n \in Nat : m = Len(a) /\ n = Len(b)
  BY LenProperties
<1>2. PICK d : d = a \o b
  OBVIOUS
<1>3. d \in Seq(S) /\ Len(d) = m + n /\ \A i \in 1..(m + n) : d[i] = IF i <= m THEN a[i] ELSE b[i - m]
  BY <1>1, <1>2, ConcatOfLengths
<1>4. ASSUME NEW i \in 1..(m + n) PROVE d[i] = c[i]
  <2>1. CASE i <= m
    BY <1>1, <1>3, <2>1
  <2>2. CASE ~(i <= m)
    <3>1. PICK j \in 1..n : i = m + j
      <4>1. i - m \in 1..n /\ i = m + (i - m)
        BY <2>2
      <4>2. QED
        BY <4>1
    <3>2. d[i] = b[j]
      <4>1. j = i - m
        BY <3>1
      <4>2. QED
        BY <1>3, <2>2, <4>1
    <3>3. QED
      BY <1>1, <3>1, <3>2
  <2>3. QED
    BY <2>1, <2>2
<1>5. QED
  BY <1>1, <1>2, <1>3, <1>4, SameSequence

\* Nothing reversed is nothing.
LEMMA ReverseEmpty == Reverse(<<>>) = <<>>
  BY DEF Reverse

\* Reversing twice gives the sequence back.
LEMMA ReverseTwice ==
  ASSUME NEW S, NEW s \in Seq(S)
  PROVE  Reverse(Reverse(s)) = s
<1>1. PICK t \in Seq(S) : t = Reverse(s) /\ Len(t) = Len(s)
  BY ReverseProperties
<1>2. PICK u \in Seq(S) : u = Reverse(t) /\ Len(u) = Len(t)
  BY ReverseProperties
<1>3. PICK n \in Nat : n = Len(s)
  BY LenProperties
<1>4. ASSUME NEW i \in 1..n PROVE u[i] = s[i]
  <2>1. PICK j \in 1..n : j = (n - i) + 1
    OBVIOUS
  <2>2. u[i] = t[j]
    BY <1>1, <1>2, <1>3, <2>1, ReverseProperties
  <2>3. t[j] = s[(n - j) + 1]
    BY <1>1, <1>3, ReverseProperties
  <2>4. (n - j) + 1 = i
    BY <2>1
  <2>5. QED
    BY <2>2, <2>3, <2>4
<1>5. QED
  BY <1>1, <1>2, <1>3, <1>4, SeqEqual

\* Reversing a concatenation reverses both parts and swaps them.
LEMMA ReverseConcat ==
  ASSUME NEW S, NEW s \in Seq(S), NEW t \in Seq(S)
  PROVE  Reverse(s \o t) = Reverse(t) \o Reverse(s)
<1>1. PICK m \in Nat, n \in Nat : m = Len(s) /\ n = Len(t)
  BY LenProperties
<1>2. PICK u \in Seq(S) : u = s \o t /\ Len(u) = m + n
  BY <1>1, ConcatProperties
<1>3. PICK v \in Seq(S) : /\ v = Reverse(u) /\ Len(v) = m + n
                         /\ \A i \in 1..(m + n) : v[i] = u[((m + n) - i) + 1]
  <2>1. PICK l \in Nat : l = m + n /\ Len(u) = l
    BY <1>2
  <2>2. /\ Reverse(u) \in Seq(S) /\ Len(Reverse(u)) = l
        /\ \A i \in 1..l : Reverse(u)[i] = u[(l - i) + 1]
    BY <2>1, ReverseOfLength
  <2>3. QED
    BY <2>1, <2>2
<1>4. PICK rs \in Seq(S), rt \in Seq(S) :
        /\ rs = Reverse(s) /\ rt = Reverse(t) /\ Len(rs) = m /\ Len(rt) = n
        /\ \A i \in 1..m : rs[i] = s[(m - i) + 1]
        /\ \A i \in 1..n : rt[i] = t[(n - i) + 1]
  BY <1>1, ReverseProperties
<1>5. PICK w \in Seq(S) : /\ w = rt \o rs /\ Len(w) = m + n
                         /\ \A i \in 1..(m + n) : w[i] = IF i <= n THEN rt[i] ELSE rs[i - n]
  <2>1. /\ rt \o rs \in Seq(S) /\ Len(rt \o rs) = n + m
        /\ \A i \in 1..(n + m) : (rt \o rs)[i] = IF i <= n THEN rt[i] ELSE rs[i - n]
    BY <1>4, ConcatOfLengths
  <2>2. n + m = m + n
    OBVIOUS
  <2>3. QED
    BY <2>1, <2>2
<1>6. ASSUME NEW i \in 1..(m + n) PROVE v[i] = w[i]
  <2>1. PICK j \in 1..(m + n) : j = ((m + n) - i) + 1
    OBVIOUS
  <2>2. v[i] = u[j]
    BY <1>3, <2>1
  <2>3. u[j] = IF j <= m THEN s[j] ELSE t[j - m]
    BY <1>1, <1>2, ConcatProperties
  <2>4. w[i] = IF i <= n THEN rt[i] ELSE rs[i - n]
    BY <1>5
  <2>5. CASE i <= n
    <3>1. i \in 1..n /\ ~(j <= m) /\ (n - i) + 1 = j - m
      BY <2>1, <2>5
    <3>2. rt[i] = t[j - m]
      BY <1>4, <3>1
    <3>3. QED
      BY <2>2, <2>3, <2>4, <2>5, <3>1, <3>2
  <2>6. CASE ~(i <= n)
    <3>1. PICK k \in 1..m : k = i - n /\ j <= m /\ (m - k) + 1 = j
      BY <2>1, <2>6
    <3>2. rs[k] = s[j]
      BY <1>4, <3>1
    <3>3. QED
      BY <2>2, <2>3, <2>4, <2>6, <3>1, <3>2
  <2>7. QED
    BY <2>5, <2>6
<1>7. v = w
  <2>1. PICK l \in Nat : l = m + n
    OBVIOUS
  <2>2. QED
    BY <1>3, <1>5, <1>6, <2>1, SameSequence
<1>8. QED
  BY <1>2, <1>3, <1>4, <1>5, <1>7

------------------------------------------------------------------------------
(***************************************************************************)
(* The largest member of a sequence of numbers                             *)
(***************************************************************************)

\* A sequence of numbers that is not empty has a largest member.
LEMMA LargestExists ==
  ASSUME NEW f
  PROVE  \A n \in Nat : n > 0 /\ (\A i \in 1..n : f[i] \in Nat) =>
           \E m \in 1..n : \A i \in 1..n : f[m] >= f[i]
<1> DEFINE T == {n \in Nat : n > 0 /\ (\A i \in 1..n : f[i] \in Nat) =>
                               \E m \in 1..n : \A i \in 1..n : f[m] >= f[i]}
<1>1. 0 \in T
  OBVIOUS
<1>2. ASSUME NEW n \in Nat, n \in T PROVE n + 1 \in T
  <2> SUFFICES ASSUME \A i \in 1..(n + 1) : f[i] \in Nat
               PROVE  \E m \in 1..(n + 1) : \A i \in 1..(n + 1) : f[m] >= f[i]
    OBVIOUS
  <2>1. CASE n = 0
    BY <2>1
  <2>2. CASE n > 0
    <3>1. PICK m \in 1..n : \A i \in 1..n : f[m] >= f[i]
      BY <1>2, <2>2
    <3>2. CASE f[m] >= f[n + 1]
      BY <3>1, <3>2
    <3>3. CASE ~(f[m] >= f[n + 1])
      <4>1. ASSUME NEW i \in 1..(n + 1) PROVE f[n + 1] >= f[i]
        <5>1. CASE i = n + 1
          BY <5>1
        <5>2. CASE i \in 1..n
          BY <3>1, <3>3, <5>2
        <5>3. QED
          BY <5>1, <5>2
      <4>2. QED
        BY <4>1
    <3>4. QED
      BY <3>2, <3>3
  <2>3. QED
    BY <2>1, <2>2
<1>3. \A n \in Nat : n \in T
  <2> HIDE DEF T
  <2>1. QED
    BY <1>1, <1>2, SetInduction
<1>4. QED
  BY <1>3

\* Max is that member.
LEMMA MaxOfMembers ==
  ASSUME NEW f, NEW n \in Nat \ {0}, \A i \in 1..n : f[i] \in Nat
  PROVE  /\ Max({f[i] : i \in 1..n}) \in Nat
         /\ \E i \in 1..n : Max({f[k] : k \in 1..n}) = f[i]
         /\ \A i \in 1..n : f[i] <= Max({f[k] : k \in 1..n})
<1>1. PICK A : A = {f[i] : i \in 1..n}
  OBVIOUS
<1>2. \E x \in A : \A y \in A : x >= y
  <2>1. PICK m \in 1..n : \A i \in 1..n : f[m] >= f[i]
    <3>1. n \in Nat /\ n > 0
      OBVIOUS
    <3>2. QED
      BY <3>1, LargestExists
  <2>2. QED
    BY <1>1, <2>1
<1>3. Max(A) \in A /\ \A y \in A : Max(A) >= y
  BY <1>2 DEF Max
<1>4. \A x \in A : x \in Nat
  BY <1>1
<1>5. QED
  BY <1>1, <1>3, <1>4

=============================================================================
