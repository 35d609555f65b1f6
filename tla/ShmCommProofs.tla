---------------------------- MODULE ShmCommProofs ----------------------------
(***************************************************************************)
(* The collectives of ShmComm are correct for any number of partitions,    *)
(* any count matrices, any vector length and cache line, and any sequence  *)
(* of verbs: ShmInv is inductive, although a partition may unwind between  *)
(* any two steps while its peers read its memory.                          *)
(***************************************************************************)
EXTENDS ShmComm, PartitionRoundsProofs, SequenceLemmas

------------------------------------------------------------------------------
(***************************************************************************)
(* The slices of an in-place reduction                                     *)
(***************************************************************************)

\* Division as slice_of uses it.
LEMMA Quotient ==
  ASSUME NEW e \in Nat, NEW n \in Nat \ {0}
  PROVE  /\ e \div n \in Nat
         /\ (e \div n) * n <= e /\ e < (e \div n) * n + n
  OBVIOUS

\* Multiples of a line grow with the factor.
LEMMA Multiples ==
  ASSUME NEW a \in Nat, NEW b \in Nat, NEW n \in Nat
  PROVE  /\ a * n \in Nat
         /\ a < b => a * n + n <= b * n
  OBVIOUS

\* Rounding up a quotient: a multiple of n that is no less than a.
LEMMA RoundedUp ==
  ASSUME NEW a \in Nat, NEW n \in Nat \ {0}
  PROVE  /\ (a + n - 1) \div n \in Nat
         /\ a <= ((a + n - 1) \div n) * n
<1>1. PICK b \in Nat : b = a + n - 1
  OBVIOUS
<1>2. PICK q \in Nat : q = b \div n
  BY Quotient
<1>3. b < q * n + n /\ q * n \in Nat
  BY <1>2, Quotient, Multiples
<1>4. QED
  BY <1>1, <1>2, <1>3

\* N slices of SliceSize elements are long enough for the whole vector.
LEMMA SlicesSuffice == SliceSize \in Nat /\ VecLen <= N * SliceSize
<1> USE ShmPartsAssumption, ShmBoundsAssumption
<1>1. PICK lines \in Nat : lines = (VecLen + Line - 1) \div Line
  BY RoundedUp
<1>2. PICK each \in Nat : each = (lines + N - 1) \div N
  BY RoundedUp
<1>3. SliceSize = each * Line /\ each * Line \in Nat
  BY <1>1, <1>2, Multiples DEF SliceSize
<1>4. VecLen <= lines * Line
  BY <1>1, RoundedUp
<1>5. lines <= each * N
  BY <1>2, RoundedUp
<1>6. lines * Line <= (each * N) * Line
  BY <1>5, Multiples
<1>7. (each * N) * Line = N * (each * Line)
  OBVIOUS
<1>8. QED
  BY <1>3, <1>4, <1>6, <1>7

\* A slice begins and ends within the vector.
LEMMA SliceBounds ==
  ASSUME NEW p \in Parts
  PROVE  /\ SliceLo(p) \in 0..VecLen /\ SliceHi(p) \in SliceLo(p)..VecLen
         /\ \A e \in SliceLo(p)..(SliceHi(p) - 1) :
              e \in 0..(VecLen - 1) /\ p * SliceSize <= e /\ e < p * SliceSize + SliceSize
<1>1. SliceSize \in Nat /\ p \in Nat /\ p * SliceSize \in Nat
  BY SlicesSuffice, Multiples, ShmPartsAssumption
<1>2. QED
  BY <1>1, ShmBoundsAssumption DEF SliceLo, SliceHi, MinOf

\* The slices of two partitions have no element in common ...
LEMMA SlicesDisjoint ==
  ASSUME NEW p \in Parts, NEW q \in Parts, NEW e,
         e \in SliceLo(p)..(SliceHi(p) - 1), e \in SliceLo(q)..(SliceHi(q) - 1)
  PROVE  p = q
<1>1. SliceSize \in Nat /\ p \in Nat /\ q \in Nat
  BY SlicesSuffice, ShmPartsAssumption
<1>2. e \in Nat /\ p * SliceSize <= e /\ e < p * SliceSize + SliceSize
  BY SliceBounds, ShmBoundsAssumption
<1>3. e \in Nat /\ q * SliceSize <= e /\ e < q * SliceSize + SliceSize
  BY SliceBounds, ShmBoundsAssumption
<1>4. ~(p < q) /\ ~(q < p)
  BY <1>1, <1>2, <1>3, Multiples
<1>5. QED
  BY <1>1, <1>4

\* ... and every element is in one of them.
LEMMA SlicesCover ==
  ASSUME NEW e \in 0..(VecLen - 1)
  PROVE  \E p \in Parts : e \in SliceLo(p)..(SliceHi(p) - 1)
<1>1. SliceSize \in Nat /\ VecLen <= N * SliceSize /\ N \in Nat /\ VecLen \in Nat
  BY SlicesSuffice, ShmPartsAssumption, ShmBoundsAssumption
<1>2. e \in Nat /\ SliceSize \in Nat \ {0}
  <2>1. N * SliceSize > 0
    BY <1>1
  <2>2. QED
    BY <1>1, <2>1
<1>3. PICK p \in Nat : p = e \div SliceSize
  BY <1>2, Quotient
<1>4. p * SliceSize <= e /\ e < p * SliceSize + SliceSize /\ p * SliceSize \in Nat
  BY <1>2, <1>3, Quotient, Multiples
<1>5. p < N
  <2> SUFFICES ASSUME N <= p PROVE FALSE
    BY <1>1
  <2>1. N * SliceSize <= p * SliceSize
    BY <1>1, Multiples
  <2>2. N * SliceSize \in Nat
    BY <1>1, Multiples
  <2>3. QED
    BY <1>1, <1>2, <1>4, <2>1, <2>2
<1>6. p \in Parts
  BY <1>5, ShmPartsAssumption
<1>7. e \in SliceLo(p)..(SliceHi(p) - 1)
  BY <1>1, <1>2, <1>4 DEF SliceLo, SliceHi, MinOf
<1>8. QED
  BY <1>6, <1>7

------------------------------------------------------------------------------
(***************************************************************************)
(* The buffers of an alltoallv                                             *)
(***************************************************************************)

Cells == Parts \X Nat \X Parts \X Nat

\* The verbs of the script with the sizes of their rows and blocks.
LEMMA VerbTypes ==
  ASSUME ShmTypeOK, NEW k \in 1..Len(script)
  PROVE  /\ script[k] \in Verbs /\ k \in Nat
         /\ \A s \in Parts : Row(k, s) \in [Parts -> Nat]
         /\ \A s, d \in Parts : Block(k, s, d) \in Seq(Cells) /\ Len(Block(k, s, d)) = Row(k, s)[d]
<1>1. script \in Seq(Verbs) /\ k \in Nat /\ script[k] \in Verbs
  <2>1. script \in Seq(Verbs)
    BY ScriptsAssumption DEF ShmTypeOK
  <2>2. QED
    BY <2>1, ElementOfSeq, LenProperties
<1>2. ASSUME NEW s \in Parts PROVE Row(k, s) \in [Parts -> Nat]
  <2>1. traffic[k] \in Matrices
    BY DEF ShmTypeOK
  <2>2. traffic[k] \in [Parts -> [Parts -> Nat]]
    BY <2>1, MatricesAssumption
  <2>3. QED
    BY <2>2 DEF Row
<1>3. ASSUME NEW s \in Parts, NEW d \in Parts
      PROVE  Block(k, s, d) \in Seq(Cells) /\ Len(Block(k, s, d)) = Row(k, s)[d]
  <2>1. PICK n \in Nat : n = Row(k, s)[d]
    BY <1>2
  <2>2. [i \in 1..n |-> <<s, k, d, i>>] \in Seq(Cells)
    BY <1>1 DEF Cells
  <2>3. QED
    BY <2>1, <2>2 DEF Block
<1>4. QED
  BY <1>1, <1>2, <1>3

\* What a peer copies from a sender's buffer, from the sender's displacement for
\* it, is the block the sender laid out for it.
LEMMA SendBlock ==
  ASSUME ShmTypeOK, NEW k \in 1..Len(script), NEW s \in Parts, NEW d \in Parts
  PROVE  SubSeq(SendBuffer(k, s), SendDispl(k, s, d) + 1, SendDispl(k, s, d) + Row(k, s)[d])
           = Block(k, s, d)
<1> DEFINE w == Row(k, s)
           displ == CHOOSE h : h = [i \in 0..N |-> IF i = 0 THEN 0 ELSE h[i - 1] + w[i - 1]]
<1>1. N \in Nat /\ Parts = 0..(N - 1) /\ d + 1 \in 1..N /\ d \in Nat
  BY ShmPartsAssumption
<1>2. PICK seqs \in [1..N -> Seq(Cells)] : seqs = [i \in 1..N |-> Block(k, s, i - 1)]
  <2>1. \A i \in 1..N : Block(k, s, i - 1) \in Seq(Cells)
    <3>1. \A i \in 1..N : i - 1 \in Parts
      BY <1>1
    <3>2. QED
      BY <3>1, VerbTypes
  <2>2. QED
    BY <2>1
<1>3. IsSum(displ, w, N)
  BY <1>1, RunningSum, Zenon
<1>4. SendDispl(k, s, d) = displ[d]
  BY DEF SendDispl
<1> HIDE DEF displ
<1>5. IsDispl(displ, seqs, N)
  <2>1. displ[0] = 0 /\ \A i \in 0..(N - 1) : displ[i + 1] = displ[i] + w[i]
    BY <1>1, <1>3, SumEquations, Zenon
  <2>2. ASSUME NEW i \in 0..(N - 1) PROVE Len(seqs[i + 1]) = w[i]
    <3>1. seqs[i + 1] = Block(k, s, i) /\ i \in Parts
      BY <1>1, <1>2
    <3>2. QED
      BY <3>1, VerbTypes
  <2>3. QED
    BY <2>1, <2>2 DEF IsDispl
<1>6. Placed(FlattenSeq(seqs), displ, seqs, N)
  BY <1>1, <1>5, FlattenBlocks
<1>7. SubSeq(FlattenSeq(seqs), displ[d] + 1, displ[d + 1]) = seqs[d + 1]
  <2>1. PICK i \in 1..N : i = d + 1 /\ i - 1 = d
    BY <1>1
  <2>2. QED
    BY <1>6, <2>1 DEF Placed
<1>8. displ[d + 1] = displ[d] + w[d]
  BY <1>1, <1>3, SumEquations
<1>9. seqs[d + 1] = Block(k, s, d)
  BY <1>1, <1>2
<1>10. QED
  BY <1>2, <1>4, <1>7, <1>8, <1>9 DEF SendBuffer

\* The blocks for p of the first n sources, in the order of their sources.
Inbox(k, p, n) == FlattenSeq([i \in 1..n |-> Block(k, i - 1, p)])

\* One more block has been received.
LEMMA InboxGrows ==
  ASSUME ShmTypeOK, NEW k \in 1..Len(script), NEW p \in Parts
  PROVE  /\ Inbox(k, p, 0) = <<>>
         /\ \A s \in Parts : /\ Inbox(k, p, s + 1) = Inbox(k, p, s) \o Block(k, s, p)
                             /\ Row(k, s)[p] = 0 => Inbox(k, p, s + 1) = Inbox(k, p, s)
<1>1. Inbox(k, p, 0) = <<>>
  BY FlattenEmpty DEF Inbox
<1>2. ASSUME NEW s \in Parts
      PROVE  /\ Inbox(k, p, s + 1) = Inbox(k, p, s) \o Block(k, s, p)
             /\ Row(k, s)[p] = 0 => Inbox(k, p, s + 1) = Inbox(k, p, s)
  <2>1. s \in Nat /\ N \in Nat /\ Parts = 0..(N - 1)
    BY ShmPartsAssumption
  <2>2. PICK b \in Seq(Cells) : b = Block(k, s, p) /\ Len(b) = Row(k, s)[p]
    BY VerbTypes
  <2>3. PICK seqs \in Seq(Seq(Cells)) : seqs = [i \in 1..s |-> Block(k, i - 1, p)]
    <3>1. \A i \in 1..s : Block(k, i - 1, p) \in Seq(Cells)
      <4>1. \A i \in 1..s : i - 1 \in Parts
        BY <2>1
      <4>2. QED
        BY <4>1, VerbTypes
    <3>2. [i \in 1..s |-> Block(k, i - 1, p)] \in [1..s -> Seq(Cells)]
      BY <3>1
    <3>3. [i \in 1..s |-> Block(k, i - 1, p)] \in Seq(Seq(Cells))
      BY <2>1, <3>2, SeqDef
    <3>4. QED
      BY <3>3
  <2>4. [i \in 1..(s + 1) |-> Block(k, i - 1, p)] = Append(seqs, b)
    <3>1. Len(seqs) = s
      BY <2>1, <2>3
    <3>2. (s + 1) - 1 = s
      BY <2>1
    <3>3. QED
      BY <2>1, <2>2, <2>3, <3>1, <3>2
  <2>5. Inbox(k, p, s + 1) = Inbox(k, p, s) \o b
    BY <2>3, <2>4, FlattenAppend DEF Inbox
  <2>6. Inbox(k, p, s) \in Seq(Cells)
    BY <2>3, FlattenType DEF Inbox
  <2>7. ASSUME Row(k, s)[p] = 0 PROVE Inbox(k, p, s + 1) = Inbox(k, p, s)
    <3>1. b = <<>>
      BY <2>2, <2>7, EmptySeq
    <3>2. QED
      BY <2>5, <2>6, <3>1, ConcatEmptySeq
  <2>8. QED
    BY <2>2, <2>5, <2>7
<1>3. QED
  BY <1>1, <1>2

\* One element of every vector, added up in the order of the partitions.
LEMMA AscendingSum ==
  ASSUME NEW k \in Nat
  PROVE  /\ FlattenSeq([i \in 1..N |-> <<<<i - 1, k>>>>]) = [i \in 1..N |-> <<i - 1, k>>]
         /\ [i \in 1..N |-> <<i - 1, k>>] \in Seq(Parts \X Nat)
<1>1. PICK t : t = [i \in 1..N |-> <<i - 1, k>>]
  OBVIOUS
<1>2. \A i \in 1..N : <<i - 1, k>> \in Parts \X Nat
  BY ShmPartsAssumption
<1>3. t \in Seq(Parts \X Nat) /\ Len(t) = N
  <2>1. N \in Nat
    BY ShmPartsAssumption
  <2>2. t \in [1..N -> Parts \X Nat]
    BY <1>1, <1>2
  <2>3. t \in Seq(Parts \X Nat)
    BY <2>1, <2>2, SeqDef
  <2>4. QED
    BY <1>1, <2>1, <2>3
<1>4. FlattenSeq([i \in 1..Len(t) |-> <<t[i]>>]) = t
  BY <1>3, FlattenSingletons
<1>5. [i \in 1..Len(t) |-> <<t[i]>>] = [i \in 1..N |-> <<<<i - 1, k>>>>]
  BY <1>1, <1>3
<1>6. QED
  BY <1>1, <1>3, <1>4, <1>5

------------------------------------------------------------------------------
(***************************************************************************)
(* What a partition that reads may rely on                                 *)
(***************************************************************************)

\* The verbs, and what each publishes.
LEMMA VerbsAre ==
  /\ Verbs = {"counts", "alltoallv", "resolve", "sum", "inplace"}
  /\ Publishes["counts"] = {"counts"}
  /\ Publishes["alltoallv"] = {"ptr", "displs"}
  /\ Publishes["resolve"] = {"ptr", "displs", "counts"}
  /\ Publishes["sum"] = {"num"}
  /\ Publishes["inplace"] = {"vec"}
  /\ Fields = {"counts", "ptr", "displs", "num", "vec"}
<1>1. Verbs = {"counts", "alltoallv", "resolve", "sum", "inplace"}
  BY DEF Verbs, Publishes
<1>2. /\ Publishes["counts"] = {"counts"} /\ Publishes["alltoallv"] = {"ptr", "displs"}
      /\ Publishes["resolve"] = {"ptr", "displs", "counts"} /\ Publishes["sum"] = {"num"}
      /\ Publishes["inplace"] = {"vec"}
  BY DEF Publishes
<1>3. QED
  BY <1>1, <1>2 DEF Fields

\* The invariant, taken apart.
LEMMA InvParts ==
  ASSUME ShmInv
  PROVE  /\ ShmTypeOK /\ RoundsInv /\ len = 2 * Len(script)
         /\ Len(script) \in Nat /\ script \in Seq(Verbs) /\ len <= MaxSyncs
         /\ \A p \in Parts : /\ StageInv(p) /\ MemoryInv(p) /\ RoundInv(p)
                             /\ dangling[p] => Doomed(p)
                             /\ verb[p] > 0 => Doomed(p) \/ ReadInv(p)
                             /\ verb[p] > 0 /\ Kind(p) = "inplace" => VecInv(p)
<1>1. ShmTypeOK /\ RoundsInv /\ len = 2 * Len(script)
  BY DEF ShmInv
<1>2. script \in Seq(Verbs) /\ 2 * Len(script) <= MaxSyncs
  BY <1>1, ScriptsAssumption DEF ShmTypeOK
<1>3. Len(script) \in Nat
  BY <1>2, LenProperties
<1>4. \A p \in Parts : RoundInv(p)
  BY <1>1 DEF RoundsInv
<1>5. QED
  BY <1>1, <1>2, <1>3, <1>4, Zenon DEF ShmInv

\* The counters are numbers.
LEMMA Numbers ==
  ASSUME ShmInv, NEW p \in Parts
  PROVE  /\ enters[p] \in Nat /\ returns[p] \in Nat /\ verb[p] \in Nat /\ src[p] \in Nat
         /\ verb[p] <= Len(script)
         /\ stage[p] \in {"idle", "sync1", "count", "read", "sync2"}
         /\ phase[p] \in {"body", "round", "unwind", "done"}
         /\ err[p] \in {"none", "own", "poisoned"}
         /\ verb[p] > 0 => verb[p] \in 1..Len(script) /\ Kind(p) \in Verbs
<1>1. /\ ShmTypeOK /\ TypeOK /\ Len(script) \in Nat /\ script \in Seq(Verbs)
      /\ N \in Nat /\ VecLen \in Nat /\ MaxSyncs \in Nat
  BY InvParts, ShmPartsAssumption, ShmBoundsAssumption, RoundsAssumption DEF ShmTypeOK
<1>2. /\ enters[p] \in 0..MaxSyncs /\ returns[p] \in 0..MaxSyncs
      /\ phase[p] \in {"body", "round", "unwind", "done"} /\ err[p] \in Errors
  BY <1>1 DEF TypeOK
<1>3. /\ verb[p] \in 0..Len(script) /\ src[p] \in 0..(IF N > VecLen THEN N ELSE VecLen)
      /\ stage[p] \in {"idle", "sync1", "count", "read", "sync2"}
  BY <1>1 DEF ShmTypeOK
<1>4. verb[p] > 0 => verb[p] \in 1..Len(script) /\ Kind(p) \in Verbs
  BY <1>1, <1>3, ElementOfSeq DEF Kind
<1>5. QED
  BY <1>1, <1>2, <1>3, <1>4 DEF Errors

\* While p reads, everybody is in p's verb: nobody is behind its first barrier,
\* and nobody past its second.
LEMMA EverybodyIsHere ==
  ASSUME ShmInv, NEW p \in Parts, phase[p] = "body", stage[p] \in {"count", "read"}
  PROVE  /\ verb[p] > 0
         /\ \A q \in Parts : verb[q] = verb[p] /\ stage[q] # "idle" /\ Kind(q) = Kind(p)
<1>1. returns[p] = 2 * verb[p] - 1 /\ enters[p] = returns[p]
  BY InvParts, Numbers DEF StageInv, RoundInv
<1>2. verb[p] > 0
  BY <1>1, Numbers
<1>3. ASSUME NEW q \in Parts PROVE verb[q] = verb[p] /\ stage[q] # "idle" /\ Kind(q) = Kind(p)
  <2>1. returns[p] <= enters[q] /\ returns[q] <= enters[p]
    BY InvParts DEF RoundsInv
  <2>2. StageInv(q) /\ RoundInv(q)
    BY InvParts
  <2>3. CASE stage[q] = "idle"
    <3>1. returns[q] = 2 * verb[q] /\ enters[q] = returns[q]
      BY <2>2, <2>3 DEF StageInv, RoundInv
    <3>2. QED
      BY <1>1, <2>1, <3>1, Numbers
  <2>4. CASE stage[q] = "sync1"
    <3>1. returns[q] = 2 * verb[q] - 2 /\ enters[q] <= returns[q] + 1
      BY <2>2, <2>4, Numbers DEF StageInv, RoundInv
    <3>2. verb[q] = verb[p]
      BY <1>1, <2>1, <3>1, Numbers, SMTT(60)
    <3>3. QED
      BY <2>4, <3>2 DEF Kind
  <2>5. CASE stage[q] \notin {"idle", "sync1"}
    <3>1. returns[q] = 2 * verb[q] - 1 /\ enters[q] <= returns[q] + 1
      BY <2>2, <2>5, Numbers DEF StageInv, RoundInv
    <3>2. verb[q] = verb[p]
      BY <1>1, <2>1, <3>1, Numbers, SMTT(60)
    <3>3. QED
      BY <2>5, <3>2 DEF Kind
  <2>6. QED
    BY <2>3, <2>4, <2>5
<1>4. QED
  BY <1>2, <1>3

\* What p's verb published is there, for every peer, unless the verb fails.
LEMMA LiveOrDoomed ==
  ASSUME ShmInv, NEW p \in Parts, phase[p] = "body", stage[p] \in {"count", "read"}, ~Doomed(p),
         NEW q \in Parts, NEW f \in Publishes[Kind(p)]
  PROVE  Live(p, q, f)
<1>1. verb[p] > 0 /\ verb[q] = verb[p] /\ stage[q] # "idle" /\ Kind(q) = Kind(p)
  BY EverybodyIsHere
<1>2. StageInv(q) /\ RoundInv(q) /\ MemoryInv(q)
  BY InvParts
<1>3. phase[q] # "done"
  <2> SUFFICES ASSUME phase[q] = "done" PROVE FALSE
    OBVIOUS
  <2>1. err[q] # "none"
    BY <1>1, <1>2 DEF StageInv
  <2>2. enters[q] <= 2 * verb[p]
    BY <1>1, <1>2, Numbers DEF StageInv, RoundInv
  <2>3. CASE enters[q] < 2 * verb[p]
    BY <2>1, <2>3 DEF Doomed
  <2>4. CASE enters[q] = 2 * verb[p]
    <3>1. err[q] = "poisoned"
      BY <1>1, <1>2, <2>4, Numbers DEF StageInv, RoundInv
    <3>2. PICK r \in Parts : err[r] # "none" /\ enters[r] < enters[q]
      BY <1>2, <3>1 DEF RoundInv
    <3>3. QED
      BY <2>4, <3>2 DEF Doomed
  <2>5. QED
    BY <2>2, <2>3, <2>4, Numbers, SMTT(60)
<1>4. mem[q] = verb[p] /\ slot[q][f] = verb[p]
  BY <1>1, <1>2, <1>3 DEF MemoryInv
<1>5. QED
  BY <1>4 DEF Live

\* A verb that has completed is not doomed: everybody has entered its second
\* barrier.
LEMMA IdleIsNotDoomed ==
  ASSUME ShmInv, NEW p \in Parts, stage[p] = "idle"
  PROVE  ~Doomed(p)
<1> SUFFICES ASSUME NEW q \in Parts, enters[q] < 2 * verb[p] PROVE FALSE
  BY DEF Doomed
<1>1. returns[p] = 2 * verb[p] /\ returns[p] <= enters[q]
  BY InvParts DEF StageInv, RoundsInv
<1>2. QED
  BY <1>1, Numbers

------------------------------------------------------------------------------
(***************************************************************************)
(* What a step of p leaves alone                                           *)
(***************************************************************************)

\* A step of the verbs is a step of the rounds, or none.
LEMMA RoundsStep ==
  ASSUME NEW p \in Parts, ShmStep(p)
  PROVE  Step(p) \/ UNCHANGED roundVars
  BY DEF ShmStep, Step, Begin, EnterSync, ReturnSync, FailSync, ReadCount, ResizeThrows,
         ReadBlock, ReadNumber, ReduceElement, BodyThrows, LeaveJob

\* The rounds underneath keep their invariant.
LEMMA ShmRoundsInv ==
  ASSUME ShmInv, NEW p \in Parts, ShmStep(p)
  PROVE  /\ RoundsInv' /\ len' = len
         /\ \A q \in Parts : err[q] # "none" => err'[q] # "none" /\ enters'[q] = enters[q]
         /\ \A q \in Parts \ {p} : /\ enters'[q] = enters[q] /\ returns'[q] = returns[q]
                                   /\ err'[q] = err[q] /\ phase'[q] = phase[q]
<1>1. RoundsInv
  BY InvParts
<1>2. CASE Step(p)
  BY <1>1, <1>2, StepRoundsInv, OthersStay, UnwoundStays
<1>3. CASE UNCHANGED roundVars
  BY <1>1, <1>3 DEF roundVars, RoundsInv, RoundInv, TypeOK
<1>4. QED
  BY <1>2, <1>3, RoundsStep

\* The job is given.
LEMMA JobStays ==
  ASSUME NEW p \in Parts, ShmStep(p)
  PROVE  script' = script /\ traffic' = traffic
  BY DEF ShmStep, Begin, EnterSync, ReturnSync, FailSync, ReadCount, ResizeThrows,
         ReadBlock, ReadNumber, ReduceElement, BodyThrows, LeaveJob, shmVars, job

\* A partition that does not begin a verb stays in its verb, and fills no slot.
LEMMA VerbStays ==
  ASSUME ShmTypeOK, NEW p \in Parts, ShmStep(p), NEW q \in Parts, q # p \/ ~Begin(p)
  PROVE  verb'[q] = verb[q] /\ slot'[q] = slot[q]
<1>1. CASE Begin(p)
  BY <1>1 DEF Begin, ShmTypeOK
<1>2. CASE ~Begin(p)
  BY <1>2 DEF ShmStep, EnterSync, ReturnSync, FailSync, ReadCount, ResizeThrows,
         ReadBlock, ReadNumber, ReduceElement, BodyThrows, LeaveJob, shmVars, caller
<1>3. QED
  BY <1>1, <1>2

\* A step of p: nobody else moves.
LEMMA PeersStay ==
  ASSUME ShmTypeOK, NEW p \in Parts, ShmStep(p), NEW q \in Parts \ {p}
  PROVE  /\ stage'[q] = stage[q] /\ src'[q] = src[q] /\ mem'[q] = mem[q]
         /\ recvCounts'[q] = recvCounts[q] /\ dangling'[q] = dangling[q]
         /\ got'[q] = got[q]
<1> USE DEF ShmTypeOK
<1>1. CASE Begin(p)
  BY <1>1 DEF Begin
<1>2. CASE EnterSync(p) \/ FailSync(p) \/ ResizeThrows(p) \/ BodyThrows(p)
  BY <1>2 DEF EnterSync, FailSync, ResizeThrows, BodyThrows, shmVars, caller, results
<1>3. CASE ReturnSync(p)
  BY <1>3 DEF ReturnSync, caller, results
<1>4. CASE ReadCount(p)
  BY <1>4 DEF ReadCount, Advance, Touch, caller
<1>5. CASE ReadBlock(p)
  BY <1>5 DEF ReadBlock, Advance, Touch, caller
<1>6. CASE ReadNumber(p)
  BY <1>6 DEF ReadNumber, Advance, caller
<1>7. CASE ReduceElement(p)
  BY <1>7 DEF ReduceElement, Advance, caller
<1>8. CASE LeaveJob(p)
  BY <1>8 DEF LeaveJob, results
<1>9. QED
  BY <1>1, <1>2, <1>3, <1>4, <1>5, <1>6, <1>7, <1>8 DEF ShmStep

\* A verb that cannot complete never will.
LEMMA DoomedStays ==
  ASSUME ShmInv, NEW p \in Parts, ShmStep(p), NEW q \in Parts, verb'[q] = verb[q], Doomed(q)
  PROVE  Doomed(q)'
<1>1. PICK r \in Parts : err[r] # "none" /\ enters[r] < 2 * verb[q]
  BY DEF Doomed
<1>2. err'[r] # "none" /\ enters'[r] < 2 * verb'[q]
  BY <1>1, ShmRoundsInv
<1>3. QED
  BY <1>2 DEF Doomed

\* All of ShmInv but the types and VecInv, for one partition.
PartInv(q) ==
  /\ StageInv(q) /\ MemoryInv(q)
  /\ verb[q] > 0 => Doomed(q) \/ ReadInv(q)
  /\ dangling[q] => Doomed(q)

\* A step of one partition disturbs nothing that the others rely on.
LEMMA PeersKeepPartInv ==
  ASSUME ShmInv, NEW p \in Parts, ShmStep(p), NEW q \in Parts \ {p}
  PROVE  PartInv(q)'
<1>1. /\ ShmTypeOK /\ StageInv(q) /\ MemoryInv(q)
      /\ verb[q] > 0 => Doomed(q) \/ ReadInv(q)
      /\ dangling[q] => Doomed(q)
  BY InvParts
<1>2. /\ script' = script /\ traffic' = traffic /\ verb'[q] = verb[q] /\ slot'[q] = slot[q]
      /\ stage'[q] = stage[q] /\ src'[q] = src[q] /\ mem'[q] = mem[q]
      /\ recvCounts'[q] = recvCounts[q] /\ dangling'[q] = dangling[q] /\ got'[q] = got[q]
      /\ returns'[q] = returns[q] /\ err'[q] = err[q] /\ phase'[q] = phase[q]
  BY <1>1, JobStays, VerbStays, PeersStay, ShmRoundsInv
<1>3. StageInv(q)'
  BY <1>1, <1>2 DEF StageInv, Kind, SliceLo, SliceHi, SliceSize
<1>4. MemoryInv(q)'
  BY <1>1, <1>2 DEF MemoryInv, Kind
<1>5. ReadInv(q) => ReadInv(q)'
  BY <1>2 DEF ReadInv, Kind, CountsDone, SourcesDone, Row, Block
<1>6. QED
  BY <1>1, <1>2, <1>3, <1>4, <1>5, DoomedStays DEF PartInv

\* The sums stay as they are when p's step changes neither the vector nor what p
\* is done with.
LEMMA VecStays ==
  ASSUME ShmInv, NEW p \in Parts, ShmStep(p), NEW s \in Parts, VecInv(s),
         verb'[s] = verb[s], vec'[s] = vec[s],
         \A e \in SliceLo(p)..(SliceHi(p) - 1) : Reduced(p, e, verb[s])' <=> Reduced(p, e, verb[s])
  PROVE  VecInv(s)'
<1>1. ASSUME NEW o \in Parts, NEW e \in SliceLo(o)..(SliceHi(o) - 1)
      PROVE  Reduced(o, e, verb[s])' <=> Reduced(o, e, verb[s])
  <2>1. CASE o = p
    BY <2>1
  <2>2. CASE o # p
    <3>1. stage'[o] = stage[o] /\ src'[o] = src[o] /\ verb'[o] = verb[o]
      BY <2>2, InvParts, PeersStay, VerbStays
    <3>2. QED
      BY <3>1 DEF Reduced
  <2>3. QED
    BY <2>1, <2>2
<1>2. QED
  BY <1>1 DEF VecInv, SliceLo, SliceHi, SliceSize

------------------------------------------------------------------------------
(***************************************************************************)
(* PartInv, action by action                                               *)
(***************************************************************************)

\* Entering a verb.
LEMMA BeginPartInv ==
  ASSUME ShmInv, NEW p \in Parts, Begin(p)
  PROVE  PartInv(p)'
<1>1. ShmTypeOK /\ StageInv(p) /\ RoundInv(p) /\ (dangling[p] => Doomed(p))
  BY InvParts
<1>2. PICK k \in 1..Len(script) : k = verb[p] + 1
  BY InvParts, Numbers DEF Begin
<1>3. script[k] \in Verbs /\ k \in Nat
  BY <1>1, VerbTypes
<1>4. /\ verb'[p] = k /\ mem'[p] = k /\ stage'[p] = "sync1" /\ got'[p] = <<>>
      /\ \A f \in Fields : slot'[p][f] = IF f \in Publishes[script[k]] THEN k ELSE slot[p][f]
      /\ \A s \in Parts : recvCounts'[p][s] = IF script[k] = "alltoallv" THEN Row(k, s)[p] ELSE 0
  <2>1. slot'[p] = [f \in Fields |-> IF f \in Publishes[script[k]] THEN k ELSE slot[p][f]]
    BY <1>1, <1>2 DEF Begin, ShmTypeOK
  <2>2. QED
    BY <1>1, <1>2, <2>1 DEF Begin, ShmTypeOK
<1>5. /\ script' = script /\ traffic' = traffic /\ dangling' = dangling
      /\ enters' = enters /\ returns' = returns /\ err' = err /\ phase' = phase
  BY DEF Begin, job, roundVars
<1>6. Kind(p)' = script[k]
  BY <1>4, <1>5 DEF Kind
<1>7. StageInv(p)'
  <2>1. returns'[p] = 2 * verb'[p] - 2
    BY <1>1, <1>2, <1>4, <1>5, Numbers DEF Begin, StageInv
  <2>2. QED
    BY <1>4, <1>5, <2>1 DEF Begin, StageInv
<1>8. MemoryInv(p)'
  <2>1. \A f \in Publishes[script[k]] : f \in Fields
    BY <1>3 DEF Fields
  <2>2. QED
    BY <1>4, <1>5, <1>6, <2>1 DEF Begin, MemoryInv
<1>9. ReadInv(p)'
  <2>1. CountsDone(p)' = IF script[k] = "alltoallv" THEN N ELSE 0
    BY <1>4, <1>6 DEF CountsDone
  <2>2. SourcesDone(p)' = 0
    BY <1>4 DEF SourcesDone
  <2>3. \A s \in Parts : s < CountsDone(p)' => recvCounts'[p][s] = Row(k, s)[p]
    BY <1>4, <2>1, ShmPartsAssumption
  <2>4. got'[p] = Inbox(k, p, 0)'
    BY <1>4, FlattenEmpty DEF Inbox
  <2>5. got'[p] = [i \in 1..0 |-> <<i - 1, k>>]
    BY <1>4
  <2>6. QED
    BY <1>4, <1>5, <2>2, <2>3, <2>4, <2>5 DEF ReadInv, Inbox, Row
<1>10. ~dangling'[p]
  BY <1>1, <1>5, IdleIsNotDoomed DEF Begin
<1>11. QED
  BY <1>7, <1>8, <1>9, <1>10 DEF PartInv

\* A step of the barrier or of an exception: the verb keeps what it has.
LEMMA RoundPartInv ==
  ASSUME ShmInv, NEW p \in Parts,
         EnterSync(p) \/ FailSync(p) \/ ResizeThrows(p) \/ BodyThrows(p)
  PROVE  PartInv(p)'
<1>1. /\ ShmTypeOK /\ StageInv(p) /\ MemoryInv(p) /\ RoundInv(p) /\ TypeOK
      /\ verb[p] > 0 => Doomed(p) \/ ReadInv(p)
      /\ dangling[p] => Doomed(p)
  BY InvParts DEF ShmTypeOK
<1>2. ShmStep(p) /\ UNCHANGED shmVars
  BY DEF ShmStep, EnterSync, FailSync, ResizeThrows, BodyThrows
<1>3. UNCHANGED <<script, traffic, verb, mem, slot, stage, src, recvCounts, got, dangling>>
  BY <1>2 DEF shmVars, job, caller, results
<1>4. /\ returns'[p] = returns[p] /\ phase'[p] # "done" /\ phase[p] # "done"
      /\ stage[p] \in {"idle", "count", "read"} => phase'[p] # "round" /\ err'[p] # "poisoned"
  BY <1>1 DEF EnterSync, FailSync, ResizeThrows, BodyThrows, Enter, Fail, Throw, TypeOK, StageInv
<1>5. StageInv(p)'
  BY <1>1, <1>3, <1>4 DEF StageInv, Kind, SliceLo, SliceHi, SliceSize
<1>6. MemoryInv(p)'
  BY <1>1, <1>3, <1>4 DEF MemoryInv, Kind
<1>7. ReadInv(p) => ReadInv(p)'
  BY <1>3 DEF ReadInv, Kind, CountsDone, SourcesDone, Row, Block
<1>8. QED
  BY <1>1, <1>2, <1>3, <1>5, <1>6, <1>7, DoomedStays DEF PartInv

\* Returning from a barrier.
LEMMA ReturnPartInv ==
  ASSUME ShmInv, NEW p \in Parts, ReturnSync(p)
  PROVE  PartInv(p)'
<1>1. /\ ShmTypeOK /\ StageInv(p) /\ MemoryInv(p) /\ RoundInv(p) /\ TypeOK
      /\ verb[p] > 0 => Doomed(p) \/ ReadInv(p)
      /\ dangling[p] => Doomed(p)
  BY InvParts DEF ShmTypeOK
<1>2. ShmStep(p)
  BY DEF ShmStep
<1>3. UNCHANGED <<script, traffic, verb, mem, slot, recvCounts, got, vec, dangling>>
  BY DEF ReturnSync, job, caller, results
<1>4. /\ phase[p] = "round" /\ phase'[p] = "body" /\ err'[p] = "none"
      /\ returns'[p] = returns[p] + 1 /\ stage[p] \in {"sync1", "sync2"}
  BY <1>1, Numbers DEF ReturnSync, Return, TypeOK, StageInv, RoundInv
<1>5. Kind(p)' = Kind(p)
  BY <1>3 DEF Kind
<1>6. verb[p] > 0 /\ Kind(p) \in {"counts", "alltoallv", "resolve", "sum", "inplace"}
  <2>1. verb[p] > 0
    BY <1>1, <1>4, Numbers DEF StageInv
  <2>2. QED
    BY <2>1, Numbers, VerbsAre
<1>7. 0 \in Parts /\ src'[p] = IF Kind(p) = "inplace" THEN SliceLo(p) ELSE 0
  BY <1>1, ShmPartsAssumption DEF ReturnSync, ShmTypeOK
<1>8. stage'[p] =
        IF stage[p] = "sync2" THEN "idle"
        ELSE CASE Kind(p) \in {"counts", "resolve"} -> "count"
               [] Kind(p) = "inplace" /\ ~(SliceLo(p) < SliceHi(p)) -> "sync2"
               [] OTHER -> "read"
  BY <1>1 DEF ReturnSync, ShmTypeOK
<1>9. MemoryInv(p)'
  BY <1>1, <1>3, <1>4, <1>5 DEF MemoryInv
<1>10. CASE stage[p] = "sync2"
  <2>1. stage'[p] = "idle"
    BY <1>8, <1>10
  <2>2. StageInv(p)'
    BY <1>1, <1>3, <1>4, <1>10, <2>1, Numbers DEF StageInv
  <2>3. ReadInv(p) => ReadInv(p)'
    BY <1>3, <1>5, <1>10, <2>1 DEF ReadInv, CountsDone, SourcesDone, Row, Block
  <2>4. QED
    BY <1>1, <1>2, <1>3, <1>9, <2>2, <2>3, DoomedStays DEF PartInv
<1>11. CASE stage[p] = "sync1"
  <2>1. returns'[p] = 2 * verb'[p] - 1
    BY <1>1, <1>3, <1>4, <1>11, Numbers DEF StageInv
  <2>2. /\ stage'[p] \in {"count", "read", "sync2"}
        /\ stage'[p] = "count" <=> Kind(p) \in {"counts", "resolve"}
        /\ stage'[p] = "sync2" <=> Kind(p) = "inplace" /\ ~(SliceLo(p) < SliceHi(p))
    BY <1>6, <1>8, <1>11
  <2>3. StageInv(p)'
    <3>1. ASSUME Kind(p) = "inplace", stage'[p] = "read"
          PROVE  src'[p] \in SliceLo(p)..(SliceHi(p) - 1)
      BY <1>7, <2>2, <3>1, SliceBounds, ShmBoundsAssumption
    <3>2. QED
      BY <1>3, <1>4, <1>5, <1>7, <2>1, <2>2, <3>1 DEF StageInv, SliceLo, SliceHi, SliceSize
  <2>4. ReadInv(p) => ReadInv(p)'
    <3> SUFFICES ASSUME ReadInv(p) PROVE ReadInv(p)'
      OBVIOUS
    <3>1. Kind(p) \in {"counts", "alltoallv", "resolve"} => CountsDone(p)' = CountsDone(p)
      BY <1>5, <1>7, <1>11, <2>2 DEF CountsDone
    <3>2. Kind(p) # "inplace" => SourcesDone(p)' = SourcesDone(p)
      BY <1>7, <1>11, <2>2 DEF SourcesDone
    <3>3. QED
      BY <1>3, <1>5, <3>1, <3>2 DEF ReadInv, Row, Block
  <2>5. QED
    BY <1>1, <1>2, <1>3, <1>9, <2>3, <2>4, DoomedStays DEF PartInv
<1>12. QED
  BY <1>4, <1>10, <1>11

\* The reads of a verb: where p is afterwards.
LEMMA AdvanceTo ==
  ASSUME ShmInv, NEW p \in Parts, NEW last \in Int, NEW next, Advance(p, last, next)
  PROVE  \/ src[p] < last /\ src'[p] = src[p] + 1 /\ stage'[p] = stage[p]
         \/ src[p] >= last /\ src'[p] = 0 /\ stage'[p] = next
<1>1. ShmTypeOK /\ src[p] \in Nat
  BY InvParts, Numbers
<1>2. QED
  BY <1>1 DEF Advance, ShmTypeOK

\* Reading one count of a peer.
LEMMA ReadCountPartInv ==
  ASSUME ShmInv, NEW p \in Parts, ReadCount(p)
  PROVE  PartInv(p)'
<1>1. /\ ShmTypeOK /\ StageInv(p) /\ MemoryInv(p)
      /\ verb[p] > 0 => Doomed(p) \/ ReadInv(p)
      /\ dangling[p] => Doomed(p)
  BY InvParts
<1>2. UNCHANGED <<script, traffic, verb, mem, slot, enters, returns, err, phase, got>>
  BY DEF ReadCount, roundVars, job, caller
<1>3. Kind(p)' = Kind(p) /\ (Doomed(p)' <=> Doomed(p))
  BY <1>2 DEF Kind, Doomed
<1>4. /\ phase[p] = "body" /\ stage[p] = "count" /\ Kind(p) \in {"counts", "resolve"}
      /\ src[p] \in Parts /\ returns[p] = 2 * verb[p] - 1 /\ err[p] # "poisoned"
  BY <1>1 DEF ReadCount, StageInv
<1>5. N \in Nat \ {0} /\ Parts = 0..(N - 1)
  BY ShmPartsAssumption
<1>6. \/ src[p] < N - 1 /\ src'[p] = src[p] + 1 /\ stage'[p] = "count"
      \/ src[p] = N - 1 /\ src'[p] = 0
         /\ stage'[p] = IF Kind(p) = "resolve" THEN "read" ELSE "sync2"
  <2>1. PICK next : next = IF Kind(p) = "resolve" THEN "read" ELSE "sync2"
    OBVIOUS
  <2>2. Advance(p, N - 1, next)
    BY <2>1 DEF ReadCount
  <2>3. QED
    BY <1>4, <1>5, <2>1, <2>2, AdvanceTo
<1>7. StageInv(p)'
  BY <1>2, <1>3, <1>4, <1>5, <1>6 DEF StageInv
<1>8. MemoryInv(p)'
  BY <1>1, <1>2, <1>3 DEF MemoryInv
<1>9. CASE Doomed(p)
  BY <1>3, <1>7, <1>8, <1>9 DEF PartInv
<1>10. CASE ~Doomed(p)
  <2>1. Live(p, src[p], "counts") /\ verb[p] > 0 /\ ReadInv(p) /\ ~dangling[p]
    BY <1>1, <1>4, <1>10, EverybodyIsHere, LiveOrDoomed, VerbsAre
  <2>2. ~dangling'[p]
    BY <1>1, <2>1 DEF ReadCount, Touch, ShmTypeOK
  <2>3. recvCounts'[p] = [recvCounts[p] EXCEPT ![src[p]] = Row(verb[p], src[p])[p]]
    BY <1>1, <2>1 DEF ReadCount, ShmTypeOK
  <2>4. ReadInv(p)'
    <3>1. /\ CountsDone(p) = src[p] /\ SourcesDone(p) = 0
          /\ CountsDone(p)' = src[p] + 1
          /\ Kind(p) = "resolve" => SourcesDone(p)' = 0
      BY <1>3, <1>4, <1>5, <1>6 DEF CountsDone, SourcesDone
    <3>2. ASSUME NEW s \in Parts, s < src[p] + 1
          PROVE  recvCounts'[p][s] = Row(verb[p], s)[p]
      <4>1. recvCounts[p] \in [Parts -> Nat]
        BY <1>1 DEF ShmTypeOK
      <4>2. s < src[p] => recvCounts[p][s] = Row(verb[p], s)[p]
        BY <1>4, <2>1, <3>1 DEF ReadInv
      <4>3. QED
        BY <1>4, <1>5, <2>3, <3>2, <4>1, <4>2
    <3>3. Kind(p) = "resolve" => got[p] = Inbox(verb[p], p, 0)
      BY <2>1, <3>1 DEF ReadInv, Inbox
    <3>4. QED
      BY <1>2, <1>3, <1>4, <3>1, <3>2, <3>3 DEF ReadInv, Inbox, Row, Block
  <2>5. QED
    BY <1>7, <1>8, <2>2, <2>4 DEF PartInv
<1>11. QED
  BY <1>9, <1>10

\* Copying one block of a peer.
LEMMA ReadBlockPartInv ==
  ASSUME ShmInv, NEW p \in Parts, ReadBlock(p)
  PROVE  PartInv(p)'
<1>1. /\ ShmTypeOK /\ StageInv(p) /\ MemoryInv(p)
      /\ verb[p] > 0 => Doomed(p) \/ ReadInv(p)
      /\ dangling[p] => Doomed(p)
  BY InvParts
<1>2. UNCHANGED <<script, traffic, verb, mem, slot, enters, returns, err, phase, recvCounts>>
  BY DEF ReadBlock, roundVars, job, caller
<1>3. Kind(p)' = Kind(p) /\ (Doomed(p)' <=> Doomed(p))
  BY <1>2 DEF Kind, Doomed
<1>4. /\ phase[p] = "body" /\ stage[p] = "read" /\ Kind(p) \in {"alltoallv", "resolve"}
      /\ src[p] \in Parts /\ returns[p] = 2 * verb[p] - 1 /\ err[p] # "poisoned"
  BY <1>1 DEF ReadBlock, StageInv
<1>5. N \in Nat \ {0} /\ Parts = 0..(N - 1)
  BY ShmPartsAssumption
<1>6. \/ src[p] < N - 1 /\ src'[p] = src[p] + 1 /\ stage'[p] = "read"
      \/ src[p] = N - 1 /\ src'[p] = 0 /\ stage'[p] = "sync2"
  BY <1>4, <1>5, AdvanceTo DEF ReadBlock
<1>7. StageInv(p)'
  BY <1>2, <1>3, <1>4, <1>5, <1>6 DEF StageInv
<1>8. MemoryInv(p)'
  BY <1>1, <1>2, <1>3 DEF MemoryInv
<1>9. CASE Doomed(p)
  BY <1>3, <1>7, <1>8, <1>9 DEF PartInv
<1>10. CASE ~Doomed(p)
  <2>1. /\ Live(p, src[p], "ptr") /\ Live(p, src[p], "displs")
        /\ verb[p] > 0 /\ ReadInv(p) /\ ~dangling[p]
    BY <1>1, <1>4, <1>10, EverybodyIsHere, LiveOrDoomed, VerbsAre
  <2>2. PICK k \in 1..Len(script) : k = verb[p]
    BY <2>1, Numbers
  <2>3. PICK s \in Parts : s = src[p]
    BY <1>4
  <2>4. recvCounts[p][s] = Row(k, s)[p] /\ got[p] = Inbox(k, p, s)
    <3>1. CountsDone(p) = N /\ SourcesDone(p) = s
      BY <1>4, <2>3 DEF CountsDone, SourcesDone
    <3>2. QED
      BY <1>4, <1>5, <2>1, <2>2, <3>1 DEF ReadInv, Inbox
  <2>5. got'[p] = Inbox(k, p, s + 1) /\ ~dangling'[p]
    <3>1. CASE recvCounts[p][s] = 0
      <4>1. got' = got /\ dangling' = dangling
        BY <2>3, <3>1 DEF ReadBlock
      <4>2. Inbox(k, p, s + 1) = Inbox(k, p, s)
        BY <1>1, <2>4, <3>1, InboxGrows
      <4>3. QED
        BY <2>1, <2>4, <4>1, <4>2
    <3>2. CASE recvCounts[p][s] # 0
      <4>1. SubSeq(SendBuffer(k, s), SendDispl(k, s, p) + 1, SendDispl(k, s, p) + recvCounts[p][s])
              = Block(k, s, p)
        BY <1>1, <2>4, SendBlock
      <4>2. got' = [got EXCEPT ![p] = @ \o Block(k, s, p)]
        BY <2>1, <2>2, <2>3, <3>2, <4>1 DEF ReadBlock
      <4>3. got'[p] = got[p] \o Block(k, s, p)
        BY <1>1, <4>2 DEF ShmTypeOK
      <4>4. ~dangling'[p]
        BY <1>1, <2>1, <2>3, <3>2 DEF ReadBlock, Touch, ShmTypeOK
      <4>5. QED
        BY <1>1, <2>4, <4>3, <4>4, InboxGrows
    <3>3. QED
      BY <3>1, <3>2
  <2>6. ReadInv(p)'
    <3>1. CountsDone(p) = N /\ CountsDone(p)' = N /\ SourcesDone(p)' = s + 1
      BY <1>3, <1>4, <1>5, <1>6, <2>3 DEF CountsDone, SourcesDone
    <3>2. Inbox(k, p, s + 1)' = Inbox(k, p, s + 1)
      BY <1>2 DEF Inbox, Block, Row
    <3>3. \A q \in Parts : recvCounts[p][q] = Row(verb[p], q)[p]
      BY <1>4, <1>5, <2>1, <3>1 DEF ReadInv
    <3>4. QED
      BY <1>2, <1>3, <1>4, <2>2, <2>5, <3>1, <3>2, <3>3 DEF ReadInv, Inbox, Row
  <2>7. QED
    BY <1>7, <1>8, <2>5, <2>6 DEF PartInv
<1>11. QED
  BY <1>9, <1>10

\* Adding the number of a peer.
LEMMA ReadNumberPartInv ==
  ASSUME ShmInv, NEW p \in Parts, ReadNumber(p)
  PROVE  PartInv(p)'
<1>1. /\ ShmTypeOK /\ StageInv(p) /\ MemoryInv(p)
      /\ verb[p] > 0 => Doomed(p) \/ ReadInv(p)
      /\ dangling[p] => Doomed(p)
  BY InvParts
<1>2. UNCHANGED <<script, traffic, verb, mem, slot, enters, returns, err, phase, recvCounts, dangling>>
  BY DEF ReadNumber, roundVars, job, caller
<1>3. Kind(p)' = Kind(p) /\ (Doomed(p)' <=> Doomed(p))
  BY <1>2 DEF Kind, Doomed
<1>4. /\ phase[p] = "body" /\ stage[p] = "read" /\ Kind(p) = "sum"
      /\ src[p] \in Parts /\ returns[p] = 2 * verb[p] - 1 /\ err[p] # "poisoned"
  BY <1>1 DEF ReadNumber, StageInv
<1>5. N \in Nat \ {0} /\ Parts = 0..(N - 1)
  BY ShmPartsAssumption
<1>6. \/ src[p] < N - 1 /\ src'[p] = src[p] + 1 /\ stage'[p] = "read"
      \/ src[p] = N - 1 /\ src'[p] = 0 /\ stage'[p] = "sync2"
  BY <1>4, <1>5, AdvanceTo DEF ReadNumber
<1>7. StageInv(p)'
  BY <1>2, <1>3, <1>4, <1>5, <1>6 DEF StageInv
<1>8. MemoryInv(p)'
  BY <1>1, <1>2, <1>3 DEF MemoryInv
<1>9. ReadInv(p) => ReadInv(p)'
  <2> SUFFICES ASSUME ReadInv(p) PROVE ReadInv(p)'
    OBVIOUS
  <2>1. PICK s \in Parts : s = src[p]
    BY <1>4
  <2>2. slot[s]["num"] = verb[p]
    <3>1. verb[s] = verb[p] /\ verb[s] > 0 /\ Kind(s) = "sum"
      BY <1>4, EverybodyIsHere
    <3>2. MemoryInv(s)
      BY InvParts
    <3>3. QED
      BY <3>1, <3>2, VerbsAre DEF MemoryInv
  <2>3. got'[p] = Append(got[p], <<s, verb[p]>>)
    BY <1>1, <2>1, <2>2 DEF ReadNumber, ShmTypeOK
  <2>4. got[p] = [i \in 1..s |-> <<i - 1, verb[p]>>]
    BY <1>4, <2>1 DEF ReadInv, SourcesDone
  <2>5. got'[p] = [i \in 1..(s + 1) |-> <<i - 1, verb[p]>>]
    <3>1. Len(got[p]) = s /\ s \in Nat /\ (s + 1) - 1 = s
      BY <1>5, <2>4
    <3>2. QED
      BY <2>3, <2>4, <3>1
  <2>6. SourcesDone(p)' = s + 1
    BY <1>5, <1>6, <2>1 DEF SourcesDone
  <2>7. QED
    BY <1>2, <1>3, <1>4, <2>5, <2>6 DEF ReadInv
<1>10. QED
  BY <1>1, <1>2, <1>3, <1>7, <1>8, <1>9 DEF PartInv

\* Adding one element of the own slice.
LEMMA ReduceElementPartInv ==
  ASSUME ShmInv, NEW p \in Parts, ReduceElement(p)
  PROVE  PartInv(p)'
<1>1. /\ ShmTypeOK /\ StageInv(p) /\ MemoryInv(p)
      /\ dangling[p] => Doomed(p)
  BY InvParts
<1>2. UNCHANGED <<script, traffic, verb, mem, slot, enters, returns, err, phase, recvCounts, got>>
  BY DEF ReduceElement, roundVars, job, caller
<1>3. Kind(p)' = Kind(p) /\ (Doomed(p)' <=> Doomed(p))
  BY <1>2 DEF Kind, Doomed
<1>4. /\ phase[p] = "body" /\ stage[p] = "read" /\ Kind(p) = "inplace"
      /\ src[p] \in SliceLo(p)..(SliceHi(p) - 1) /\ returns[p] = 2 * verb[p] - 1
      /\ err[p] # "poisoned"
  BY <1>1 DEF ReduceElement, StageInv
<1>5. SliceLo(p) \in Nat /\ SliceHi(p) \in Nat
  BY SliceBounds, ShmBoundsAssumption
<1>6. \/ src[p] < SliceHi(p) - 1 /\ src'[p] = src[p] + 1 /\ stage'[p] = "read"
      \/ src[p] = SliceHi(p) - 1 /\ src'[p] = 0 /\ stage'[p] = "sync2"
  BY <1>4, <1>5, AdvanceTo DEF ReduceElement
<1>7. StageInv(p)'
  <2>1. SliceLo(p)' = SliceLo(p) /\ SliceHi(p)' = SliceHi(p)
    BY DEF SliceLo, SliceHi, SliceSize
  <2>2. QED
    BY <1>2, <1>3, <1>4, <1>5, <1>6, <2>1 DEF StageInv
<1>8. MemoryInv(p)'
  BY <1>1, <1>2, <1>3 DEF MemoryInv
<1>9. ReadInv(p)'
  BY <1>3, <1>4 DEF ReadInv
<1>10. ~Doomed(p) => ~dangling'[p]
  <2> SUFFICES ASSUME ~Doomed(p) PROVE ~dangling'[p]
    OBVIOUS
  <2>1. \A s \in Parts : Live(p, s, "vec")
    BY <1>4, LiveOrDoomed, VerbsAre
  <2>2. QED
    BY <1>1, <2>1 DEF ReduceElement, ShmTypeOK
<1>11. QED
  BY <1>3, <1>7, <1>8, <1>9, <1>10 DEF PartInv

\* Leaving a verb or unwinding.
LEMMA LeavePartInv ==
  ASSUME ShmInv, NEW p \in Parts, LeaveJob(p)
  PROVE  PartInv(p)'
<1>1. /\ ShmTypeOK /\ TypeOK /\ StageInv(p) /\ MemoryInv(p) /\ RoundInv(p)
      /\ verb[p] > 0 => Doomed(p) \/ ReadInv(p)
      /\ dangling[p] => Doomed(p)
  BY InvParts DEF ShmTypeOK
<1>2. UNCHANGED <<script, traffic, verb, slot, stage, src, enters, returns, err, recvCounts, got, dangling>>
  BY DEF LeaveJob, Leave, job, results
<1>3. phase'[p] = "done" /\ mem'[p] = 0
  BY <1>1 DEF LeaveJob, Leave, ShmTypeOK, TypeOK
<1>4. Kind(p)' = Kind(p) /\ (Doomed(p)' <=> Doomed(p))
  BY <1>2 DEF Kind, Doomed
<1>5. StageInv(p)'
  <2>1. err[p] = "none" => stage[p] = "idle"
    BY <1>1 DEF LeaveJob, Leave, RoundInv
  <2>2. QED
    BY <1>1, <1>2, <1>3, <1>4, <2>1 DEF StageInv, SliceLo, SliceHi, SliceSize
<1>6. MemoryInv(p)'
  BY <1>1, <1>2, <1>3, <1>4 DEF MemoryInv
<1>7. ReadInv(p) => ReadInv(p)'
  BY <1>2, <1>4 DEF ReadInv, CountsDone, SourcesDone, Row, Block
<1>8. QED
  BY <1>1, <1>2, <1>4, <1>5, <1>6, <1>7 DEF PartInv

\* All steps of a partition together.
LEMMA StepPartInv ==
  ASSUME ShmInv, NEW p \in Parts, ShmStep(p), NEW q \in Parts
  PROVE  PartInv(q)'
<1>1. CASE q # p
  BY <1>1, PeersKeepPartInv
<1>2. CASE q = p
  BY <1>2, BeginPartInv, RoundPartInv, ReturnPartInv, ReadCountPartInv, ReadBlockPartInv,
     ReadNumberPartInv, ReduceElementPartInv, LeavePartInv DEF ShmStep
<1>3. QED
  BY <1>1, <1>2

------------------------------------------------------------------------------
(***************************************************************************)
(* The vectors of an in-place reduction, action by action                  *)
(***************************************************************************)

\* When p begins a verb nobody is past the first barrier of that verb.
LEMMA NobodyAhead ==
  ASSUME ShmInv, NEW p \in Parts, Begin(p), NEW o \in Parts
  PROVE  verb[o] <= verb[p] \/ (verb[o] = verb[p] + 1 /\ stage[o] = "sync1")
<1>1. returns[p] = 2 * verb[p] /\ enters[p] = returns[p] /\ returns[o] <= enters[p]
  BY InvParts DEF Begin, StageInv, RoundInv, RoundsInv
<1>2. StageInv(o)
  BY InvParts
<1>3. QED
  BY <1>1, <1>2, Numbers DEF StageInv

\* The vector is published as the caller filled it.
LEMMA BeginVecInv ==
  ASSUME ShmInv, NEW p \in Parts, Begin(p), NEW s \in Parts, verb'[s] > 0, Kind(s)' = "inplace"
  PROVE  VecInv(s)'
<1>1. ShmTypeOK /\ ShmStep(p) /\ verb[p] \in Nat
  BY InvParts, Numbers DEF ShmStep
<1>2. verb'[p] = verb[p] + 1 /\ stage[p] = "idle" /\ stage'[p] = "sync1" /\ script' = script
  BY <1>1 DEF Begin, ShmTypeOK, job
<1>3. CASE s = p
  <2>1. PICK k \in Nat : k = verb[p] + 1
    BY <1>1
  <2>2. vec'[p] = FreshVec(p, k)
    BY <1>1, <2>1 DEF Begin, ShmTypeOK
  <2>3. ASSUME NEW o \in Parts, NEW e \in SliceLo(o)..(SliceHi(o) - 1)
        PROVE  ~Reduced(o, e, verb[p])' /\ vec'[p][e] = <<<<p, k>>>>
    <3>1. vec'[p][e] = <<<<p, k>>>>
      BY <2>2, <2>3, SliceBounds DEF FreshVec
    <3>2. verb[o] <= verb[p] \/ (verb[o] = verb[p] + 1 /\ stage[o] = "sync1")
      BY NobodyAhead
    <3>3. CASE o = p
      BY <1>1, <1>2, <3>1, <3>3 DEF Reduced
    <3>4. CASE o # p
      <4>1. verb'[o] = verb[o] /\ stage'[o] = stage[o] /\ verb[o] \in Nat
        BY <1>1, <3>4, VerbStays, PeersStay, Numbers
      <4>2. QED
        BY <1>1, <1>2, <3>1, <3>2, <4>1 DEF Reduced
    <3>5. QED
      BY <3>3, <3>4
  <2>4. QED
    BY <1>2, <1>3, <2>1, <2>3 DEF VecInv, SliceLo, SliceHi, SliceSize
<1>4. CASE s # p
  <2>1. verb'[s] = verb[s] /\ vec'[s] = vec[s] /\ verb[s] \in Nat
    BY <1>1, <1>4, VerbStays, Numbers DEF Begin, ShmTypeOK
  <2>2. Kind(s) = "inplace"
    BY <1>2, <2>1 DEF Kind
  <2>3. VecInv(s)
    BY <2>1, <2>2, InvParts
  <2>4. \A e \in SliceLo(p)..(SliceHi(p) - 1) : Reduced(p, e, verb[s])' <=> Reduced(p, e, verb[s])
    BY <1>1, <1>2, <2>1 DEF Reduced
  <2>5. QED
    BY <1>1, <2>1, <2>3, <2>4, VecStays
<1>5. QED
  BY <1>3, <1>4

\* No step but Begin and ReduceElement has a say in a sum.
LEMMA OtherVecInv ==
  ASSUME ShmInv, NEW p \in Parts, ShmStep(p), ~Begin(p), ~ReduceElement(p),
         NEW s \in Parts, verb'[s] > 0, Kind(s)' = "inplace"
  PROVE  VecInv(s)'
<1>1. /\ ShmTypeOK /\ StageInv(p) /\ verb[p] \in Nat /\ verb[s] \in Nat /\ src[p] \in Nat
      /\ \A e \in SliceLo(p)..(SliceHi(p) - 1) : e \in Nat /\ SliceLo(p) <= e
  BY InvParts, Numbers, SliceBounds, ShmBoundsAssumption
<1>2. verb' = verb /\ vec' = vec /\ script' = script
  BY DEF ShmStep, EnterSync, ReturnSync, FailSync, ReadCount, ResizeThrows,
         ReadBlock, ReadNumber, BodyThrows, LeaveJob, shmVars, job, caller, results
<1>3. verb[s] > 0 /\ Kind(s) = "inplace" /\ VecInv(s)
  BY <1>2, InvParts DEF Kind
<1>4. verb[p] = verb[s] => Kind(p) = "inplace"
  BY <1>3 DEF Kind
<1>5. ASSUME NEW e \in SliceLo(p)..(SliceHi(p) - 1)
      PROVE  Reduced(p, e, verb[s])' <=> Reduced(p, e, verb[s])
  <2>1. CASE verb[p] # verb[s]
    BY <1>2, <2>1 DEF Reduced
  <2>2. CASE verb[p] = verb[s] /\ ReturnSync(p)
    <3>1. /\ stage'[p] = IF stage[p] = "sync2" THEN "idle"
                         ELSE IF ~(SliceLo(p) < SliceHi(p)) THEN "sync2" ELSE "read"
          /\ src'[p] = SliceLo(p)
      BY <1>1, <1>4, <2>2 DEF ReturnSync, ShmTypeOK
    <3>2. stage[p] \in {"sync1", "sync2"}
      BY <1>1, <2>2, Numbers DEF ReturnSync, Return, StageInv
    <3>3. SliceLo(p) < SliceHi(p) /\ SliceLo(p) <= e
      BY <1>1, <1>5, SliceBounds, ShmBoundsAssumption
    <3>4. QED
      BY <1>1, <1>2, <2>2, <3>1, <3>2, <3>3, SliceBounds, ShmBoundsAssumption DEF Reduced
  <2>3. CASE ~ReturnSync(p) /\ verb[p] = verb[s]
    <3>1. stage' = stage /\ src' = src
      <4>1. ~ReadCount(p) /\ ~ReadBlock(p) /\ ~ReadNumber(p)
        BY <1>1, <1>4, <2>3 DEF ReadCount, ReadBlock, ReadNumber, StageInv
      <4>2. QED
        BY <2>3, <4>1 DEF ShmStep, EnterSync, FailSync, ResizeThrows, BodyThrows, LeaveJob, shmVars
    <3>2. QED
      BY <1>2, <3>1 DEF Reduced
  <2>4. QED
    BY <2>1, <2>2, <2>3
<1>6. QED
  BY <1>2, <1>3, <1>5, VecStays

\* One more element of one slice is reduced.
LEMMA ReduceElementVecInv ==
  ASSUME ShmInv, NEW p \in Parts, ReduceElement(p), NEW s \in Parts
  PROVE  VecInv(s)'
<1>1. /\ ShmTypeOK /\ ShmStep(p) /\ StageInv(p) /\ verb[p] \in Nat /\ src[p] \in Nat
      /\ SliceLo(p) \in Nat /\ SliceHi(p) \in Nat
  BY InvParts, Numbers, SliceBounds, ShmBoundsAssumption DEF ShmStep
<1>2. /\ phase[p] = "body" /\ stage[p] = "read" /\ Kind(p) = "inplace"
      /\ src[p] \in SliceLo(p)..(SliceHi(p) - 1)
  BY <1>1 DEF ReduceElement, StageInv
<1>3. PICK k \in Nat : k = verb[p]
  BY <1>1
<1>4. \A q \in Parts : verb[q] = k /\ Kind(q) = "inplace" /\ verb[q] > 0
  BY <1>2, <1>3, EverybodyIsHere
<1>5. \A q \in Parts : VecInv(q)
  BY <1>4, InvParts
<1>6. verb' = verb /\ script' = script
  BY DEF ReduceElement, caller, job
<1>7. PICK e : e = src[p]
  OBVIOUS
<1>8. \A q \in Parts : vec[q][e] = <<<<q, k>>>>
  <2>1. ~Reduced(p, e, k)
    BY <1>1, <1>2, <1>3, <1>7 DEF Reduced
  <2>2. QED
    BY <1>2, <1>4, <1>5, <1>7, <2>1 DEF VecInv
<1>9. FlattenSeq([i \in 1..N |-> vec[i - 1][e]]) = [i \in 1..N |-> <<i - 1, k>>]
  <2>1. \A i \in 1..N : i - 1 \in Parts
    BY ShmPartsAssumption
  <2>2. [i \in 1..N |-> vec[i - 1][e]] = [i \in 1..N |-> <<<<i - 1, k>>>>]
    BY <1>8, <2>1
  <2>3. QED
    BY <2>2, AscendingSum
<1>10. vec' = [q \in Parts |-> [vec[q] EXCEPT ![e] = [i \in 1..N |-> <<i - 1, k>>]]]
  BY <1>7, <1>9 DEF ReduceElement
<1>11. \/ src[p] < SliceHi(p) - 1 /\ src'[p] = src[p] + 1 /\ stage'[p] = "read"
       \/ src[p] = SliceHi(p) - 1 /\ src'[p] = 0 /\ stage'[p] = "sync2"
  <2>1. PICK last \in Int : last = SliceHi(p) - 1
    BY <1>1
  <2>2. Advance(p, last, "sync2")
    BY <2>1 DEF ReduceElement
  <2>3. QED
    BY <1>1, <1>2, <2>1, <2>2, AdvanceTo
<1>12. ASSUME NEW o \in Parts, NEW x \in SliceLo(o)..(SliceHi(o) - 1)
       PROVE  vec'[s][x] = IF Reduced(o, x, verb[s])' THEN [i \in 1..N |-> <<i - 1, k>>]
                           ELSE <<<<s, k>>>>
  <2>1. x \in 0..(VecLen - 1) /\ x \in Nat
    BY <1>12, SliceBounds, ShmBoundsAssumption
  <2>2. vec[s] \in [0..(VecLen - 1) -> Seq(Parts \X Nat)]
    BY <1>1 DEF ShmTypeOK
  <2>3. CASE x = e
    <3>1. o = p
      BY <1>2, <1>7, <1>12, <2>3, SlicesDisjoint
    <3>2. Reduced(p, x, verb[s])'
      BY <1>1, <1>3, <1>4, <1>6, <1>7, <1>11, <2>3 DEF Reduced
    <3>3. vec'[s][x] = [i \in 1..N |-> <<i - 1, k>>]
      BY <1>10, <2>1, <2>2, <2>3
    <3>4. QED
      BY <3>1, <3>2, <3>3
  <2>4. CASE x # e
    <3>1. vec'[s][x] = vec[s][x]
      BY <1>10, <2>1, <2>2, <2>4
    <3>2. Reduced(o, x, verb[s])' <=> Reduced(o, x, verb[s])
      <4>1. CASE o = p
        BY <1>1, <1>2, <1>3, <1>4, <1>6, <1>7, <1>11, <1>12, <2>1, <2>4, <4>1 DEF Reduced
      <4>2. CASE o # p
        <5>1. stage'[o] = stage[o] /\ src'[o] = src[o]
          BY <1>1, <4>2, PeersStay
        <5>2. QED
          BY <1>6, <5>1 DEF Reduced
      <4>3. QED
        BY <4>1, <4>2
    <3>3. vec[s][x] = IF Reduced(o, x, verb[s]) THEN [i \in 1..N |-> <<i - 1, k>>]
                      ELSE <<<<s, k>>>>
      BY <1>4, <1>5, <1>12 DEF VecInv
    <3>4. QED
      BY <3>1, <3>2, <3>3
  <2>5. QED
    BY <2>3, <2>4
<1>13. verb'[s] = k
  BY <1>4, <1>6
<1>14. QED
  BY <1>12, <1>13 DEF VecInv, SliceLo, SliceHi, SliceSize

------------------------------------------------------------------------------
(***************************************************************************)
(* Types                                                                   *)
(***************************************************************************)

\* Where p reads next.
LEMMA SourceType ==
  ASSUME ShmInv, NEW p \in Parts, ShmStep(p)
  PROVE  /\ src' \in [Parts -> 0..(IF N > VecLen THEN N ELSE VecLen)]
         /\ stage' \in [Parts -> {"idle", "sync1", "count", "read", "sync2"}]
<1>1. /\ ShmTypeOK /\ StageInv(p) /\ N \in Nat \ {0} /\ VecLen \in Nat /\ Parts = 0..(N - 1)
      /\ SliceLo(p) \in 0..VecLen /\ SliceHi(p) \in 0..VecLen
  BY InvParts, ShmPartsAssumption, ShmBoundsAssumption, SliceBounds
<1>2. PICK top \in Nat : top = IF N > VecLen THEN N ELSE VecLen
  BY <1>1
<1>3. N <= top /\ VecLen <= top
  BY <1>1, <1>2
<1>4. /\ src \in [Parts -> 0..top]
      /\ stage \in [Parts -> {"idle", "sync1", "count", "read", "sync2"}]
  BY <1>1, <1>2 DEF ShmTypeOK
<1> DEFINE Good == /\ src' \in [Parts -> 0..top]
                   /\ stage' \in [Parts -> {"idle", "sync1", "count", "read", "sync2"}]
<1> SUFFICES Good
  BY <1>2
<1>5. ASSUME NEW last \in Nat, last <= top, NEW next \in {"read", "sync2"}, Advance(p, last, next)
      PROVE  Good
  <2>1. CASE src[p] < last
    <3>1. src[p] + 1 \in 0..top
      BY <1>4, <1>5, <2>1
    <3>2. QED
      BY <1>4, <1>5, <2>1, <3>1 DEF Advance
  <2>2. CASE ~(src[p] < last)
    BY <1>4, <1>5, <2>2 DEF Advance
  <2>3. QED
    BY <2>1, <2>2
<1>6. CASE Begin(p)
  BY <1>4, <1>6 DEF Begin
<1>7. CASE EnterSync(p) \/ FailSync(p) \/ ResizeThrows(p) \/ BodyThrows(p) \/ LeaveJob(p)
  BY <1>4, <1>7 DEF EnterSync, FailSync, ResizeThrows, BodyThrows, LeaveJob, shmVars
<1>8. CASE ReturnSync(p)
  <2>1. SliceLo(p) \in 0..top /\ 0 \in 0..top
    BY <1>1, <1>2, <1>3
  <2>2. src' = [src EXCEPT ![p] = IF Kind(p) = "inplace" THEN SliceLo(p) ELSE 0]
    BY <1>8 DEF ReturnSync
  <2>3. src' \in [Parts -> 0..top]
    BY <1>4, <2>1, <2>2
  <2>4. stage' \in [Parts -> {"idle", "sync1", "count", "read", "sync2"}]
    BY <1>4, <1>8 DEF ReturnSync
  <2>5. QED
    BY <2>3, <2>4
<1>9. CASE ReadCount(p)
  <2>1. PICK next \in {"read", "sync2"} : next = IF Kind(p) = "resolve" THEN "read" ELSE "sync2"
    OBVIOUS
  <2>2. PICK last \in Nat : last = N - 1 /\ last <= top
    BY <1>1, <1>3
  <2>3. Advance(p, last, next)
    BY <1>9, <2>1, <2>2 DEF ReadCount
  <2>4. QED
    BY <1>5, <2>2, <2>3
<1>10. CASE ReadBlock(p) \/ ReadNumber(p)
  <2>1. PICK last \in Nat : last = N - 1 /\ last <= top
    BY <1>1, <1>3
  <2>2. Advance(p, last, "sync2")
    BY <1>10, <2>1 DEF ReadBlock, ReadNumber
  <2>3. QED
    BY <1>5, <2>1, <2>2
<1>11. CASE ReduceElement(p)
  <2>1. SliceHi(p) > 0
    BY <1>1, <1>11 DEF ReduceElement, StageInv
  <2>2. PICK last \in Nat : last = SliceHi(p) - 1 /\ last <= top
    BY <1>1, <1>2, <1>3, <2>1
  <2>3. Advance(p, last, "sync2")
    BY <1>11, <2>2 DEF ReduceElement
  <2>4. QED
    BY <1>5, <2>2, <2>3
<1>12. QED
  BY <1>6, <1>7, <1>8, <1>9, <1>10, <1>11 DEF ShmStep

\* A vector before it is reduced.
LEMMA FreshVecType ==
  ASSUME NEW p \in Parts, NEW k \in Nat
  PROVE  FreshVec(p, k) \in [0..(VecLen - 1) -> Seq(Parts \X Nat)]
<1>1. <<<<p, k>>>> \in Seq(Parts \X Nat)
  OBVIOUS
<1>2. QED
  BY <1>1 DEF FreshVec

\* What p hands over, and what it reads.
LEMMA MemoryType ==
  ASSUME ShmInv, NEW p \in Parts, ShmStep(p)
  PROVE  /\ recvCounts' \in [Parts -> [Parts -> Nat]]
         /\ got' = [q \in Parts |-> got'[q]]
         /\ vec' \in [Parts -> [0..(VecLen - 1) -> Seq(Parts \X Nat)]]
         /\ dangling' \in [Parts -> BOOLEAN]
<1>1. /\ ShmTypeOK /\ StageInv(p) /\ N \in Nat \ {0} /\ Parts = 0..(N - 1) /\ src[p] \in Nat
      /\ recvCounts \in [Parts -> [Parts -> Nat]] /\ got = [q \in Parts |-> got[q]]
      /\ vec \in [Parts -> [0..(VecLen - 1) -> Seq(Parts \X Nat)]]
      /\ dangling \in [Parts -> BOOLEAN]
  BY InvParts, Numbers, ShmPartsAssumption DEF ShmTypeOK
<1>2. CASE Begin(p)
  <2>1. PICK k \in 1..Len(script) : k = verb[p] + 1
    BY <1>2, InvParts, Numbers DEF Begin
  <2>2. \A s \in Parts : Row(k, s)[p] \in Nat
    BY <1>1, VerbTypes, SMTT(60)
  <2>3. FreshVec(p, k) \in [0..(VecLen - 1) -> Seq(Parts \X Nat)]
    BY FreshVecType
  <2>4. recvCounts' = [recvCounts EXCEPT ![p] = [s \in Parts |->
                          IF script[k] = "alltoallv" THEN Row(k, s)[p] ELSE 0]]
    BY <1>2, <2>1 DEF Begin
  <2>5. recvCounts' \in [Parts -> [Parts -> Nat]]
    BY <1>1, <2>2, <2>4
  <2>6. vec' \in [Parts -> [0..(VecLen - 1) -> Seq(Parts \X Nat)]] /\ dangling' = dangling
    BY <1>1, <1>2, <2>1, <2>3 DEF Begin
  <2>7. got' = [q \in Parts |-> got'[q]]
    BY <1>1, <1>2 DEF Begin
  <2>8. QED
    BY <1>1, <2>5, <2>6, <2>7
<1>3. CASE \/ EnterSync(p) \/ FailSync(p) \/ ResizeThrows(p) \/ BodyThrows(p) \/ LeaveJob(p)
           \/ ReturnSync(p)
  BY <1>1, <1>3 DEF EnterSync, FailSync, ResizeThrows, BodyThrows, LeaveJob, ReturnSync,
                    shmVars, results
<1>4. CASE ReadCount(p)
  <2>1. src[p] \in Parts /\ verb[p] > 0 /\ verb[p] \in 1..Len(script)
    BY <1>1, <1>4, EverybodyIsHere, Numbers DEF ReadCount, StageInv
  <2>2. Row(verb[p], src[p])[p] \in Nat
    BY <1>1, <2>1, VerbTypes, SMTT(60)
  <2>3. recvCounts' \in [Parts -> [Parts -> Nat]]
    BY <1>1, <1>4, <2>1, <2>2 DEF ReadCount
  <2>4. dangling' \in [Parts -> BOOLEAN]
    BY <1>1, <1>4 DEF ReadCount, Touch
  <2>5. QED
    BY <1>1, <1>4, <2>3, <2>4 DEF ReadCount
<1>5. CASE ReadBlock(p)
  <2>1. got' = [q \in Parts |-> got'[q]]
    BY <1>1, <1>5 DEF ReadBlock
  <2>2. dangling' \in [Parts -> BOOLEAN]
    BY <1>1, <1>5 DEF ReadBlock, Touch
  <2>3. QED
    BY <1>1, <1>5, <2>1, <2>2 DEF ReadBlock
<1>6. CASE ReadNumber(p)
  BY <1>1, <1>6 DEF ReadNumber
<1>7. CASE ReduceElement(p)
  <2>1. PICK total : total = FlattenSeq([i \in 1..N |-> vec[i - 1][src[p]]])
    OBVIOUS
  <2>2. vec' = [s \in Parts |-> [vec[s] EXCEPT ![src[p]] = total]]
    BY <1>7, <2>1 DEF ReduceElement
  <2>3. src[p] \in 0..(VecLen - 1)
    BY <1>1, <1>7, SliceBounds DEF ReduceElement, StageInv
  <2>4. total \in Seq(Parts \X Nat)
    <3>1. PICK S : S = Seq(Parts \X Nat)
      OBVIOUS
    <3>2. vec \in [Parts -> [0..(VecLen - 1) -> S]] /\ N \in Nat
      BY <1>1, <3>1
    <3>3. \A i \in 1..N : i - 1 \in Parts
      BY <1>1
    <3>4. \A q \in Parts : vec[q][src[p]] \in S
      BY <2>3, <3>2
    <3>5. [i \in 1..N |-> vec[i - 1][src[p]]] \in [1..N -> S]
      BY <3>3, <3>4
    <3>6. [i \in 1..N |-> vec[i - 1][src[p]]] \in Seq(S)
      BY <3>2, <3>5, SeqDef
    <3>7. QED
      BY <2>1, <3>1, <3>6, FlattenType
  <2>5. vec' \in [Parts -> [0..(VecLen - 1) -> Seq(Parts \X Nat)]]
    BY <1>1, <2>2, <2>3, <2>4
  <2>6. dangling' \in [Parts -> BOOLEAN]
    BY <1>1, <1>7 DEF ReduceElement
  <2>7. QED
    BY <1>1, <1>7, <2>5, <2>6 DEF ReduceElement
<1>8. QED
  BY <1>2, <1>3, <1>4, <1>5, <1>6, <1>7 DEF ShmStep

\* Every step keeps the types.
LEMMA StepTypes ==
  ASSUME ShmInv, NEW p \in Parts, ShmStep(p)
  PROVE  ShmTypeOK'
<1>1. ShmTypeOK /\ Len(script) \in Nat /\ verb[p] \in Nat
  BY InvParts, Numbers
<1>2. script' = script /\ traffic' = traffic
  BY JobStays
<1>3. TypeOK'
  BY ShmRoundsInv DEF RoundsInv
<1>4. /\ verb' \in [Parts -> 0..Len(script)] /\ mem' \in [Parts -> 0..Len(script)]
      /\ slot' \in [Parts -> [Fields -> 0..Len(script)]]
  <2>1. CASE Begin(p)
    <3>1. PICK k \in 0..Len(script) : k = verb[p] + 1
      BY <1>1, <2>1 DEF Begin
    <3>2. slot' = [slot EXCEPT ![p] = [f \in Fields |->
                      IF f \in Publishes[script[k]] THEN k ELSE slot[p][f]]]
      BY <1>1, <2>1, <3>1 DEF Begin, ShmTypeOK
    <3>3. slot' \in [Parts -> [Fields -> 0..Len(script)]]
      BY <1>1, <3>2 DEF ShmTypeOK
    <3>4. QED
      BY <1>1, <2>1, <3>1, <3>3 DEF Begin, ShmTypeOK
  <2>2. CASE LeaveJob(p)
    BY <1>1, <2>2 DEF LeaveJob, ShmTypeOK
  <2>3. CASE ~Begin(p) /\ ~LeaveJob(p)
    BY <1>1, <2>3 DEF ShmTypeOK, ShmStep, EnterSync, ReturnSync, FailSync, ReadCount,
         ResizeThrows, ReadBlock, ReadNumber, ReduceElement, BodyThrows, shmVars, caller
  <2>4. QED
    BY <2>1, <2>2, <2>3
<1>5. QED
  BY <1>1, <1>2, <1>3, <1>4, SourceType, MemoryType DEF ShmTypeOK

------------------------------------------------------------------------------
(***************************************************************************)
(* The theorems                                                            *)
(***************************************************************************)

\* The invariant holds before the first verb ...
LEMMA InitShmInv == ShmInit => ShmInv
<1> SUFFICES ASSUME ShmInit PROVE ShmInv
  OBVIOUS
<1> USE DEF ShmInit
<1>1. script \in Seq(Verbs) /\ 2 * Len(script) <= MaxSyncs /\ Len(script) \in Nat
  <2>1. script \in Seq(Verbs) /\ 2 * Len(script) <= MaxSyncs
    BY ScriptsAssumption
  <2>2. QED
    BY <2>1, LenProperties
<1>2. N \in Nat \ {0} /\ Parts = 0..(N - 1) /\ VecLen \in Nat /\ MaxSyncs \in Nat
  BY ShmPartsAssumption, ShmBoundsAssumption, RoundsAssumption
<1>3. TypeOK
  BY <1>1, <1>2 DEF TypeOK, Errors
<1>4. RoundsInv
  BY <1>1, <1>3 DEF RoundsInv, RoundInv
<1>5. vec \in [Parts -> [0..(VecLen - 1) -> Seq(Parts \X Nat)]]
  <2>1. \A p \in Parts : FreshVec(p, 0) \in [0..(VecLen - 1) -> Seq(Parts \X Nat)]
    BY FreshVecType
  <2>2. QED
    BY <2>1
<1>6. ShmTypeOK
  <2>1. 0 \in 0..(IF N > VecLen THEN N ELSE VecLen) /\ 0 \in 0..Len(script)
    BY <1>1, <1>2
  <2>2. QED
    BY <1>3, <1>5, <2>1 DEF ShmTypeOK
<1>7. ASSUME NEW p \in Parts
      PROVE  StageInv(p) /\ MemoryInv(p) /\ ~(verb[p] > 0) /\ ~dangling[p]
  BY DEF StageInv, MemoryInv
<1>8. QED
  BY <1>4, <1>6, <1>7 DEF ShmInv

\* ... after every step ...
LEMMA StepShmInv ==
  ASSUME ShmInv, NEW p \in Parts, ShmStep(p)
  PROVE  ShmInv'
<1>1. ShmTypeOK' /\ RoundsInv'
  BY StepTypes, ShmRoundsInv
<1>2. (len = 2 * Len(script))'
  BY InvParts, ShmRoundsInv, JobStays
<1>3. ASSUME NEW q \in Parts PROVE PartInv(q)'
  BY StepPartInv
<1>4. ASSUME NEW q \in Parts, verb'[q] > 0, Kind(q)' = "inplace" PROVE VecInv(q)'
  BY <1>4, BeginVecInv, OtherVecInv, ReduceElementVecInv
<1>5. QED
  BY <1>1, <1>2, <1>3, <1>4 DEF ShmInv, PartInv

\* ... and while nothing happens.
LEMMA StutterShmInv ==
  ASSUME ShmInv, UNCHANGED allShmVars
  PROVE  ShmInv'
<1>1. UNCHANGED <<enters, returns, err, phase, len, script, traffic, verb, mem, slot, stage, src,
                  recvCounts, got, vec, dangling>>
  BY DEF allShmVars, shmVars, roundVars, job, caller, results
<1>2. ShmTypeOK' /\ RoundsInv' /\ (len = 2 * Len(script))'
  BY <1>1, InvParts DEF ShmTypeOK, RoundsInv, RoundInv, TypeOK
<1>3. ASSUME NEW p \in Parts
      PROVE  /\ StageInv(p)' /\ MemoryInv(p)' /\ (Doomed(p)' <=> Doomed(p))
             /\ ReadInv(p) => ReadInv(p)'
             /\ VecInv(p) => VecInv(p)'
  <2>1. StageInv(p)'
    BY <1>1, InvParts DEF StageInv, Kind, SliceLo, SliceHi, SliceSize
  <2>2. MemoryInv(p)'
    BY <1>1, InvParts DEF MemoryInv, Kind
  <2>3. Doomed(p)' <=> Doomed(p)
    BY <1>1 DEF Doomed
  <2>4. ReadInv(p) => ReadInv(p)'
    BY <1>1 DEF ReadInv, Kind, CountsDone, SourcesDone, Row, Block
  <2>5. VecInv(p) => VecInv(p)'
    BY <1>1 DEF VecInv, Reduced, SliceLo, SliceHi, SliceSize
  <2>6. QED
    BY <2>1, <2>2, <2>3, <2>4, <2>5
<1>4. \A p \in Parts : Kind(p)' = Kind(p)
  BY <1>1 DEF Kind
<1>5. ASSUME NEW p \in Parts
      PROVE  /\ dangling'[p] => Doomed(p)'
             /\ verb'[p] > 0 => Doomed(p)' \/ ReadInv(p)'
             /\ verb'[p] > 0 /\ Kind(p)' = "inplace" => VecInv(p)'
  BY <1>1, <1>3, <1>4, InvParts
<1>6. QED
  BY <1>2, <1>3, <1>5 DEF ShmInv

\* ShmInv is inductive: with ShmTypeOK, what every partition has read, summed up
\* and may still read, at every point of every verb, whoever throws and when.
THEOREM ShmInductive == ShmSpec => []ShmInv
<1>1. ShmInv /\ [ShmNext]_allShmVars => ShmInv'
  BY StepShmInv, StutterShmInv DEF ShmNext
<1>2. QED
  BY <1>1, InitShmInv, PTL DEF ShmSpec

\* The second barrier has let p go: nobody is still in p's verb but on the way out.
LEMMA EverybodyHasReduced ==
  ASSUME ShmInv, NEW p \in Parts, stage[p] = "idle", verb[p] > 0, NEW o \in Parts, NEW e
  PROVE  Reduced(o, e, verb[p])
<1>1. returns[p] = 2 * verb[p] /\ returns[p] <= enters[o]
  BY InvParts DEF StageInv, RoundsInv
<1>2. StageInv(o) /\ RoundInv(o)
  BY InvParts
<1>3. CASE stage[o] \in {"count", "read", "idle"}
  <2>1. enters[o] = returns[o]
    BY <1>2, <1>3 DEF StageInv, RoundInv
  <2>2. QED
    BY <1>1, <1>2, <1>3, <2>1, Numbers DEF StageInv, Reduced
<1>4. CASE stage[o] \in {"sync1", "sync2"}
  <2>1. enters[o] <= returns[o] + 1
    BY <1>2, Numbers DEF RoundInv
  <2>2. QED
    BY <1>1, <1>2, <1>4, <2>1, Numbers, SMTT(60) DEF StageInv, Reduced
<1>5. QED
  BY <1>3, <1>4, Numbers

\* Every collective delivers what ShmComm promises: the blocks of an alltoallv in
\* the order of their sources, the transpose of the counts, and sums that are the
\* same on every partition, bit for bit.
THEOREM CollectivesDeliver == ShmSpec => []DeliversInRankOrder
<1>1. ShmInv => DeliversInRankOrder
  <2> SUFFICES ASSUME ShmInv, NEW p \in Parts, stage[p] = "idle", verb[p] > 0
               PROVE  /\ Kind(p) \in {"alltoallv", "resolve"} =>
                            got[p] = FlattenSeq([i \in 1..N |-> Block(verb[p], i - 1, p)])
                      /\ Kind(p) \in {"counts", "resolve"} =>
                            recvCounts[p] = [s \in Parts |-> Row(verb[p], s)[p]]
                      /\ Kind(p) = "sum" => got[p] = [i \in 1..N |-> <<i - 1, verb[p]>>]
                      /\ Kind(p) = "inplace" =>
                            \A e \in 0..(VecLen - 1) : vec[p][e] = [i \in 1..N |-> <<i - 1, verb[p]>>]
    BY DEF DeliversInRankOrder, Completed
  <2>1. ReadInv(p) /\ ShmTypeOK
    BY InvParts, IdleIsNotDoomed
  <2>2. CountsDone(p) = N /\ SourcesDone(p) = N
    BY DEF CountsDone, SourcesDone
  <2>3. ASSUME Kind(p) \in {"counts", "resolve"}
        PROVE  recvCounts[p] = [s \in Parts |-> Row(verb[p], s)[p]]
    <3>1. \A s \in Parts : recvCounts[p][s] = Row(verb[p], s)[p]
      BY <2>1, <2>2, <2>3, ShmPartsAssumption DEF ReadInv
    <3>2. recvCounts[p] \in [Parts -> Nat]
      BY <2>1 DEF ShmTypeOK
    <3>3. QED
      BY <3>1, <3>2
  <2>4. ASSUME Kind(p) = "inplace", NEW e \in 0..(VecLen - 1)
        PROVE  vec[p][e] = [i \in 1..N |-> <<i - 1, verb[p]>>]
    <3>1. PICK o \in Parts : e \in SliceLo(o)..(SliceHi(o) - 1)
      BY SlicesCover
    <3>2. Reduced(o, e, verb[p])
      BY EverybodyHasReduced
    <3>3. VecInv(p)
      BY <2>4, InvParts
    <3>4. QED
      BY <3>1, <3>2, <3>3 DEF VecInv
  <2>5. QED
    BY <2>1, <2>2, <2>3, <2>4 DEF ReadInv
<1>2. QED
  BY <1>1, ShmInductive, PTL

\* Nobody reuses its slot or its buffers while a peer may still read them.
THEOREM ReadersAreSafe == ShmSpec => []NobodyOverwritesAReader
<1>1. ShmInv => NobodyOverwritesAReader
  BY EverybodyIsHere, Numbers DEF NobodyOverwritesAReader
<1>2. QED
  BY <1>1, ShmInductive, PTL

\* BuffersOutliveReads does not hold; what holds is that a partition that reads a
\* buffer whose owner has unwound never comes back from that verb.
THEOREM DanglingReadsFail == ShmSpec => [](\A p \in Parts : stage[p] = "idle" => ~dangling[p])
<1>1. ShmInv => \A p \in Parts : stage[p] = "idle" => ~dangling[p]
  BY InvParts, IdleIsNotDoomed
<1>2. QED
  BY <1>1, ShmInductive, PTL

\* The collectives use the barrier as PartitionRounds allows, and no other way.
THEOREM CollectivesKeepRounds == ShmSpec => [][\E p \in Parts : Step(p)]_roundVars
<1>1. [ShmNext]_allShmVars => [\E p \in Parts : Step(p)]_roundVars
  BY RoundsStep DEF ShmNext, allShmVars
<1>2. QED
  BY <1>1, PTL DEF ShmSpec

=============================================================================
