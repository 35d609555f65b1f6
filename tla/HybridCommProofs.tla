-------------------------- MODULE HybridCommProofs --------------------------
(***************************************************************************)
(* Theorems about HybridComm, for any number of ranks, partitions and      *)
(* verbs: where the partitions of a job are and what their buffers hold,   *)
(* the types, why a job is aborted, that the vectors reduced in place are  *)
(* there when they are read, and that every rank uses its barrier as       *)
(* PartitionRounds has it; then what is on the way between the ranks and   *)
(* in their staging buffers, that the verbs deliver what they promise, and *)
(* that the ranks agree on what they do on parent_.                        *)
(***************************************************************************)
EXTENDS HybridComm, SequenceLemmas

------------------------------------------------------------------------------
(***************************************************************************)
(* Sums                                                                    *)
(***************************************************************************)

\* SumTo is the last value of a running sum.
LEMMA SumToIs ==
  ASSUME NEW w, NEW n \in Nat
  PROVE  \E f : IsSum(f, w, n) /\ SumTo(w, n) = f[n]
<1> DEFINE f == CHOOSE h : h = [i \in 0..n |-> IF i = 0 THEN 0 ELSE h[i - 1] + w[i - 1]]
<1>1. SumTo(w, n) = f[n]
  BY DEF SumTo
<1>2. IsSum(f, w, n)
  <2> HIDE DEF f
  <2>1. f = CHOOSE h : h = [i \in 0..n |-> IF i = 0 THEN 0 ELSE h[i - 1] + w[i - 1]]
    BY DEF f
  <2>2. QED
    BY <2>1, RunningSum
<1> HIDE DEF f
<1>3. QED
  BY <1>1, <1>2

\* Two running sums of functions that agree.
LEMMA SumsAgree ==
  ASSUME NEW w, NEW v, NEW n \in Nat, NEW m \in Nat, n <= m, \A i \in 0..(n - 1) : w[i] = v[i]
  PROVE  \A f, h : IsSum(f, w, n) /\ IsSum(h, v, m) => f[n] = h[n]
<1> SUFFICES ASSUME NEW f, NEW h, IsSum(f, w, n), IsSum(h, v, m) PROVE f[n] = h[n]
  OBVIOUS
<1> DEFINE T == {i \in Nat : i <= n => f[i] = h[i]}
<1>1. 0 \in T
  BY SumEquations
<1>2. ASSUME NEW i \in Nat, i \in T PROVE i + 1 \in T
  <2> SUFFICES ASSUME i + 1 <= n PROVE f[i + 1] = h[i + 1]
    OBVIOUS
  <2>1. i \in 0..(n - 1) /\ i \in 0..(m - 1) /\ i <= n
    OBVIOUS
  <2>2. f[i + 1] = f[i] + w[i] /\ h[i + 1] = h[i] + v[i]
    BY <2>1, SumEquations
  <2>3. QED
    BY <1>2, <2>1, <2>2
<1>3. \A i \in Nat : i \in T
  <2> HIDE DEF T
  <2>1. QED
    BY <1>1, <1>2, SetInduction
<1>4. QED
  BY <1>3

\* The equations of SumTo.
LEMMA SumZero == ASSUME NEW w PROVE SumTo(w, 0) = 0
<1>1. PICK f : IsSum(f, w, 0) /\ SumTo(w, 0) = f[0]
  BY SumToIs
<1>2. QED
  BY <1>1, SumEquations

\* The next sum has one more term.
LEMMA SumNext ==
  ASSUME NEW w, NEW n \in Nat
  PROVE  SumTo(w, n + 1) = SumTo(w, n) + w[n]
<1>1. PICK f : IsSum(f, w, n) /\ SumTo(w, n) = f[n]
  BY SumToIs
<1>2. PICK m \in Nat : m = n + 1
  OBVIOUS
<1>3. PICK h : IsSum(h, w, m) /\ SumTo(w, m) = h[m]
  BY SumToIs
<1>4. f[n] = h[n]
  <2>1. \A v : (\A i \in 0..(n - 1) : w[i] = v[i])
                 => \A a, b : IsSum(a, w, n) /\ IsSum(b, v, m) => a[n] = b[n]
    BY <1>2, SumsAgree
  <2>2. QED
    BY <1>1, <1>3, <2>1
<1>5. h[n + 1] = h[n] + w[n]
  BY <1>2, <1>3, SumEquations
<1>6. QED
  BY <1>1, <1>2, <1>3, <1>4, <1>5

\* Functions that agree have the same sums.
LEMMA SameSum ==
  ASSUME NEW w, NEW v, NEW n \in Nat, \A i \in 0..(n - 1) : w[i] = v[i]
  PROVE  SumTo(w, n) = SumTo(v, n)
<1>1. PICK f : IsSum(f, w, n) /\ SumTo(w, n) = f[n]
  BY SumToIs
<1>2. PICK h : IsSum(h, v, n) /\ SumTo(v, n) = h[n]
  BY SumToIs
<1>3. n <= n
  OBVIOUS
<1>4. \A a, b : IsSum(a, w, n) /\ IsSum(b, v, n) => a[n] = b[n]
  BY <1>3, SumsAgree, SMTT(30)
<1>5. QED
  BY <1>1, <1>2, <1>4

\* Sums of numbers are numbers, and grow.
LEMMA SumGrows ==
  ASSUME NEW w, NEW n \in Nat, \A i \in 0..(n - 1) : w[i] \in Nat
  PROVE  /\ \A i \in 0..n : SumTo(w, i) \in Nat
         /\ \A i, j \in 0..n : i <= j => SumTo(w, i) <= SumTo(w, j)
<1> DEFINE T == {k \in Nat : k <= n => /\ SumTo(w, k) \in Nat
                                       /\ \A i \in 0..k : SumTo(w, i) \in Nat /\ SumTo(w, i) <= SumTo(w, k)}
<1>1. 0 \in T
  <2>1. SumTo(w, 0) = 0
    BY SumZero
  <2>2. QED
    BY <2>1
<1>2. ASSUME NEW k \in Nat, k \in T PROVE k + 1 \in T
  <2> SUFFICES ASSUME k + 1 <= n
               PROVE  /\ SumTo(w, k + 1) \in Nat
                      /\ \A i \in 0..(k + 1) : SumTo(w, i) \in Nat /\ SumTo(w, i) <= SumTo(w, k + 1)
    OBVIOUS
  <2>1. SumTo(w, k + 1) = SumTo(w, k) + w[k] /\ w[k] \in Nat
    BY SumNext
  <2>2. SumTo(w, k) \in Nat /\ \A i \in 0..k : SumTo(w, i) \in Nat /\ SumTo(w, i) <= SumTo(w, k)
    BY <1>2
  <2>3. \A i \in 0..(k + 1) : i \in 0..k \/ i = k + 1
    OBVIOUS
  <2>4. QED
    BY <2>1, <2>2, <2>3
<1>3. \A k \in Nat : k \in T
  <2> HIDE DEF T
  <2>1. QED
    BY <1>1, <1>2, SetInduction
<1>4. QED
  BY <1>3

------------------------------------------------------------------------------
(***************************************************************************)
(* The flat world                                                          *)
(***************************************************************************)

\* Division with a remainder, as / and % do it.
LEMMA Divide ==
  ASSUME NEW g \in Nat, NEW d \in Nat \ {0}
  PROVE  g \div d \in Nat /\ g % d \in 0..(d - 1) /\ g = ((g \div d) * d) + (g % d)
  OBVIOUS

\* Multiples of a number grow with the factor.
LEMMA Multiples ==
  ASSUME NEW a \in Nat, NEW b \in Nat, NEW d \in Nat
  PROVE  a * d \in Nat /\ (a < b => (a * d) + d <= b * d)
  OBVIOUS

\* A number that lies in the a-th interval of length d.
LEMMA DivideInterval ==
  ASSUME NEW a \in Nat, NEW d \in Nat \ {0}, NEW u \in 0..(d - 1)
  PROVE  ((a * d) + u) \div d = a /\ ((a * d) + u) % d = u
  OBVIOUS

\* The sizes of the world.
LEMMA Sizes ==
  /\ R \in Nat \ {0} /\ S \in Nat \ {0} /\ Line \in Nat \ {0} /\ VecLen \in Nat
  /\ R * S \in Nat
  BY HybridSizes, Multiples

\* A partition and its rank.
LEMMA RankFacts ==
  ASSUME NEW p \in World
  PROVE  /\ p \in Nat /\ RankOf(p) \in Ranks /\ RankOf(p) \in Nat /\ p \in PartsOf(RankOf(p))
         /\ p % S \in Locals /\ p = Global(RankOf(p), p % S)
         /\ IsLead(p) => p = LeadOf(RankOf(p))
<1>1. p \in Nat /\ p < R * S
  BY Sizes DEF World
<1>2. PICK q \in Nat : q = RankOf(p)
  BY <1>1, Sizes, Divide DEF RankOf
<1>3. p % S \in 0..(S - 1) /\ p = (q * S) + (p % S) /\ q * S \in Nat
  BY <1>1, <1>2, Sizes, Divide, Multiples DEF RankOf
<1>4. q < R
  <2> SUFFICES ASSUME R <= q PROVE FALSE
    BY <1>2, Sizes
  <2>1. R * S <= q * S /\ q * S \in Nat
    BY <1>2, Sizes, Multiples
  <2>2. QED
    BY <1>1, <1>3, <2>1, Sizes
<1>5. QED
  BY <1>1, <1>2, <1>3, <1>4, Sizes DEF Ranks, PartsOf, LeadOf, Global, Locals, IsLead

\* The partitions of a rank.
LEMMA PartFacts ==
  ASSUME NEW r \in Ranks
  PROVE  /\ r \in Nat /\ LeadOf(r) \in Nat /\ LeadOf(r) + S <= R * S
         /\ \A q \in PartsOf(r) : q \in World /\ RankOf(q) = r /\ q % S = q - LeadOf(r)
         /\ \A u \in Locals : Global(r, u) \in PartsOf(r) /\ Global(r, u) \in World
                              /\ RankOf(Global(r, u)) = r /\ Global(r, u) % S = u
         /\ LeadOf(r) \in PartsOf(r) /\ IsLead(LeadOf(r))
<1>1. r \in Nat /\ r < R /\ r * S \in Nat /\ r * S + S <= R * S
  BY Sizes, Multiples DEF Ranks
<1>2. ASSUME NEW u \in Locals
      PROVE  Global(r, u) \in PartsOf(r) /\ Global(r, u) \in World /\ RankOf(Global(r, u)) = r /\ Global(r, u) % S = u
  <2>1. u \in 0..(S - 1)
    BY DEF Locals
  <2>2. RankOf(Global(r, u)) = r /\ Global(r, u) % S = u
    BY <1>1, <2>1, Sizes, DivideInterval DEF RankOf, Global, LeadOf
  <2>3. QED
    BY <1>1, <2>1, <2>2, Sizes DEF Global, PartsOf, LeadOf, World
<1>3. ASSUME NEW q \in PartsOf(r) PROVE \E u \in Locals : q = Global(r, u) /\ u = q - LeadOf(r)
  <2>1. q - LeadOf(r) \in Locals
    BY <1>1, Sizes DEF PartsOf, LeadOf, Locals
  <2>2. q = Global(r, q - LeadOf(r))
    BY <1>1, Sizes DEF PartsOf, LeadOf, Global
  <2>3. QED
    BY <2>1, <2>2
<1>4. 0 \in Locals /\ LeadOf(r) = Global(r, 0)
  BY <1>1, Sizes DEF Locals, LeadOf, Global
<1>5. QED
  BY <1>1, <1>2, <1>3, <1>4 DEF LeadOf, IsLead

------------------------------------------------------------------------------
(***************************************************************************)
(* Exclusive or                                                            *)
(***************************************************************************)

\* f holds the first powers of two.
IsPow(f, n) == f = [i \in 0..n |-> IF i = 0 THEN 1 ELSE 2 * f[i - 1]]

\* A function is a solution exactly when it is one at every index.
LEMMA PowAt ==
  ASSUME NEW n \in Nat, NEW f, IsPow(f, n), NEW i \in 0..n
  PROVE  f[i] = IF i = 0 THEN 1 ELSE 2 * f[i - 1]
<1> DEFINE e == [k \in 0..n |-> IF k = 0 THEN 1 ELSE 2 * f[k - 1]]
<1>1. f[i] = e[i]
  BY Zenon DEF IsPow
<1>2. QED
  BY <1>1

\* A function with the equations of the powers of two holds them.
LEMMA PowFromPoints ==
  ASSUME NEW n \in Nat, NEW f, f = [i \in 0..n |-> f[i]],
         \A i \in 0..n : f[i] = IF i = 0 THEN 1 ELSE 2 * f[i - 1]
  PROVE  IsPow(f, n)
<1>1. [i \in 0..n |-> f[i]] = [i \in 0..n |-> IF i = 0 THEN 1 ELSE 2 * f[i - 1]]
  OBVIOUS
<1>2. QED
  BY <1>1, Zenon DEF IsPow

\* There is such a function, of every length.
LEMMA PowExists == \A n \in Nat : \E f : IsPow(f, n)
<1> DEFINE T == {n \in Nat : \E f : IsPow(f, n)}
<1>1. 0 \in T
  <2> DEFINE f == [i \in 0..0 |-> 1]
  <2>1. /\ f = [i \in 0..0 |-> f[i]]
        /\ \A i \in 0..0 : f[i] = IF i = 0 THEN 1 ELSE 2 * f[i - 1]
    OBVIOUS
  <2> HIDE DEF f
  <2>2. IsPow(f, 0)
    BY <2>1, PowFromPoints
  <2>3. QED
    BY <2>2
<1>2. ASSUME NEW n \in Nat, n \in T PROVE n + 1 \in T
  <2>1. PICK f : IsPow(f, n)
    BY <1>2
  <2> DEFINE h == [i \in 0..(n + 1) |-> IF i = 0 THEN 1 ELSE 2 * f[i - 1]]
  <2>2. \A i \in 0..n : h[i] = f[i]
    BY <2>1, PowAt
  <2>3. \A i \in 0..(n + 1) : h[i] = IF i = 0 THEN 1 ELSE 2 * h[i - 1]
    <3>1. \A i \in 0..(n + 1) : h[i] = IF i = 0 THEN 1 ELSE 2 * f[i - 1]
      OBVIOUS
    <3> HIDE DEF h
    <3>2. \A i \in 0..(n + 1) : i # 0 => i - 1 \in 0..n
      OBVIOUS
    <3>3. QED
      BY <2>2, <3>1, <3>2
  <2>4. h = [i \in 0..(n + 1) |-> h[i]]
    OBVIOUS
  <2>5. IsPow(h, n + 1)
    <3> HIDE DEF h
    <3>1. n + 1 \in Nat
      OBVIOUS
    <3>2. QED
      BY <2>3, <2>4, <3>1, PowFromPoints
  <2>6. QED
    BY <2>5
<1>3. \A n \in Nat : n \in T
  <2> HIDE DEF T
  <2>1. QED
    BY <1>1, <1>2, SetInduction
<1>4. QED
  BY <1>3

\* The equations of Pow2.
LEMMA PowEquations ==
  /\ Pow2[0] = 1
  /\ \A n \in 0..R : n # 0 => Pow2[n] = 2 * Pow2[n - 1]
<1>1. PICK h : IsPow(h, R)
  BY Sizes, PowExists
<1>2. IsPow(Pow2, R)
  BY <1>1, Zenon DEF IsPow, Pow2
<1>3. \A n \in 0..R : Pow2[n] = IF n = 0 THEN 1 ELSE 2 * Pow2[n - 1]
  BY <1>2, Sizes, PowAt
<1>4. 0 \in 0..R
  BY Sizes
<1>5. QED
  BY <1>3, <1>4

\* f holds the exclusive or of the first digits.
XorStep(f, i) == [a \in Nat |-> [b \in Nat |->
                 IF i = 0 THEN 0 ELSE 2 * f[i - 1][a \div 2][b \div 2] + ((a + b) % 2)]]
IsXor(f, n) == f = [i \in 0..n |-> XorStep(f, i)]

\* One digit more: what the functions of exclusive ors are at every index.
LEMMA XorAt ==
  ASSUME NEW n \in Nat, NEW f, IsXor(f, n), NEW i \in 0..n
  PROVE  f[i] = XorStep(f, i)
<1> DEFINE e == [k \in 0..n |-> XorStep(f, k)]
<1>1. f[i] = e[i]
  BY Zenon DEF IsXor
<1>2. QED
  BY <1>1, Zenon

\* A function with the equations of the exclusive ors holds them.
LEMMA XorFromPoints ==
  ASSUME NEW n \in Nat, NEW f, f = [i \in 0..n |-> f[i]],
         \A i \in 0..n : f[i] = XorStep(f, i)
  PROVE  IsXor(f, n)
<1>1. [i \in 0..n |-> f[i]] = [i \in 0..n |-> XorStep(f, i)]
  BY Zenon
<1>2. QED
  BY <1>1, Zenon DEF IsXor

\* There is such a function, for every number of digits.
LEMMA XorExists == \A n \in Nat : \E f : IsXor(f, n)
<1> DEFINE T == {n \in Nat : \E f : IsXor(f, n)}
<1>1. 0 \in T
  <2> DEFINE zero == [a \in Nat |-> [b \in Nat |-> 0]]
             f == [i \in 0..0 |-> zero]
  <2>1. \A i \in 0..0 : i = 0 /\ f[i] = zero
    OBVIOUS
  <2>2. f = [i \in 0..0 |-> f[i]]
    OBVIOUS
  <2> HIDE DEF f
  <2>3. XorStep(f, 0) = zero
    BY Zenon DEF XorStep
  <2>4. \A i \in 0..0 : f[i] = XorStep(f, i)
    <3> HIDE DEF zero
    <3>1. QED
      BY <2>1, <2>3
  <2>5. IsXor(f, 0)
    BY <2>2, <2>4, XorFromPoints
  <2>6. QED
    BY <2>5
<1>2. ASSUME NEW n \in Nat, n \in T PROVE n + 1 \in T
  <2>1. PICK f : IsXor(f, n)
    BY <1>2
  <2> DEFINE h == [i \in 0..(n + 1) |-> XorStep(f, i)]
  <2>2. \A i \in 0..n : f[i] = XorStep(f, i)
    BY <2>1, XorAt
  <2>3. \A i \in 0..(n + 1) : h[i] = XorStep(f, i)
    OBVIOUS
  <2>4. h = [i \in 0..(n + 1) |-> h[i]]
    OBVIOUS
  <2> HIDE DEF h
  <2>5. \A i \in 0..n : h[i] = f[i]
    BY <2>2, <2>3
  <2>6. ASSUME NEW i \in 0..(n + 1) PROVE XorStep(h, i) = XorStep(f, i)
    <3>1. CASE i = 0
      BY <3>1, Zenon DEF XorStep
    <3>2. CASE i # 0
      <4>1. i - 1 \in 0..n
        BY <3>2
      <4>2. h[i - 1] = f[i - 1]
        BY <2>5, <4>1
      <4>3. QED
        BY <4>2, Zenon DEF XorStep
    <3>3. QED
      BY <3>1, <3>2
  <2>7. \A i \in 0..(n + 1) : h[i] = XorStep(h, i)
    BY <2>3, <2>6
  <2>8. IsXor(h, n + 1)
    <3>1. n + 1 \in Nat
      OBVIOUS
    <3>2. QED
      BY <2>4, <2>7, <3>1, XorFromPoints
  <2>9. QED
    BY <2>8
<1>3. \A n \in Nat : n \in T
  <2> HIDE DEF T
  <2>1. QED
    BY <1>1, <1>2, SetInduction
<1>4. QED
  BY <1>3

\* The equations of LowXor.
LEMMA XorEquations ==
  ASSUME NEW a \in Nat, NEW b \in Nat
  PROVE  /\ LowXor[0][a][b] = 0
         /\ \A n \in 0..R : n # 0 =>
              LowXor[n][a][b] = 2 * LowXor[n - 1][a \div 2][b \div 2] + ((a + b) % 2)
<1>1. PICK h : IsXor(h, R)
  BY Sizes, XorExists
<1>2. IsXor(LowXor, R)
  BY <1>1, Zenon DEF IsXor, XorStep, LowXor
<1>3. ASSUME NEW n \in 0..R
      PROVE  LowXor[n][a][b] = IF n = 0 THEN 0 ELSE 2 * LowXor[n - 1][a \div 2][b \div 2] + ((a + b) % 2)
  <2>1. LowXor[n] = XorStep(LowXor, n)
    BY <1>2, Sizes, XorAt
  <2>2. XorStep(LowXor, n)[a][b]
          = IF n = 0 THEN 0 ELSE 2 * LowXor[n - 1][a \div 2][b \div 2] + ((a + b) % 2)
    BY DEF XorStep
  <2>3. QED
    BY <2>1, <2>2, Zenon
<1>4. 0 \in 0..R
  BY Sizes
<1>5. QED
  BY <1>3, <1>4

\* Halving, and putting a digit back.
LEMMA Halve ==
  ASSUME NEW a \in Nat
  PROVE  /\ a \div 2 \in Nat /\ a % 2 \in 0..1 /\ a = 2 * (a \div 2) + (a % 2)
         /\ a # 0 => a \div 2 < a
  OBVIOUS

\* Putting a digit back, and taking it off again.
LEMMA LowDigit ==
  ASSUME NEW x \in Nat, NEW a \in Nat, NEW b \in Nat
  PROVE  LET v == 2 * x + ((a + b) % 2)
         IN  v \in Nat /\ v \div 2 = x /\ (a + v) % 2 = b % 2 /\ (v + b) % 2 = a % 2
  OBVIOUS

\* The equations, from one number of digits to the next.
LEMMA PowNext ==
  ASSUME NEW n \in Nat, NEW m \in 0..R, m = n + 1
  PROVE  Pow2[m] = 2 * Pow2[n]
<1>1. m # 0 /\ m - 1 = n
  OBVIOUS
<1>2. Pow2[m] = 2 * Pow2[m - 1]
  BY <1>1, PowEquations
<1>3. QED
  BY <1>1, <1>2, Zenon

\* The same of the exclusive or.
LEMMA XorNext ==
  ASSUME NEW n \in Nat, NEW m \in 0..R, m = n + 1
  PROVE  \A a, b \in Nat : LowXor[m][a][b] = 2 * LowXor[n][a \div 2][b \div 2] + ((a + b) % 2)
<1> TAKE a, b \in Nat
<1>1. m # 0 /\ m - 1 = n
  OBVIOUS
<1>2. LowXor[m][a][b] = 2 * LowXor[m - 1][a \div 2][b \div 2] + ((a + b) % 2)
  BY <1>1, XorEquations
<1>3. QED
  BY <1>1, <1>2, Zenon

\* Powers of two, up to one that no rank reaches.
LEMMA Powers ==
  /\ \A n \in 0..R : Pow2[n] \in Nat /\ n < Pow2[n]
  /\ R < Pow2[R]
<1> DEFINE T == {n \in Nat : n <= R => Pow2[n] \in Nat /\ n < Pow2[n]}
<1>1. 0 \in T
  BY PowEquations
<1>2. ASSUME NEW n \in Nat, n \in T PROVE n + 1 \in T
  <2> SUFFICES ASSUME n + 1 <= R PROVE Pow2[n + 1] \in Nat /\ n + 1 < Pow2[n + 1]
    OBVIOUS
  <2>1. PICK m \in 0..R : m = n + 1 /\ m # 0 /\ m - 1 = n
    BY Sizes
  <2>2. Pow2[m] = 2 * Pow2[n] /\ Pow2[n] \in Nat /\ n < Pow2[n]
    BY <1>2, <2>1, PowNext, Sizes
  <2>3. Pow2[m] \in Nat /\ m < Pow2[m]
    BY <2>1, <2>2
  <2>4. QED
    BY <2>1, <2>3, Zenon
<1>3. \A n \in Nat : n \in T
  <2> HIDE DEF T
  <2>1. QED
    BY <1>1, <1>2, SetInduction
<1>4. QED
  BY <1>3, Sizes

\* What n digits of an exclusive or are: a number, the other operand when applied
\* again, and no longer than the operands.
XorFacts(n) == \A a, b \in Nat :
  LET v == LowXor[n][a][b]
  IN  /\ v \in Nat /\ v < Pow2[n]
      /\ b < Pow2[n] => LowXor[n][a][v] = b
      /\ a < Pow2[n] => LowXor[n][v][b] = a
      /\ b = 0 /\ a < Pow2[n] => v = a
      /\ \A e \in 0..n : a < Pow2[e] /\ b < Pow2[e] => v < Pow2[e]

\* The exclusive or of ranks is one, to every number of digits.
LEMMA XorDigits == \A n \in 0..R : XorFacts(n)
<1> DEFINE T == {n \in Nat : n <= R => XorFacts(n)}
<1>1. 0 \in T
  BY XorEquations, PowEquations DEF XorFacts
<1>2. ASSUME NEW n \in Nat, n \in T PROVE n + 1 \in T
  <2> SUFFICES ASSUME n + 1 <= R PROVE XorFacts(n + 1)
    OBVIOUS
  <2>1. PICK m \in 0..R : m = n + 1 /\ m # 0 /\ m - 1 = n
    BY Sizes
  <2>2. n \in 0..R /\ XorFacts(n) /\ Pow2[n] \in Nat /\ Pow2[m] = 2 * Pow2[n]
    BY <1>2, <2>1, PowNext, Powers, Sizes
  <2> SUFFICES ASSUME NEW a \in Nat, NEW b \in Nat
               PROVE  LET v == LowXor[m][a][b]
                      IN  /\ v \in Nat /\ v < Pow2[m]
                          /\ b < Pow2[m] => LowXor[m][a][v] = b
                          /\ a < Pow2[m] => LowXor[m][v][b] = a
                          /\ b = 0 /\ a < Pow2[m] => v = a
                          /\ \A e \in 0..m : a < Pow2[e] /\ b < Pow2[e] => v < Pow2[e]
    BY <2>1 DEF XorFacts
  <2>14. \A y \in Nat : /\ LowXor[m][a][y] = 2 * LowXor[n][a \div 2][y \div 2] + ((a + y) % 2)
                       /\ LowXor[m][y][b] = 2 * LowXor[n][y \div 2][b \div 2] + ((y + b) % 2)
    <3>1. m = n + 1
      BY <2>1
    <3>5. \A x, z \in Nat : LowXor[m][x][z] = 2 * LowXor[n][x \div 2][z \div 2] + ((x + z) % 2)
      BY <3>1, XorNext
    <3> TAKE y \in Nat
    <3>2. LowXor[m][a][y] = 2 * LowXor[n][a \div 2][y \div 2] + ((a + y) % 2)
      BY <3>5, Zenon
    <3>3. LowXor[m][y][b] = 2 * LowXor[n][y \div 2][b \div 2] + ((y + b) % 2)
      BY <3>5, Zenon
    <3>4. QED
      BY <3>2, <3>3
  <2> DEFINE x == LowXor[n][a \div 2][b \div 2]
             v == 2 * x + ((a + b) % 2)
  <2>3. /\ a \div 2 \in Nat /\ a % 2 \in 0..1 /\ a = 2 * (a \div 2) + (a % 2)
        /\ b \div 2 \in Nat /\ b % 2 \in 0..1 /\ b = 2 * (b \div 2) + (b % 2)
    BY Halve
  <2>4. /\ x \in Nat /\ x < Pow2[n]
        /\ b \div 2 < Pow2[n] => LowXor[n][a \div 2][x] = b \div 2
        /\ a \div 2 < Pow2[n] => LowXor[n][x][b \div 2] = a \div 2
        /\ b \div 2 = 0 /\ a \div 2 < Pow2[n] => x = a \div 2
        /\ \A e \in 0..n : a \div 2 < Pow2[e] /\ b \div 2 < Pow2[e] => x < Pow2[e]
    BY <2>2, <2>3 DEF XorFacts
  <2>5. v = LowXor[m][a][b]
    BY <2>1, XorNext
  <2> HIDE DEF x
  <2>6. v \in Nat /\ v \div 2 = x /\ (a + v) % 2 = b % 2 /\ (v + b) % 2 = a % 2 /\ (a + b) % 2 \in 0..1
    BY <2>4, LowDigit
  <2> HIDE DEF v
  <2>7. v = 2 * x + ((a + b) % 2)
    BY DEF v
  <2>8. v < Pow2[m]
    BY <2>2, <2>4, <2>6, <2>7
  <2>9. ASSUME b < Pow2[m] PROVE LowXor[m][a][v] = b
    <3>1. b \div 2 < Pow2[n]
      BY <2>2, <2>3, <2>9
    <3>2. LowXor[m][a][v] = 2 * LowXor[n][a \div 2][v \div 2] + ((a + v) % 2)
      BY <2>6, <2>14
    <3>3. QED
      BY <2>3, <2>4, <2>6, <3>1, <3>2
  <2>10. ASSUME a < Pow2[m] PROVE LowXor[m][v][b] = a
    <3>1. a \div 2 < Pow2[n]
      BY <2>2, <2>3, <2>10
    <3>2. LowXor[m][v][b] = 2 * LowXor[n][v \div 2][b \div 2] + ((v + b) % 2)
      BY <2>6, <2>14
    <3>3. QED
      BY <2>3, <2>4, <2>6, <3>1, <3>2
  <2>11. ASSUME b = 0, a < Pow2[m] PROVE v = a
    <3>1. a \div 2 < Pow2[n] /\ b \div 2 = 0 /\ (a + b) % 2 = a % 2
      BY <2>2, <2>3, <2>11
    <3>2. QED
      BY <2>3, <2>4, <2>7, <3>1
  <2>12. ASSUME NEW e \in 0..m, a < Pow2[e], b < Pow2[e] PROVE v < Pow2[e]
    <3>1. CASE e = 0
      <4>1. Pow2[e] = 1 /\ a = 0 /\ b = 0
        BY <2>12, <3>1, PowEquations
      <4>2. a \div 2 = 0 /\ b \div 2 = 0 /\ (a + b) % 2 = 0 /\ 0 < Pow2[n]
        BY <2>2, <2>4, <4>1
      <4>3. QED
        BY <2>4, <2>7, <4>1, <4>2
    <3>2. CASE e # 0
      <4>1. PICK d \in 0..n : e = d + 1
        BY <2>1, <3>2
      <4>2. e \in 0..R /\ d \in 0..R /\ d \in Nat
        BY <2>1, <4>1, Sizes
      <4>6. Pow2[e] = 2 * Pow2[d] /\ Pow2[d] \in Nat
        BY <4>1, <4>2, PowNext, Powers
      <4>3. a \div 2 < Pow2[d] /\ b \div 2 < Pow2[d]
        BY <2>3, <2>12, <4>6
      <4>4. x < Pow2[d]
        BY <2>4, <4>3
      <4>5. QED
        BY <2>4, <2>6, <2>7, <4>6, <4>4
    <3>3. QED
      BY <3>1, <3>2
  <2>13. QED
    BY <2>5, <2>6, <2>8, <2>9, <2>10, <2>11, <2>12
<1>3. \A n \in Nat : n \in T
  <2> HIDE DEF T
  <2>1. QED
    BY <1>1, <1>2, SetInduction
<1>4. QED
  BY <1>3

\* The exclusive or of two ranks: XOR is an involution.
LEMMA XorRanks ==
  ASSUME NEW a \in Ranks, NEW b \in Ranks
  PROVE  /\ Xor(a, b) \in Nat /\ Xor(a, Xor(a, b)) = b /\ Xor(Xor(a, b), b) = a /\ Xor(a, 0) = a
         /\ (\E e \in 0..R : R = Pow2[e]) => Xor(a, b) \in Ranks
<1>1. /\ R \in 0..R /\ R < Pow2[R] /\ Pow2[R] \in Nat
      /\ a \in Nat /\ b \in Nat /\ a < R /\ b < R /\ 0 \in Nat
  BY Sizes, Powers DEF Ranks
<1>2. XorFacts(R) /\ a < Pow2[R] /\ b < Pow2[R] /\ 0 < Pow2[R]
  BY <1>1, XorDigits
<1>3. Xor(a, b) \in Nat /\ Xor(a, Xor(a, b)) = b /\ Xor(Xor(a, b), b) = a /\ Xor(a, 0) = a
  BY <1>1, <1>2 DEF XorFacts, Xor
<1>4. ASSUME NEW e \in 0..R, R = Pow2[e] PROVE Xor(a, b) < R
  BY <1>1, <1>2, <1>4 DEF XorFacts, Xor
<1>5. QED
  BY <1>1, <1>3, <1>4 DEF Ranks

------------------------------------------------------------------------------
(***************************************************************************)
(* The verbs of a job and its rounds                                       *)
(***************************************************************************)

\* The verbs and the number of their rounds.
LEMMA KindsAre ==
  /\ Kinds = {"counts", "alltoallv", "resolve", "sum", "inplace"}
  /\ Syncs["counts"] = 2 /\ Syncs["alltoallv"] = 4 /\ Syncs["resolve"] = 4
  /\ Syncs["sum"] = 2 /\ Syncs["inplace"] = 4
  /\ \A k \in Kinds : Syncs[k] \in {2, 4}
  BY DEF Kinds, Syncs

\* The rounds of the first k verbs of the job.
Done(k) == SyncsUpTo(script, k)

\* The verbs of a script, and how their rounds add up.
LEMMA ScriptFacts ==
  ASSUME script \in Scripts
  PROVE  /\ Len(script) \in Nat
         /\ \A k \in 1..Len(script) :
              /\ script[k] \in Verbs /\ script[k].kind \in Kinds /\ script[k].plan \in Plans
              /\ Done(k - 1) \in Nat /\ Done(k) = Done(k - 1) + Syncs[script[k].kind]
         /\ \A k \in 0..Len(script) : Done(k) \in Nat
         /\ \A j, k \in 0..Len(script) : j <= k => Done(j) <= Done(k)
         /\ Done(0) = 0 /\ Done(Len(script)) = SyncsOf(script) /\ SyncsOf(script) <= MaxSyncs
<1>1. script \in Seq(Verbs) /\ SyncsOf(script) <= MaxSyncs
  BY HybridScripts
<1>2. PICK n \in Nat : n = Len(script)
  BY <1>1, LenProperties
<1>3. \A k \in 1..n : script[k] \in Verbs /\ script[k].kind \in Kinds /\ script[k].plan \in Plans
  <2>1. \A k \in 1..n : script[k] \in Verbs
    BY <1>1, <1>2, ElementOfSeq
  <2>2. QED
    BY <2>1 DEF Verbs
<1> DEFINE w == [i \in 0..(n - 1) |-> Syncs[script[i + 1].kind]]
<1>4. \A i \in 0..(n - 1) : w[i] = Syncs[script[i + 1].kind] /\ w[i] \in Nat
  <2> SUFFICES ASSUME NEW i \in 0..(n - 1) PROVE w[i] = Syncs[script[i + 1].kind] /\ w[i] \in Nat
    OBVIOUS
  <2>1. PICK k \in 1..n : k = i + 1
    OBVIOUS
  <2>2. script[k].kind \in Kinds
    BY <1>3
  <2>3. Syncs[script[k].kind] \in Nat
    BY <2>2, KindsAre
  <2>4. QED
    BY <2>1, <2>3
<1>5. \A k : Done(k) = SumTo(w, k)
  BY <1>2 DEF Done, SyncsUpTo
<1> HIDE DEF w
<1>6. /\ \A k \in 0..n : SumTo(w, k) \in Nat
      /\ \A j, k \in 0..n : j <= k => SumTo(w, j) <= SumTo(w, k)
  BY <1>4, SumGrows
<1>7. ASSUME NEW k \in 1..n
      PROVE  Done(k - 1) \in Nat /\ Done(k) = Done(k - 1) + Syncs[script[k].kind]
  <2>1. PICK i \in 0..(n - 1) : i = k - 1 /\ i \in Nat /\ i \in 0..n /\ i + 1 = k
    OBVIOUS
  <2>2. SumTo(w, i + 1) = SumTo(w, i) + w[i]
    BY <2>1, SumNext
  <2>3. Done(k - 1) = SumTo(w, i) /\ Done(k) = SumTo(w, i + 1)
    BY <1>5, <2>1
  <2>4. w[i] = Syncs[script[k].kind]
    BY <1>4, <2>1
  <2>5. QED
    BY <1>6, <2>1, <2>2, <2>3, <2>4
<1>8. Done(0) = 0
  BY <1>5, SumZero
<1>9. Done(n) = SyncsOf(script)
  BY <1>2 DEF Done, SyncsOf
<1>10. QED
  BY <1>1, <1>2, <1>3, <1>5, <1>6, <1>7, <1>8, <1>9

------------------------------------------------------------------------------
(***************************************************************************)
(* Types                                                                   *)
(***************************************************************************)

Errs == {"none", "own", "poisoned", "refused"}

\* Where every partition is, and what its buffers are filled for.
ControlTypes ==
  /\ script \in Scripts /\ eager \in BOOLEAN /\ aborted \in BOOLEAN /\ dangling \in BOOLEAN
  /\ enters \in [World -> Nat] /\ returns \in [World -> Nat]
  /\ err \in [World -> Errs] /\ phase \in [World -> {"body", "round", "unwind", "done"}]
  /\ verb \in [World -> 0..Len(script)] /\ window \in [World -> 0..4]
  /\ row \in [World -> 0..Len(script)] /\ slot \in [World -> 0..Len(script)]
  /\ mem \in [World -> 0..Len(script)]

\* The calls of MPI, and what is on the way.
IsLine(e) == e = [b \in Ranks |-> e[b]]
IsMatrix(f) ==
  /\ f = [t \in Tags |-> f[t]] /\ \A t \in Tags : f[t] = [a \in Ranks |-> f[t][a]]
  /\ \A t \in Tags, a \in Ranks : IsLine(f[t][a])
MpiTypes ==
  /\ call \in [Ranks -> {"none", "counts", "sized", "payload", "reduce"}]
  /\ IsMatrix(channel) /\ IsMatrix(wants)
  /\ \A tag \in Tags, a \in Ranks : channel[tag][a][a] = <<>> /\ wants[tag][a][a] = 0
  /\ peers \in [Ranks -> SUBSET Ranks]
  /\ wirePlan \in [Ranks -> Plans]

Types == ControlTypes /\ MpiTypes

\* The verb of a partition that is in one.
LEMMA VerbFacts ==
  ASSUME ControlTypes, NEW p \in World, verb[p] > 0
  PROVE  /\ verb[p] \in 1..Len(script) /\ verb[p] \in Nat /\ verb[p] - 1 \in 0..Len(script)
         /\ Kind(p) \in Kinds /\ Plan(p) \in Plans /\ script[verb[p]] \in Verbs
         /\ Syncs[Kind(p)] \in {2, 4}
         /\ Done(verb[p] - 1) \in Nat /\ Done(verb[p]) = Done(verb[p] - 1) + Syncs[Kind(p)]
<1>1. script \in Scripts /\ verb[p] \in 0..Len(script)
  BY DEF ControlTypes
<1>2. PICK n \in Nat : n = Len(script)
  BY <1>1, ScriptFacts
<1>3. PICK k \in 1..n : k = verb[p]
  BY <1>1, <1>2
<1>4. /\ script[k] \in Verbs /\ script[k].kind \in Kinds /\ script[k].plan \in Plans
      /\ Done(k - 1) \in Nat /\ Done(k) = Done(k - 1) + Syncs[script[k].kind]
  BY <1>1, <1>2, ScriptFacts
<1>5. k - 1 \in 0..n /\ Syncs[script[k].kind] \in {2, 4}
  BY <1>4, KindsAre
<1>6. QED
  BY <1>2, <1>3, <1>4, <1>5 DEF Kind, Plan

\* Peers are ranks, for a plan a caller may pass and for a derived one.
LEMMA PeersAreRanks ==
  ASSUME NEW r \in Ranks, NEW plan \in Plans
  PROVE  PeerRanks(plan, r) \subseteq Ranks
<1>1. CASE plan.sparse
  <2>1. plan.shift \in Ranks /\ \E e \in 0..R : R = Pow2[e]
    BY <1>1, Sizes DEF Plans, Ranks
  <2>2. Xor(r, plan.shift) \in Ranks
    BY <2>1, XorRanks
  <2>3. QED
    BY <1>1, <2>2 DEF PeerRanks
<1>2. CASE ~plan.sparse
  BY <1>2 DEF PeerRanks
<1>3. QED
  BY <1>1, <1>2

\* A plan that a rank derives is one a caller might have passed: require_routable, which
\* sparse_pairwise asks again, does not refuse it.
LEMMA DerivedIsRoutable ==
  ASSUME NEW r \in Ranks, \E e \in 0..R : R = Pow2[e]
  PROVE  DerivedPlan(r) \in Plans
<1> DEFINE sides == {Reached(r), Heard(r)} \ {{}}
           a == CHOOSE x \in Ranks : sides = {{x}}
<1>1. DerivedPlan(r) = IF sides = {} THEN [sparse |-> TRUE, shift |-> 0]
                       ELSE IF \E x \in Ranks : sides = {{x}} THEN [sparse |-> TRUE, shift |-> Xor(r, a)] ELSE Dense
  BY DEF DerivedPlan
<1>2. (\E x \in Ranks : sides = {{x}}) => a \in Ranks
  OBVIOUS
<1> HIDE DEF sides, a
<1>3. a \in Ranks => Xor(r, a) \in Ranks
  BY XorRanks
<1>4. \A n \in Ranks : [sparse |-> TRUE, shift |-> n] \in Plans
  BY Sizes DEF Plans, Ranks
<1>5. 0 \in Ranks /\ Dense \in Plans
  BY Sizes DEF Plans, Ranks, Dense
<1>6. QED
  BY <1>1, <1>2, <1>3, <1>4, <1>5
------------------------------------------------------------------------------
(***************************************************************************)
(* The steps                                                               *)
(***************************************************************************)

control == <<script, enters, returns, err, phase, verb, window, row, slot, mem, aborted>>

\* The end of a window that is not the last one of its verb.
Arrives(p) ==
  /\ phase[p] = "body" /\ verb[p] > 0 /\ window[p] > 0 /\ window[p] < Syncs[Kind(p)]
  /\ Sync(p)
  /\ UNCHANGED <<script, verb, row, slot, mem, aborted>>

\* The windows that end with a barrier.
EndsWindow(p) ==
  EndCountWindow(p) \/ PlanPayload(p) \/ PackSend(p) \/ LandPayload(p) \/ LandReduce(p)
    \/ ReduceSlice(p) \/ Pass(p)

\* The lead's calls of MPI in the middle of a window.
CallsMpi(p) == PostCounts(p) \/ SizeFromCounts(p) \/ PostPayload(p) \/ PostReduce(p)

\* Every such window ends with an arrival, and moves nothing else of the control.
LEMMA WindowEnds ==
  ASSUME ControlTypes, NEW p \in World, EndsWindow(p)
  PROVE  /\ Arrives(p) /\ UNCHANGED <<eager>> /\ dangling' \in BOOLEAN
         /\ dangling' = dangling \/ ReduceSlice(p)
<1>9. dangling \in BOOLEAN
  BY DEF ControlTypes
<1> USE <1>9, KindsAre DEF InWindow
<1>1. CASE EndCountWindow(p)
  BY <1>1 DEF EndCountWindow, Arrives, caller, job
<1>2. CASE PlanPayload(p)
  <2>1. /\ InWindow(p, {"alltoallv"}, 1) /\ Sync(p)
        /\ UNCHANGED <<job, verb, call, caller, countsRecv, red, mpi, results, dangling, aborted>>
    BY <1>2, Zenon DEF PlanPayload
  <2>2. QED
    BY <2>1 DEF Arrives, caller, job
<1>3. CASE PackSend(p)
  <2>1. /\ InWindow(p, {"alltoallv", "resolve"}, 2) /\ Sync(p)
        /\ UNCHANGED <<job, verb, call, caller, plans, stageRecv, countsRecv, red, mpi, results,
                       dangling, aborted>>
    BY <1>3, Zenon DEF PackSend
  <2>2. QED
    BY <2>1 DEF Arrives, caller, job
<1>4. CASE LandPayload(p)
  BY <1>4 DEF LandPayload, Arrives, caller, job
<1>5. CASE LandReduce(p)
  BY <1>5 DEF LandReduce, Arrives, caller, job
<1>6. CASE ReduceSlice(p)
  BY <1>6 DEF ReduceSlice, Arrives, caller, job
<1>7. CASE Pass(p)
  BY <1>7 DEF Pass, Arrives, caller, job
<1>8. QED
  BY <1>1, <1>2, <1>3, <1>4, <1>5, <1>6, <1>7 DEF EndsWindow

\* A call of MPI leaves the control alone.
LEMMA MpiStays ==
  ASSUME NEW p \in World, CallsMpi(p)
  PROVE  UNCHANGED <<control, eager, dangling>>
<1>1. CASE PostCounts(p)
  BY <1>1 DEF PostCounts, control, rounds, caller, job
<1>2. CASE SizeFromCounts(p)
  BY <1>2 DEF SizeFromCounts, control, rounds, caller, job
<1>3. CASE PostPayload(p)
  BY <1>3 DEF PostPayload, control, rounds, caller, job
<1>4. CASE PostReduce(p)
  BY <1>4 DEF PostReduce, control, rounds, caller, job
<1>5. QED
  BY <1>1, <1>2, <1>3, <1>4 DEF CallsMpi

\* The steps of an exception.
Throws(p) == FailSync(p) \/ BodyThrows(p) \/ ResizeThrows(p) \/ RefusePlan(p)

\* Every step is of one of these kinds.
LEMMA StepKinds ==
  ASSUME NEW p \in World, HybridStep(p)
  PROVE  EndsWindow(p) \/ CallsMpi(p) \/ Begin(p) \/ ReturnSync(p) \/ Finish(p) \/ LeaveJob(p) \/ Throws(p)
  BY DEF HybridStep, EndsWindow, CallsMpi, Throws

------------------------------------------------------------------------------
(***************************************************************************)
(* Where the partitions are                                                *)
(***************************************************************************)

\* p's place in its job: the rounds it has entered are those of the verbs before
\* its own and of the windows of its own.  An exception leaves it between two verbs
\* or in the last window of one.  A round fails only if a partition of the rank
\* threw before it.
Place(p) ==
  /\ window[p] = 0 => enters[p] = Done(verb[p])
  /\ window[p] > 0 => /\ verb[p] > 0 /\ window[p] <= Syncs[Kind(p)]
                      /\ enters[p] = Done(verb[p] - 1) + window[p]
  /\ phase[p] = "round" => window[p] > 0
  /\ enters[p] = IF phase[p] = "round" \/ err[p] = "poisoned" THEN returns[p] + 1 ELSE returns[p]
  /\ phase[p] \in {"body", "round"} => err[p] = "none"
  /\ phase[p] = "unwind" => err[p] # "none"
  /\ phase[p] = "done" /\ err[p] = "none" => window[p] = 0 /\ verb[p] = Len(script)
  /\ err[p] # "refused"
  /\ err[p] = "own" => enters[p] = Done(verb[p])
  /\ err[p] = "poisoned" => \E s \in PartsOf(RankOf(p)) : err[s] = "own" /\ enters[s] < enters[p]

\* What its buffers are filled for.
Filled(p) ==
  /\ verb[p] > 0 /\ Kind(p) \in {"counts", "alltoallv", "resolve"} => row[p] = verb[p]
  /\ verb[p] > 0 /\ Kind(p) # "counts" => slot[p] = verb[p]
  /\ phase[p] # "done" => mem[p] = verb[p]

\* Nobody leaves a round that a partition of its rank has yet to enter.
InStep(p, q) == RankOf(p) = RankOf(q) => returns[p] <= enters[q]

JobInv ==
  /\ \A p \in World : Place(p) /\ Filled(p)
  /\ \A p, q \in World : InStep(p, q)

\* A window of a partition lies in its verb.
LEMMA InVerb ==
  ASSUME ControlTypes, NEW p \in World, Place(p)
  PROVE  /\ Done(verb[p]) \in Nat /\ enters[p] <= Done(verb[p]) /\ verb[p] \in Nat
         /\ enters[p] <= SyncsOf(script)
         /\ verb[p] > 0 => Done(verb[p] - 1) \in Nat /\ Done(verb[p] - 1) < enters[p]
<1>1. verb[p] \in 0..Len(script) /\ Len(script) \in Nat /\ Done(verb[p]) \in Nat /\ Done(verb[p]) <= SyncsOf(script)
  BY ScriptFacts DEF ControlTypes
<1>2. enters[p] \in Nat /\ window[p] \in 0..4 /\ SyncsOf(script) = Done(Len(script)) /\ Done(Len(script)) \in Nat
  BY ScriptFacts DEF ControlTypes
<1>3. CASE verb[p] = 0
  BY <1>1, <1>2, <1>3 DEF Place
<1>4. CASE verb[p] > 0
  <2>1. /\ Syncs[Kind(p)] \in {2, 4} /\ Done(verb[p] - 1) \in Nat
        /\ Done(verb[p]) = Done(verb[p] - 1) + Syncs[Kind(p)]
    BY <1>4, VerbFacts
  <2>2. /\ window[p] = 0 => enters[p] = Done(verb[p])
        /\ window[p] > 0 => window[p] <= Syncs[Kind(p)] /\ enters[p] = Done(verb[p] - 1) + window[p]
    BY DEF Place
  <2>3. Done(verb[p] - 1) < enters[p] /\ enters[p] <= Done(verb[p])
    BY <1>2, <2>1, <2>2
  <2>4. QED
    BY <1>1, <1>2, <2>1, <2>3
<1>5. QED
  BY <1>1, <1>3, <1>4

\* A partition whose rounds lie in a verb is in that verb.
LEMMA VerbAt ==
  ASSUME ControlTypes, NEW q \in World, Place(q), NEW k \in 1..Len(script),
         Done(k - 1) < enters[q], enters[q] <= Done(k)
  PROVE  verb[q] = k
<1>1. PICK n \in Nat : n = Len(script)
  BY ScriptFacts DEF ControlTypes
<1>2. PICK j \in 0..n : j = verb[q]
  BY <1>1 DEF ControlTypes
<1>3. \A x, y \in 0..n : Done(x) \in Nat /\ (x <= y => Done(x) <= Done(y))
  BY <1>1, ScriptFacts DEF ControlTypes
<1>4. enters[q] \in Nat /\ enters[q] <= Done(j) /\ (j > 0 => Done(j - 1) < enters[q])
  BY <1>2, InVerb DEF ControlTypes
<1>5. k \in 1..n /\ k - 1 \in 0..n /\ k \in 0..n /\ (j > 0 => j - 1 \in 0..n)
  BY <1>1, <1>2
<1>6. ~ j < k
  <2> SUFFICES ASSUME j < k PROVE FALSE
    OBVIOUS
  <2>1. Done(j) <= Done(k - 1)
    BY <1>3, <1>5
  <2>2. Done(j) \in Nat /\ Done(k - 1) \in Nat
    BY <1>3, <1>5
  <2>3. QED
    BY <1>4, <2>1, <2>2
<1>7. ~ j > k
  <2> SUFFICES ASSUME j > k PROVE FALSE
    OBVIOUS
  <2>1. Done(k) <= Done(j - 1) /\ Done(j - 1) < enters[q]
    BY <1>3, <1>4, <1>5
  <2>2. Done(k) \in Nat /\ Done(j - 1) \in Nat
    BY <1>3, <1>5
  <2>3. QED
    BY <1>4, <2>1, <2>2
<1>8. QED
  BY <1>2, <1>5, <1>6, <1>7

\* Partitions whose rounds lie in the same verb are in the same verb.
LEMMA SameVerb ==
  ASSUME ControlTypes, NEW p \in World, NEW q \in World, Place(p), Place(q),
         verb[p] > 0, Done(verb[p] - 1) < enters[q], enters[q] <= Done(verb[p])
  PROVE  verb[q] = verb[p]
<1>1. PICK k \in 1..Len(script) : k = verb[p]
  BY VerbFacts
<1>2. QED
  BY <1>1, VerbAt

\* A step that leaves the control alone, or changes it for p only.
OnlyMoves(p) ==
  /\ script' = script
  /\ \A q \in World \ {p} : /\ enters'[q] = enters[q] /\ returns'[q] = returns[q]
                            /\ err'[q] = err[q] /\ phase'[q] = phase[q]
                            /\ verb'[q] = verb[q] /\ window'[q] = window[q]
                            /\ row'[q] = row[q] /\ slot'[q] = slot[q] /\ mem'[q] = mem[q]

\* An exception stays, and so do the rounds of a partition that threw.
Stay(p) == err[p] # "none" => err'[p] = err[p] /\ enters'[p] = enters[p]

\* What a step of p must show: it moves alone, keeps its exceptions, has a place and
\* returns from no round that somebody has yet to enter.
MovesWell(p) ==
  /\ ControlTypes' /\ OnlyMoves(p) /\ Stay(p)
  /\ Place(p)' /\ Filled(p)'
  /\ enters'[p] >= enters[p]
  /\ \A q \in PartsOf(RankOf(p)) : q # p => returns'[p] <= enters[q]

\* A step that moves one partition well keeps the invariant of the job.
LEMMA MovesWellKeepJobInv ==
  ASSUME Types, JobInv, NEW p \in World, MovesWell(p)
  PROVE  JobInv'
<1>1. ASSUME NEW q \in World, q # p PROVE Place(q)' /\ Filled(q)'
  <2>1. /\ enters'[q] = enters[q] /\ returns'[q] = returns[q] /\ err'[q] = err[q] /\ phase'[q] = phase[q]
        /\ verb'[q] = verb[q] /\ window'[q] = window[q]
        /\ row'[q] = row[q] /\ slot'[q] = slot[q] /\ mem'[q] = mem[q] /\ script' = script
    BY <1>1 DEF MovesWell, OnlyMoves
  <2>2. \A k : Done(k)' = Done(k)
    BY <2>1 DEF Done
  <2>3. Kind(q)' = Kind(q)
    BY <2>1 DEF Kind
  <2>4. Place(q) /\ Filled(q)
    BY DEF JobInv
  <2>5. ASSUME err[q] = "poisoned"
        PROVE  \E s \in PartsOf(RankOf(q)) : err'[s] = "own" /\ enters'[s] < enters'[q]
    <3>1. PICK s \in PartsOf(RankOf(q)) : err[s] = "own" /\ enters[s] < enters[q]
      BY <2>4, <2>5 DEF Place
    <3>2. s \in World
      BY PartFacts, RankFacts
    <3>3. err'[s] = "own" /\ enters'[s] = enters[s]
      BY <3>1, <3>2 DEF MovesWell, OnlyMoves, Stay
    <3>4. QED
      BY <2>1, <3>1, <3>3
  <2>6. Filled(q)'
    BY <2>1, <2>3, <2>4 DEF Filled
  <2>7. Place(q)'
    BY <2>1, <2>2, <2>3, <2>4, <2>5 DEF Place
  <2>8. QED
    BY <2>6, <2>7
<1>2. ASSUME NEW q \in World, NEW s \in World, RankOf(q) = RankOf(s) PROVE returns'[q] <= enters'[s]
  <2>1. returns[q] <= enters[s] /\ returns[q] \in Nat /\ enters[s] \in Nat /\ enters'[s] \in Nat
    BY <1>2 DEF JobInv, InStep, Types, ControlTypes, MovesWell
  <2>2. CASE q # p
    <3>1. returns'[q] = returns[q] /\ (s # p => enters'[s] = enters[s]) /\ enters'[p] >= enters[p]
      BY <2>2 DEF MovesWell, OnlyMoves
    <3>2. QED
      BY <2>1, <3>1
  <2>3. CASE q = p /\ s # p
    <3>1. s \in PartsOf(RankOf(p))
      BY <1>2, <2>3, RankFacts
    <3>2. enters'[s] = enters[s]
      BY <2>3 DEF MovesWell, OnlyMoves
    <3>3. QED
      BY <2>3, <3>1, <3>2 DEF MovesWell
  <2>4. CASE q = p /\ s = p
    <3>1. returns'[p] \in Nat /\ enters'[p] \in Nat
      BY DEF MovesWell, ControlTypes
    <3>2. QED
      BY <2>4, <3>1 DEF MovesWell, Place
  <2>5. QED
    BY <2>2, <2>3, <2>4
<1>3. \A q \in World : Place(q)' /\ Filled(q)'
  BY <1>1 DEF MovesWell
<1>4. QED
  BY <1>2, <1>3 DEF JobInv, InStep

\* The steps of a partition, one after the other.

\* The numbers that say where a partition is.
LEMMA PartTypes ==
  ASSUME ControlTypes, NEW p \in World
  PROVE  /\ window[p] \in 0..4 /\ window[p] \in Nat /\ enters[p] \in Nat /\ returns[p] \in Nat
         /\ verb[p] \in 0..Len(script) /\ verb[p] \in Nat /\ Len(script) \in Nat /\ err[p] \in Errs
<1>1. Len(script) \in Nat
  BY ScriptFacts DEF ControlTypes
<1>2. /\ window[p] \in 0..4 /\ enters[p] \in Nat /\ returns[p] \in Nat
      /\ verb[p] \in 0..Len(script) /\ err[p] \in Errs
  BY DEF ControlTypes
<1>3. QED
  BY <1>1, <1>2

\* The arrival at the end of a window moves well.
LEMMA ArriveMoves ==
  ASSUME Types, JobInv, NEW p \in World, Arrives(p), UNCHANGED <<eager>>, dangling' \in BOOLEAN
  PROVE  MovesWell(p)
<1> USE DEF Types
<1>1. Place(p) /\ Filled(p) /\ \A q \in World : InStep(p, q)
  BY DEF JobInv
<1>2. /\ phase[p] = "body" /\ verb[p] > 0 /\ window[p] > 0 /\ window[p] < Syncs[Kind(p)]
      /\ enters' = [enters EXCEPT ![p] = enters[p] + 1] /\ phase' = [phase EXCEPT ![p] = "round"]
      /\ window' = [window EXCEPT ![p] = window[p] + 1]
      /\ UNCHANGED <<returns, err, script, verb, row, slot, mem, aborted>>
  BY DEF Arrives, Sync
<1>3. ControlTypes'
  <2>1. window[p] + 1 \in 0..4
    <3>1. Syncs[Kind(p)] \in {2, 4}
      BY <1>2, VerbFacts
    <3>2. window[p] \in 0..4
      BY PartTypes
    <3>3. QED
      BY <1>2, <3>1, <3>2
  <2>2. enters[p] + 1 \in Nat
    BY DEF ControlTypes
  <2>3. QED
    BY <1>2, <2>1, <2>2 DEF ControlTypes
<1>4. OnlyMoves(p) /\ Stay(p)
  BY <1>1, <1>2 DEF ControlTypes, OnlyMoves, Stay, Place
<1>5. \A k : Done(k)' = Done(k)
  BY <1>2 DEF Done
<1>6. Kind(p)' = Kind(p)
  BY <1>2 DEF Kind
<1>7. /\ enters'[p] = enters[p] + 1 /\ phase'[p] = "round" /\ window'[p] = window[p] + 1
      /\ returns'[p] = returns[p] /\ err'[p] = err[p] /\ verb'[p] = verb[p]
      /\ row'[p] = row[p] /\ slot'[p] = slot[p] /\ mem'[p] = mem[p]
  BY <1>2 DEF ControlTypes
<1>8. err[p] = "none" /\ enters[p] = returns[p]
  BY <1>1, <1>2 DEF Place
<1>9. window[p] \in Nat /\ Done(verb[p] - 1) \in Nat /\ enters[p] \in Nat /\ Syncs[Kind(p)] \in {2, 4}
  <2>1. Done(verb[p] - 1) \in Nat /\ Syncs[Kind(p)] \in {2, 4}
    BY <1>2, VerbFacts
  <2>2. QED
    BY <2>1, PartTypes
<1>10. Place(p)'
  BY <1>1, <1>2, <1>5, <1>6, <1>7, <1>8, <1>9 DEF Place
<1>11. Filled(p)'
  BY <1>1, <1>2, <1>6, <1>7 DEF Filled
<1>12. \A q \in PartsOf(RankOf(p)) : returns'[p] <= enters[q]
  BY <1>1, <1>7, RankFacts, PartFacts DEF InStep
<1>13. QED
  BY <1>3, <1>4, <1>7, <1>9, <1>10, <1>11, <1>12 DEF MovesWell

\* So does the first window, which publishes,
LEMMA BeginMoves ==
  ASSUME Types, JobInv, NEW p \in World, Begin(p)
  PROVE  MovesWell(p)
<1> USE DEF Types
<1>1. Place(p) /\ Filled(p) /\ \A q \in World : InStep(p, q)
  BY DEF JobInv
<1>2. PICK n \in Nat : n = Len(script)
  BY ScriptFacts DEF ControlTypes
<1>3. PICK k \in 1..n : k = verb[p] + 1
  BY <1>2 DEF ControlTypes, Begin
<1>4. /\ phase[p] = "body" /\ window[p] = 0
      /\ enters' = [enters EXCEPT ![p] = enters[p] + 1] /\ phase' = [phase EXCEPT ![p] = "round"]
      /\ window' = [window EXCEPT ![p] = window[p] + 1]
      /\ verb' = [verb EXCEPT ![p] = k] /\ mem' = [mem EXCEPT ![p] = k]
      /\ row' = IF script[k].kind \in {"counts", "alltoallv", "resolve"} THEN [row EXCEPT ![p] = k] ELSE row
      /\ slot' = IF script[k].kind # "counts" THEN [slot EXCEPT ![p] = k] ELSE slot
      /\ UNCHANGED <<returns, err, script, eager, aborted, dangling>>
  BY <1>3 DEF Begin, Sync, job
<1>5. ControlTypes'
  <2>1. window[p] + 1 \in 0..4 /\ k \in 0..Len(script)
    BY <1>2, <1>4
  <2>2. enters[p] + 1 \in Nat
    BY DEF ControlTypes
  <2>3. QED
    BY <1>4, <2>1, <2>2 DEF ControlTypes
<1>6. OnlyMoves(p) /\ Stay(p)
  BY <1>1, <1>4 DEF ControlTypes, OnlyMoves, Stay, Place
<1>7. \A j : Done(j)' = Done(j)
  BY <1>4 DEF Done
<1>8. /\ enters'[p] = enters[p] + 1 /\ phase'[p] = "round" /\ window'[p] = 1
      /\ returns'[p] = returns[p] /\ err'[p] = err[p] /\ verb'[p] = k /\ mem'[p] = k
      /\ script[k].kind \in {"counts", "alltoallv", "resolve"} => row'[p] = k
      /\ script[k].kind # "counts" => slot'[p] = k
  BY <1>4 DEF ControlTypes
<1>9. Kind(p)' = script[k].kind
  BY <1>4, <1>8 DEF Kind
<1>10. err[p] = "none" /\ enters[p] = returns[p] /\ enters[p] = Done(verb[p]) /\ enters[p] \in Nat
  BY <1>1, <1>4 DEF Place, ControlTypes
<1>11. k - 1 = verb[p]
  BY <1>3 DEF ControlTypes
<1>12. Syncs[script[k].kind] \in {2, 4}
  BY <1>2, ScriptFacts, KindsAre DEF ControlTypes
<1>13. Place(p)'
  BY <1>7, <1>8, <1>9, <1>10, <1>11, <1>12 DEF Place
<1>14. Filled(p)'
  BY <1>8, <1>9 DEF Filled
<1>15. \A q \in PartsOf(RankOf(p)) : returns'[p] <= enters[q]
  BY <1>1, <1>8, RankFacts, PartFacts DEF InStep
<1>16. QED
  BY <1>5, <1>6, <1>8, <1>10, <1>13, <1>14, <1>15 DEF MovesWell

\* the return from a round, which nobody has yet to enter,
LEMMA ReturnMoves ==
  ASSUME Types, JobInv, NEW p \in World, ReturnSync(p)
  PROVE  MovesWell(p)
<1> USE DEF Types
<1>1. Place(p) /\ Filled(p)
  BY DEF JobInv
<1>2. /\ phase[p] = "round" /\ \A q \in PartsOf(RankOf(p)) : enters[q] >= enters[p]
      /\ returns' = [returns EXCEPT ![p] = returns[p] + 1] /\ phase' = [phase EXCEPT ![p] = "body"]
      /\ UNCHANGED <<enters, err, verb, window, row, slot, mem, script, eager, aborted, dangling>>
  BY DEF ReturnSync, job, caller
<1>3. ControlTypes'
  <2>1. returns[p] + 1 \in Nat
    BY DEF ControlTypes
  <2>2. QED
    BY <1>2, <2>1 DEF ControlTypes
<1>4. OnlyMoves(p) /\ Stay(p)
  BY <1>2 DEF ControlTypes, OnlyMoves, Stay
<1>5. Kind(p)' = Kind(p) /\ \A j : Done(j)' = Done(j)
  BY <1>2 DEF Kind, Done
<1>6. returns'[p] = returns[p] + 1 /\ phase'[p] = "body" /\ err[p] = "none" /\ enters[p] = returns[p] + 1
  BY <1>1, <1>2 DEF ControlTypes, Place
<1>7. Place(p)' /\ Filled(p)'
  BY <1>1, <1>2, <1>5, <1>6 DEF Place, Filled
<1>8. \A q \in PartsOf(RankOf(p)) : returns'[p] <= enters[q]
  BY <1>2, <1>6
<1>9. enters'[p] >= enters[p]
  BY <1>2 DEF ControlTypes
<1>10. QED
  BY <1>3, <1>4, <1>7, <1>8, <1>9 DEF MovesWell

\* the last window of a verb,
LEMMA FinishMoves ==
  ASSUME Types, JobInv, NEW p \in World, Finish(p)
  PROVE  MovesWell(p)
<1> USE DEF Types
<1>1. Place(p) /\ Filled(p) /\ \A q \in World : InStep(p, q)
  BY DEF JobInv
<1>2. /\ phase[p] = "body" /\ verb[p] > 0 /\ window[p] = Syncs[Kind(p)]
      /\ window' = [window EXCEPT ![p] = 0]
      /\ UNCHANGED <<enters, returns, err, phase, verb, row, slot, mem, script, eager, aborted, dangling>>
  BY DEF Finish, InWindow, job, caller, rounds
<1>3. ControlTypes'
  BY <1>2 DEF ControlTypes
<1>4. OnlyMoves(p) /\ Stay(p)
  BY <1>2 DEF ControlTypes, OnlyMoves, Stay
<1>5. Kind(p)' = Kind(p) /\ (\A j : Done(j)' = Done(j)) /\ window'[p] = 0
  BY <1>2 DEF Kind, Done, ControlTypes
<1>6. enters[p] = Done(verb[p])
  BY <1>1, <1>2, VerbFacts DEF Place
<1>7. err[p] = "none" /\ enters[p] = returns[p] /\ enters[p] \in Nat
  BY <1>1, <1>2 DEF Place, ControlTypes
<1>8. Filled(p)'
  BY <1>1, <1>2, <1>5 DEF Filled
<1>11. Place(p)'
  <2>1. enters'[p] = enters[p] /\ err'[p] = err[p] /\ phase'[p] = "body" /\ returns'[p] = returns[p] /\ verb'[p] = verb[p]
    BY <1>2
  <2>2. enters'[p] = Done(verb[p])'
    BY <1>5, <1>6, <2>1
  <2>3. QED
    BY <1>5, <1>7, <2>1, <2>2 DEF Place
<1>9. \A q \in PartsOf(RankOf(p)) : returns'[p] <= enters[q]
  BY <1>1, <1>2, RankFacts, PartFacts DEF InStep
<1>10. QED
  BY <1>2, <1>3, <1>11, <1>4, <1>7, <1>8, <1>9 DEF MovesWell

\* and the end of the job.
LEMMA LeaveMoves ==
  ASSUME Types, JobInv, NEW p \in World, LeaveJob(p)
  PROVE  MovesWell(p)
<1> USE DEF Types
<1>1. Place(p) /\ Filled(p) /\ \A q \in World : InStep(p, q)
  BY DEF JobInv
<1>2. /\ phase[p] = "unwind" \/ (phase[p] = "body" /\ window[p] = 0 /\ verb[p] = Len(script))
      /\ phase' = [phase EXCEPT ![p] = "done"] /\ mem' = [mem EXCEPT ![p] = 0]
      /\ UNCHANGED <<enters, returns, err, verb, window, row, slot, script, eager, aborted, dangling>>
  BY DEF LeaveJob, job
<1>3. ControlTypes'
  <2>1. 0 \in 0..Len(script)
    BY ScriptFacts DEF ControlTypes
  <2>2. QED
    BY <1>2, <2>1 DEF ControlTypes
<1>4. OnlyMoves(p) /\ Stay(p)
  BY <1>2 DEF ControlTypes, OnlyMoves, Stay
<1>5. Kind(p)' = Kind(p) /\ (\A j : Done(j)' = Done(j)) /\ phase'[p] = "done"
  BY <1>2 DEF Kind, Done, ControlTypes
<1>6. enters[p] = IF err[p] = "poisoned" THEN returns[p] + 1 ELSE returns[p]
  BY <1>1, <1>2 DEF Place
<1>7. Place(p)' /\ Filled(p)'
  BY <1>1, <1>2, <1>5, <1>6 DEF Place, Filled
<1>8. \A q \in PartsOf(RankOf(p)) : returns'[p] <= enters[q]
  BY <1>1, <1>2, RankFacts, PartFacts DEF InStep
<1>9. enters'[p] >= enters[p]
  BY <1>2 DEF ControlTypes
<1>10. QED
  BY <1>3, <1>4, <1>7, <1>8, <1>9 DEF MovesWell

\* A partition unwinds: between two verbs, in the last window of one, or because
\* a peer did before its own round.
LEMMA UnwindMoves ==
  ASSUME Types, JobInv, NEW p \in World, NEW why \in {"own", "poisoned"}, Unwind(p, why),
         why = "own" => phase[p] = "body" /\ enters[p] = Done(verb[p]),
         why = "poisoned" => /\ phase[p] = "round"
                             /\ \E s \in PartsOf(RankOf(p)) : err[s] = "own" /\ enters[s] < enters[p]
  PROVE  MovesWell(p)
<1> USE DEF Types
<1>1. Place(p) /\ Filled(p) /\ \A q \in World : InStep(p, q)
  BY DEF JobInv
<1>2. /\ err' = [err EXCEPT ![p] = why] /\ phase' = [phase EXCEPT ![p] = "unwind"]
      /\ UNCHANGED <<enters, returns, verb, window, row, slot, mem, script, eager, aborted, dangling>>
  BY DEF Unwind, job, caller
<1>3. ControlTypes'
  BY <1>2 DEF ControlTypes, Errs
<1>4. err[p] = "none"
  BY <1>1 DEF Place
<1>5. OnlyMoves(p) /\ Stay(p)
  BY <1>2, <1>4 DEF ControlTypes, OnlyMoves, Stay
<1>6. /\ Kind(p)' = Kind(p) /\ \A j : Done(j)' = Done(j)
      /\ phase'[p] = "unwind" /\ err'[p] = why
  BY <1>2 DEF Kind, Done, ControlTypes
<1>7. why = "poisoned" => \E s \in PartsOf(RankOf(p)) : err'[s] = "own" /\ enters'[s] < enters'[p]
  <2> SUFFICES ASSUME why = "poisoned"
               PROVE  \E s \in PartsOf(RankOf(p)) : err'[s] = "own" /\ enters'[s] < enters'[p]
    OBVIOUS
  <2>1. PICK s \in PartsOf(RankOf(p)) : err[s] = "own" /\ enters[s] < enters[p]
    OBVIOUS
  <2>2. s # p /\ s \in World
    BY <1>4, <2>1, RankFacts, PartFacts
  <2>3. err'[s] = "own"
    BY <1>2, <2>1, <2>2 DEF ControlTypes
  <2>4. QED
    BY <1>2, <2>1, <2>3
<1>8. Place(p)'
  <2>1. enters[p] = IF why = "poisoned" THEN returns[p] + 1 ELSE returns[p]
    BY <1>1, <1>4 DEF Place
  <2>2. QED
    BY <1>1, <1>2, <1>6, <1>7, <2>1 DEF Place
<1>9. Filled(p)'
  BY <1>1, <1>2, <1>4, <1>6 DEF Filled, Place
<1>10. \A q \in PartsOf(RankOf(p)) : returns'[p] <= enters[q]
  BY <1>1, <1>2, RankFacts, PartFacts DEF InStep
<1>11. enters'[p] >= enters[p]
  BY <1>2 DEF ControlTypes
<1>12. QED
  BY <1>3, <1>5, <1>8, <1>9, <1>10, <1>11 DEF MovesWell

\* While a partition works in a window that is not the last one of its verb, its
\* peers are in the same verb, at most one round ahead.
LEMMA PeersInVerb ==
  ASSUME ControlTypes, JobInv, NEW p \in World, NEW q \in PartsOf(RankOf(p)),
         phase[p] = "body", verb[p] > 0, window[p] > 0, window[p] < Syncs[Kind(p)]
  PROVE  /\ q \in World /\ RankOf(q) = RankOf(p) /\ verb[q] = verb[p]
         /\ enters[p] = Done(verb[p] - 1) + window[p]
         /\ enters[p] <= enters[q] /\ enters[q] <= enters[p] + 1
<1>1. q \in World /\ RankOf(q) = RankOf(p)
  BY RankFacts, PartFacts
<1>2. Place(p) /\ Place(q) /\ returns[p] <= enters[q] /\ returns[q] <= enters[p]
  BY <1>1 DEF JobInv, InStep
<1>3. /\ enters[p] \in Nat /\ enters[q] \in Nat /\ returns[p] \in Nat /\ returns[q] \in Nat
      /\ window[p] \in Nat
  BY <1>1, PartTypes
<1>4. Done(verb[p] - 1) \in Nat /\ Done(verb[p]) = Done(verb[p] - 1) + Syncs[Kind(p)] /\ Syncs[Kind(p)] \in {2, 4}
  BY VerbFacts
<1>5. enters[p] = returns[p] /\ enters[p] = Done(verb[p] - 1) + window[p]
  BY <1>2 DEF Place
<1>6. enters[q] <= returns[q] + 1
  BY <1>2, <1>3 DEF Place
<1>7. enters[p] <= enters[q] /\ enters[q] <= enters[p] + 1
  BY <1>2, <1>3, <1>5, <1>6
<1>8. Done(verb[p] - 1) < enters[q] /\ enters[q] <= Done(verb[p])
  BY <1>3, <1>4, <1>5, <1>7
<1>9. verb[q] = verb[p]
  BY <1>1, <1>2, <1>8, SameVerb
<1>10. QED
  BY <1>1, <1>5, <1>7, <1>9

\* The partition that made a round of its rank fail.
LEMMA Culprit ==
  ASSUME ControlTypes, JobInv, NEW q \in World, err[q] # "none"
  PROVE  \E s \in PartsOf(RankOf(q)) : err[s] = "own" /\ enters[s] <= enters[q]
<1>1. Place(q) /\ err[q] \in Errs /\ enters[q] \in Nat
  BY PartTypes DEF JobInv
<1>2. CASE err[q] = "own"
  BY <1>1, <1>2, RankFacts
<1>3. CASE err[q] = "poisoned"
  <2>1. PICK s \in PartsOf(RankOf(q)) : err[s] = "own" /\ enters[s] < enters[q]
    BY <1>1, <1>3 DEF Place
  <2>2. enters[s] \in Nat
    BY RankFacts, PartFacts, PartTypes
  <2>3. QED
    BY <1>1, <2>1, <2>2
<1>4. QED
  BY <1>1, <1>2, <1>3 DEF Errs, Place

\* A round that fails was failed by a partition that threw before it.
LEMMA FailHasCulprit ==
  ASSUME ControlTypes, JobInv, NEW p \in World, FailSync(p)
  PROVE  /\ phase[p] = "round" /\ ThrowInVerb(p, "poisoned")
         /\ \E s \in PartsOf(RankOf(p)) : err[s] = "own" /\ enters[s] < enters[p]
<1>1. PICK q \in PartsOf(RankOf(p)) : err[q] # "none" /\ enters[q] < enters[p]
  BY DEF FailSync
<1>2. q \in World /\ RankOf(q) = RankOf(p)
  BY RankFacts, PartFacts
<1>3. PICK s \in PartsOf(RankOf(q)) : err[s] = "own" /\ enters[s] <= enters[q]
  BY <1>1, <1>2, Culprit
<1>4. enters[s] \in Nat /\ enters[q] \in Nat /\ enters[p] \in Nat
  BY <1>2, RankFacts, PartFacts, PartTypes
<1>5. QED
  BY <1>1, <1>2, <1>3, <1>4 DEF FailSync

\* Inside a verb a partition that is not the lead throws in the last window only.
LEMMA ThrowsInPlace ==
  ASSUME ControlTypes, JobInv, NEW p \in World, BodyThrows(p) \/ (ResizeThrows(p) /\ ~IsLead(p))
  PROVE  phase[p] = "body" /\ enters[p] = Done(verb[p]) /\ Unwind(p, "own")
<1>1. Place(p)
  BY DEF JobInv
<1>2. CASE BodyThrows(p)
  BY <1>1, <1>2 DEF BodyThrows, Place
<1>3. CASE ResizeThrows(p) /\ ~IsLead(p)
  <2>1. InWindow(p, {"resolve"}, 4) /\ Unwind(p, "own")
    BY <1>3 DEF ResizeThrows, SizesBuffer, ThrowInVerb
  <2>2. phase[p] = "body" /\ verb[p] > 0 /\ window[p] = 4 /\ Kind(p) = "resolve"
    BY <2>1 DEF InWindow
  <2>3. Done(verb[p]) = Done(verb[p] - 1) + Syncs[Kind(p)] /\ Syncs[Kind(p)] = 4
    BY <2>2, VerbFacts, KindsAre
  <2>4. enters[p] = Done(verb[p])
    BY <1>1, <2>2, <2>3 DEF Place
  <2>5. QED
    BY <2>1, <2>2, <2>4
<1>4. QED
  BY <1>2, <1>3

\* A step that throws unwinds p, or aborts.
LEMMA ThrowMoves ==
  ASSUME Types, JobInv, NEW p \in World, Throws(p)
  PROVE  MovesWell(p) \/ aborted'
<1>1. ControlTypes
  BY DEF Types
<1>2. CASE FailSync(p)
  <2>1. /\ phase[p] = "round" /\ ThrowInVerb(p, "poisoned")
        /\ \E s \in PartsOf(RankOf(p)) : err[s] = "own" /\ enters[s] < enters[p]
    BY <1>1, <1>2, FailHasCulprit
  <2>2. CASE IsLead(p)
    BY <2>1, <2>2 DEF ThrowInVerb, Abort
  <2>3. CASE ~IsLead(p)
    <3>1. Unwind(p, "poisoned")
      BY <2>1, <2>3 DEF ThrowInVerb
    <3>2. QED
      BY <2>1, <3>1, UnwindMoves
  <2>4. QED
    BY <2>2, <2>3
<1>3. CASE BodyThrows(p) \/ (ResizeThrows(p) /\ ~IsLead(p))
  <2>1. phase[p] = "body" /\ enters[p] = Done(verb[p]) /\ Unwind(p, "own")
    BY <1>1, <1>3, ThrowsInPlace
  <2>2. QED
    BY <2>1, UnwindMoves
<1>4. CASE (ResizeThrows(p) /\ IsLead(p)) \/ RefusePlan(p)
  BY <1>4 DEF ResizeThrows, ThrowInVerb, RefusePlan, Abort
<1>5. QED
  BY <1>2, <1>3, <1>4 DEF Throws

\* An abort follows an exception, or a plan that excludes some of the traffic.
LEMMA AbortHasReason ==
  ASSUME Types, JobInv, NEW p \in World, Throws(p), aborted', ~aborted
  PROVE  /\ Uncovered' \/ \E q \in World : err'[q] = "own"
         /\ ControlTypes'
<1>1. ControlTypes
  BY DEF Types
<1>3. ASSUME NEW why \in Errs, Abort(p, why) PROVE ControlTypes' /\ err' = [err EXCEPT ![p] = why] /\ script' = script
  BY <1>1, <1>3 DEF Abort, ControlTypes, job, caller
<1>4. CASE FailSync(p)
  <2>1. /\ phase[p] = "round" /\ ThrowInVerb(p, "poisoned")
        /\ \E s \in PartsOf(RankOf(p)) : err[s] = "own" /\ enters[s] < enters[p]
    BY <1>1, <1>4, FailHasCulprit
  <2>2. Abort(p, "poisoned")
    BY <2>1 DEF ThrowInVerb, Unwind
  <2>3. PICK s \in PartsOf(RankOf(p)) : err[s] = "own"
    BY <2>1
  <2>4. s \in World /\ err[p] = "none"
    BY <2>1, RankFacts, PartFacts DEF JobInv, Place
  <2>5. ControlTypes' /\ err' = [err EXCEPT ![p] = "poisoned"]
    BY <1>3, <2>2 DEF Errs
  <2>6. err'[s] = "own"
    BY <1>1, <2>3, <2>4, <2>5 DEF ControlTypes
  <2>7. QED
    BY <2>4, <2>5, <2>6
<1>5. CASE BodyThrows(p)
  BY <1>5 DEF BodyThrows, Unwind
<1>6. CASE ResizeThrows(p)
  <2>1. Abort(p, "own")
    BY <1>6 DEF ResizeThrows, ThrowInVerb, Unwind
  <2>2. ControlTypes' /\ err' = [err EXCEPT ![p] = "own"]
    BY <1>3, <2>1 DEF Errs
  <2>3. err'[p] = "own"
    BY <1>1, <2>2 DEF ControlTypes
  <2>4. QED
    BY <2>2, <2>3
<1>7. CASE RefusePlan(p)
  <2> DEFINE r == RankOf(p)
             k == verb[p]
  <2>1. /\ InWindow(p, {"counts", "alltoallv", "resolve"}, 1) /\ ~script[k].derive
        /\ ~Covers(r, Plan(p)) /\ Abort(p, "refused")
    BY <1>7 DEF RefusePlan
  <2>2. phase[p] = "body" /\ k > 0 /\ window[p] = 1 /\ Kind(p) \in {"counts", "alltoallv", "resolve"}
    BY <2>1 DEF InWindow
  <2>3. 1 < Syncs[Kind(p)] /\ k \in 1..Len(script) /\ r \in Ranks
    BY <1>1, <2>2, VerbFacts, RankFacts
  <2>4. PICK a \in Reached(r) : a \notin PeerRanks(Plan(p), r) /\ Plan(p).sparse
    BY <2>1 DEF Covers
  <2>5. PICK q \in PartsOf(r), g \in PartsOf(a) : Counts(q)[g] # 0
    BY <2>4 DEF Reached
  <2>6. a \in Ranks /\ g \in World /\ RankOf(g) = a
    BY <2>4, PartFacts DEF Reached
  <2>7. q \in World /\ verb[q] = k
    BY <1>1, <2>2, <2>3, PeersInVerb
  <2>8. row[q] = k
    BY <2>2, <2>7 DEF JobInv, Filled, Kind
  <2>9. script[k].m[q][g] # 0 /\ RankOf(g) \notin PeerRanks(script[k].plan, r) /\ script[k].plan.sparse
    BY <2>4, <2>5, <2>6, <2>8 DEF Counts, Plan
  <2>14. script[k].kind \in {"counts", "alltoallv", "resolve"}
    BY <2>2 DEF Kind
  <2>10. k \in DOMAIN script
    BY <1>1, <2>3, HybridScripts DEF ControlTypes
  <2> HIDE DEF r, k
  <2>11. Uncovered
    BY <2>1, <2>3, <2>6, <2>9, <2>10, <2>14 DEF Uncovered, LeavesOut
  <2>12. ControlTypes' /\ script' = script
    BY <1>3, <2>1 DEF Errs
  <2>13. QED
    BY <2>11, <2>12 DEF Uncovered, LeavesOut
<1>8. QED
  BY <1>4, <1>5, <1>6, <1>7 DEF Throws

\* A slice is read from vectors that are all there, and are those of this verb.
LEMMA SliceReadsLiveVectors ==
  ASSUME Types, JobInv, NEW p \in World, ReduceSlice(p), ~dangling
  PROVE  ~dangling'
<1>1. ControlTypes /\ InWindow(p, {"inplace"}, 2)
  BY DEF Types, ReduceSlice
<1>2. phase[p] = "body" /\ verb[p] > 0 /\ window[p] = 2 /\ Kind(p) = "inplace"
  BY <1>1 DEF InWindow
<1>3. Syncs[Kind(p)] = 4 /\ Done(verb[p]) = Done(verb[p] - 1) + 4 /\ Done(verb[p] - 1) \in Nat
  BY <1>1, <1>2, VerbFacts, KindsAre
<1>4. \A q \in PartsOf(RankOf(p)) :
        /\ q \in World /\ RankOf(q) = RankOf(p) /\ verb[q] = verb[p]
        /\ enters[q] \in Nat /\ enters[q] < Done(verb[p])
  <2> SUFFICES ASSUME NEW q \in PartsOf(RankOf(p))
               PROVE  /\ q \in World /\ RankOf(q) = RankOf(p) /\ verb[q] = verb[p]
                      /\ enters[q] \in Nat /\ enters[q] < Done(verb[p])
    OBVIOUS
  <2>1. /\ q \in World /\ RankOf(q) = RankOf(p) /\ verb[q] = verb[p]
        /\ enters[p] = Done(verb[p] - 1) + window[p] /\ enters[q] <= enters[p] + 1
    BY <1>1, <1>2, <1>3, PeersInVerb
  <2>2. enters[q] \in Nat
    BY <1>1, <2>1, PartTypes
  <2>3. QED
    BY <1>2, <1>3, <2>1, <2>2
<1>5. ASSUME NEW q \in PartsOf(RankOf(p)) PROVE mem[q] = verb[p]
  <2>1. Place(q) /\ Filled(q) /\ q \in World
    BY <1>4 DEF JobInv
  <2>2. err[q] = "none"
    <3> SUFFICES ASSUME err[q] # "none" PROVE FALSE
      OBVIOUS
    <3>1. PICK s \in PartsOf(RankOf(q)) : err[s] = "own" /\ enters[s] <= enters[q]
      BY <1>1, <2>1, Culprit
    <3>2. s \in PartsOf(RankOf(p)) /\ s \in World
      BY <1>4
    <3>3. enters[s] = Done(verb[p])
      BY <1>4, <3>1, <3>2 DEF JobInv, Place
    <3>4. QED
      BY <1>4, <3>2, <3>3
  <2>3. phase[q] # "done"
    <3> SUFFICES ASSUME phase[q] = "done" PROVE FALSE
      OBVIOUS
    <3>1. window[q] = 0
      BY <2>1, <2>2 DEF Place
    <3>2. enters[q] = Done(verb[p])
      BY <1>4, <2>1, <3>1 DEF Place
    <3>3. QED
      BY <1>4, <3>2
  <2>4. QED
    BY <1>4, <2>1, <2>3 DEF Filled
<1>6. QED
  BY <1>5 DEF ReduceSlice

------------------------------------------------------------------------------
(***************************************************************************)
(* Messages                                                                *)
(***************************************************************************)

\* Nothing is sent to oneself, and no receive posted.
Diagonal == \A tag \in Tags, a \in Ranks : channel[tag][a][a] = <<>> /\ wants[tag][a][a] = 0
Wires == IsMatrix(channel) /\ IsMatrix(wants) /\ Diagonal

\* A matrix with one line replaced.
Put(f, t, a, e) == [f EXCEPT ![t][a] = e]
\* It has the new line, and the old ones elsewhere.
LEMMA PutLine ==
  ASSUME NEW f, IsMatrix(f), NEW t \in Tags, NEW a \in Ranks, NEW e, IsLine(e)
  PROVE  /\ IsMatrix(Put(f, t, a, e))
         /\ \A u \in Tags, c \in Ranks : Put(f, t, a, e)[u][c] = IF u = t /\ c = a THEN e ELSE f[u][c]
<1> DEFINE g == Put(f, t, a, e)
<1>1. \A u \in Tags : g[u] = IF u = t THEN [f[t] EXCEPT ![a] = e] ELSE f[u]
  BY DEF IsMatrix, Put
<1>2. g = [u \in Tags |-> g[u]]
  BY DEF IsMatrix, Put
<1> HIDE DEF g
<1>3. \A u \in Tags, c \in Ranks : g[u][c] = IF u = t /\ c = a THEN e ELSE f[u][c]
  BY <1>1 DEF IsMatrix
<1>4. \A u \in Tags : g[u] = [c \in Ranks |-> g[u][c]]
  BY <1>1 DEF IsMatrix
<1>5. \A u \in Tags, c \in Ranks : IsLine(g[u][c])
  BY <1>3 DEF IsMatrix
<1>6. IsMatrix(g)
  BY <1>2, <1>4, <1>5 DEF IsMatrix
<1>7. QED
  BY <1>3, <1>6 DEF g

\* A row of messages or of receives that leaves the rank itself out.
LEMMA PostWires ==
  ASSUME Wires, NEW tag \in Tags, NEW r \in Ranks, NEW P, NEW data, NEW sends, NEW expects,
         Post(tag, r, P, data, sends, expects)
  PROVE  Wires'
<1> DEFINE line == [b \in Ranks |-> IF b \in P \ {r} /\ sends[b] # 0
                                  THEN Append(channel[tag][r][b], data[b]) ELSE channel[tag][r][b]]
           asks == [a \in Ranks |-> IF a \in P \ {r} THEN expects[a] ELSE 0]
<1>1. channel' = Put(channel, tag, r, line) /\ wants' = Put(wants, tag, r, asks)
  BY DEF Post, Put
<1>2. IsLine(line) /\ IsLine(asks) /\ line[r] = channel[tag][r][r] /\ asks[r] = 0
  BY DEF IsLine
<1> HIDE DEF line, asks
<1>3. /\ IsMatrix(channel')
      /\ \A u \in Tags, c \in Ranks : channel'[u][c] = IF u = tag /\ c = r THEN line ELSE channel[u][c]
  BY <1>1, <1>2, PutLine DEF Wires
<1>4. /\ IsMatrix(wants')
      /\ \A u \in Tags, c \in Ranks : wants'[u][c] = IF u = tag /\ c = r THEN asks ELSE wants[u][c]
  BY <1>1, <1>2, PutLine DEF Wires
<1>5. Diagonal'
  BY <1>2, <1>3, <1>4 DEF Wires, Diagonal
<1>6. QED
  BY <1>3, <1>4, <1>5 DEF Wires, IsMatrix, IsLine

\* Receiving takes no message from the rank itself.
LEMMA ReceiveWires ==
  ASSUME Wires, NEW tag \in Tags, NEW r \in Ranks, Receive(tag, r)
  PROVE  Wires'
<1> DEFINE asks == [a \in Ranks |-> 0]
           grid == [a \in Ranks |-> IF a \in Awaited(tag, r)
                                  THEN [channel[tag][a] EXCEPT ![r] = Tail(channel[tag][a][r])]
                                  ELSE channel[tag][a]]
<1>1. channel' = [channel EXCEPT ![tag] = grid] /\ wants' = Put(wants, tag, r, asks)
  <2>1. wants' = Put(wants, tag, r, asks)
    BY DEF Receive, Put
  <2>2. channel' = [channel EXCEPT ![tag] = grid]
    BY DEF Receive
  <2>3. QED
    BY <2>1, <2>2
<1>2. IsLine(asks) /\ asks[r] = 0
  BY DEF IsLine
<1>3. \A a \in Ranks : /\ IsLine(channel[tag][a]) /\ channel[tag][a][a] = <<>>
                       /\ a \in Awaited(tag, r) => a # r
  BY DEF Wires, IsMatrix, Diagonal, Awaited
<1>4. \A a \in Ranks : IsLine(grid[a]) /\ grid[a][a] = <<>>
  <2> SUFFICES ASSUME NEW a \in Ranks PROVE IsLine(grid[a]) /\ grid[a][a] = <<>>
    OBVIOUS
  <2> DEFINE e == [channel[tag][a] EXCEPT ![r] = Tail(channel[tag][a][r])]
  <2>1. IsLine(e)
    BY <1>3 DEF IsLine
  <2>2. a # r => e[a] = channel[tag][a][a]
    BY <1>3 DEF IsLine
  <2>3. grid[a] = IF a \in Awaited(tag, r) THEN e ELSE channel[tag][a]
    OBVIOUS
  <2> HIDE DEF e, grid
  <2>4. QED
    BY <1>3, <2>1, <2>2, <2>3
<1>5. grid = [a \in Ranks |-> grid[a]]
  OBVIOUS
<1> HIDE DEF asks, grid
<1>6. /\ IsMatrix(wants')
      /\ \A u \in Tags, c \in Ranks : wants'[u][c] = IF u = tag /\ c = r THEN asks ELSE wants[u][c]
  BY <1>1, <1>2, PutLine DEF Wires
<1>7. \A u \in Tags : channel'[u] = IF u = tag THEN grid ELSE channel[u]
  BY <1>1 DEF Wires, IsMatrix
<1>8. IsMatrix(channel')
  <2>1. channel' = [u \in Tags |-> channel'[u]]
    BY <1>1 DEF Wires, IsMatrix
  <2>2. \A u \in Tags : channel'[u] = [a \in Ranks |-> channel'[u][a]]
    BY <1>5, <1>7 DEF Wires, IsMatrix
  <2>3. \A u \in Tags, a \in Ranks : IsLine(channel'[u][a])
    BY <1>4, <1>7 DEF Wires, IsMatrix
  <2>4. QED
    BY <2>1, <2>2, <2>3 DEF IsMatrix
<1>9. Diagonal'
  BY <1>2, <1>4, <1>6, <1>7 DEF Wires, Diagonal
<1>10. QED
  BY <1>6, <1>8, <1>9 DEF Wires, IsMatrix, IsLine

\* What the steps do to the calls of MPI and to the messages.
LEMMA StepMpiTypes ==
  ASSUME Types, NEW p \in World, HybridStep(p)
  PROVE  MpiTypes'
<1> DEFINE r == RankOf(p)
<1>1. /\ r \in Ranks /\ ControlTypes /\ Wires /\ Tags = {"count", "payload"}
      /\ call \in [Ranks -> {"none", "counts", "sized", "payload", "reduce"}]
      /\ peers \in [Ranks -> SUBSET Ranks] /\ wirePlan \in [Ranks -> Plans]
  BY RankFacts DEF Types, MpiTypes, Wires, Diagonal, Tags
<1> HIDE DEF r
<1>2. ASSUME NEW k \in {"none", "counts", "sized", "payload", "reduce"}, call' = [call EXCEPT ![r] = k] \/ UNCHANGED call
      PROVE  call' \in [Ranks -> {"none", "counts", "sized", "payload", "reduce"}]
  BY <1>1, <1>2
<1>3. ASSUME UNCHANGED <<channel, wants>> PROVE Wires'
  <2>1. channel' = channel /\ wants' = wants
    BY <1>3
  <2>2. QED
    BY <1>1, <2>1 DEF Wires, Diagonal
<1>4. ASSUME UNCHANGED <<call, channel, wants, peers, wirePlan>> PROVE MpiTypes'
  BY <1>1, <1>3, <1>4 DEF MpiTypes, Wires, Diagonal
<1>5. ASSUME Wires', UNCHANGED <<peers, wirePlan>>, call' \in [Ranks -> {"none", "counts", "sized", "payload", "reduce"}]
      PROVE  MpiTypes'
  BY <1>1, <1>5 DEF MpiTypes, Wires, Diagonal
<1>6. CASE Begin(p) \/ ReturnSync(p) \/ Pass(p) \/ Finish(p) \/ LeaveJob(p) \/ PackSend(p) \/ ReduceSlice(p) \/ Throws(p)
  <2>1. UNCHANGED <<call, channel, wants, peers, wirePlan>>
    <3>1. CASE Begin(p)
      BY <3>1 DEF Begin, plans, mpi
    <3>2. CASE ReturnSync(p)
      BY <3>2 DEF ReturnSync, plans, mpi
    <3>3. CASE Pass(p)
      BY <3>3 DEF Pass, plans, mpi
    <3>4. CASE Finish(p)
      BY <3>4, Zenon DEF Finish, plans, mpi
    <3>5. CASE LeaveJob(p)
      BY <3>5 DEF LeaveJob, plans, mpi
    <3>6. CASE PackSend(p)
      BY <3>6, Zenon DEF PackSend, plans, mpi
    <3>7. CASE ReduceSlice(p)
      BY <3>7 DEF ReduceSlice, plans, mpi
    <3>8. CASE Throws(p)
      BY <3>8 DEF Throws, FailSync, BodyThrows, ResizeThrows, RefusePlan, ThrowInVerb, Unwind, Abort, plans, mpi
    <3>9. QED
      BY <1>6, <3>1, <3>2, <3>3, <3>4, <3>5, <3>6, <3>7, <3>8
  <2>2. QED
    BY <1>4, <2>1
<1>7. CASE PostCounts(p)
  <2> DEFINE P == PeerRanks(Plan(p), r)
             whole == [b \in Ranks |-> S * S]
             data == [b \in Ranks |-> CountBlock(r, b)]
  <2>1. /\ InWindow(p, {"counts", "resolve"}, 1) /\ peers' = [peers EXCEPT ![r] = P] /\ UNCHANGED wirePlan
        /\ call' = [call EXCEPT ![r] = "counts"]
        /\ Post("count", r, P, data, whole, whole) \/ UNCHANGED <<channel, wants>>
    BY <1>7 DEF PostCounts, r
  <2>2. Wires'
    <3> HIDE DEF P, whole, data
    <3>1. QED
      BY <1>1, <1>3, <2>1, PostWires
  <2>3. P \subseteq Ranks
    BY <1>1, <2>1, VerbFacts, PeersAreRanks DEF InWindow
  <2>4. QED
    BY <1>1, <1>2, <2>1, <2>2, <2>3 DEF MpiTypes, Wires, Diagonal
<1>8. CASE EndCountWindow(p)
  <2>1. /\ call' = [call EXCEPT ![r] = "none"] /\ UNCHANGED <<peers, wirePlan>>
        /\ Receive("count", r) \/ UNCHANGED <<channel, wants>>
    BY <1>8 DEF EndCountWindow, LandCounts, r
  <2>2. Wires'
    BY <1>1, <1>3, <2>1, ReceiveWires
  <2>3. QED
    BY <1>2, <1>5, <2>1, <2>2
<1>9. CASE PlanPayload(p)
  <2>1. /\ wirePlan' = [wirePlan EXCEPT ![r] = IF script[verb[p]].derive THEN DerivedPlan(r) ELSE Plan(p)]
        /\ peers' = [peers EXCEPT ![r] = PeerRanks(wirePlan'[r], r)]
        /\ verb[p] > 0 /\ UNCHANGED <<call, channel, wants>>
    BY <1>9 DEF PlanPayload, r, mpi, InWindow
  <2>2. wirePlan'[r] \in Plans /\ PeerRanks(wirePlan'[r], r) \subseteq Ranks
    <3>1. Plan(p) \in Plans /\ script[verb[p]] \in Verbs
      BY <1>1, <2>1, VerbFacts
    <3>2. script[verb[p]].derive => DerivedPlan(r) \in Plans
      <4>1. script[verb[p]].derive => \E e \in 0..R : R = Pow2[e]
        BY <3>1, Sizes DEF Verbs
      <4>2. QED
        BY <1>1, <4>1, DerivedIsRoutable
    <3>3. wirePlan'[r] \in Plans
      BY <1>1, <2>1, <3>1, <3>2
    <3>4. QED
      BY <1>1, <3>3, PeersAreRanks
  <2>3. QED
    BY <1>1, <1>3, <2>1, <2>2 DEF MpiTypes, Wires, Diagonal
<1>10. CASE SizeFromCounts(p)
  <2>1. call' = [call EXCEPT ![r] = "sized"] /\ UNCHANGED <<peers, wirePlan>> /\ Receive("count", r)
    BY <1>10 DEF SizeFromCounts, LandCounts, r
  <2>2. Wires'
    BY <1>1, <2>1, ReceiveWires
  <2>3. QED
    BY <1>2, <1>5, <2>1, <2>2
<1>11. CASE PostPayload(p)
  <2> DEFINE P == PeerRanks(PayloadPlan(p), r)
             data == Outgoing(r)
             sends == [b \in Ranks |-> sendSeg[r][b].n]
             expects == [a \in Ranks |-> recvSeg[r][a].n]
  <2>1. /\ UNCHANGED <<peers, wirePlan>> /\ call' = [call EXCEPT ![r] = "payload"]
        /\ Post("payload", r, P, data, sends, expects) \/ UNCHANGED <<channel, wants>>
    BY <1>11, Zenon DEF PostPayload, r, plans
  <2>2. Wires'
    <3> HIDE DEF P, data, sends, expects
    <3>1. QED
      BY <1>1, <1>3, <2>1, PostWires
  <2>3. QED
    BY <1>2, <1>5, <2>1, <2>2
<1>12. CASE LandPayload(p)
  <2>1. /\ call' = [call EXCEPT ![r] = "none"] /\ UNCHANGED <<peers, wirePlan>>
        /\ Receive("payload", r) \/ UNCHANGED <<channel, wants>>
    BY <1>12, Zenon DEF LandPayload, r, plans
  <2>2. Wires'
    BY <1>1, <1>3, <2>1, ReceiveWires
  <2>3. QED
    BY <1>2, <1>5, <2>1, <2>2
<1>13. CASE PostReduce(p) \/ LandReduce(p)
  <2>1. \E k \in {"none", "reduce"} : call' = [call EXCEPT ![r] = k] /\ UNCHANGED <<peers, wirePlan, channel, wants>>
    BY <1>13 DEF PostReduce, LandReduce, r, plans, mpi
  <2>2. QED
    BY <1>2, <1>3, <1>5, <2>1
<1>14. QED
  BY <1>6, <1>7, <1>8, <1>9, <1>10, <1>11, <1>12, <1>13 DEF HybridStep, Throws

------------------------------------------------------------------------------
(***************************************************************************)
(* The inductive invariant                                                 *)
(***************************************************************************)

Bounded == \A p \in World : enters[p] <= MaxSyncs /\ returns[p] <= MaxSyncs

\* An abort is the last thing that happens; it takes only its reason with it.
HybridInv ==
  /\ Types /\ Bounded /\ ~dangling /\ AbortsOnlyOnFailure
  /\ ~aborted => JobInv

\* Nobody enters more rounds than the script has.
LEMMA JobIsBounded ==
  ASSUME ControlTypes, JobInv
  PROVE  Bounded
<1> SUFFICES ASSUME NEW p \in World PROVE enters[p] <= MaxSyncs /\ returns[p] <= MaxSyncs
  BY DEF Bounded
<1>1. Place(p) /\ InStep(p, p)
  BY DEF JobInv
<1>2. enters[p] <= SyncsOf(script) /\ SyncsOf(script) <= MaxSyncs /\ SyncsOf(script) \in Nat /\ MaxSyncs \in Nat
  <2>1. script \in Scripts
    BY DEF ControlTypes
  <2>2. PICK n \in Nat : n = Len(script)
    BY <2>1, ScriptFacts
  <2>3. n \in 0..n /\ SyncsOf(script) = Done(n) /\ SyncsOf(script) <= MaxSyncs /\ \A k \in 0..n : Done(k) \in Nat
    BY <2>1, <2>2, ScriptFacts
  <2>4. enters[p] <= SyncsOf(script)
    BY <1>1, InVerb
  <2>5. QED
    BY <2>3, <2>4, HybridBound
<1>3. returns[p] <= enters[p] /\ enters[p] \in Nat /\ returns[p] \in Nat
  BY <1>1, PartTypes DEF InStep
<1>4. QED
  BY <1>2, <1>3

\* The same of the next state.
LEMMA JobStaysBounded == ControlTypes' /\ JobInv' => Bounded'
<1>1. ControlTypes /\ JobInv => Bounded
  BY JobIsBounded
<1>2. QED
  BY <1>1, PTL

\* The invariant holds at first,
LEMMA InitHybridInv == HybridInit => HybridInv
<1> SUFFICES ASSUME HybridInit PROVE HybridInv
  OBVIOUS
<1>1. Len(script) \in Nat /\ Done(0) = 0
  BY ScriptFacts DEF HybridInit
<1>2. ControlTypes
  <2>1. 0 \in 0..Len(script)
    BY <1>1
  <2>2. row = [p \in World |-> 0] /\ slot = row /\ mem = row /\ verb = row /\ enters = row /\ returns = row /\ window = row
    BY DEF HybridInit
  <2>3. row \in [World -> 0..Len(script)] /\ row \in [World -> Nat] /\ row \in [World -> 0..4]
    BY <2>1, <2>2
  <2>4. err \in [World -> Errs] /\ phase \in [World -> {"body", "round", "unwind", "done"}]
    BY DEF HybridInit, Errs
  <2>5. script \in Scripts /\ eager \in BOOLEAN /\ aborted \in BOOLEAN /\ dangling \in BOOLEAN
    BY DEF HybridInit
  <2>6. QED
    BY <2>2, <2>3, <2>4, <2>5, Zenon DEF ControlTypes
<1>3. MpiTypes
  <2>1. Dense \in Plans
    BY DEF Dense, Plans
  <2>2. wirePlan = [r \in Ranks |-> Dense] /\ peers = [r \in Ranks |-> {}]
    BY DEF HybridInit
  <2>3. wirePlan \in [Ranks -> Plans] /\ peers \in [Ranks -> SUBSET Ranks]
    BY <2>1, <2>2
  <2>4. QED
    BY <2>3 DEF HybridInit, MpiTypes, IsMatrix, IsLine
<1>4. ASSUME NEW p \in World PROVE Place(p) /\ Filled(p)
  BY <1>1, <1>4 DEF HybridInit, Place, Filled
<1>5. JobInv
  BY <1>4 DEF JobInv, InStep, HybridInit
<1>6. Bounded
  BY <1>2, <1>5, JobIsBounded
<1>7. QED
  BY <1>2, <1>3, <1>5, <1>6 DEF HybridInv, Types, HybridInit, AbortsOnlyOnFailure

\* Every step that neither calls MPI nor aborts moves p well.
LEMMA StepMoves ==
  ASSUME Types, JobInv, NEW p \in World, HybridStep(p), ~aborted'
  PROVE  CallsMpi(p) \/ MovesWell(p)
<1>1. ControlTypes
  BY DEF Types
<1>2. CASE EndsWindow(p)
  BY <1>1, <1>2, WindowEnds, ArriveMoves
<1>3. CASE Begin(p) \/ ReturnSync(p) \/ Finish(p) \/ LeaveJob(p)
  BY <1>3, BeginMoves, ReturnMoves, FinishMoves, LeaveMoves
<1>4. CASE Throws(p)
  BY <1>4, ThrowMoves
<1>5. QED
  BY <1>2, <1>3, <1>4, StepKinds

\* A step keeps the invariant of the job, or aborts it for a reason.
LEMMA StepControl ==
  ASSUME Types, JobInv, ~dangling, ~aborted, NEW p \in World, HybridStep(p)
  PROVE  /\ ControlTypes' /\ ~dangling'
         /\ \/ ~aborted' /\ JobInv'
            \/ aborted' /\ UNCHANGED <<enters, returns>> /\ AbortsOnlyOnFailure'
<1>1. ControlTypes
  BY DEF Types
<1>2. CASE CallsMpi(p)
  <2>1. UNCHANGED <<script, enters, returns, err, phase, verb, window, row, slot, mem, aborted, eager, dangling>>
    BY <1>2, MpiStays DEF control
  <2>2. ControlTypes'
    BY <1>1, <2>1 DEF ControlTypes
  <2>3. ASSUME NEW q \in World PROVE Place(q)' /\ Filled(q)'
    <3>1. Place(q) /\ Filled(q) /\ Kind(q)' = Kind(q) /\ \A k : Done(k)' = Done(k)
      BY <2>1 DEF JobInv, Kind, Done
    <3>2. QED
      BY <2>1, <3>1 DEF Place, Filled
  <2>4. JobInv'
    BY <2>1, <2>3 DEF JobInv, InStep
  <2>5. QED
    BY <2>1, <2>2, <2>4
<1>3. CASE EndsWindow(p)
  <2>1. /\ Arrives(p) /\ UNCHANGED <<eager>> /\ dangling' \in BOOLEAN /\ UNCHANGED aborted
        /\ dangling' = dangling \/ ReduceSlice(p)
    BY <1>1, <1>3, WindowEnds DEF Arrives
  <2>2. ~dangling'
    BY <2>1, SliceReadsLiveVectors
  <2>3. MovesWell(p)
    BY <2>1, ArriveMoves
  <2>4. QED
    BY <2>1, <2>2, <2>3, MovesWellKeepJobInv DEF MovesWell
<1>4. CASE Begin(p) \/ ReturnSync(p) \/ Finish(p) \/ LeaveJob(p)
  <2>1. UNCHANGED <<aborted, dangling>>
    <3>1. CASE Begin(p)
      BY <3>1 DEF Begin
    <3>2. CASE ReturnSync(p)
      BY <3>2 DEF ReturnSync
    <3>3. CASE Finish(p)
      BY <3>3, Zenon DEF Finish
    <3>4. CASE LeaveJob(p)
      BY <3>4 DEF LeaveJob
    <3>5. QED
      BY <1>4, <3>1, <3>2, <3>3, <3>4
  <2>2. MovesWell(p)
    BY <1>4, BeginMoves, ReturnMoves, FinishMoves, LeaveMoves
  <2>3. QED
    BY <2>1, <2>2, MovesWellKeepJobInv DEF MovesWell
<1>5. CASE Throws(p)
  <2>1. UNCHANGED <<enters, returns, dangling>>
    BY <1>5 DEF Throws, FailSync, BodyThrows, ResizeThrows, RefusePlan, ThrowInVerb, Unwind, Abort
  <2>2. CASE aborted'
    BY <1>5, <2>1, <2>2, AbortHasReason DEF AbortsOnlyOnFailure
  <2>3. CASE ~aborted'
    <3>1. MovesWell(p)
      BY <1>5, <2>3, ThrowMoves
    <3>2. QED
      BY <2>1, <2>3, <3>1, MovesWellKeepJobInv DEF MovesWell
  <2>4. QED
    BY <2>2, <2>3
<1>6. QED
  BY <1>2, <1>3, <1>4, <1>5, StepKinds

\* in every step,
LEMMA StepHybridInv ==
  ASSUME HybridInv, HybridNext
  PROVE  HybridInv'
<1>1. Types /\ JobInv /\ ~dangling /\ ~aborted /\ Bounded
  BY DEF HybridInv, HybridNext
<1>2. PICK p \in World : HybridStep(p)
  BY DEF HybridNext
<1>3. /\ ControlTypes' /\ ~dangling'
      /\ \/ ~aborted' /\ JobInv'
         \/ aborted' /\ UNCHANGED <<enters, returns>> /\ AbortsOnlyOnFailure'
  BY <1>1, <1>2, StepControl
<1>4. MpiTypes'
  BY <1>1, <1>2, StepMpiTypes
<1>5. CASE ~aborted' /\ JobInv'
  <2>1. Bounded'
    BY <1>3, <1>5, JobStaysBounded
  <2>2. QED
    BY <1>3, <1>4, <1>5, <2>1 DEF HybridInv, Types, AbortsOnlyOnFailure
<1>6. CASE aborted' /\ UNCHANGED <<enters, returns>> /\ AbortsOnlyOnFailure'
  <2>1. Bounded'
    BY <1>1, <1>6 DEF Bounded
  <2>2. QED
    BY <1>3, <1>4, <1>6, <2>1 DEF HybridInv, Types
<1>7. QED
  BY <1>3, <1>5, <1>6

\* and while nothing happens.
LEMMA StutterHybridInv ==
  ASSUME HybridInv, UNCHANGED hybridVars
  PROVE  HybridInv'
<1>1. UNCHANGED <<script, eager, enters, returns, err, phase, verb, window, row, slot, mem, aborted, dangling,
                  call, channel, wants, peers, wirePlan>>
  BY DEF hybridVars, job, rounds, caller, plans, mpi
<1>2. ControlTypes'
  BY <1>1 DEF HybridInv, Types, ControlTypes
<1>3. MpiTypes'
  BY <1>1 DEF HybridInv, Types, MpiTypes, IsMatrix, IsLine
<1>4. JobInv => JobInv'
  <2> SUFFICES ASSUME JobInv PROVE JobInv'
    OBVIOUS
  <2>1. ASSUME NEW q \in World PROVE Place(q)' /\ Filled(q)'
    <3>1. Place(q) /\ Filled(q) /\ Kind(q)' = Kind(q) /\ \A k : Done(k)' = Done(k)
      BY <1>1 DEF JobInv, Kind, Done
    <3>2. QED
      BY <1>1, <3>1 DEF Place, Filled
  <2>2. QED
    BY <1>1, <2>1 DEF JobInv, InStep
<1>5. Bounded' /\ AbortsOnlyOnFailure'
  BY <1>1 DEF HybridInv, Bounded, AbortsOnlyOnFailure, Uncovered, LeavesOut
<1>6. QED
  BY <1>1, <1>2, <1>3, <1>4, <1>5 DEF HybridInv, Types

\* The inductive invariant: every partition is where its script says, in step with its
\* rank's barrier and with its buffers filled for its verb, until a job is aborted.
THEOREM HybridInductive == HybridSpec => []HybridInv
<1>1. HybridInit => HybridInv
  BY InitHybridInv
<1>2. HybridInv /\ [HybridNext]_hybridVars => HybridInv'
  BY StepHybridInv, StutterHybridInv
<1>3. QED
  BY <1>1, <1>2, PTL DEF HybridSpec

\* The invariant bounds what HybridTypeOK bounds.
LEMMA InvGivesTypes ==
  ASSUME HybridInv
  PROVE  HybridTypeOK
<1>1. Types /\ Bounded /\ MaxSyncs \in Nat
  BY HybridBound DEF HybridInv
<1>2. \A p \in World : enters[p] \in 0..MaxSyncs /\ returns[p] \in 0..MaxSyncs
  BY <1>1 DEF Types, ControlTypes, Bounded
<1>3. enters \in [World -> 0..MaxSyncs] /\ returns \in [World -> 0..MaxSyncs]
  BY <1>1, <1>2 DEF Types, ControlTypes
<1>4. QED
  BY <1>1, <1>3 DEF Types, ControlTypes, MpiTypes, HybridTypeOK, Errs

\* No state of any job, on any number of ranks and partitions, has the wrong types; no
\* message to a rank itself goes through MPI (sparse_pairwise).
THEOREM HybridTypesHold == HybridSpec => []HybridTypeOK
  BY HybridInductive, InvGivesTypes, PTL

\* The vectors that allreduce_sum_inplace reads in place are those of the same verb, and
\* none is destroyed while a peer may read it (HybridComm.h:383-404).
THEOREM ReducedVectorsLive == HybridSpec => []InputsOutliveReads
<1>1. HybridInv => InputsOutliveReads
  BY DEF HybridInv, InputsOutliveReads
<1>2. QED
  BY <1>1, HybridInductive, PTL

\* MPI_Abort is called only in a job in which a partition threw, or whose plan leaves out
\* traffic (abort_rank_, guard_partition0_).
THEOREM AbortsHaveReasons == HybridSpec => []AbortsOnlyOnFailure
<1>1. HybridInv => AbortsOnlyOnFailure
  BY DEF HybridInv
<1>2. QED
  BY <1>1, HybridInductive, PTL

------------------------------------------------------------------------------
(***************************************************************************)
(* The barrier of each rank                                                *)
(***************************************************************************)

\* On the other ranks nothing of the barrier changes.
LEMMA OtherRanksStay ==
  ASSUME NEW p \in World, NEW r \in Ranks, OnlyMoves(p), r # RankOf(p)
  PROVE  UNCHANGED Barrier(r)!roundVars
<1>1. \A q \in PartsOf(r) : q \in World \ {p}
  BY PartFacts
<1>2. \A q \in PartsOf(r) : enters'[q] = enters[q] /\ returns'[q] = returns[q] /\ err'[q] = err[q] /\ phase'[q] = phase[q]
  BY <1>1 DEF OnlyMoves
<1>3. SyncsOf(script)' = SyncsOf(script)
  BY DEF OnlyMoves
<1>4. QED
  BY <1>2, <1>3 DEF Barrier!roundVars

\* A verb that p is in, or may begin, has rounds that p has not entered.
LEMMA RoundsLeft ==
  ASSUME ControlTypes, JobInv, NEW p \in World
  PROVE  /\ Arrives(p) => enters[p] < SyncsOf(script)
         /\ window[p] = 0 /\ verb[p] < Len(script) => enters[p] < SyncsOf(script)
         /\ window[p] = 0 /\ verb[p] = Len(script) => enters[p] = SyncsOf(script)
<1>1. Place(p) /\ enters[p] \in Nat /\ window[p] \in Nat /\ script \in Scripts
  BY PartTypes DEF JobInv, ControlTypes
<1>2. PICK n \in Nat : n = Len(script)
  BY <1>1, ScriptFacts
<1>3. verb[p] \in 0..n
  BY <1>2 DEF ControlTypes
<1>4. /\ \A k \in 1..n : Syncs[script[k].kind] \in {2, 4} /\ Done(k) = Done(k - 1) + Syncs[script[k].kind]
      /\ \A k \in 0..n : Done(k) \in Nat /\ Done(k) <= Done(n)
      /\ Done(n) = SyncsOf(script)
  <2>1. /\ \A k \in 1..n : script[k].kind \in Kinds /\ Done(k) = Done(k - 1) + Syncs[script[k].kind]
        /\ \A k \in 0..n : Done(k) \in Nat
        /\ \A j, k \in 0..n : j <= k => Done(j) <= Done(k)
        /\ Done(n) = SyncsOf(script)
    BY <1>1, <1>2, ScriptFacts
  <2>2. \A k \in 1..n : Syncs[script[k].kind] \in {2, 4}
    BY <2>1, KindsAre
  <2>3. \A k \in 0..n : Done(k) <= Done(n)
    BY <2>1
  <2>4. QED
    BY <2>1, <2>2, <2>3
<1>5. ASSUME Arrives(p) PROVE enters[p] < SyncsOf(script)
  <2>1. verb[p] > 0 /\ window[p] > 0 /\ window[p] < Syncs[Kind(p)]
    BY <1>5 DEF Arrives
  <2>2. Done(verb[p] - 1) \in Nat /\ Done(verb[p]) = Done(verb[p] - 1) + Syncs[Kind(p)] /\ Syncs[Kind(p)] \in {2, 4}
    BY <2>1, VerbFacts
  <2>3. enters[p] = Done(verb[p] - 1) + window[p]
    BY <1>1, <2>1 DEF Place
  <2>4. QED
    BY <1>1, <1>3, <1>4, <2>1, <2>2, <2>3
<1>6. ASSUME window[p] = 0, verb[p] < n PROVE enters[p] < SyncsOf(script)
  <2>1. PICK k \in 1..n : k = verb[p] + 1 /\ k - 1 = verb[p]
    BY <1>3, <1>6
  <2>2. Done(k) = Done(verb[p]) + Syncs[script[k].kind] /\ Done(k) <= Done(n) /\ Done(k) \in Nat /\ Done(n) \in Nat
        /\ Syncs[script[k].kind] \in {2, 4} /\ Done(verb[p]) \in Nat
    BY <1>3, <1>4, <2>1
  <2>3. enters[p] = Done(verb[p])
    BY <1>1, <1>6 DEF Place
  <2>4. QED
    BY <1>4, <2>2, <2>3
<1>7. QED
  BY <1>1, <1>2, <1>4, <1>5, <1>6 DEF Place

\* What each step does to the barrier of its rank.
LEMMA RankStep ==
  ASSUME Types, JobInv, NEW p \in World, NEW r \in Ranks, r = RankOf(p), HybridStep(p), ~aborted'
  PROVE  Barrier(r)!Next \/ UNCHANGED Barrier(r)!roundVars
<1>1. /\ ControlTypes /\ p \in PartsOf(r) /\ \A q \in PartsOf(r) : q \in World
      /\ enters \in [World -> Nat] /\ returns \in [World -> Nat] /\ err \in [World -> Errs]
      /\ phase \in [World -> {"body", "round", "unwind", "done"}]
  BY RankFacts, PartFacts DEF Types, ControlTypes
<1>2. Place(p)
  BY DEF JobInv
<1>3. ASSUME Barrier(r)!Step(p) PROVE Barrier(r)!Next
  BY <1>1, <1>3 DEF Barrier!Next
<1>4. CASE CallsMpi(p) \/ Finish(p)
  <2>1. UNCHANGED <<enters, returns, err, phase, script>>
    BY <1>4, MpiStays, Zenon DEF control, Finish, rounds, job
  <2>2. QED
    BY <2>1 DEF Barrier!roundVars
<1>5. CASE EndsWindow(p) \/ Begin(p)
  <2>1. Sync(p) /\ phase[p] = "body" /\ UNCHANGED script
    BY <1>1, <1>5, WindowEnds DEF Arrives, Begin, job
  <2>2. enters[p] < SyncsOf(script)
    <3>1. CASE Begin(p)
      BY <1>1, <3>1, RoundsLeft DEF Begin
    <3>2. CASE Arrives(p)
      BY <1>1, <3>2, RoundsLeft
    <3>3. QED
      BY <1>1, <1>5, <3>1, <3>2, WindowEnds
  <2>3. Barrier(r)!Enter(p)
    BY <1>1, <2>1, <2>2 DEF Barrier!Enter, Sync
  <2>4. QED
    BY <1>3, <2>3 DEF Barrier!Step
<1>6. CASE ReturnSync(p)
  <2>1. Barrier(r)!Return(p)
    BY <1>1, <1>6 DEF Barrier!Return, ReturnSync, job
  <2>2. QED
    BY <1>3, <2>1 DEF Barrier!Step
<1>7. CASE LeaveJob(p)
  <2>1. phase[p] = "body" => enters[p] = SyncsOf(script)
    BY <1>1, <1>7, RoundsLeft DEF LeaveJob
  <2>2. Barrier(r)!Leave(p)
    BY <1>1, <1>7, <2>1 DEF Barrier!Leave, LeaveJob, job
  <2>3. QED
    BY <1>3, <2>2 DEF Barrier!Step
<1>8. CASE FailSync(p)
  <2>1. Unwind(p, "poisoned")
    BY <1>8 DEF FailSync, ThrowInVerb, Abort
  <2>2. Barrier(r)!Fail(p)
    BY <1>1, <1>8, <2>1 DEF Barrier!Fail, FailSync, Unwind, job
  <2>3. QED
    BY <1>3, <2>2 DEF Barrier!Step
<1>9. CASE BodyThrows(p) \/ ResizeThrows(p)
  <2>1. phase[p] = "body" /\ Unwind(p, "own")
    <3>1. ~ IsLead(p) \/ BodyThrows(p)
      BY <1>9 DEF ResizeThrows, ThrowInVerb, Abort
    <3>2. QED
      BY <1>1, <1>9, <3>1, ThrowsInPlace
  <2>2. Barrier(r)!Throw(p)
    BY <1>1, <2>1 DEF Barrier!Throw, Unwind, job
  <2>3. QED
    BY <1>3, <2>2 DEF Barrier!Step
<1>10. CASE RefusePlan(p)
  BY <1>10 DEF RefusePlan, Abort
<1>11. QED
  BY <1>4, <1>5, <1>6, <1>7, <1>8, <1>9, <1>10, StepKinds DEF Throws

\* A step of p is one of its rank's barrier.
LEMMA StepBarriers ==
  ASSUME HybridInv, [HybridNext]_hybridVars, NEW r \in Ranks
  PROVE  aborted' \/ Barrier(r)!Next \/ UNCHANGED Barrier(r)!roundVars
<1>1. CASE UNCHANGED hybridVars
  <2>1. UNCHANGED <<script, enters, returns, err, phase>>
    BY <1>1 DEF hybridVars, job, rounds
  <2>2. QED
    BY <2>1 DEF Barrier!roundVars
<1>2. CASE HybridNext /\ ~aborted'
  <2>1. PICK p \in World : HybridStep(p)
    BY <1>2 DEF HybridNext
  <2>2. Types /\ JobInv
    BY <1>2 DEF HybridInv, HybridNext
  <2>3. CASE r = RankOf(p)
    BY <1>2, <2>1, <2>2, <2>3, RankStep
  <2>4. CASE r # RankOf(p)
    <3>1. CASE MovesWell(p)
      BY <2>4, <3>1, OtherRanksStay DEF MovesWell
    <3>2. CASE CallsMpi(p)
      <4>1. UNCHANGED <<script, enters, returns, err, phase>>
        BY <3>2, MpiStays DEF control
      <4>2. QED
        BY <4>1 DEF Barrier!roundVars
    <3>3. QED
      BY <1>2, <2>1, <2>2, <3>1, <3>2, StepMoves
  <2>5. QED
    BY <2>3, <2>4
<1>3. QED
  BY <1>1, <1>2

\* Every step of a rank, until an abort, is a step of PartitionRounds or leaves it alone:
\* the verbs use the barrier as it must be used.
THEOREM RanksUseBarriers == HybridSpec => UsesPartitionRounds
<1>1. HybridInv /\ [HybridNext]_hybridVars
        => [\A r \in Ranks : aborted' \/ Barrier(r)!Next \/ UNCHANGED Barrier(r)!roundVars]_rounds
  BY StepBarriers
<1>2. QED
  BY <1>1, HybridInductive, PTL DEF HybridSpec, UsesPartitionRounds

------------------------------------------------------------------------------
(***************************************************************************)
(* Sequences put together from others                                      *)
(***************************************************************************)

\* The lengths of n sequences, counted from 0.
Lengths(seqs, n) == [i \in 0..(n - 1) |-> Len(seqs[i + 1])]

\* Lengths are numbers, and so are their sums.
LEMMA LengthSums ==
  ASSUME NEW X, NEW n \in Nat, NEW seqs \in [1..n -> Seq(X)]
  PROVE  /\ \A i \in 0..(n - 1) : Lengths(seqs, n)[i] = Len(seqs[i + 1]) /\ Lengths(seqs, n)[i] \in Nat
         /\ \A i \in 0..n : SumTo(Lengths(seqs, n), i) \in Nat
         /\ \A i, j \in 0..n : i <= j => SumTo(Lengths(seqs, n), i) <= SumTo(Lengths(seqs, n), j)
         /\ \A i \in 0..(n - 1) :
              SumTo(Lengths(seqs, n), i + 1) = SumTo(Lengths(seqs, n), i) + Len(seqs[i + 1])
<1> DEFINE w == Lengths(seqs, n)
<1>1. \A i \in 0..(n - 1) : w[i] = Len(seqs[i + 1]) /\ w[i] \in Nat
  <2> SUFFICES ASSUME NEW i \in 0..(n - 1) PROVE w[i] = Len(seqs[i + 1]) /\ w[i] \in Nat
    OBVIOUS
  <2>1. i + 1 \in 1..n
    OBVIOUS
  <2>2. seqs[i + 1] \in Seq(X)
    BY <2>1
  <2>3. QED
    BY <2>2, LenProperties DEF Lengths
<1> HIDE DEF w
<1>2. /\ \A i \in 0..n : SumTo(w, i) \in Nat
      /\ \A i, j \in 0..n : i <= j => SumTo(w, i) <= SumTo(w, j)
  BY <1>1, SumGrows
<1>3. \A i \in 0..(n - 1) : SumTo(w, i + 1) = SumTo(w, i) + Len(seqs[i + 1])
  <2> SUFFICES ASSUME NEW i \in 0..(n - 1) PROVE SumTo(w, i + 1) = SumTo(w, i) + Len(seqs[i + 1])
    OBVIOUS
  <2>1. i \in Nat
    OBVIOUS
  <2>2. QED
    BY <1>1, <2>1, SumNext
<1>4. QED
  BY <1>1, <1>2, <1>3 DEF w

\* A part of a sequence.
LEMMA PartOf ==
  ASSUME NEW X, NEW s \in Seq(X), NEW a \in Nat, NEW n \in Nat, a + n <= Len(s)
  PROVE  /\ SubSeq(s, a + 1, a + n) \in Seq(X) /\ Len(SubSeq(s, a + 1, a + n)) = n
         /\ \A j \in 1..n : SubSeq(s, a + 1, a + n)[j] = s[a + j]
<1>1. PICK m \in Int, e \in Int : m = a + 1 /\ e = a + n
  OBVIOUS
<1>2. \A i \in m..e : s[i] \in X
  <2>1. \A i \in 1..Len(s) : s[i] \in X
    BY ElementOfSeq
  <2>2. \A i \in m..e : i \in 1..Len(s)
    BY <1>1, LenProperties
  <2>3. QED
    BY <2>1, <2>2
<1>3. /\ SubSeq(s, m, e) \in Seq(X)
      /\ Len(SubSeq(s, m, e)) = IF m <= e THEN e - m + 1 ELSE 0
      /\ \A i \in 1..(e - m + 1) : SubSeq(s, m, e)[i] = s[m + i - 1]
  BY <1>2, SubSeqProperties
<1>4. (IF m <= e THEN e - m + 1 ELSE 0) = n /\ e - m + 1 = n
  BY <1>1
<1>5. \A j \in 1..n : m + j - 1 = a + j
  BY <1>1
<1>6. QED
  BY <1>1, <1>3, <1>4, <1>5

\* flat holds every member of every sequence, behind those of the earlier ones.
HoldsAll(flat, seqs, n) ==
  \A i \in 0..(n - 1) : \A j \in 1..Len(seqs[i + 1]) : flat[SumTo(Lengths(seqs, n), i) + j] = seqs[i + 1][j]

\* A flattened sequence holds every member of every sequence, behind those of the earlier ones.
LEMMA FlattenAt ==
  ASSUME NEW X, NEW n \in Nat, NEW seqs \in [1..n -> Seq(X)]
  PROVE  /\ FlattenSeq(seqs) \in Seq(X) /\ Len(FlattenSeq(seqs)) = SumTo(Lengths(seqs, n), n)
         /\ HoldsAll(FlattenSeq(seqs), seqs, n)
<1> DEFINE w == Lengths(seqs, n)
           displ == [i \in 0..n |-> SumTo(w, i)]
           flat == FlattenSeq(seqs)
<1>1. /\ \A i \in 0..(n - 1) : w[i] = Len(seqs[i + 1]) /\ w[i] \in Nat
      /\ \A i \in 0..n : SumTo(w, i) \in Nat
      /\ \A i, j \in 0..n : i <= j => SumTo(w, i) <= SumTo(w, j)
      /\ \A i \in 0..(n - 1) : SumTo(w, i + 1) = SumTo(w, i) + Len(seqs[i + 1])
  BY LengthSums
<1> HIDE DEF w
<1>2. SumTo(w, 0) = 0
  BY SumZero
<1>3. \A i \in 0..n : displ[i] = SumTo(w, i)
  OBVIOUS
<1> HIDE DEF displ
<1>4. IsDispl(displ, seqs, n)
  <2>1. 0 \in 0..n /\ \A i \in 0..(n - 1) : i \in 0..n /\ i + 1 \in 0..n
    OBVIOUS
  <2>2. QED
    BY <1>1, <1>2, <1>3, <2>1 DEF IsDispl
<1>5. Placed(flat, displ, seqs, n)
  BY <1>4, FlattenBlocks
<1>6. seqs \in Seq(Seq(X))
  OBVIOUS
<1>7. flat \in Seq(X)
  BY <1>6, FlattenType
<1> HIDE DEF flat
<1>8. Len(flat) = SumTo(w, n)
  BY <1>3, <1>5 DEF Placed
<1>9. ASSUME NEW i \in 0..(n - 1), NEW j \in 1..Len(seqs[i + 1])
      PROVE  flat[SumTo(w, i) + j] = seqs[i + 1][j]
  <2>1. PICK m \in 1..n : m = i + 1 /\ m - 1 = i /\ m \in 0..n /\ i \in 0..n
    OBVIOUS
  <2>2. PICK a \in Nat, b \in Nat : a = SumTo(w, i) /\ b = SumTo(w, m) /\ b = a + Len(seqs[m]) /\ b <= Len(flat)
    <3>1. SumTo(w, i) \in Nat /\ SumTo(w, m) \in Nat /\ n \in 0..n /\ m <= n
      BY <1>1, <2>1
    <3>2. SumTo(w, m) = SumTo(w, i) + Len(seqs[m])
      BY <1>1, <2>1
    <3>3. SumTo(w, m) <= Len(flat)
      BY <1>1, <1>8, <2>1, <3>1
    <3>4. QED
      BY <3>1, <3>2, <3>3
  <2>3. SubSeq(flat, a + 1, b) = seqs[m]
    BY <1>3, <1>5, <2>1, <2>2 DEF Placed
  <2>4. j \in 1..Len(seqs[m]) /\ Len(seqs[m]) \in Nat /\ j \in Nat
    BY <2>1, LenProperties
  <2>5. SubSeq(flat, a + 1, b)[j] = flat[a + j]
    <3>1. PICK c \in Nat : c = Len(seqs[m]) /\ b = a + c /\ a + c <= Len(flat)
      BY <2>2, <2>4
    <3>2. \A y \in 1..c : SubSeq(flat, a + 1, a + c)[y] = flat[a + y]
      <4>1. a \in Nat /\ c \in Nat /\ a + c <= Len(flat)
        BY <2>2, <3>1
      <4>2. PICK z \in Seq(X) : z = flat
        BY <1>7, Zenon
      <4>3. a + c <= Len(z)
        BY <4>1, <4>2, Zenon
      <4>4. \A y \in 1..c : SubSeq(z, a + 1, a + c)[y] = z[a + y]
        BY <4>1, <4>2, <4>3, PartOf, ZenonT(60)
      <4>5. QED
        BY <4>2, <4>4, Zenon
    <3>3. QED
      BY <2>4, <3>1, <3>2
  <2>6. QED
    BY <2>1, <2>2, <2>3, <2>5
<1>10. QED
  BY <1>7, <1>8, <1>9 DEF w, flat, HoldsAll

------------------------------------------------------------------------------
(***************************************************************************)
(* How a staging buffer is laid out                                        *)
(***************************************************************************)

\* A sum that begins later.
LEMMA SumShift ==
  ASSUME NEW f, NEW a \in Nat, NEW n \in Nat, NEW v, \A i \in 0..(n - 1) : v[i] = f[a + i],
         \A i \in 0..(a + n - 1) : f[i] \in Nat
  PROVE  \A i \in 0..n : SumTo(f, a + i) = SumTo(f, a) + SumTo(v, i)
<1> DEFINE T == {i \in Nat : i <= n => SumTo(f, a + i) = SumTo(f, a) + SumTo(v, i)}
<1>1. PICK e \in Nat : e = a + n
  OBVIOUS
<1>2. \A i \in 0..e : SumTo(f, i) \in Nat
  BY <1>1, SumGrows, SMTT(30)
<1>3. \A i \in 0..n : SumTo(v, i) \in Nat
  <2>1. \A i \in 0..(n - 1) : v[i] \in Nat
    BY <1>1
  <2>2. QED
    BY <2>1, SumGrows
<1>4. 0 \in T
  <2>1. SumTo(v, 0) = 0 /\ a + 0 = a /\ SumTo(f, a) \in Nat
    BY <1>1, <1>2, SumZero
  <2>2. QED
    BY <2>1
<1>5. ASSUME NEW i \in Nat, i \in T PROVE i + 1 \in T
  <2> SUFFICES ASSUME i + 1 <= n PROVE SumTo(f, a + (i + 1)) = SumTo(f, a) + SumTo(v, i + 1)
    OBVIOUS
  <2>1. PICK c \in Nat : c = a + i /\ c + 1 = a + (i + 1)
    OBVIOUS
  <2>2. SumTo(f, c + 1) = SumTo(f, c) + f[c]
    BY SumNext
  <2>3. SumTo(v, i + 1) = SumTo(v, i) + v[i] /\ v[i] = f[c]
    BY <2>1, SumNext
  <2>4. SumTo(f, c) = SumTo(f, a) + SumTo(v, i)
    BY <1>5, <2>1
  <2>5. f[c] \in Nat /\ SumTo(f, a) \in Nat /\ SumTo(v, i) \in Nat
    BY <1>1, <1>2, <1>3, <2>1
  <2>6. QED
    BY <2>1, <2>2, <2>3, <2>4, <2>5
<1>6. \A i \in Nat : i \in T
  <2> HIDE DEF T
  <2>1. QED
    BY <1>4, <1>5, SetInduction
<1>7. QED
  BY <1>6

\* A sum of zeros.
LEMMA SumOfZeros ==
  ASSUME NEW w, NEW n \in Nat, \A i \in 0..(n - 1) : w[i] = 0
  PROVE  SumTo(w, n) = 0
<1> DEFINE T == {i \in Nat : i <= n => SumTo(w, i) = 0}
<1>1. 0 \in T
  BY SumZero
<1>2. ASSUME NEW i \in Nat, i \in T PROVE i + 1 \in T
  BY <1>2, SumNext
<1>3. \A i \in Nat : i \in T
  <2> HIDE DEF T
  <2>1. QED
    BY <1>1, <1>2, SetInduction
<1>4. QED
  BY <1>3

\* A sum with its bounds, and its intervals one after the other.
LEMMA SumFacts ==
  ASSUME NEW w, NEW n \in Nat, \A i \in 0..(n - 1) : w[i] \in Nat
  PROVE  /\ \A i \in 0..n : SumTo(w, i) \in Nat
         /\ \A i \in 0..(n - 1) : SumTo(w, i + 1) = SumTo(w, i) + w[i] /\ SumTo(w, i) + w[i] <= SumTo(w, n)
         /\ \A i, j \in 0..(n - 1) : i < j => SumTo(w, i) + w[i] <= SumTo(w, j)
<1>1. /\ \A i \in 0..n : SumTo(w, i) \in Nat
      /\ \A i, j \in 0..n : i <= j => SumTo(w, i) <= SumTo(w, j)
  BY SumGrows
<1>2. \A i \in 0..(n - 1) : SumTo(w, i + 1) = SumTo(w, i) + w[i]
  BY SumNext
<1>3. \A i \in 0..(n - 1) : i + 1 \in 0..n /\ i \in 0..n /\ n \in 0..n
  OBVIOUS
<1>4. ASSUME NEW i \in 0..(n - 1) PROVE SumTo(w, i) + w[i] <= SumTo(w, n)
  <2>1. SumTo(w, i + 1) <= SumTo(w, n)
    BY <1>1, <1>3
  <2>2. QED
    BY <1>2, <2>1
<1>5. ASSUME NEW i \in 0..(n - 1), NEW j \in 0..(n - 1), i < j PROVE SumTo(w, i) + w[i] <= SumTo(w, j)
  <2>1. i + 1 <= j
    BY <1>5
  <2>2. SumTo(w, i + 1) <= SumTo(w, j)
    BY <1>1, <1>3, <2>1
  <2>3. QED
    BY <1>2, <2>2
<1>6. QED
  BY <1>1, <1>2, <1>4, <1>5

\* A grid holds, for every partition on the other side, the elements that each of
\* this rank's partitions exchange with it; col_, the elements of all of them.
IsGrid(W) == \A h \in World, u \in Locals : W[h][u] \in Nat
Col(W) == [h \in World |-> SumTo(W[h], S)]
CellAt(P, W, h, u) == Start(P, Col(W), h) + SumTo(W[h], u)

\* The part of the grid that goes to one rank, and where its blocks are in the message.
IsSquare(V) == \A t \in Locals, u \in Locals : V[t][u] \in Nat
RowsOf(W, b) == [t \in Locals |-> W[Global(b, t)]]
RowSums(V) == [t \in Locals |-> SumTo(V[t], S)]
InnerAt(V, t, u) == SumTo(RowSums(V), t) + SumTo(V[t], u)
InnerSize(V) == SumTo(RowSums(V), S)

\* The blocks of one destination partition, in the order of their source partitions.
LEMMA GridSums ==
  ASSUME NEW W, IsGrid(W), NEW h \in World
  PROVE  /\ \A u \in 0..S : SumTo(W[h], u) \in Nat
         /\ \A u \in Locals : W[h][u] \in Nat /\ SumTo(W[h], u + 1) = SumTo(W[h], u) + W[h][u]
                              /\ SumTo(W[h], u) + W[h][u] <= SumTo(W[h], S)
         /\ \A u, x \in Locals : u < x => SumTo(W[h], u) + W[h][u] <= SumTo(W[h], x)
         /\ Col(W)[h] = SumTo(W[h], S) /\ Col(W)[h] \in Nat
<1>1. \A u \in 0..(S - 1) : W[h][u] \in Nat
  BY DEF IsGrid, Locals
<1>2. S \in Nat /\ Locals = 0..(S - 1) /\ S \in 0..S
  BY Sizes DEF Locals
<1>3. /\ \A u \in 0..S : SumTo(W[h], u) \in Nat
      /\ \A u \in 0..(S - 1) : SumTo(W[h], u + 1) = SumTo(W[h], u) + W[h][u] /\ SumTo(W[h], u) + W[h][u] <= SumTo(W[h], S)
      /\ \A u, x \in 0..(S - 1) : u < x => SumTo(W[h], u) + W[h][u] <= SumTo(W[h], x)
  BY <1>1, <1>2, SumFacts
<1>4. Col(W)[h] = SumTo(W[h], S)
  BY DEF Col
<1>5. QED
  BY <1>1, <1>2, <1>3, <1>4

\* The regions of the partitions of P follow one another.
LEMMA StartFacts ==
  ASSUME NEW P, NEW col, \A h \in World : col[h] \in Nat
  PROVE  /\ \A h \in 0..(R * S) : Start(P, col, h) \in Nat
         /\ \A h \in OfRanks(P) : Start(P, col, h) + col[h] <= Start(P, col, R * S)
         /\ \A h, g \in OfRanks(P) : h < g => Start(P, col, h) + col[h] <= Start(P, col, g)
<1> DEFINE w == [h \in World |-> IF RankOf(h) \in P THEN col[h] ELSE 0]
           n == R * S
<1>1. n \in Nat /\ World = 0..(n - 1)
  BY Sizes DEF World
<1>2. \A h \in 0..(n - 1) : w[h] \in Nat /\ (h \in OfRanks(P) => w[h] = col[h])
  BY <1>1 DEF OfRanks
<1>3. \A h : Start(P, col, h) = SumTo(w, h)
  BY DEF Start
<1>4. \A h \in OfRanks(P) : h \in 0..(n - 1)
  BY <1>1 DEF OfRanks
<1> HIDE DEF w, n
<1>5. /\ \A h \in 0..n : SumTo(w, h) \in Nat
      /\ \A h \in 0..(n - 1) : SumTo(w, h) + w[h] <= SumTo(w, n)
      /\ \A h, g \in 0..(n - 1) : h < g => SumTo(w, h) + w[h] <= SumTo(w, g)
  BY <1>1, <1>2, SumFacts
<1>6. QED
  BY <1>2, <1>3, <1>4, <1>5 DEF n

\* The regions of one rank's partitions make its segment.
LEMMA SegmentStarts ==
  ASSUME NEW P, NEW col, \A h \in World : col[h] \in Nat, NEW b \in P, b \in Ranks
  PROVE  /\ \A t \in 0..S : Start(P, col, LeadOf(b) + t)
                              = Start(P, col, LeadOf(b)) + SumTo([x \in Locals |-> col[Global(b, x)]], t)
         /\ Segment(P, col)[b].at = Start(P, col, LeadOf(b))
         /\ Segment(P, col)[b].n = SumTo([x \in Locals |-> col[Global(b, x)]], S)
<1> DEFINE w == [h \in World |-> IF RankOf(h) \in P THEN col[h] ELSE 0]
           v == [x \in Locals |-> col[Global(b, x)]]
           a == LeadOf(b)
<1>1. /\ a \in Nat /\ S \in Nat /\ a + S <= R * S /\ R * S \in Nat
      /\ \A u \in Locals : Global(b, u) \in World /\ RankOf(Global(b, u)) = b
  BY PartFacts, Sizes
<1>2. \A h \in World : w[h] \in Nat
  OBVIOUS
<1>3. \A i \in 0..(S - 1) : v[i] = w[a + i]
  <2> SUFFICES ASSUME NEW i \in 0..(S - 1) PROVE v[i] = w[a + i]
    OBVIOUS
  <2>1. i \in Locals /\ Global(b, i) = a + i
    BY DEF Locals, Global
  <2>2. w[Global(b, i)] = col[Global(b, i)]
    BY <1>1, <2>1
  <2>3. QED
    BY <2>1, <2>2
<1>4. \A h : Start(P, col, h) = SumTo(w, h)
  BY DEF Start
<1>5. \A i \in 0..(a + S - 1) : w[i] \in Nat
  <2>1. \A i \in 0..(a + S - 1) : i \in World
    BY <1>1 DEF World
  <2>2. QED
    BY <1>2, <2>1
<1>6. /\ Segment(P, col)[b].at = Start(P, col, a)
      /\ Segment(P, col)[b].n = SumTo(v, S)
  BY DEF Segment
<1> HIDE DEF w, v, a
<1>7. \A i \in 0..S : SumTo(w, a + i) = SumTo(w, a) + SumTo(v, i)
  BY <1>1, <1>3, <1>5, SumShift
<1>8. QED
  BY <1>4, <1>6, <1>7 DEF v, a

\* A block of the staging buffer is where its message has it.
LEMMA CellSplit ==
  ASSUME NEW P, NEW W, IsGrid(W), NEW b \in P, b \in Ranks
  PROVE  /\ Segment(P, Col(W))[b].n = InnerSize(RowsOf(W, b))
         /\ \A t \in Locals, u \in Locals :
              CellAt(P, W, Global(b, t), u) = Segment(P, Col(W))[b].at + InnerAt(RowsOf(W, b), t, u)
<1> DEFINE V == RowsOf(W, b)
           v == [x \in Locals |-> Col(W)[Global(b, x)]]
<1>1. \A h \in World : Col(W)[h] \in Nat
  BY GridSums
<1>2. \A x \in Locals : Global(b, x) \in World /\ v[x] = SumTo(W[Global(b, x)], S) /\ V[x] = W[Global(b, x)]
  BY PartFacts, GridSums DEF RowsOf
<1>3. v = RowSums(V)
  <2> HIDE DEF V
  <2>1. v = [x \in Locals |-> SumTo(V[x], S)]
    BY <1>2
  <2>2. QED
    BY <2>1 DEF RowSums
<1>4. /\ \A t \in 0..S : Start(P, Col(W), LeadOf(b) + t) = Start(P, Col(W), LeadOf(b)) + SumTo(v, t)
      /\ Segment(P, Col(W))[b].at = Start(P, Col(W), LeadOf(b))
      /\ Segment(P, Col(W))[b].n = SumTo(v, S)
  BY <1>1, SegmentStarts
<1> HIDE DEF V, v
<1>5. ASSUME NEW t \in Locals, NEW u \in Locals
      PROVE  CellAt(P, W, Global(b, t), u) = Segment(P, Col(W))[b].at + InnerAt(V, t, u)
  <2>1. Global(b, t) = LeadOf(b) + t /\ t \in 0..S
    BY Sizes DEF Global, Locals
  <2>2. Start(P, Col(W), Global(b, t)) = Segment(P, Col(W))[b].at + SumTo(RowSums(V), t)
    BY <1>3, <1>4, <2>1
  <2>3. /\ SumTo(RowSums(V), t) \in Nat /\ SumTo(V[t], u) \in Nat /\ Segment(P, Col(W))[b].at \in Nat
    <3>1. \A x \in 0..(S - 1) : RowSums(V)[x] \in Nat
      BY <1>1, <1>2, <1>3, Sizes DEF v, Locals
    <3>2. SumTo(RowSums(V), t) \in Nat
      BY <2>1, <3>1, Sizes, SumGrows
    <3>3. u \in 0..S
      BY Sizes DEF Locals
    <3>4. SumTo(V[t], u) \in Nat
      BY <1>2, <3>3, GridSums
    <3>5. LeadOf(b) \in 0..(R * S)
      BY PartFacts, Sizes
    <3>6. QED
      BY <1>1, <1>4, <3>2, <3>4, <3>5, StartFacts
  <2>4. CellAt(P, W, Global(b, t), u) = Start(P, Col(W), Global(b, t)) + SumTo(V[t], u)
    BY <1>2 DEF CellAt
  <2>5. QED
    BY <2>2, <2>3, <2>4 DEF InnerAt
<1>6. QED
  BY <1>3, <1>4, <1>5 DEF V, InnerSize

\* The sums of a square.
LEMMA SquareSums ==
  ASSUME NEW V, IsSquare(V)
  PROVE  /\ InnerSize(V) \in Nat
         /\ \A t \in Locals, u \in Locals : V[t][u] \in Nat /\ InnerAt(V, t, u) \in Nat
                                            /\ InnerAt(V, t, u) + V[t][u] <= InnerSize(V)
         /\ InnerSize(V) = 0 => \A t \in Locals, u \in Locals : V[t][u] = 0
         /\ (\A t \in Locals, u \in Locals : V[t][u] = 0) => InnerSize(V) = 0
<1>1. S \in Nat /\ Locals = 0..(S - 1) /\ S \in 0..S
  BY Sizes DEF Locals
<1>2. ASSUME NEW t \in Locals
      PROVE  /\ RowSums(V)[t] = SumTo(V[t], S) /\ SumTo(V[t], S) \in Nat
             /\ \A u \in Locals : SumTo(V[t], u) \in Nat /\ SumTo(V[t], u) + V[t][u] <= SumTo(V[t], S)
  <2>1. \A u \in 0..(S - 1) : V[t][u] \in Nat
    BY <1>1 DEF IsSquare
  <2>2. /\ \A u \in 0..S : SumTo(V[t], u) \in Nat
        /\ \A u \in 0..(S - 1) : SumTo(V[t], u) + V[t][u] <= SumTo(V[t], S)
    BY <1>1, <2>1, SumFacts
  <2>3. RowSums(V)[t] = SumTo(V[t], S)
    BY DEF RowSums
  <2>4. QED
    BY <1>1, <2>2, <2>3
<1>3. \A t \in 0..(S - 1) : RowSums(V)[t] \in Nat
  BY <1>1, <1>2
<1>4. /\ \A t \in 0..S : SumTo(RowSums(V), t) \in Nat
      /\ \A t \in 0..(S - 1) : SumTo(RowSums(V), t) + RowSums(V)[t] <= SumTo(RowSums(V), S)
  BY <1>1, <1>3, SumFacts
<1>5. ASSUME NEW t \in Locals, NEW u \in Locals
      PROVE  V[t][u] \in Nat /\ InnerAt(V, t, u) \in Nat /\ InnerAt(V, t, u) + V[t][u] <= InnerSize(V)
  <2>1. V[t][u] \in Nat
    BY DEF IsSquare
  <2>2. PICK x \in Nat, y \in Nat, z \in Nat, e \in Nat :
          /\ x = SumTo(RowSums(V), t) /\ y = SumTo(V[t], u) /\ z = SumTo(V[t], S) /\ e = SumTo(RowSums(V), S)
          /\ x + z <= e /\ y + V[t][u] <= z
    <3>1. /\ SumTo(RowSums(V), t) \in Nat /\ SumTo(RowSums(V), S) \in Nat
          /\ SumTo(RowSums(V), t) + RowSums(V)[t] <= SumTo(RowSums(V), S)
      BY <1>1, <1>4
    <3>2. /\ RowSums(V)[t] = SumTo(V[t], S) /\ SumTo(V[t], S) \in Nat
          /\ SumTo(V[t], u) \in Nat /\ SumTo(V[t], u) + V[t][u] <= SumTo(V[t], S)
      BY <1>2
    <3>3. QED
      BY <3>1, <3>2
  <2>3. QED
    BY <2>1, <2>2 DEF InnerAt, InnerSize
<1>6. InnerSize(V) \in Nat
  BY <1>1, <1>4 DEF InnerSize
<1>7. ASSUME \A t \in Locals, u \in Locals : V[t][u] = 0 PROVE InnerSize(V) = 0
  <2>1. ASSUME NEW t \in 0..(S - 1) PROVE RowSums(V)[t] = 0
    <3>1. \A u \in 0..(S - 1) : V[t][u] = 0
      BY <1>1, <1>7
    <3>2. SumTo(V[t], S) = 0
      BY <1>1, <3>1, SumOfZeros
    <3>3. QED
      BY <1>1, <1>2, <3>2
  <2>2. SumTo(RowSums(V), S) = 0
    BY <1>1, <2>1, SumOfZeros
  <2>3. QED
    BY <2>2 DEF InnerSize
<1>8. QED
  BY <1>5, <1>6, <1>7

\* A block lies in the buffer, and in its partition's region.
LEMMA CellFits ==
  ASSUME NEW P, NEW W, IsGrid(W), NEW h \in OfRanks(P), NEW u \in Locals
  PROVE  /\ CellAt(P, W, h, u) \in Nat /\ W[h][u] \in Nat /\ Start(P, Col(W), R * S) \in Nat
         /\ Start(P, Col(W), h) \in Nat /\ Start(P, Col(W), h) <= CellAt(P, W, h, u)
         /\ CellAt(P, W, h, u) + W[h][u] <= Start(P, Col(W), h) + Col(W)[h]
         /\ CellAt(P, W, h, u) + W[h][u] <= Start(P, Col(W), R * S)
<1>1. h \in World /\ h \in 0..(R * S) /\ R * S \in 0..(R * S)
  BY Sizes DEF OfRanks, World
<1>2. \A g \in World : Col(W)[g] \in Nat
  BY GridSums
<1>3. u \in 0..S
  BY Sizes DEF Locals
<1>4. PICK x \in Nat, y \in Nat, z \in Nat, e \in Nat :
        /\ x = Start(P, Col(W), h) /\ y = SumTo(W[h], u) /\ z = Col(W)[h] /\ e = Start(P, Col(W), R * S)
        /\ x + z <= e /\ y + W[h][u] <= z /\ W[h][u] \in Nat
  <2>1. Start(P, Col(W), h) \in Nat /\ Start(P, Col(W), R * S) \in Nat
        /\ Start(P, Col(W), h) + Col(W)[h] <= Start(P, Col(W), R * S)
    BY <1>1, <1>2, StartFacts
  <2>2. /\ SumTo(W[h], u) \in Nat /\ Col(W)[h] = SumTo(W[h], S) /\ Col(W)[h] \in Nat
        /\ SumTo(W[h], u) + W[h][u] <= SumTo(W[h], S) /\ W[h][u] \in Nat
    BY <1>1, <1>3, GridSums
  <2>3. QED
    BY <2>1, <2>2
<1>5. CellAt(P, W, h, u) = x + y
  BY <1>4 DEF CellAt
<1>6. QED
  BY <1>4, <1>5

\* Different blocks do not overlap.
LEMMA CellsApart ==
  ASSUME NEW P, NEW W, IsGrid(W), NEW h \in OfRanks(P), NEW u \in Locals, NEW g \in OfRanks(P), NEW v \in Locals,
         NEW i \in 1..W[h][u], NEW j \in 1..W[g][v], CellAt(P, W, h, u) + i = CellAt(P, W, g, v) + j
  PROVE  h = g /\ u = v
<1>1. h \in World /\ g \in World /\ h \in Nat /\ g \in Nat /\ u \in Nat /\ v \in Nat
  BY RankFacts DEF OfRanks, Locals
<1>2. PICK a \in Nat, b \in Nat, x \in Nat, y \in Nat, m \in Nat, n \in Nat, c \in Nat, d \in Nat :
        /\ a = CellAt(P, W, h, u) /\ b = CellAt(P, W, g, v) /\ x = Start(P, Col(W), h) /\ y = Start(P, Col(W), g)
        /\ m = W[h][u] /\ n = W[g][v] /\ c = Col(W)[h] /\ d = Col(W)[g]
        /\ x <= a /\ a + m <= x + c /\ y <= b /\ b + n <= y + d
  <2>1. Col(W)[h] \in Nat /\ Col(W)[g] \in Nat
    BY <1>1, GridSums
  <2>2. QED
    BY <2>1, CellFits
<1>3. (h < g => x + c <= y) /\ (g < h => y + d <= x)
  <2>1. \A z \in World : Col(W)[z] \in Nat
    BY GridSums
  <2>2. QED
    BY <1>2, <2>1, StartFacts
<1>4. i \in Nat /\ j \in Nat /\ 1 <= i /\ i <= m /\ 1 <= j /\ j <= n /\ a + i = b + j
  BY <1>2
<1>5. h = g
  BY <1>1, <1>2, <1>3, <1>4
<1>6. /\ a = x + SumTo(W[h], u) /\ b = x + SumTo(W[h], v)
      /\ SumTo(W[h], u) \in Nat /\ SumTo(W[h], v) \in Nat
      /\ u < v => SumTo(W[h], u) + m <= SumTo(W[h], v)
      /\ v < u => SumTo(W[h], v) + n <= SumTo(W[h], u)
  <2>1. u \in 0..S /\ v \in 0..S
    BY Sizes DEF Locals
  <2>2. /\ \A e \in 0..S : SumTo(W[h], e) \in Nat
        /\ \A e, f \in Locals : e < f => SumTo(W[h], e) + W[h][e] <= SumTo(W[h], f)
    BY <1>1, GridSums
  <2>3. QED
    BY <1>2, <1>5, <2>1, <2>2 DEF CellAt
<1>7. u = v
  BY <1>1, <1>2, <1>4, <1>6
<1>8. QED
  BY <1>5, <1>7

\* Neither do the segments of different ranks.
LEMMA SegmentsApart ==
  ASSUME NEW P \in SUBSET Ranks, NEW W, IsGrid(W)
  PROVE  /\ \A a \in P : /\ Segment(P, Col(W))[a].at \in Nat /\ Segment(P, Col(W))[a].n \in Nat
                         /\ Segment(P, Col(W))[a].at + Segment(P, Col(W))[a].n <= Start(P, Col(W), R * S)
         /\ \A a, b \in P : a < b => Segment(P, Col(W))[a].at + Segment(P, Col(W))[a].n <= Segment(P, Col(W))[b].at
         /\ \A a \in Ranks \ P : Segment(P, Col(W))[a].n = 0
<1> DEFINE w == [h \in World |-> IF RankOf(h) \in P THEN Col(W)[h] ELSE 0]
<1>1. \A h \in World : Col(W)[h] \in Nat
  BY GridSums
<1>2. \A a \in P : /\ LeadOf(a) \in Nat /\ LeadOf(a) + S <= R * S
                   /\ LeadOf(a) \in 0..(R * S) /\ LeadOf(a) + S \in 0..(R * S) /\ a \in Nat
  BY PartFacts, Sizes
<1>3. \A h : Start(P, Col(W), h) = SumTo(w, h)
  BY DEF Start
<1>4. \A i \in 0..(R * S - 1) : w[i] \in Nat
  BY <1>1, Sizes DEF World
<1> HIDE DEF w
<1>5. /\ \A i \in 0..(R * S) : Start(P, Col(W), i) \in Nat
      /\ \A i, j \in 0..(R * S) : i <= j => Start(P, Col(W), i) <= Start(P, Col(W), j)
  BY <1>3, <1>4, Sizes, SumGrows
<1>6. ASSUME NEW a \in P
      PROVE  /\ Segment(P, Col(W))[a].at = Start(P, Col(W), LeadOf(a))
             /\ Segment(P, Col(W))[a].n \in Nat
             /\ Segment(P, Col(W))[a].at + Segment(P, Col(W))[a].n = Start(P, Col(W), LeadOf(a) + S)
  <2>1. /\ Segment(P, Col(W))[a].at = Start(P, Col(W), LeadOf(a))
        /\ Start(P, Col(W), LeadOf(a) + S) = Start(P, Col(W), LeadOf(a)) + Segment(P, Col(W))[a].n
    <3> DEFINE v == [x \in Locals |-> Col(W)[Global(a, x)]]
    <3>1. S \in 0..S /\ a \in Ranks
      BY Sizes
    <3>2. /\ \A t \in 0..S : Start(P, Col(W), LeadOf(a) + t) = Start(P, Col(W), LeadOf(a)) + SumTo(v, t)
          /\ Segment(P, Col(W))[a].at = Start(P, Col(W), LeadOf(a))
          /\ Segment(P, Col(W))[a].n = SumTo(v, S)
      BY <1>1, <3>1, SegmentStarts
    <3> HIDE DEF v
    <3>3. QED
      BY <3>1, <3>2
  <2>2. Segment(P, Col(W))[a].n \in Nat
    <3>1. IsSquare(RowsOf(W, a))
      BY PartFacts DEF IsGrid, IsSquare, RowsOf
    <3>2. InnerSize(RowsOf(W, a)) \in Nat
      BY <3>1, SquareSums
    <3>3. QED
      BY <3>2, CellSplit
  <2>3. QED
    BY <2>1, <2>2
<1>7. ASSUME NEW a \in P, NEW b \in P, a < b
      PROVE  LeadOf(a) + S <= LeadOf(b)
  <2>1. a \in Nat /\ b \in Nat
    BY <1>2
  <2>2. QED
    BY <1>7, <2>1, Sizes, Multiples DEF LeadOf
<1>8. R * S \in 0..(R * S)
  BY Sizes
<1>9. \A a \in Ranks \ P : Segment(P, Col(W))[a].n = 0
  BY DEF Segment
<1>10. ASSUME NEW a \in P
       PROVE  /\ Segment(P, Col(W))[a].at \in Nat
              /\ Segment(P, Col(W))[a].at + Segment(P, Col(W))[a].n <= Start(P, Col(W), R * S)
  <2>1. Start(P, Col(W), LeadOf(a) + S) <= Start(P, Col(W), R * S) /\ Start(P, Col(W), LeadOf(a)) \in Nat
    BY <1>2, <1>5, <1>8
  <2>2. QED
    BY <1>6, <2>1
<1>11. ASSUME NEW a \in P, NEW b \in P, a < b
       PROVE  Segment(P, Col(W))[a].at + Segment(P, Col(W))[a].n <= Segment(P, Col(W))[b].at
  <2>1. LeadOf(a) + S <= LeadOf(b)
    BY <1>7, <1>11
  <2>2. Start(P, Col(W), LeadOf(a) + S) <= Start(P, Col(W), LeadOf(b))
    BY <1>2, <1>5, <2>1
  <2>3. QED
    BY <1>6, <2>2
<1>12. QED
  BY <1>6, <1>9, <1>10, <1>11

------------------------------------------------------------------------------
(***************************************************************************)
(* Staging buffers as sequences                                            *)
(***************************************************************************)

IsSequence(s) == \E n \in Nat : s = [i \in 1..n |-> s[i]]

\* A function on an interval of numbers from 1 is a sequence.
LEMMA SequenceFacts ==
  ASSUME NEW s, IsSequence(s)
  PROVE  /\ Len(s) \in Nat /\ s = [i \in 1..Len(s) |-> s[i]]
         /\ \E X : s \in Seq(X)
<1>1. PICK n \in Nat : s = [i \in 1..n |-> s[i]]
  BY DEF IsSequence
<1> DEFINE X == {s[i] : i \in 1..n}
<1>2. s \in [1..n -> X]
  BY <1>1
<1>3. s \in Seq(X) /\ Len(s) = n
  BY <1>2
<1>4. QED
  BY <1>1, <1>3

\* And the other way round.
LEMMA IsASequence ==
  ASSUME NEW X, NEW s \in Seq(X)
  PROVE  IsSequence(s)
<1>1. Len(s) \in Nat /\ s \in [1..Len(s) -> X]
  BY LenProperties
<1>2. s = [i \in 1..Len(s) |-> s[i]]
  BY <1>1
<1>3. QED
  BY <1>1, <1>2 DEF IsSequence

\* A function given by its values has their number as its length.
LEMMA SequenceOf ==
  ASSUME NEW n \in Nat, NEW s, s = [i \in 1..n |-> s[i]]
  PROVE  IsSequence(s) /\ Len(s) = n
<1> DEFINE X == {s[i] : i \in 1..n}
<1>1. s \in [1..n -> X]
  OBVIOUS
<1>2. s \in Seq(X) /\ Len(s) = n
  BY <1>1
<1>3. QED
  BY DEF IsSequence

\* A grown buffer is long enough.
LEMMA GrowFacts ==
  ASSUME NEW s, IsSequence(s), NEW n \in Nat
  PROVE  IsSequence(Grow(s, n)) /\ Len(Grow(s, n)) \in Nat /\ n <= Len(Grow(s, n))
<1>1. PICK X : s \in Seq(X)
  BY SequenceFacts
<1>2. PICK len \in Nat : len = Len(s)
  BY SequenceFacts
<1> DEFINE m == IF n > len THEN n - len ELSE 0
           pad == [i \in 1..m |-> <<>>]
           Y == X \cup {<<>>}
<1>3. m \in Nat /\ len + m \in Nat /\ n <= len + m
  BY <1>2
<1>4. pad \in Seq(Y) /\ Len(pad) = m
  <2> HIDE DEF m
  <2>1. pad \in [1..m -> Y]
    OBVIOUS
  <2>2. QED
    BY <1>3, <2>1
<1>5. s \in Seq(Y)
  BY <1>1
<1>6. Grow(s, n) = s \o pad
  BY <1>2 DEF Grow
<1> HIDE DEF m, pad, Y
<1>7. s \o pad \in Seq(Y) /\ Len(s \o pad) = len + m
  <2>1. s \o pad \in Seq(Y) /\ Len(s \o pad) = Len(s) + Len(pad)
    BY <1>4, <1>5, ConcatProperties
  <2>2. QED
    BY <1>2, <1>4, <2>1
<1>8. QED
  BY <1>3, <1>6, <1>7, IsASequence

\* Writing blocks into a buffer.
LEMMA OverlayFacts ==
  ASSUME NEW s, IsSequence(s), NEW D, NEW at, NEW block
  PROVE  /\ IsSequence(Overlay(s, D, at, block)) /\ Len(Overlay(s, D, at, block)) = Len(s)
         /\ \A i \in 1..Len(s) : \A d \in D :
              /\ i - at[d] \in 1..Len(block[d])
              /\ \A e \in D : i - at[e] \in 1..Len(block[e]) => e = d
              => Overlay(s, D, at, block)[i] = block[d][i - at[d]]
         /\ \A i \in 1..Len(s) : (\A e \in D : i - at[e] \notin 1..Len(block[e]))
              => Overlay(s, D, at, block)[i] = s[i]
<1> DEFINE o == Overlay(s, D, at, block)
           Hit(i, d) == i - at[d] \in 1..Len(block[d])
<1>1. o = [i \in 1..Len(s) |-> IF \E d \in D : Hit(i, d)
                              THEN LET d == CHOOSE d \in D : Hit(i, d) IN block[d][i - at[d]] ELSE s[i]]
  BY DEF Overlay
<1>2. Len(s) \in Nat
  BY SequenceFacts
<1>3. IsSequence(o) /\ Len(o) = Len(s)
  BY <1>1, <1>2, SequenceOf
<1>4. ASSUME NEW i \in 1..Len(s), NEW d \in D, Hit(i, d), \A e \in D : Hit(i, e) => e = d
      PROVE  o[i] = block[d][i - at[d]]
  <2> DEFINE c == CHOOSE x \in D : Hit(i, x)
  <2>1. c \in D /\ Hit(i, c)
    BY <1>4
  <2>2. c = d
    BY <1>4, <2>1
  <2>3. o[i] = block[c][i - at[c]]
    BY <1>1, <1>4
  <2>4. QED
    BY <2>2, <2>3
<1>5. ASSUME NEW i \in 1..Len(s), \A e \in D : ~Hit(i, e) PROVE o[i] = s[i]
  BY <1>1, <1>5
<1>6. QED
  BY <1>3, <1>4, <1>5

\* A part of a buffer.
LEMMA PartAt ==
  ASSUME NEW s, IsSequence(s), NEW a \in Nat, NEW n \in Nat, a + n <= Len(s)
  PROVE  /\ IsSequence(SubSeq(s, a + 1, a + n)) /\ Len(SubSeq(s, a + 1, a + n)) = n
         /\ \A j \in 1..n : SubSeq(s, a + 1, a + n)[j] = s[a + j]
<1>1. PICK X : s \in Seq(X)
  BY SequenceFacts
<1>2. QED
  BY <1>1, PartOf, IsASequence

\* A part of a buffer that holds what a sequence does.
LEMMA PartIs ==
  ASSUME NEW s, IsSequence(s), NEW a \in Nat, NEW n \in Nat, a + n <= Len(s),
         NEW b, b = [j \in 1..n |-> b[j]], \A j \in 1..n : s[a + j] = b[j]
  PROVE  SubSeq(s, a + 1, a + n) = b
<1> DEFINE c == SubSeq(s, a + 1, a + n)
<1>1. IsSequence(c) /\ Len(c) = n /\ \A j \in 1..n : c[j] = s[a + j]
  BY PartAt
<1> HIDE DEF c
<1>2. c = [j \in 1..n |-> c[j]]
  BY <1>1, SequenceFacts
<1>3. QED
  BY <1>1, <1>2 DEF c

\* All of a sequence.
LEMMA WholePart ==
  ASSUME NEW n \in Nat, NEW b, b = [j \in 1..n |-> b[j]]
  PROVE  SubSeq(b, 1, n) = b
<1>1. IsSequence(b) /\ Len(b) = n
  BY SequenceOf
<1>2. PICK a \in Nat : a = 0 /\ a + 1 = 1 /\ a + n = n
  OBVIOUS
<1>3. \A j \in 1..n : a + j = j
  BY <1>2
<1>4. SubSeq(b, a + 1, a + n) = b
  BY <1>1, <1>2, <1>3, PartIs
<1>5. QED
  BY <1>2, <1>4

------------------------------------------------------------------------------
(***************************************************************************)
(* What a verb moves between two ranks                                     *)
(***************************************************************************)

M(k, g, d) == script[k].m[g][d]

\* What rank a sends to rank b, by destination and by source partition: the count
\* block of the message, and the lengths of the blocks of its payload.
Traffic(k, a, b) == [t \in Locals |-> [u \in Locals |-> M(k, Global(a, u), Global(b, t))]]
SendGrid(k, r) == [g \in World |-> [u \in Locals |-> M(k, Global(r, u), g)]]
RecvGrid(k, r) == [h \in World |-> [u \in Locals |-> M(k, Global(RankOf(h), u), Global(r, h % S))]]
PaySize(k, a, b) == InnerSize(Traffic(k, a, b))

\* A verb and its counts.
LEMMA VerbOf ==
  ASSUME script \in Scripts, NEW k \in 1..Len(script)
  PROVE  /\ script[k] \in Verbs /\ script[k].kind \in Kinds /\ script[k].plan \in Plans
         /\ script[k].derive \in BOOLEAN /\ script[k].plan.sparse \in BOOLEAN
         /\ script[k].derive => script[k].kind = "alltoallv"
         /\ \A g, d \in World : M(k, g, d) \in Nat
<1>1. script[k] \in Verbs
  BY ScriptFacts
<1>2. QED
  BY <1>1 DEF Verbs, Plans, M

\* The layouts on both sides agree about the message.
LEMMA GridsAgree ==
  ASSUME script \in Scripts, NEW k \in 1..Len(script), NEW a \in Ranks, NEW b \in Ranks
  PROVE  /\ IsSquare(Traffic(k, a, b)) /\ IsGrid(SendGrid(k, a)) /\ IsGrid(RecvGrid(k, b))
         /\ RowsOf(SendGrid(k, a), b) = Traffic(k, a, b)
         /\ RowsOf(RecvGrid(k, b), a) = Traffic(k, a, b)
         /\ \A t, u \in Locals : Traffic(k, a, b)[t][u] = M(k, Global(a, u), Global(b, t))
<1>1. \A u \in Locals : /\ Global(a, u) \in World /\ RankOf(Global(a, u)) = a /\ Global(a, u) % S = u
                        /\ Global(b, u) \in World /\ RankOf(Global(b, u)) = b /\ Global(b, u) % S = u
  BY PartFacts
<1>2. \A g, d \in World : M(k, g, d) \in Nat
  BY VerbOf
<1>3. \A t, u \in Locals : Traffic(k, a, b)[t][u] = M(k, Global(a, u), Global(b, t))
  BY DEF Traffic
<1>4. IsSquare(Traffic(k, a, b))
  BY <1>1, <1>2, <1>3 DEF IsSquare
<1>5. IsGrid(SendGrid(k, a))
  BY <1>1, <1>2 DEF IsGrid, SendGrid
<1>6. IsGrid(RecvGrid(k, b))
  <2> SUFFICES ASSUME NEW h \in World, NEW u \in Locals PROVE RecvGrid(k, b)[h][u] \in Nat
    BY DEF IsGrid
  <2>1. RankOf(h) \in Ranks /\ h % S \in Locals
    BY RankFacts
  <2>2. Global(RankOf(h), u) \in World /\ Global(b, h % S) \in World
    BY <2>1, PartFacts
  <2>3. QED
    BY <1>2, <2>2 DEF RecvGrid
<1>7. RowsOf(SendGrid(k, a), b) = Traffic(k, a, b)
  BY <1>1 DEF RowsOf, SendGrid, Traffic
<1>8. RowsOf(RecvGrid(k, b), a) = Traffic(k, a, b)
  BY <1>1 DEF RowsOf, RecvGrid, Traffic
<1>9. QED
  BY <1>3, <1>4, <1>5, <1>6, <1>7, <1>8

\* Does rank a send anything to rank b?
Talks(k, a, b) == \E q \in PartsOf(a), g \in PartsOf(b) : M(k, q, g) # 0

\* A message that is not empty has a block that is not.
LEMMA SizeOfTalk ==
  ASSUME script \in Scripts, NEW k \in 1..Len(script), NEW a \in Ranks, NEW b \in Ranks
  PROVE  /\ PaySize(k, a, b) \in Nat
         /\ PaySize(k, a, b) # 0 => Talks(k, a, b)
         /\ PaySize(k, a, b) = 0 => \A t, u \in Locals : Traffic(k, a, b)[t][u] = 0
<1>1. IsSquare(Traffic(k, a, b)) /\ \A t, u \in Locals : Traffic(k, a, b)[t][u] = M(k, Global(a, u), Global(b, t))
  BY GridsAgree
<1>2. /\ InnerSize(Traffic(k, a, b)) \in Nat
      /\ InnerSize(Traffic(k, a, b)) = 0 => \A t \in Locals, u \in Locals : Traffic(k, a, b)[t][u] = 0
      /\ (\A t \in Locals, u \in Locals : Traffic(k, a, b)[t][u] = 0) => InnerSize(Traffic(k, a, b)) = 0
  BY <1>1, SquareSums
<1>3. ASSUME ~ Talks(k, a, b) PROVE \A t, u \in Locals : Traffic(k, a, b)[t][u] = 0
  BY <1>1, <1>3, PartFacts DEF Talks
<1>4. QED
  BY <1>2, <1>3 DEF PaySize

\* The plan of each rank: the one the ranks agreed on, or the one it derives.
ReachedIn(k, r) == {a \in Ranks : Talks(k, r, a)}
HeardIn(k, r) == {a \in Ranks : Talks(k, a, r)}
DerivedIn(k, r) ==
  LET sides == {ReachedIn(k, r), HeardIn(k, r)} \ {{}}
  IN  IF sides = {} THEN [sparse |-> TRUE, shift |-> 0]
      ELSE IF \E a \in Ranks : sides = {{a}}
           THEN [sparse |-> TRUE, shift |-> Xor(r, CHOOSE a \in Ranks : sides = {{a}})]
           ELSE Dense
PlanIn(k, r) == IF script[k].derive THEN DerivedIn(k, r) ELSE script[k].plan
PeersIn(k, r) == PeerRanks(PlanIn(k, r), r)

\* The peers of a derived plan are those the rank exchanges anything with.
LEMMA DerivedCovers ==
  ASSUME NEW k, NEW r \in Ranks
  PROVE  /\ PeerRanks(DerivedIn(k, r), r) \subseteq Ranks
         /\ \A a \in Ranks : Talks(k, r, a) \/ Talks(k, a, r) => a \in PeerRanks(DerivedIn(k, r), r)
<1> DEFINE sides == {ReachedIn(k, r), HeardIn(k, r)} \ {{}}
           One == \E x \in Ranks : sides = {{x}}
           a == CHOOSE x \in Ranks : sides = {{x}}
<1>1. DerivedIn(k, r) = IF sides = {} THEN [sparse |-> TRUE, shift |-> 0]
                        ELSE IF One THEN [sparse |-> TRUE, shift |-> Xor(r, a)] ELSE Dense
  BY DEF DerivedIn
<1>2. One => a \in Ranks /\ sides = {{a}}
  OBVIOUS
<1>3. \A x \in Ranks : Talks(k, r, x) \/ Talks(k, x, r) => \E side \in sides : x \in side
  BY DEF ReachedIn, HeardIn
<1> HIDE DEF sides, a, One
<1>4. One => Xor(r, Xor(r, a)) = a
  BY <1>2, XorRanks
<1>5. Xor(r, 0) = r
  BY XorRanks
<1>6. CASE sides = {}
  BY <1>1, <1>3, <1>5, <1>6 DEF PeerRanks
<1>7. CASE sides # {} /\ One
  <2>1. PeerRanks(DerivedIn(k, r), r) = {a}
    BY <1>1, <1>4, <1>7 DEF PeerRanks
  <2>2. \A side \in sides : side = {a}
    BY <1>2, <1>7
  <2>3. QED
    BY <1>2, <1>3, <1>7, <2>1, <2>2
<1>8. CASE sides # {} /\ ~One
  BY <1>1, <1>8 DEF PeerRanks, Dense
<1>9. QED
  BY <1>6, <1>7, <1>8

\* Peers are mutual where anything is exchanged; what a plan leaves out is refused.
LEMMA PeersMutual ==
  ASSUME script \in Scripts, NEW k \in 1..Len(script), NEW a \in Ranks, NEW b \in Ranks
  PROVE  /\ PeersIn(k, a) \in SUBSET Ranks
         /\ script[k].derive /\ Talks(k, a, b) => b \in PeersIn(k, a) /\ a \in PeersIn(k, b)
         /\ ~script[k].derive => (b \in PeersIn(k, a) <=> a \in PeersIn(k, b))
         /\ ~script[k].derive /\ ~script[k].plan.sparse => PeersIn(k, a) = Ranks
         /\ PaySize(k, a, b) # 0 => (b \in PeersIn(k, a) <=> a \in PeersIn(k, b))
         /\ script[k].kind \in {"counts", "alltoallv", "resolve"} /\ Talks(k, a, b) /\ b \notin PeersIn(k, a)
              => LeavesOut(k, a)
<1>1. script[k].plan \in Plans /\ script[k].derive \in BOOLEAN /\ script[k].plan.sparse \in BOOLEAN
  BY VerbOf
<1>2. PeersIn(k, a) \in SUBSET Ranks
  BY <1>1, PeersAreRanks, DerivedCovers DEF PeersIn, PlanIn
<1>3. ASSUME script[k].derive, Talks(k, a, b) PROVE b \in PeersIn(k, a) /\ a \in PeersIn(k, b)
  BY <1>3, DerivedCovers DEF PeersIn, PlanIn
<1>4. ASSUME ~script[k].derive PROVE b \in PeersIn(k, a) <=> a \in PeersIn(k, b)
  <2>1. PlanIn(k, a) = script[k].plan /\ PlanIn(k, b) = script[k].plan
    BY <1>4 DEF PlanIn
  <2>2. CASE script[k].plan.sparse
    <3>1. script[k].plan.shift \in Ranks
      BY <1>1, <2>2, Sizes, SMTT(30) DEF Plans, Ranks
    <3>2. /\ Xor(Xor(a, script[k].plan.shift), script[k].plan.shift) = a
          /\ Xor(Xor(b, script[k].plan.shift), script[k].plan.shift) = b
      BY <3>1, XorRanks
    <3>3. QED
      BY <2>1, <2>2, <3>2 DEF PeersIn, PeerRanks
  <2>3. CASE ~script[k].plan.sparse
    BY <2>1, <2>3 DEF PeersIn, PeerRanks
  <2>4. QED
    BY <2>2, <2>3
<1>5. ~script[k].derive /\ ~script[k].plan.sparse => PeersIn(k, a) = Ranks
  BY DEF PeersIn, PlanIn, PeerRanks
<1>6. PaySize(k, a, b) # 0 => (b \in PeersIn(k, a) <=> a \in PeersIn(k, b))
  BY <1>1, <1>3, <1>4, SizeOfTalk
<1>7. ASSUME script[k].kind \in {"counts", "alltoallv", "resolve"}, Talks(k, a, b), b \notin PeersIn(k, a)
      PROVE  LeavesOut(k, a)
  <2>1. ~script[k].derive
    BY <1>3, <1>7
  <2>2. script[k].plan.sparse
    BY <1>5, <1>7, <2>1
  <2>3. PICK q \in PartsOf(a), g \in PartsOf(b) : M(k, q, g) # 0
    BY <1>7 DEF Talks
  <2>4. g \in World /\ RankOf(g) = b
    BY PartFacts
  <2>5. RankOf(g) \notin PeerRanks(script[k].plan, a)
    BY <1>7, <2>1, <2>4 DEF PeersIn, PlanIn
  <2>6. QED
    BY <1>7, <2>1, <2>2, <2>3, <2>4, <2>5 DEF LeavesOut, M
<1>8. QED
  BY <1>2, <1>3, <1>4, <1>5, <1>6, <1>7

------------------------------------------------------------------------------
(***************************************************************************)
(* The messages between two ranks, and the collectives of a rank           *)
(***************************************************************************)

\* Is there a message of this tag from a to b in verb k?  Its length, and its contents.
Sends(tag, k, a, b) ==
  /\ a # b /\ b \in PeersIn(k, a)
  /\ IF tag = "count" THEN script[k].kind \in {"counts", "resolve"} /\ script[k].plan.sparse
     ELSE /\ script[k].kind \in {"alltoallv", "resolve"}
          /\ script[k].derive \/ script[k].plan.sparse
          /\ PaySize(k, a, b) # 0
SizeOf(tag, k, a, b) == IF tag = "count" THEN S * S ELSE PaySize(k, a, b)
IsPay(k, a, b, msg) ==
  /\ IsSequence(msg) /\ Len(msg) = PaySize(k, a, b)
  /\ \A t \in Locals, u \in Locals : \A j \in 1..Traffic(k, a, b)[t][u] :
       msg[InnerAt(Traffic(k, a, b), t, u) + j] = <<k, Global(a, u), Global(b, t), j>>
IsMessage(tag, k, a, b, msg) == IF tag = "count" THEN msg = Traffic(k, a, b) ELSE IsPay(k, a, b, msg)

\* The messages of the first n verbs.
MsgWeight(tag, a, b) == [i \in 0..(Len(script) - 1) |-> IF Sends(tag, i + 1, a, b) THEN 1 ELSE 0]
MsgCount(tag, a, b, n) == SumTo(MsgWeight(tag, a, b), n)

\* How the number of messages grows.
LEMMA MsgCounts ==
  ASSUME script \in Scripts, NEW tag, NEW a, NEW b
  PROVE  /\ MsgCount(tag, a, b, 0) = 0
         /\ \A n \in 0..Len(script) : MsgCount(tag, a, b, n) \in Nat
         /\ \A k \in 1..Len(script) :
              MsgCount(tag, a, b, k) = MsgCount(tag, a, b, k - 1) + (IF Sends(tag, k, a, b) THEN 1 ELSE 0)
         /\ \A m, n \in 0..Len(script) : m <= n => MsgCount(tag, a, b, m) <= MsgCount(tag, a, b, n)
<1> DEFINE w == MsgWeight(tag, a, b)
<1>1. PICK len \in Nat : len = Len(script)
  BY ScriptFacts
<1>2. \A i \in 0..(len - 1) : w[i] = (IF Sends(tag, i + 1, a, b) THEN 1 ELSE 0) /\ w[i] \in Nat
  BY <1>1 DEF MsgWeight
<1> HIDE DEF w
<1>3. /\ \A n \in 0..len : SumTo(w, n) \in Nat
      /\ \A m, n \in 0..len : m <= n => SumTo(w, m) <= SumTo(w, n)
  BY <1>2, SumGrows
<1>4. SumTo(w, 0) = 0
  BY SumZero
<1>5. ASSUME NEW k \in 1..len
      PROVE  SumTo(w, k) = SumTo(w, k - 1) + (IF Sends(tag, k, a, b) THEN 1 ELSE 0)
  <2>1. PICK i \in 0..(len - 1) : i = k - 1 /\ i + 1 = k /\ i \in Nat
    OBVIOUS
  <2>2. SumTo(w, i + 1) = SumTo(w, i) + w[i]
    BY <2>1, SumNext
  <2>3. QED
    BY <1>2, <2>1, <2>2
<1>6. QED
  BY <1>1, <1>3, <1>4, <1>5 DEF MsgCount, w

\* What is on the way when the sender has sent the messages of m verbs and the
\* receiver has received those of n.
Flows(ch, tag, a, b, m, n) ==
  /\ IsSequence(ch) /\ Len(ch) + MsgCount(tag, a, b, n) = MsgCount(tag, a, b, m)
  /\ \A k \in 1..Len(script) : n < k /\ k <= m /\ Sends(tag, k, a, b)
       => IsMessage(tag, k, a, b, ch[MsgCount(tag, a, b, k) - MsgCount(tag, a, b, n)])

\* At first nothing is.
LEMMA FlowStart ==
  ASSUME NEW tag, NEW a, NEW b
  PROVE  Flows(<<>>, tag, a, b, 0, 0)
<1>1. IsSequence(<<>>) /\ Len(<<>>) = 0
  <2>1. PICK n \in Nat : n = 0
    OBVIOUS
  <2>2. <<>> = [i \in 1..n |-> <<>>[i]]
    BY <2>1
  <2>3. QED
    BY <2>1, <2>2, SequenceOf
<1>2. MsgCount(tag, a, b, 0) = 0
  BY SumZero DEF MsgCount
<1>3. \A k \in 1..Len(script) : ~ (0 < k /\ k <= 0)
  OBVIOUS
<1>4. QED
  BY <1>1, <1>2, <1>3 DEF Flows

\* Appending to a sequence.
LEMMA AppendFacts ==
  ASSUME NEW s, IsSequence(s), NEW e
  PROVE  /\ IsSequence(Append(s, e)) /\ Len(Append(s, e)) = Len(s) + 1
         /\ Append(s, e)[Len(s) + 1] = e /\ \A i \in 1..Len(s) : Append(s, e)[i] = s[i]
<1>1. PICK X : s \in Seq(X)
  BY SequenceFacts
<1>2. PICK Y : Y = X \cup {e}
  OBVIOUS
<1>3. s \in Seq(Y) /\ e \in Y
  BY <1>1, <1>2
<1>4. /\ Append(s, e) \in Seq(Y) /\ Len(Append(s, e)) = Len(s) + 1
      /\ \A i \in 1..Len(s) : Append(s, e)[i] = s[i]
      /\ Append(s, e)[Len(s) + 1] = e
  BY <1>3, AppendProperties
<1>5. QED
  BY <1>4, IsASequence

\* Taking the first member off.
LEMMA TailFacts ==
  ASSUME NEW s, IsSequence(s), s # <<>>
  PROVE  /\ Len(s) \in Nat \ {0} /\ IsSequence(Tail(s)) /\ Len(Tail(s)) = Len(s) - 1
         /\ Head(s) = s[1] /\ \A i \in 1..(Len(s) - 1) : Tail(s)[i] = s[i + 1]
<1>1. PICK X : s \in Seq(X)
  BY SequenceFacts
<1>2. Len(s) \in Nat \ {0}
  BY <1>1, EmptySeq, LenProperties
<1>3. /\ Tail(s) \in Seq(X) /\ Len(Tail(s)) = Len(s) - 1
      /\ \A i \in 1..(Len(s) - 1) : Tail(s)[i] = s[i + 1]
  BY <1>1, HeadTailProperties
<1>4. Head(s) = s[1]
  BY <1>1, <1>2, HeadTailProperties
<1>5. QED
  BY <1>2, <1>3, <1>4, IsASequence

\* Sending the message of the next verb, or none.
LEMMA FlowPost ==
  ASSUME script \in Scripts, NEW tag, NEW a, NEW b, NEW ch, NEW k \in 1..Len(script), NEW n \in 0..Len(script),
         Flows(ch, tag, a, b, k - 1, n), NEW new,
         IF Sends(tag, k, a, b) THEN \E msg : new = Append(ch, msg) /\ IsMessage(tag, k, a, b, msg)
                                ELSE new = ch
  PROVE  Flows(new, tag, a, b, k, n)
<1>1. /\ \A j \in 0..Len(script) : MsgCount(tag, a, b, j) \in Nat
      /\ MsgCount(tag, a, b, k) = MsgCount(tag, a, b, k - 1) + (IF Sends(tag, k, a, b) THEN 1 ELSE 0)
      /\ \A i, j \in 0..Len(script) : i <= j => MsgCount(tag, a, b, i) <= MsgCount(tag, a, b, j)
      /\ \A j \in 1..Len(script) :
           MsgCount(tag, a, b, j) = MsgCount(tag, a, b, j - 1) + (IF Sends(tag, j, a, b) THEN 1 ELSE 0)
  BY MsgCounts
<1>2. PICK len \in Nat : len = Len(script)
  BY ScriptFacts
<1>3. k \in 1..len /\ k - 1 \in 0..len /\ k \in 0..len /\ n \in 0..len
  BY <1>2
<1>4. /\ IsSequence(ch) /\ Len(ch) \in Nat /\ Len(ch) + MsgCount(tag, a, b, n) = MsgCount(tag, a, b, k - 1)
      /\ \A j \in 1..len : n < j /\ j <= k - 1 /\ Sends(tag, j, a, b)
           => IsMessage(tag, j, a, b, ch[MsgCount(tag, a, b, j) - MsgCount(tag, a, b, n)])
  BY <1>2, SequenceFacts DEF Flows
<1>5. CASE ~ Sends(tag, k, a, b)
  <2>1. new = ch /\ MsgCount(tag, a, b, k) = MsgCount(tag, a, b, k - 1)
    BY <1>1, <1>2, <1>3, <1>5, SMTT(30)
  <2>2. \A j \in 1..len : j <= k /\ Sends(tag, j, a, b) => j <= k - 1
    BY <1>3, <1>5
  <2>3. QED
    BY <1>2, <1>4, <2>1, <2>2 DEF Flows
<1>6. CASE Sends(tag, k, a, b)
  <2>1. PICK msg : new = Append(ch, msg) /\ IsMessage(tag, k, a, b, msg)
    BY <1>6
  <2>2. /\ IsSequence(new) /\ Len(new) = Len(ch) + 1 /\ new[Len(ch) + 1] = msg
        /\ \A i \in 1..Len(ch) : new[i] = ch[i]
    BY <1>4, <2>1, AppendFacts
  <2>3. MsgCount(tag, a, b, k) = MsgCount(tag, a, b, k - 1) + 1
    BY <1>1, <1>6
  <2>4. MsgCount(tag, a, b, n) \in Nat /\ MsgCount(tag, a, b, k - 1) \in Nat
    BY <1>1, <1>2, <1>3
  <2>5. Len(new) + MsgCount(tag, a, b, n) = MsgCount(tag, a, b, k)
    BY <1>4, <2>2, <2>3, <2>4
  <2>6. MsgCount(tag, a, b, k) - MsgCount(tag, a, b, n) = Len(ch) + 1
    BY <1>4, <2>3, <2>4
  <2>7. ASSUME NEW j \in 1..len, n < j, j <= k, Sends(tag, j, a, b)
        PROVE  IsMessage(tag, j, a, b, new[MsgCount(tag, a, b, j) - MsgCount(tag, a, b, n)])
    <3>1. CASE j = k
      BY <2>1, <2>2, <2>6, <3>1
    <3>2. CASE j # k
      <4>1. j <= k - 1 /\ j - 1 \in 0..len /\ n <= j - 1 /\ j \in 0..len
        BY <1>3, <2>7, <3>2
      <4>2. /\ MsgCount(tag, a, b, j) = MsgCount(tag, a, b, j - 1) + 1
            /\ MsgCount(tag, a, b, n) <= MsgCount(tag, a, b, j - 1)
            /\ MsgCount(tag, a, b, j) <= MsgCount(tag, a, b, k - 1)
            /\ MsgCount(tag, a, b, j) \in Nat /\ MsgCount(tag, a, b, j - 1) \in Nat
        BY <1>1, <1>2, <1>3, <2>7, <4>1
      <4>3. MsgCount(tag, a, b, j) - MsgCount(tag, a, b, n) \in 1..Len(ch)
        BY <1>4, <2>4, <4>2, SMTT(30)
      <4>4. QED
        BY <1>4, <2>2, <2>7, <4>1, <4>3
    <3>3. QED
      BY <3>1, <3>2
  <2>8. QED
    BY <1>2, <2>2, <2>5, <2>7 DEF Flows
<1>7. QED
  BY <1>5, <1>6

\* Receiving the message of the next verb, which is the first one, or none.
LEMMA FlowLand ==
  ASSUME script \in Scripts, NEW tag, NEW a, NEW b, NEW ch, NEW k \in 1..Len(script), NEW m \in 0..Len(script),
         Flows(ch, tag, a, b, m, k - 1)
  PROVE  /\ Sends(tag, k, a, b) /\ ch # <<>>
              => IsMessage(tag, k, a, b, Head(ch)) /\ Flows(Tail(ch), tag, a, b, m, k)
         /\ ~Sends(tag, k, a, b) => Flows(ch, tag, a, b, m, k)
<1>1. /\ \A j \in 0..Len(script) : MsgCount(tag, a, b, j) \in Nat
      /\ MsgCount(tag, a, b, k) = MsgCount(tag, a, b, k - 1) + (IF Sends(tag, k, a, b) THEN 1 ELSE 0)
      /\ \A i, j \in 0..Len(script) : i <= j => MsgCount(tag, a, b, i) <= MsgCount(tag, a, b, j)
      /\ \A j \in 1..Len(script) :
           MsgCount(tag, a, b, j) = MsgCount(tag, a, b, j - 1) + (IF Sends(tag, j, a, b) THEN 1 ELSE 0)
  BY MsgCounts
<1>2. PICK len \in Nat : len = Len(script)
  BY ScriptFacts
<1>3. k \in 1..len /\ k - 1 \in 0..len /\ k \in 0..len /\ m \in 0..len
  BY <1>2
<1>4. /\ IsSequence(ch) /\ Len(ch) \in Nat /\ Len(ch) + MsgCount(tag, a, b, k - 1) = MsgCount(tag, a, b, m)
      /\ \A j \in 1..len : k - 1 < j /\ j <= m /\ Sends(tag, j, a, b)
           => IsMessage(tag, j, a, b, ch[MsgCount(tag, a, b, j) - MsgCount(tag, a, b, k - 1)])
  BY <1>2, SequenceFacts DEF Flows
<1>5. ASSUME ~ Sends(tag, k, a, b) PROVE Flows(ch, tag, a, b, m, k)
  <2>1. MsgCount(tag, a, b, k) = MsgCount(tag, a, b, k - 1)
    BY <1>1, <1>2, <1>3, <1>5
  <2>2. \A j \in 1..len : k < j => k - 1 < j
    BY <1>3
  <2>3. QED
    BY <1>2, <1>4, <2>1, <2>2 DEF Flows
<1>6. ASSUME Sends(tag, k, a, b), ch # <<>>
      PROVE  IsMessage(tag, k, a, b, Head(ch)) /\ Flows(Tail(ch), tag, a, b, m, k)
  <2>1. /\ Len(ch) \in Nat \ {0} /\ IsSequence(Tail(ch)) /\ Len(Tail(ch)) = Len(ch) - 1
        /\ Head(ch) = ch[1] /\ \A i \in 1..(Len(ch) - 1) : Tail(ch)[i] = ch[i + 1]
    BY <1>4, <1>6, TailFacts
  <2>2. MsgCount(tag, a, b, k) = MsgCount(tag, a, b, k - 1) + 1
    BY <1>1, <1>6
  <2>3. /\ MsgCount(tag, a, b, k - 1) \in Nat /\ MsgCount(tag, a, b, k) \in Nat /\ MsgCount(tag, a, b, m) \in Nat
        /\ (m <= k - 1 => MsgCount(tag, a, b, m) <= MsgCount(tag, a, b, k - 1))
    BY <1>1, <1>2, <1>3
  <2>4. k <= m /\ k - 1 < k
    BY <1>3, <1>4, <2>1, <2>3
  <2>5. IsMessage(tag, k, a, b, Head(ch))
    <3>1. MsgCount(tag, a, b, k) - MsgCount(tag, a, b, k - 1) = 1
      BY <2>2, <2>3
    <3>2. QED
      BY <1>2, <1>4, <1>6, <2>1, <2>4, <3>1
  <2>6. Len(Tail(ch)) + MsgCount(tag, a, b, k) = MsgCount(tag, a, b, m)
    BY <1>4, <2>1, <2>2, <2>3
  <2>7. ASSUME NEW j \in 1..len, k < j, j <= m, Sends(tag, j, a, b)
        PROVE  IsMessage(tag, j, a, b, Tail(ch)[MsgCount(tag, a, b, j) - MsgCount(tag, a, b, k)])
    <3>1. j - 1 \in 0..len /\ k <= j - 1 /\ j \in 0..len /\ k - 1 < j
      BY <1>3, <2>7
    <3>2. /\ MsgCount(tag, a, b, j) = MsgCount(tag, a, b, j - 1) + 1
          /\ MsgCount(tag, a, b, k) <= MsgCount(tag, a, b, j - 1)
          /\ MsgCount(tag, a, b, j) <= MsgCount(tag, a, b, m)
          /\ MsgCount(tag, a, b, j) \in Nat /\ MsgCount(tag, a, b, j - 1) \in Nat
      BY <1>1, <1>2, <1>3, <2>7, <3>1
    <3>3. PICK i \in 1..(Len(ch) - 1) : i = MsgCount(tag, a, b, j) - MsgCount(tag, a, b, k)
                                       /\ i + 1 = MsgCount(tag, a, b, j) - MsgCount(tag, a, b, k - 1)
      <4>1. PICK x \in Nat, y \in Nat, z \in Nat, w \in Nat, c \in Nat :
              /\ x = MsgCount(tag, a, b, k) /\ y = MsgCount(tag, a, b, j) /\ z = MsgCount(tag, a, b, m)
              /\ w = MsgCount(tag, a, b, k - 1) /\ c = Len(ch)
              /\ x = w + 1 /\ c + w = z /\ x + 1 <= y /\ y <= z
        BY <1>4, <2>2, <2>3, <3>2, SMTT(30)
      <4>4. x = w + 1 /\ c + w = z /\ x + 1 <= y /\ y <= z
        BY <4>1
      <4>2. y - x \in 1..(c - 1) /\ (y - x) + 1 = y - w
        BY <4>4
      <4>3. QED
        BY <4>1, <4>2
    <3>4. QED
      BY <1>4, <2>1, <2>7, <3>1, <3>3
  <2>8. QED
    BY <1>2, <2>1, <2>5, <2>6, <2>7 DEF Flows
<1>7. QED
  BY <1>5, <1>6

\* The collectives of verb k: MPI_Alltoall of the counts comes before the payload
\* or the reduction.  j numbers them, two for a verb.
EarlyColl(k) == script[k].kind \in {"counts", "resolve"} /\ ~script[k].plan.sparse
LateColl(k) ==
  \/ script[k].kind \in {"alltoallv", "resolve"} /\ ~script[k].derive /\ ~script[k].plan.sparse
  \/ script[k].kind \in {"sum", "inplace"}
HasColl(j) == \E k \in 1..Len(script) : (j = 2 * k - 1 /\ EarlyColl(k)) \/ (j = 2 * k /\ LateColl(k))

\* A rank's part of a reduction, and the elements that are reduced.
LocalSum(k, r) == [u \in 1..S |-> <<Global(r, u - 1), k>>]
ElemsOf(k) == IF script[k].kind = "sum" THEN {VecLen} ELSE 0..(VecLen - 1)
OpOf(k) == IF script[k].kind \in {"alltoallv", "resolve"} THEN "alltoallv" ELSE script[k].kind
IsLate(k, r, c) ==
  /\ c.op = OpOf(k)
  /\ IF script[k].kind \in {"sum", "inplace"} THEN c.data = [e \in ElemsOf(k) |-> LocalSum(k, r)]
     ELSE \A b \in Ranks : IsPay(k, r, b, c.data[b])
IsEarly(k, r, c) == c.op = "alltoall" /\ \A b \in Ranks : c.data[b] = Traffic(k, r, b)
IsColl(j, r, c) == \A k \in 1..Len(script) :
  (j = 2 * k - 1 => IsEarly(k, r, c)) /\ (j = 2 * k => IsLate(k, r, c))

\* The collectives with numbers up to n.
CollWeight == [i \in 0..(2 * Len(script) - 1) |-> IF HasColl(i + 1) THEN 1 ELSE 0]
CollCount(n) == SumTo(CollWeight, n)

\* How their number grows.
LEMMA CollCounts ==
  ASSUME script \in Scripts
  PROVE  /\ CollCount(0) = 0
         /\ \A n \in 0..(2 * Len(script)) : CollCount(n) \in Nat
         /\ \A j \in 1..(2 * Len(script)) : CollCount(j) = CollCount(j - 1) + (IF HasColl(j) THEN 1 ELSE 0)
         /\ \A m, n \in 0..(2 * Len(script)) : m <= n => CollCount(m) <= CollCount(n)
<1> DEFINE w == CollWeight
<1>1. PICK len \in Nat : len = 2 * Len(script)
  BY ScriptFacts
<1>2. \A i \in 0..(len - 1) : w[i] = (IF HasColl(i + 1) THEN 1 ELSE 0) /\ w[i] \in Nat
  BY <1>1 DEF CollWeight
<1> HIDE DEF w
<1>3. /\ \A n \in 0..len : SumTo(w, n) \in Nat
      /\ \A m, n \in 0..len : m <= n => SumTo(w, m) <= SumTo(w, n)
  BY <1>2, SumGrows
<1>4. SumTo(w, 0) = 0
  BY SumZero
<1>5. ASSUME NEW j \in 1..len
      PROVE  SumTo(w, j) = SumTo(w, j - 1) + (IF HasColl(j) THEN 1 ELSE 0)
  <2>1. PICK i \in 0..(len - 1) : i = j - 1 /\ i + 1 = j /\ i \in Nat
    OBVIOUS
  <2>2. SumTo(w, i + 1) = SumTo(w, i) + w[i]
    BY <2>1, SumNext
  <2>3. QED
    BY <1>2, <2>1, <2>2
<1>6. QED
  BY <1>1, <1>3, <1>4, <1>5 DEF CollCount, w

\* What rank r has contributed when it has called the collectives up to number n.
Calls(cs, r, n) ==
  /\ IsSequence(cs) /\ Len(cs) = CollCount(n)
  /\ \A j \in 1..(2 * Len(script)) : j <= n /\ HasColl(j) => IsColl(j, r, cs[CollCount(j)])

\* Calling the next one, or skipping a number that has none.
LEMMA CallNext ==
  ASSUME script \in Scripts, NEW r, NEW cs, NEW j \in 1..(2 * Len(script)), Calls(cs, r, j - 1), NEW new,
         IF HasColl(j) THEN \E c : new = Append(cs, c) /\ IsColl(j, r, c) ELSE new = cs
  PROVE  Calls(new, r, j)
<1>1. PICK len \in Nat : len = 2 * Len(script)
  BY ScriptFacts
<1>2. j \in 1..len /\ j - 1 \in 0..len /\ j \in 0..len
  BY <1>1
<1>3. /\ \A n \in 0..len : CollCount(n) \in Nat
      /\ \A i \in 1..len : CollCount(i) = CollCount(i - 1) + (IF HasColl(i) THEN 1 ELSE 0)
      /\ \A m, n \in 0..len : m <= n => CollCount(m) <= CollCount(n)
  BY <1>1, CollCounts
<1>4. /\ IsSequence(cs) /\ Len(cs) = CollCount(j - 1) /\ Len(cs) \in Nat
      /\ \A i \in 1..len : i <= j - 1 /\ HasColl(i) => IsColl(i, r, cs[CollCount(i)])
  BY <1>1, SequenceFacts DEF Calls
<1>5. \A i \in 1..len : i <= j => i = j \/ i <= j - 1
  BY <1>2
<1>6. CASE ~HasColl(j)
  <2>1. new = cs /\ CollCount(j) = CollCount(j - 1)
    BY <1>2, <1>3, <1>6
  <2>2. QED
    BY <1>1, <1>4, <1>5, <1>6, <2>1 DEF Calls
<1>7. CASE HasColl(j)
  <2>1. PICK c : new = Append(cs, c) /\ IsColl(j, r, c)
    BY <1>7
  <2>2. /\ IsSequence(new) /\ Len(new) = Len(cs) + 1 /\ new[Len(cs) + 1] = c
        /\ \A i \in 1..Len(cs) : new[i] = cs[i]
    BY <1>4, <2>1, AppendFacts
  <2>3. CollCount(j) = Len(cs) + 1
    BY <1>2, <1>3, <1>4, <1>7
  <2>4. ASSUME NEW i \in 1..len, i <= j - 1, HasColl(i) PROVE CollCount(i) \in 1..Len(cs)
    <3>1. i \in 0..len /\ i - 1 \in 0..len
      BY <2>4
    <3>2. /\ CollCount(i) = CollCount(i - 1) + 1 /\ CollCount(i - 1) \in Nat
          /\ CollCount(i) <= CollCount(j - 1)
      BY <1>2, <1>3, <2>4, <3>1
    <3>3. QED
      BY <1>4, <3>2
  <2>5. ASSUME NEW i \in 1..len, i <= j, HasColl(i) PROVE IsColl(i, r, new[CollCount(i)])
    <3>1. CASE i = j
      BY <2>1, <2>2, <2>3, <3>1
    <3>2. CASE i <= j - 1
      <4>1. new[CollCount(i)] = cs[CollCount(i)]
        BY <2>2, <2>4, <2>5, <3>2
      <4>2. QED
        BY <1>4, <2>5, <3>2, <4>1
    <3>3. QED
      BY <1>5, <2>5, <3>1, <3>2
  <2>6. QED
    BY <1>1, <2>2, <2>3, <2>5 DEF Calls
<1>8. QED
  BY <1>6, <1>7

\* A collective that a rank has called, from what another rank has.
LEMMA CalledByAll ==
  ASSUME script \in Scripts, NEW a, NEW cs, NEW n \in 0..(2 * Len(script)), Calls(cs, a, n),
         NEW j \in 1..(2 * Len(script)), HasColl(j), Len(cs) >= CollCount(j)
  PROVE  IsColl(j, a, cs[CollCount(j)])
<1>1. PICK len \in Nat : len = 2 * Len(script)
  BY ScriptFacts
<1>2. j \in 1..len /\ j - 1 \in 0..len /\ j \in 0..len /\ n \in 0..len
  BY <1>1
<1>3. /\ CollCount(j) = CollCount(j - 1) + 1 /\ CollCount(j - 1) \in Nat /\ CollCount(n) \in Nat
      /\ n <= j - 1 => CollCount(n) <= CollCount(j - 1)
  BY <1>1, <1>2, CollCounts
<1>4. Len(cs) = CollCount(n)
  BY DEF Calls
<1>5. j <= n
  BY <1>2, <1>3, <1>4
<1>6. QED
  BY <1>5 DEF Calls

\* Two ranks call the same operation at the same place.
LEMMA SameOps ==
  ASSUME script \in Scripts, NEW a, NEW b, NEW cs, NEW ds,
         NEW m \in 0..(2 * Len(script)), NEW n \in 0..(2 * Len(script)), Calls(cs, a, m), Calls(ds, b, n),
         NEW i \in DOMAIN cs \cap DOMAIN ds
  PROVE  cs[i].op = ds[i].op
<1>1. PICK len \in Nat : len = 2 * Len(script)
  BY ScriptFacts
<1>2. /\ CollCount(0) = 0 /\ \A x \in 0..len : CollCount(x) \in Nat
      /\ \A x \in 1..len : CollCount(x) = CollCount(x - 1) + (IF HasColl(x) THEN 1 ELSE 0)
      /\ \A x, y \in 0..len : x <= y => CollCount(x) <= CollCount(y)
  BY <1>1, CollCounts
<1>3. /\ i \in 1..Len(cs) /\ i \in 1..Len(ds) /\ Len(cs) = CollCount(m) /\ Len(ds) = CollCount(n)
      /\ Len(cs) \in Nat /\ Len(ds) \in Nat
  <2>1. IsSequence(cs) /\ IsSequence(ds) /\ Len(cs) = CollCount(m) /\ Len(ds) = CollCount(n)
    BY DEF Calls
  <2>2. DOMAIN cs = 1..Len(cs) /\ DOMAIN ds = 1..Len(ds) /\ Len(cs) \in Nat /\ Len(ds) \in Nat
    BY <2>1, SequenceFacts
  <2>3. QED
    BY <2>1, <2>2
<1>4. PICK j \in 1..len : HasColl(j) /\ CollCount(j) = i
  <2> DEFINE T == {x \in Nat : x <= len /\ i <= CollCount(x) => \E j \in 1..len : HasColl(j) /\ CollCount(j) = i}
  <2>1. 0 \in T
    BY <1>2, <1>3
  <2>2. ASSUME NEW x \in Nat, x \in T PROVE x + 1 \in T
    <3> SUFFICES ASSUME x + 1 <= len, i <= CollCount(x + 1)
                 PROVE  \E j \in 1..len : HasColl(j) /\ CollCount(j) = i
      OBVIOUS
    <3>1. PICK y \in 1..len : y = x + 1 /\ y - 1 = x /\ x \in 0..len
      BY <1>1
    <3>2. CollCount(y) = CollCount(x) + (IF HasColl(y) THEN 1 ELSE 0) /\ CollCount(x) \in Nat
      BY <1>2, <3>1
    <3>3. CASE i <= CollCount(x)
      BY <2>2, <3>1, <3>3
    <3>4. CASE ~ i <= CollCount(x)
      <4>1. HasColl(y) /\ CollCount(y) = i
        BY <1>3, <3>1, <3>2, <3>4
      <4>2. QED
        BY <4>1
    <3>5. QED
      BY <3>3, <3>4
  <2>3. \A x \in Nat : x \in T
    <3> HIDE DEF T
    <3>1. QED
      BY <2>1, <2>2, SetInduction
  <2>4. m \in Nat /\ m <= len
    BY <1>1
  <2>5. QED
    BY <1>3, <2>3, <2>4
<1>5. IsColl(j, a, cs[i]) /\ IsColl(j, b, ds[i])
  BY <1>1, <1>3, <1>4, CalledByAll
<1>6. PICK k \in 1..Len(script) : j = 2 * k - 1 \/ j = 2 * k
  BY <1>4 DEF HasColl
<1>7. QED
  BY <1>5, <1>6 DEF IsColl, IsEarly, IsLate

------------------------------------------------------------------------------
(***************************************************************************)
(* What the lead of a rank has done                                        *)
(***************************************************************************)

\* The verb the lead works at, and how far it is: in a window before the last one, or
\* at stage 4, with everything exchanged.  It comes to a verb when it returns from the
\* first round, after which nobody of its rank is left in the verb before.
Cur(r) ==
  IF window[LeadOf(r)] = 1 /\ phase[LeadOf(r)] = "round" THEN verb[LeadOf(r)] - 1 ELSE verb[LeadOf(r)]
Stage(r) ==
  IF \/ window[LeadOf(r)] = 0
     \/ window[LeadOf(r)] = 1 /\ phase[LeadOf(r)] = "round"
     \/ window[LeadOf(r)] = Syncs[Kind(LeadOf(r))]
  THEN 4 ELSE window[LeadOf(r)]

\* Has q ended the second window of verb k?
Passed2(q, k) == enters[q] > Done(k - 1) + 2

Counting == {"counts", "resolve"}
Moving == {"alltoallv", "resolve"}
Reducing == {"sum", "inplace"}

\* The call the lead is blocked in belongs to its window.
CallFits(r, k, s, c) ==
  /\ k \in 0..Len(script) /\ s \in 1..4 /\ (s # 4 => k > 0)
  /\ c = "counts" => s = 1 /\ script[k].kind \in Counting
  /\ c = "sized" => s = 3 /\ script[k].kind = "resolve"
  /\ c = "payload" => s = 3 /\ script[k].kind \in Moving
  /\ c = "reduce" => (s = 1 /\ script[k].kind = "sum") \/ (s = 3 /\ script[k].kind = "inplace")

\* The plan in force.
PlansFit(r, k, s, c) ==
  k > 0 =>
    /\ script[k].kind \in {"counts", "alltoallv", "resolve"} /\ (s > 1 \/ c = "counts") => peers[r] = PeersIn(k, r)
    /\ script[k].kind = "alltoallv" /\ s > 1 => wirePlan[r] = PlanIn(k, r)

\* The send staging: where the blocks go, and those of the partitions that have packed.
SendFits(r, k, s) ==
  k > 0 /\ script[k].kind \in Moving /\ s \in {2, 3} =>
    /\ sendSeg[r] = Segment(PeersIn(k, r), Col(SendGrid(k, r)))
    /\ Start(PeersIn(k, r), Col(SendGrid(k, r)), R * S) <= Len(stageSend[r])
    /\ \A u \in Locals, g \in OfRanks(PeersIn(k, r)) :
         /\ packOff[r][u][g] = CellAt(PeersIn(k, r), SendGrid(k, r), g, u)
         /\ Passed2(Global(r, u), k) =>
              \A j \in 1..SendGrid(k, r)[g][u] :
                stageSend[r][CellAt(PeersIn(k, r), SendGrid(k, r), g, u) + j] = <<k, Global(r, u), g, j>>

\* The counts that have come.
CountsReady(r, k, s, c, a) ==
  IF script[k].plan.sparse THEN IF a = r THEN s > 1 \/ c = "counts" ELSE s = 4 \/ c \in {"sized", "payload"}
  ELSE s > 1
CountsFit(r, k, s, c) ==
  k > 0 /\ script[k].kind \in Counting =>
    \A a \in PeersIn(k, r) : CountsReady(r, k, s, c, a) => countsRecv[r][a] = Traffic(k, a, r)

\* The receive staging: where the blocks come to,
RecvReady(k, s, c) ==
  \/ script[k].kind = "alltoallv" /\ s > 1
  \/ script[k].kind = "resolve" /\ (s = 4 \/ c \in {"sized", "payload"})
RecvFits(r, k, s, c) ==
  k > 0 /\ RecvReady(k, s, c) =>
    /\ recvSeg[r] = Segment(PeersIn(k, r), Col(RecvGrid(k, r)))
    /\ Start(PeersIn(k, r), Col(RecvGrid(k, r)), R * S) <= Len(stageRecv[r])
    /\ \A h \in OfRanks(PeersIn(k, r)) : baseRecv[r][h] = Start(PeersIn(k, r), Col(RecvGrid(k, r)), h)

\* and those of the ranks whose message is in.
LegReady(r, k, s, c, a) == s = 4 \/ (a = r /\ c = "payload" /\ (script[k].derive \/ script[k].plan.sparse))
HoldsLeg(buf, k, a, r) ==
  \A t \in Locals, u \in Locals : \A j \in 1..Traffic(k, a, r)[t][u] :
    buf[CellAt(PeersIn(k, r), RecvGrid(k, r), Global(a, t), u) + j] = <<k, Global(a, u), Global(r, t), j>>
LegIn(r, k, a) == HoldsLeg(stageRecv[r], k, a, r)
LegsFit(r, k, s, c) ==
  k > 0 /\ script[k].kind \in Moving => \A a \in PeersIn(k, r) : LegReady(r, k, s, c, a) => LegIn(r, k, a)

\* The reduced vector: the slices that are added up, and the sum of all ranks.
SliceOf(u) == {e \in 0..(VecLen - 1) : u * SliceSize <= e /\ e < u * SliceSize + SliceSize}
WorldSum(k) == [i \in 1..(R * S) |-> <<i - 1, k>>]
RedFits(r, k, s) ==
  k > 0 =>
    /\ script[k].kind = "inplace" /\ s \in {2, 3} =>
         \A u \in Locals : Passed2(Global(r, u), k) => \A e \in SliceOf(u) : red[r][e] = LocalSum(k, r)
    /\ script[k].kind \in Reducing /\ s = 4 => \A e \in ElemsOf(k) : red[r][e] = WorldSum(k)

\* A plan that leaves out traffic of the rank is refused in the first window.
Refused(r) ==
  /\ \A k \in 1..Len(script) : LeavesOut(k, r) => enters[LeadOf(r)] <= Done(k - 1) + 1
  /\ call[r] = "counts" => ~LeavesOut(verb[LeadOf(r)], r)
  /\ err[LeadOf(r)] = "poisoned" => aborted

\* The lead of r is in verb k at stage s, blocked in c; what its rank then has.
At(r, k, s, c) == k = Cur(r) /\ s = Stage(r) /\ c = call[r]
RankFits(r, k, s, c) ==
  /\ CallFits(r, k, s, c) /\ PlansFit(r, k, s, c) /\ SendFits(r, k, s) /\ CountsFit(r, k, s, c)
  /\ RecvFits(r, k, s, c) /\ LegsFit(r, k, s, c) /\ RedFits(r, k, s)
RankInv(r) == Refused(r) /\ \A k, s, c : At(r, k, s, c) => RankFits(r, k, s, c)

\* The verbs whose message of this tag the rank has sent, and received, and the
\* collectives it has called.
SentTo(tag, k, s, c) ==
  IF tag = "count" THEN IF s = 1 /\ c # "counts" THEN k - 1 ELSE k
  ELSE IF s = 4 \/ c = "payload" THEN k ELSE k - 1
HadTo(tag, k, s, c) ==
  IF s = 4 \/ (tag = "count" /\ script[k].kind = "resolve" /\ c \in {"sized", "payload"}) THEN k ELSE k - 1
CalledTo(k, s, c) ==
  IF s = 4 \/ c \in {"payload", "reduce"} THEN 2 * k ELSE IF s = 1 /\ c = "none" THEN 2 * k - 2 ELSE 2 * k - 1

\* The messages on the way from a to b, and the receives of b that await them.
Awaiting(tag, a, b, k, s, c) ==
  IF SentTo(tag, k, s, c) # HadTo(tag, k, s, c) /\ Sends(tag, k, a, b) THEN SizeOf(tag, k, a, b) ELSE 0
LinkFits(tag, a, b, k, s, c, l, t, d) ==
  /\ \A ch, m, n : ch = channel[tag][a][b] /\ m = SentTo(tag, k, s, c) /\ n = HadTo(tag, l, t, d)
                   => Flows(ch, tag, a, b, m, n)
  /\ wants[tag][b][a] = Awaiting(tag, a, b, l, t, d)
MessagesFit ==
  \A tag \in Tags, a \in Ranks, b \in Ranks : a # b =>
    \A k, s, c, l, t, d : At(a, k, s, c) /\ At(b, l, t, d) => LinkFits(tag, a, b, k, s, c, l, t, d)
CallsAt(r, k, s, c) == \A cs, n : cs = colls[r] /\ n = CalledTo(k, s, c) => Calls(cs, r, n)
CallsFit == \A r \in Ranks : \A k, s, c : At(r, k, s, c) => CallsAt(r, k, s, c)

\* What the caller of a completed verb has.
ResultsFit(p) ==
  verb[p] > 0 =>
    /\ Kind(p) = "alltoallv" => recvCounts[p] = [g \in World |-> M(verb[p], g, p)]
    /\ window[p] = 0 =>
         /\ Kind(p) \in Moving => \A g \in World : got[p][g] = Block(verb[p], g, p) \/ LeavesOut(verb[p], RankOf(g))
         /\ Kind(p) \in Counting =>
              \A g \in World : recvCounts[p][g] = M(verb[p], g, p) \/ LeavesOut(verb[p], RankOf(g))
         /\ Kind(p) \in Reducing => \A e \in DOMAIN got[p] : got[p][e] = WorldSum(verb[p])

\* The shapes of the data.
OnRanks(f) == f = [r \in Ranks |-> f[r]]
OnWorld(f) == f = [p \in World |-> f[p]]
Shapes ==
  /\ OnRanks(packOff) /\ OnRanks(sendSeg) /\ OnRanks(baseRecv) /\ OnRanks(recvSeg)
  /\ OnRanks(stageSend) /\ OnRanks(stageRecv) /\ OnRanks(countsRecv) /\ OnRanks(red) /\ OnRanks(colls)
  /\ OnWorld(recvCounts) /\ OnWorld(got)
  /\ \A r \in Ranks : /\ IsSequence(stageSend[r]) /\ IsSequence(stageRecv[r])
                      /\ OnRanks(countsRecv[r]) /\ red[r] = [e \in 0..VecLen |-> red[r][e]]

WireInv ==
  /\ Shapes /\ MessagesFit /\ CallsFit
  /\ \A r \in Ranks : RankInv(r)
  /\ \A p \in World : ResultsFit(p)

------------------------------------------------------------------------------
(* What depends on the script alone stays *)

\* The layout, the traffic and the messages of a verb.
LEMMA StaticStays ==
  ASSUME script' = script
  PROVE  /\ \A k : Done(k)' = Done(k)
         /\ \A k, a, b : M(k, a, b)' = M(k, a, b) /\ Traffic(k, a, b)' = Traffic(k, a, b)
         /\ \A k, r : SendGrid(k, r)' = SendGrid(k, r) /\ RecvGrid(k, r)' = RecvGrid(k, r)
         /\ \A k, r : PeersIn(k, r)' = PeersIn(k, r) /\ PlanIn(k, r)' = PlanIn(k, r)
         /\ \A k, r : LeavesOut(k, r)' <=> LeavesOut(k, r)
         /\ \A k, g, d : Block(k, g, d)' = Block(k, g, d)
<1>1. \A k : Done(k)' = Done(k)
  BY DEF Done
<1>2. \A k, a, b : M(k, a, b)' = M(k, a, b)
  BY DEF M
<1>3. \A k, a, b : Traffic(k, a, b)' = Traffic(k, a, b)
  BY <1>2 DEF Traffic
<1>4. \A k, r : SendGrid(k, r)' = SendGrid(k, r) /\ RecvGrid(k, r)' = RecvGrid(k, r)
  BY <1>2 DEF SendGrid, RecvGrid
<1>5. \A k, a, b : Talks(k, a, b)' <=> Talks(k, a, b)
  BY <1>2 DEF Talks
<1>6. \A k, r : ReachedIn(k, r)' = ReachedIn(k, r) /\ HeardIn(k, r)' = HeardIn(k, r)
  BY <1>5 DEF ReachedIn, HeardIn
<1>7. \A k, r : DerivedIn(k, r)' = DerivedIn(k, r)
  BY <1>6 DEF DerivedIn
<1>8. \A k, r : PlanIn(k, r)' = PlanIn(k, r)
  BY <1>7 DEF PlanIn
<1>9. \A k, r : PeersIn(k, r)' = PeersIn(k, r)
  BY <1>8 DEF PeersIn
<1>10. \A k, r : LeavesOut(k, r)' <=> LeavesOut(k, r)
  BY DEF LeavesOut
<1>11. \A k, g, d : Block(k, g, d)' = Block(k, g, d)
  BY DEF Block
<1>12. QED
  BY <1>1, <1>2, <1>3, <1>4, <1>8, <1>9, <1>10, <1>11

\* The messages and the collectives of a verb.
LEMMA MessagesStay ==
  ASSUME script' = script
  PROVE  /\ \A tag, k, a, b : (Sends(tag, k, a, b)' <=> Sends(tag, k, a, b)) /\ SizeOf(tag, k, a, b)' = SizeOf(tag, k, a, b)
         /\ \A ch, tag, a, b, m, n : Flows(ch, tag, a, b, m, n)' <=> Flows(ch, tag, a, b, m, n)
         /\ \A cs, r, n : Calls(cs, r, n)' <=> Calls(cs, r, n)
         /\ \A tag, k, s, c : HadTo(tag, k, s, c)' = HadTo(tag, k, s, c)
         /\ \A tag, a, b, k, s, c : Awaiting(tag, a, b, k, s, c)' = Awaiting(tag, a, b, k, s, c)
         /\ \A k : ElemsOf(k)' = ElemsOf(k)
<1>1. /\ \A k, a, b : Traffic(k, a, b)' = Traffic(k, a, b)
      /\ \A k, r : PeersIn(k, r)' = PeersIn(k, r)
  BY StaticStays
<1>2. \A k, a, b : PaySize(k, a, b)' = PaySize(k, a, b)
  BY <1>1 DEF PaySize
<1>3. \A tag, k, a, b : (Sends(tag, k, a, b)' <=> Sends(tag, k, a, b)) /\ SizeOf(tag, k, a, b)' = SizeOf(tag, k, a, b)
  BY <1>1, <1>2 DEF Sends, SizeOf
<1>4. \A k, a, b, msg : IsPay(k, a, b, msg)' <=> IsPay(k, a, b, msg)
  BY <1>1, <1>2 DEF IsPay
<1>5. \A tag, k, a, b, msg : IsMessage(tag, k, a, b, msg)' <=> IsMessage(tag, k, a, b, msg)
  BY <1>1, <1>4 DEF IsMessage
<1>6. \A tag, a, b : MsgWeight(tag, a, b)' = MsgWeight(tag, a, b)
  BY <1>3 DEF MsgWeight
<1>7. \A tag, a, b, n : MsgCount(tag, a, b, n)' = MsgCount(tag, a, b, n)
  BY <1>6 DEF MsgCount
<1>8. \A ch, tag, a, b, m, n : Flows(ch, tag, a, b, m, n)' <=> Flows(ch, tag, a, b, m, n)
  <2> SUFFICES ASSUME NEW ch, NEW tag, NEW a, NEW b, NEW m, NEW n
               PROVE  Flows(ch, tag, a, b, m, n)' <=> Flows(ch, tag, a, b, m, n)
    OBVIOUS
  <2>1. /\ MsgCount(tag, a, b, n)' = MsgCount(tag, a, b, n) /\ MsgCount(tag, a, b, m)' = MsgCount(tag, a, b, m)
        /\ \A k : MsgCount(tag, a, b, k)' = MsgCount(tag, a, b, k)
        /\ \A k : Sends(tag, k, a, b)' <=> Sends(tag, k, a, b)
        /\ \A k, msg : IsMessage(tag, k, a, b, msg)' <=> IsMessage(tag, k, a, b, msg)
    BY <1>3, <1>5, <1>7
  <2> DEFINE Fits(k) == IsMessage(tag, k, a, b, ch[MsgCount(tag, a, b, k) - MsgCount(tag, a, b, n)])
  <2>2. \A k : Fits(k)' <=> Fits(k)
    <3> SUFFICES ASSUME NEW k PROVE Fits(k)' <=> Fits(k)
      OBVIOUS
    <3>1. PICK msg : msg = ch[MsgCount(tag, a, b, k) - MsgCount(tag, a, b, n)]
      OBVIOUS
    <3>2. msg = (ch[MsgCount(tag, a, b, k) - MsgCount(tag, a, b, n)])'
      BY <2>1, <3>1
    <3>3. Fits(k) <=> IsMessage(tag, k, a, b, msg)
      BY <3>1
    <3>4. IsMessage(tag, k, a, b, msg)' <=> IsMessage(tag, k, a, b, msg)
      BY <2>1
    <3>5. Fits(k)' <=> IsMessage(tag, k, a, b, msg)'
      BY <3>2 DEF IsMessage, IsPay
    <3>6. QED
      BY <3>3, <3>4, <3>5
  <2>3. Flows(ch, tag, a, b, m, n) <=>
          /\ IsSequence(ch) /\ Len(ch) + MsgCount(tag, a, b, n) = MsgCount(tag, a, b, m)
          /\ \A k \in 1..Len(script) : n < k /\ k <= m /\ Sends(tag, k, a, b) => Fits(k)
    BY DEF Flows
  <2> HIDE DEF Fits
  <2>4. Flows(ch, tag, a, b, m, n)' <=>
          /\ IsSequence(ch) /\ Len(ch) + MsgCount(tag, a, b, n)' = MsgCount(tag, a, b, m)'
          /\ \A k \in 1..Len(script') : n < k /\ k <= m /\ Sends(tag, k, a, b)' => Fits(k)'
    BY DEF Flows, Fits
  <2>5. QED
    BY <2>1, <2>2, <2>3, <2>4
<1>9. /\ \A j : HasColl(j)' <=> HasColl(j)
      /\ \A k : ElemsOf(k)' = ElemsOf(k) /\ OpOf(k)' = OpOf(k)
  BY DEF HasColl, EarlyColl, LateColl, ElemsOf, OpOf
<1>10. \A n : CollCount(n)' = CollCount(n)
  BY <1>9 DEF CollCount, CollWeight
<1>11. \A j, r, c : IsColl(j, r, c)' <=> IsColl(j, r, c)
  <2>1. \A k, r, c : IsEarly(k, r, c)' <=> IsEarly(k, r, c)
    BY <1>1 DEF IsEarly
  <2>2. \A k, r, c : IsLate(k, r, c)' <=> IsLate(k, r, c)
    <3> SUFFICES ASSUME NEW k, NEW r, NEW c PROVE IsLate(k, r, c)' <=> IsLate(k, r, c)
      OBVIOUS
    <3>1. (\A b \in Ranks : IsPay(k, r, b, c.data[b])') <=> (\A b \in Ranks : IsPay(k, r, b, c.data[b]))
      BY <1>4
    <3>2. QED
      BY <1>9, <3>1 DEF IsLate, LocalSum
  <2>3. QED
    BY <2>1, <2>2 DEF IsColl
<1>12. \A cs, r, n : Calls(cs, r, n)' <=> Calls(cs, r, n)
  <2> SUFFICES ASSUME NEW cs, NEW r, NEW n PROVE Calls(cs, r, n)' <=> Calls(cs, r, n)
    OBVIOUS
  <2> DEFINE Fits(j) == IsColl(j, r, cs[CollCount(j)])
  <2>1. \A j : Fits(j)' <=> Fits(j)
    <3> SUFFICES ASSUME NEW j PROVE Fits(j)' <=> Fits(j)
      OBVIOUS
    <3>1. PICK c : c = cs[CollCount(j)]
      OBVIOUS
    <3>2. c = cs[CollCount(j)]'
      BY <1>10, <3>1
    <3>3. Fits(j)' <=> IsColl(j, r, c)'
      BY <3>2 DEF IsColl, IsEarly, IsLate
    <3>4. QED
      BY <1>11, <3>1, <3>3
  <2>2. Calls(cs, r, n) <=>
          /\ IsSequence(cs) /\ Len(cs) = CollCount(n)
          /\ \A j \in 1..(2 * Len(script)) : j <= n /\ HasColl(j) => Fits(j)
    BY DEF Calls
  <2> HIDE DEF Fits
  <2>3. Calls(cs, r, n)' <=>
          /\ IsSequence(cs) /\ Len(cs) = CollCount(n)'
          /\ \A j \in 1..(2 * Len(script')) : j <= n /\ HasColl(j)' => Fits(j)'
    BY DEF Calls, Fits
  <2>4. QED
    BY <1>9, <1>10, <2>1, <2>2, <2>3
<1>13. \A tag, k, s, c : HadTo(tag, k, s, c)' = HadTo(tag, k, s, c)
  BY DEF HadTo
<1>14. \A tag, a, b, k, s, c : Awaiting(tag, a, b, k, s, c)' = Awaiting(tag, a, b, k, s, c)
  BY <1>3, <1>13 DEF Awaiting, SentTo
<1>15. QED
  BY <1>3, <1>8, <1>9, <1>12, <1>13, <1>14

------------------------------------------------------------------------------
(***************************************************************************)
(* What a step leaves as it was                                            *)
(***************************************************************************)

\* The lead of r is where it was.
LeadStays(r) == \A k, s, c : At(r, k, s, c)' <=> At(r, k, s, c)

\* It is there unless it moves to another window, or out of the first round of a verb.
LEMMA LeadKept ==
  ASSUME NEW r, script' = script, call'[r] = call[r],
         verb'[LeadOf(r)] = verb[LeadOf(r)], window'[LeadOf(r)] = window[LeadOf(r)],
         phase'[LeadOf(r)] = phase[LeadOf(r)] \/ window[LeadOf(r)] # 1
  PROVE  LeadStays(r)
<1>1. Kind(LeadOf(r))' = Kind(LeadOf(r))
  BY DEF Kind
<1>2. Cur(r)' = Cur(r)
  BY DEF Cur
<1>3. Stage(r)' = Stage(r)
  BY <1>1 DEF Stage
<1>4. QED
  BY <1>2, <1>3 DEF At, LeadStays

\* The places of a lead.
LEMMA OnePlace ==
  ASSUME NEW r, NEW k, NEW s, NEW c, NEW l, NEW t, NEW d, At(r, k, s, c), At(r, l, t, d)
  PROVE  k = l /\ s = t /\ c = d
  BY DEF At

\* Nobody of r goes on to another window but p.
OnlyPasses(r, p) == \A u \in Locals : Global(r, u) # p => enters'[Global(r, u)] = enters[Global(r, u)]

\* What a rank has, with the lead where it is, as long as the fields stay.
LEMMA PartsStay ==
  ASSUME script' = script, NEW r, NEW k, NEW s, NEW c
  PROVE  /\ CallFits(r, k, s, c)' <=> CallFits(r, k, s, c)
         /\ peers'[r] = peers[r] /\ wirePlan'[r] = wirePlan[r] => (PlansFit(r, k, s, c)' <=> PlansFit(r, k, s, c))
         /\ sendSeg'[r] = sendSeg[r] /\ packOff'[r] = packOff[r] /\ stageSend'[r] = stageSend[r]
              /\ (s \in {2, 3} => \A u \in Locals : Passed2(Global(r, u), k)' => Passed2(Global(r, u), k))
              => (SendFits(r, k, s) => SendFits(r, k, s)')
         /\ countsRecv'[r] = countsRecv[r] => (CountsFit(r, k, s, c)' <=> CountsFit(r, k, s, c))
         /\ recvSeg'[r] = recvSeg[r] /\ baseRecv'[r] = baseRecv[r] /\ Len(stageRecv'[r]) = Len(stageRecv[r])
              => (RecvFits(r, k, s, c)' <=> RecvFits(r, k, s, c))
         /\ stageRecv'[r] = stageRecv[r] => (LegsFit(r, k, s, c)' <=> LegsFit(r, k, s, c))
         /\ red'[r] = red[r] /\ (s \in {2, 3} => \A u \in Locals : Passed2(Global(r, u), k)' => Passed2(Global(r, u), k))
              => (RedFits(r, k, s) => RedFits(r, k, s)')
<1>1. /\ \A a, b : M(k, a, b)' = M(k, a, b) /\ Traffic(k, a, b)' = Traffic(k, a, b)
      /\ \A a : SendGrid(k, a)' = SendGrid(k, a) /\ RecvGrid(k, a)' = RecvGrid(k, a)
      /\ \A a : PeersIn(k, a)' = PeersIn(k, a) /\ PlanIn(k, a)' = PlanIn(k, a)
  BY StaticStays
<1>2. CallFits(r, k, s, c)' <=> CallFits(r, k, s, c)
  BY DEF CallFits, Counting, Moving
<1>3. peers'[r] = peers[r] /\ wirePlan'[r] = wirePlan[r] => (PlansFit(r, k, s, c)' <=> PlansFit(r, k, s, c))
  BY <1>1 DEF PlansFit
<1>4. ASSUME sendSeg'[r] = sendSeg[r], packOff'[r] = packOff[r], stageSend'[r] = stageSend[r],
             s \in {2, 3} => \A u \in Locals : Passed2(Global(r, u), k)' => Passed2(Global(r, u), k), SendFits(r, k, s)
      PROVE  SendFits(r, k, s)'
  BY <1>1, <1>4 DEF SendFits, Moving
<1>5. countsRecv'[r] = countsRecv[r] => (CountsFit(r, k, s, c)' <=> CountsFit(r, k, s, c))
  BY <1>1 DEF CountsFit, CountsReady, Counting
<1>6. recvSeg'[r] = recvSeg[r] /\ baseRecv'[r] = baseRecv[r] /\ Len(stageRecv'[r]) = Len(stageRecv[r])
              => (RecvFits(r, k, s, c)' <=> RecvFits(r, k, s, c))
  BY <1>1 DEF RecvFits, RecvReady
<1>7. ASSUME stageRecv'[r] = stageRecv[r] PROVE LegsFit(r, k, s, c)' <=> LegsFit(r, k, s, c)
  <2>1. \A a : LegIn(r, k, a)' <=> LegIn(r, k, a)
    BY <1>1, <1>7 DEF LegIn, HoldsLeg
  <2>2. QED
    BY <1>1, <2>1 DEF LegsFit, LegReady, Moving
<1>8. ASSUME red'[r] = red[r], s \in {2, 3} => \A u \in Locals : Passed2(Global(r, u), k)' => Passed2(Global(r, u), k),
             RedFits(r, k, s)
      PROVE  RedFits(r, k, s)'
  <2>1. ElemsOf(k)' = ElemsOf(k)
    BY DEF ElemsOf
  <2>2. QED
    BY <1>8, <2>1 DEF RedFits, Reducing, SliceOf, LocalSum, WorldSum
<1>9. QED
  BY <1>2, <1>3, <1>4, <1>5, <1>6, <1>7, <1>8

\* The links between two ranks.
LEMMA LinkIs ==
  ASSUME NEW tag, NEW a, NEW b, NEW k, NEW s, NEW c, NEW l, NEW t, NEW d
  PROVE  LinkFits(tag, a, b, k, s, c, l, t, d) <=>
           /\ Flows(channel[tag][a][b], tag, a, b, SentTo(tag, k, s, c), HadTo(tag, l, t, d))
           /\ wants[tag][b][a] = Awaiting(tag, a, b, l, t, d)
  BY DEF LinkFits

\* In the next state.
LEMMA LinkNext ==
  ASSUME script' = script, NEW tag, NEW a, NEW b, NEW k, NEW s, NEW c, NEW l, NEW t, NEW d
  PROVE  LinkFits(tag, a, b, k, s, c, l, t, d)' <=>
           /\ Flows(channel'[tag][a][b], tag, a, b, SentTo(tag, k, s, c), HadTo(tag, l, t, d))
           /\ wants'[tag][b][a] = Awaiting(tag, a, b, l, t, d)
<1>1. PICK ch, m, n : ch = channel'[tag][a][b] /\ m = SentTo(tag, k, s, c) /\ n = HadTo(tag, l, t, d)
  OBVIOUS
<1>2. HadTo(tag, l, t, d)' = n /\ SentTo(tag, k, s, c)' = m
      /\ Awaiting(tag, a, b, l, t, d)' = Awaiting(tag, a, b, l, t, d)
  BY <1>1, MessagesStay DEF SentTo
<1>3. Flows(ch, tag, a, b, m, n)' <=> Flows(ch, tag, a, b, m, n)
  BY MessagesStay
<1>4. LinkFits(tag, a, b, k, s, c, l, t, d)' <=>
        Flows(ch, tag, a, b, m, n)' /\ wants'[tag][b][a] = Awaiting(tag, a, b, l, t, d)
  BY <1>1, <1>2 DEF LinkFits
<1>5. QED
  BY <1>1, <1>3, <1>4

\* The same of the collectives.
LEMMA CallsAreNext ==
  ASSUME script' = script, NEW r, NEW k, NEW s, NEW c
  PROVE  /\ CallsAt(r, k, s, c) <=> Calls(colls[r], r, CalledTo(k, s, c))
         /\ CallsAt(r, k, s, c)' <=> Calls(colls'[r], r, CalledTo(k, s, c))
<1>1. CallsAt(r, k, s, c) <=> Calls(colls[r], r, CalledTo(k, s, c))
  BY DEF CallsAt
<1>2. PICK cs, n : cs = colls'[r] /\ n = CalledTo(k, s, c)
  OBVIOUS
<1>3. CalledTo(k, s, c)' = n
  BY <1>2 DEF CalledTo
<1>4. CallsAt(r, k, s, c)' <=> Calls(cs, r, n)'
  BY <1>2, <1>3 DEF CallsAt
<1>5. Calls(cs, r, n)' <=> Calls(cs, r, n)
  BY MessagesStay
<1>6. QED
  BY <1>1, <1>2, <1>4, <1>5

\* A lead in a window before the last one.
LEMMA InStage ==
  ASSUME ControlTypes, JobInv, NEW r \in Ranks, NEW k, NEW s, NEW c, At(r, k, s, c), s # 4
  PROVE  /\ LeadOf(r) \in World /\ RankOf(LeadOf(r)) = r /\ k = verb[LeadOf(r)] /\ k \in 1..Len(script) /\ s = window[LeadOf(r)]
         /\ s \in {1, 2, 3} /\ s < Syncs[script[k].kind] /\ Syncs[script[k].kind] \in {2, 4}
         /\ Done(k - 1) \in Nat /\ Done(k) = Done(k - 1) + Syncs[script[k].kind]
         /\ enters[LeadOf(r)] = Done(k - 1) + s
         /\ s = 1 => phase[LeadOf(r)] # "round"
<1>1. LeadOf(r) \in World /\ RankOf(LeadOf(r)) = r /\ Place(LeadOf(r))
  BY PartFacts DEF JobInv
<1>2. /\ window[LeadOf(r)] # 0 /\ ~(window[LeadOf(r)] = 1 /\ phase[LeadOf(r)] = "round")
      /\ window[LeadOf(r)] # Syncs[Kind(LeadOf(r))] /\ s = window[LeadOf(r)] /\ k = verb[LeadOf(r)]
  BY DEF At, Stage, Cur
<1>3. window[LeadOf(r)] \in 0..4 /\ window[LeadOf(r)] > 0
  BY <1>1, <1>2, PartTypes
<1>4. /\ verb[LeadOf(r)] > 0 /\ window[LeadOf(r)] <= Syncs[Kind(LeadOf(r))]
      /\ enters[LeadOf(r)] = Done(verb[LeadOf(r)] - 1) + window[LeadOf(r)]
  BY <1>1, <1>3 DEF Place
<1>5. /\ verb[LeadOf(r)] \in 1..Len(script) /\ Syncs[Kind(LeadOf(r))] \in {2, 4}
      /\ Done(verb[LeadOf(r)] - 1) \in Nat
      /\ Done(verb[LeadOf(r)]) = Done(verb[LeadOf(r)] - 1) + Syncs[Kind(LeadOf(r))]
  BY <1>1, <1>4, VerbFacts
<1>6. Kind(LeadOf(r)) = script[k].kind
  BY <1>2 DEF Kind
<1>7. QED
  BY <1>1, <1>2, <1>3, <1>4, <1>5, <1>6

\* It is in stage s of its verb when it works in window s.
LEMMA InWindowAt ==
  ASSUME NEW r, phase[LeadOf(r)] = "body", window[LeadOf(r)] # 0
  PROVE  At(r, verb[LeadOf(r)], IF window[LeadOf(r)] = Syncs[Kind(LeadOf(r))] THEN 4 ELSE window[LeadOf(r)], call[r])
  BY DEF At, Cur, Stage

\* Nobody ends the second window of the lead's verb but in that window.
LEMMA FreshIn ==
  ASSUME ControlTypes, JobInv, NEW r \in Ranks, NEW p \in World, NEW k, NEW s, NEW c, At(r, k, s, c), s \in {2, 3},
         script' = script, \A q \in World \ {p} : enters'[q] = enters[q],
         enters'[p] = enters[p] \/ (enters'[p] = enters[p] + 1 /\ phase[p] = "body" /\ window[p] # 2)
  PROVE  \A u \in Locals : Passed2(Global(r, u), k)' => Passed2(Global(r, u), k)
<1> SUFFICES ASSUME NEW u \in Locals, Passed2(Global(r, u), k)', ~Passed2(Global(r, u), k) PROVE FALSE
  OBVIOUS
<1>1. PICK q \in World : q = Global(r, u)
  BY PartFacts
<1>2. Done(k)' = Done(k) /\ Done(k - 1)' = Done(k - 1)
  BY StaticStays
<1>3. /\ k \in 1..Len(script) /\ Syncs[script[k].kind] \in {2, 4} /\ s < Syncs[script[k].kind]
      /\ Done(k - 1) \in Nat /\ Done(k) = Done(k - 1) + Syncs[script[k].kind]
  BY InStage
<1>4. enters[q] \in Nat
  BY PartTypes
<1>5. enters'[q] > Done(k - 1) + 2 /\ ~ enters[q] > Done(k - 1) + 2
  BY <1>1, <1>2 DEF Passed2
<1>6. q = p /\ enters'[p] = enters[p] + 1 /\ phase[p] = "body" /\ window[p] # 2
  BY <1>5
<1>7. enters[p] = Done(k - 1) + 2 /\ Done(k) = Done(k - 1) + 4
  BY <1>3, <1>4, <1>5, <1>6
<1>8. Place(p)
  BY DEF JobInv
<1>9. verb[p] = k
  BY <1>3, <1>7, <1>8, VerbAt
<1>10. window[p] \in 0..4
  BY PartTypes
<1>11. CASE window[p] = 0
  BY <1>3, <1>7, <1>8, <1>9, <1>11 DEF Place
<1>12. CASE window[p] > 0
  BY <1>3, <1>6, <1>7, <1>8, <1>9, <1>10, <1>12 DEF Place
<1>13. QED
  BY <1>10, <1>11, <1>12

\* A lead that enters the next round has refused nothing.
LEMMA RefusedStays ==
  ASSUME ControlTypes, NEW r \in Ranks, Place(LeadOf(r)), script' = script, Refused(r), aborted' = aborted,
         err'[LeadOf(r)] = err[LeadOf(r)], call'[r] = "none", enters'[LeadOf(r)] = enters[LeadOf(r)] + 1,
         window[LeadOf(r)] = 1 => ~LeavesOut(verb[LeadOf(r)], r)
  PROVE  Refused(r)'
<1>1. ASSUME NEW k \in 1..Len(script), LeavesOut(k, r)
      PROVE  enters'[LeadOf(r)] <= Done(k - 1) + 1
  <2>1. enters[LeadOf(r)] <= Done(k - 1) + 1 /\ LeadOf(r) \in World /\ enters[LeadOf(r)] \in Nat
    BY <1>1, PartFacts, PartTypes DEF Refused
  <2>2. Done(k - 1) \in Nat /\ Done(k) = Done(k - 1) + Syncs[script[k].kind] /\ Syncs[script[k].kind] \in {2, 4}
    BY ScriptFacts, KindsAre DEF ControlTypes
  <2>3. enters[LeadOf(r)] # Done(k - 1) + 1
    <3> SUFFICES ASSUME enters[LeadOf(r)] = Done(k - 1) + 1 PROVE FALSE
      OBVIOUS
    <3>1. verb[LeadOf(r)] = k
      BY <2>1, <2>2, VerbAt
    <3>2. window[LeadOf(r)] \in 0..4
      BY <2>1, PartTypes
    <3>3. window[LeadOf(r)] = 1
      BY <2>1, <2>2, <3>1, <3>2, SMTT(30) DEF Place
    <3>4. QED
      BY <1>1, <3>1, <3>3
  <2>4. QED
    BY <2>1, <2>2, <2>3
<1>2. \A k : (LeavesOut(k, r)' <=> LeavesOut(k, r)) /\ Done(k)' = Done(k)
  BY StaticStays
<1>3. \A k \in 1..Len(script) : Done(k - 1)' = Done(k - 1)
  BY <1>2
<1>4. QED
  BY <1>1, <1>2, <1>3 DEF Refused

\* So has one that stays in its round.
LEMMA RefusedKept ==
  ASSUME NEW r \in Ranks, script' = script, Refused(r), call'[r] = "counts" => ~LeavesOut(verb'[LeadOf(r)], r),
         enters'[LeadOf(r)] = enters[LeadOf(r)], aborted => aborted', err'[LeadOf(r)] = "poisoned" => err[LeadOf(r)] = "poisoned" \/ aborted'
  PROVE  Refused(r)'
<1>1. \A k : (LeavesOut(k, r)' <=> LeavesOut(k, r)) /\ Done(k)' = Done(k)
  BY StaticStays
<1>2. \A k \in 1..Len(script) : Done(k - 1)' = Done(k - 1)
  BY <1>1
<1>3. LeavesOut(verb[LeadOf(r)], r)' <=> LeavesOut(verb'[LeadOf(r)], r)
  <2>1. PICK k : k = verb'[LeadOf(r)]
    OBVIOUS
  <2>2. LeavesOut(verb[LeadOf(r)], r)' <=> LeavesOut(k, r)'
    BY <2>1 DEF LeavesOut
  <2>3. QED
    BY <1>1, <2>1, <2>2
<1>4. QED
  BY <1>1, <1>2, <1>3 DEF Refused

------------------------------------------------------------------------------
(***************************************************************************)
(* The steps that exchange nothing                                         *)
(***************************************************************************)

\* What the caller has stays while it does not complete another verb.
LEMMA ResultsStay ==
  ASSUME script' = script, NEW p \in World, verb'[p] = verb[p], recvCounts'[p] = recvCounts[p], got'[p] = got[p],
         window'[p] = 0 => window[p] = 0, ResultsFit(p)
  PROVE  ResultsFit(p)'
<1>1. PICK k : k = verb[p]
  OBVIOUS
<1>2. /\ \A g : M(k, g, p)' = M(k, g, p) /\ Block(k, g, p)' = Block(k, g, p)
      /\ \A r : LeavesOut(k, r)' <=> LeavesOut(k, r)
  BY StaticStays
<1>3. ResultsFit(p) <=>
        (k > 0 =>
           /\ script[k].kind = "alltoallv" => recvCounts[p] = [g \in World |-> M(k, g, p)]
           /\ window[p] = 0 =>
                /\ script[k].kind \in Moving => \A g \in World : got[p][g] = Block(k, g, p) \/ LeavesOut(k, RankOf(g))
                /\ script[k].kind \in Counting => \A g \in World : recvCounts[p][g] = M(k, g, p) \/ LeavesOut(k, RankOf(g))
                /\ script[k].kind \in Reducing => \A e \in DOMAIN got[p] : got[p][e] = WorldSum(k))
  BY <1>1 DEF ResultsFit, Kind
<1>4. ResultsFit(p)' <=>
        (k > 0 =>
           /\ script'[k].kind = "alltoallv" => recvCounts'[p] = [g \in World |-> M(k, g, p)']
           /\ window'[p] = 0 =>
                /\ script'[k].kind \in Moving => \A g \in World : got'[p][g] = Block(k, g, p)' \/ LeavesOut(k, RankOf(g))'
                /\ script'[k].kind \in Counting => \A g \in World : recvCounts'[p][g] = M(k, g, p)' \/ LeavesOut(k, RankOf(g))'
                /\ script'[k].kind \in Reducing => \A e \in DOMAIN got'[p] : got'[p][e] = WorldSum(k))
  BY <1>1 DEF ResultsFit, Kind, M, Block, LeavesOut, WorldSum, Moving, Counting, Reducing
<1>5. \A g : LeavesOut(k, RankOf(g))' <=> LeavesOut(k, RankOf(g))
  BY DEF LeavesOut
<1>6. QED
  BY <1>2, <1>3, <1>4, <1>5

\* A step that leaves the leads, their buffers and the messages where they are.
LEMMA QuietStep ==
  ASSUME WireInv, script' = script, UNCHANGED <<plans, stages, mpi, call>>,
         \A r \in Ranks : LeadStays(r) /\ Refused(r)',
         \A r \in Ranks : \A k, s, c : At(r, k, s, c) /\ s \in {2, 3}
           => \A u \in Locals : Passed2(Global(r, u), k)' => Passed2(Global(r, u), k),
         OnWorld(recvCounts)', OnWorld(got)', \A p \in World : ResultsFit(p)'
  PROVE  WireInv'
<1>1. UNCHANGED <<peers, wirePlan, packOff, sendSeg, baseRecv, recvSeg, stageSend, stageRecv, countsRecv, red,
                  channel, wants, colls, call>>
  BY DEF plans, stages, mpi
<1>2. Shapes'
  BY <1>1 DEF WireInv, Shapes, OnRanks
<1>3. MessagesFit'
  <2> SUFFICES ASSUME NEW tag \in Tags, NEW a \in Ranks, NEW b \in Ranks, a # b,
                      NEW k, NEW s, NEW c, NEW l, NEW t, NEW d, At(a, k, s, c)', At(b, l, t, d)'
               PROVE  LinkFits(tag, a, b, k, s, c, l, t, d)'
    BY DEF MessagesFit
  <2>1. At(a, k, s, c) /\ At(b, l, t, d)
    BY DEF LeadStays
  <2>2. LinkFits(tag, a, b, k, s, c, l, t, d)
    BY <2>1 DEF WireInv, MessagesFit
  <2>3. /\ Flows(channel[tag][a][b], tag, a, b, SentTo(tag, k, s, c), HadTo(tag, l, t, d))
        /\ wants[tag][b][a] = Awaiting(tag, a, b, l, t, d)
    BY <2>2, LinkIs
  <2>4. channel'[tag][a][b] = channel[tag][a][b] /\ wants'[tag][b][a] = wants[tag][b][a]
    BY <1>1
  <2>5. QED
    BY <2>3, <2>4, LinkNext
<1>4. CallsFit'
  <2> SUFFICES ASSUME NEW r \in Ranks, NEW k, NEW s, NEW c, At(r, k, s, c)' PROVE CallsAt(r, k, s, c)'
    BY DEF CallsFit
  <2>1. CallsAt(r, k, s, c)
    BY DEF LeadStays, WireInv, CallsFit
  <2>2. colls'[r] = colls[r]
    BY <1>1
  <2>3. QED
    BY <2>1, <2>2, CallsAreNext
<1>5. ASSUME NEW r \in Ranks PROVE RankInv(r)'
  <2> SUFFICES ASSUME NEW k, NEW s, NEW c, At(r, k, s, c)' PROVE RankFits(r, k, s, c)'
    BY DEF RankInv
  <2>1. At(r, k, s, c)
    BY DEF LeadStays
  <2>2. RankFits(r, k, s, c)
    BY <2>1 DEF WireInv, RankInv
  <2>3. s \in {2, 3} => \A u \in Locals : Passed2(Global(r, u), k)' => Passed2(Global(r, u), k)
    BY <2>1
  <2>4. /\ peers'[r] = peers[r] /\ wirePlan'[r] = wirePlan[r] /\ sendSeg'[r] = sendSeg[r] /\ packOff'[r] = packOff[r]
        /\ stageSend'[r] = stageSend[r] /\ countsRecv'[r] = countsRecv[r] /\ recvSeg'[r] = recvSeg[r]
        /\ baseRecv'[r] = baseRecv[r] /\ stageRecv'[r] = stageRecv[r] /\ red'[r] = red[r]
    BY <1>1
  <2>5. QED
    BY <2>2, <2>3, <2>4, PartsStay DEF RankFits
<1>6. QED
  BY <1>2, <1>3, <1>4, <1>5 DEF WireInv

\* The leads of the other ranks are where they were, and refuse what they did.
LEMMA OtherLeads ==
  ASSUME NEW p \in World, OnlyMoves(p), NEW r \in Ranks, LeadOf(r) # p, call'[r] = call[r], Refused(r), aborted => aborted'
  PROVE  LeadStays(r) /\ Refused(r)'
<1>1. LeadOf(r) \in World
  BY PartFacts
<1>2. /\ script' = script /\ verb'[LeadOf(r)] = verb[LeadOf(r)] /\ window'[LeadOf(r)] = window[LeadOf(r)]
      /\ phase'[LeadOf(r)] = phase[LeadOf(r)] /\ enters'[LeadOf(r)] = enters[LeadOf(r)]
      /\ err'[LeadOf(r)] = err[LeadOf(r)]
  BY <1>1 DEF OnlyMoves
<1>3. Refused(r)'
  BY <1>2, RefusedKept DEF Refused
<1>4. QED
  BY <1>2, <1>3, LeadKept

\* A step of p that exchanges nothing.
LEMMA QuietMove ==
  ASSUME WireInv, ControlTypes, JobInv, NEW p \in World, OnlyMoves(p), UNCHANGED <<plans, stages, mpi, call>>,
         aborted => aborted',
         p = LeadOf(RankOf(p)) => LeadStays(RankOf(p)) /\ Refused(RankOf(p))',
         enters'[p] = enters[p] \/ (enters'[p] = enters[p] + 1 /\ phase[p] = "body" /\ window[p] # 2),
         \A q \in World \ {p} : recvCounts'[q] = recvCounts[q] /\ got'[q] = got[q],
         OnWorld(recvCounts)', OnWorld(got)', ResultsFit(p)'
  PROVE  WireInv'
<1>1. script' = script /\ \A q \in World \ {p} : enters'[q] = enters[q]
  BY DEF OnlyMoves
<1>2. ASSUME NEW r \in Ranks PROVE LeadStays(r) /\ Refused(r)'
  <2>1. CASE LeadOf(r) # p
    BY <2>1, OtherLeads DEF WireInv, RankInv
  <2>2. CASE LeadOf(r) = p
    <3>1. RankOf(p) = r
      BY <2>2, PartFacts
    <3>2. QED
      BY <2>2, <3>1
  <2>3. QED
    BY <2>1, <2>2
<1>3. ASSUME NEW r \in Ranks, NEW k, NEW s, NEW c, At(r, k, s, c), s \in {2, 3}
      PROVE  \A u \in Locals : Passed2(Global(r, u), k)' => Passed2(Global(r, u), k)
  BY <1>1, <1>3, FreshIn
<1>4. ASSUME NEW q \in World PROVE ResultsFit(q)'
  <2>1. CASE q # p
    <3>1. verb'[q] = verb[q] /\ window'[q] = window[q] /\ recvCounts'[q] = recvCounts[q] /\ got'[q] = got[q]
      BY <2>1 DEF OnlyMoves
    <3>2. QED
      BY <1>1, <3>1, ResultsStay DEF WireInv
  <2>2. QED
    BY <2>1
<1>5. QED
  BY <1>1, <1>2, <1>3, <1>4, QuietStep

\* Exceptions,
LEMMA ThrowsWire ==
  ASSUME WireInv, ControlTypes, JobInv, NEW p \in World, Throws(p)
  PROVE  WireInv'
<1>1. \/ \E why : Abort(p, why)
      \/ \E why : Unwind(p, why) /\ (why = "own" \/ ~IsLead(p)) /\ (window[p] = 0 \/ ~IsLead(p))
  <2>1. FailSync(p) => Abort(p, "poisoned") \/ (Unwind(p, "poisoned") /\ ~IsLead(p))
    BY DEF FailSync, ThrowInVerb
  <2>2. BodyThrows(p) => Unwind(p, "own") /\ window[p] = 0
    BY DEF BodyThrows
  <2>3. ResizeThrows(p) => Abort(p, "own") \/ (Unwind(p, "own") /\ ~IsLead(p))
    BY DEF ResizeThrows, ThrowInVerb
  <2>4. RefusePlan(p) => Abort(p, "refused")
    BY DEF RefusePlan
  <2>5. QED
    BY <2>1, <2>2, <2>3, <2>4 DEF Throws
<1>2. /\ UNCHANGED <<job, enters, returns, verb, window, call, caller, plans, stages, mpi, results>>
      /\ aborted => aborted'
      /\ \A q \in World \ {p} : err'[q] = err[q] /\ phase'[q] = phase[q]
      /\ \/ aborted' /\ phase' = phase
         \/ (err'[p] # "poisoned" /\ window[p] # 1) \/ ~IsLead(p)
  BY <1>1 DEF Abort, Unwind, ControlTypes
<1>3. UNCHANGED <<script, enters, returns, verb, window, row, slot, mem, recvCounts, got>>
  BY <1>2 DEF job, caller, results
<1>4. OnlyMoves(p)
  BY <1>2, <1>3 DEF OnlyMoves
<1>5. ASSUME p = LeadOf(RankOf(p)) PROVE LeadStays(RankOf(p)) /\ Refused(RankOf(p))'
  <2>1. RankOf(p) \in Ranks /\ IsLead(p)
    BY <1>5, RankFacts, PartFacts
  <2>2. Refused(RankOf(p))
    BY <2>1 DEF WireInv, RankInv
  <2>3. Refused(RankOf(p))'
    BY <1>2, <1>3, <1>5, <2>1, <2>2, RefusedKept DEF Refused
  <2>4. LeadStays(RankOf(p))
    BY <1>2, <1>3, <1>5, <2>1, LeadKept
  <2>5. QED
    BY <2>3, <2>4
<1>6. ResultsFit(p)'
  BY <1>3, ResultsStay DEF WireInv
<1>7. OnWorld(recvCounts)' /\ OnWorld(got)'
  BY <1>3 DEF WireInv, Shapes, OnWorld
<1>8. QED
  BY <1>2, <1>3, <1>4, <1>5, <1>6, <1>7, QuietMove

\* the end of the job,
LEMMA LeaveWire ==
  ASSUME WireInv, Types, JobInv, NEW p \in World, LeaveJob(p)
  PROVE  WireInv'
<1>1. MovesWell(p) /\ ControlTypes
  BY LeaveMoves DEF Types
<1>2. OnlyMoves(p)
  BY <1>1 DEF MovesWell
<1>3. /\ UNCHANGED <<job, enters, returns, err, verb, window, call, row, slot, plans, stages, mpi, results, aborted>>
      /\ phase[p] # "round" /\ phase' = [phase EXCEPT ![p] = "done"]
  BY DEF LeaveJob
<1>4. UNCHANGED <<script, enters, err, verb, window, recvCounts, got>>
  BY <1>3 DEF job, results
<1>5. ASSUME p = LeadOf(RankOf(p)) PROVE LeadStays(RankOf(p)) /\ Refused(RankOf(p))'
  <2>1. RankOf(p) \in Ranks
    BY RankFacts
  <2>2. Refused(RankOf(p))'
    BY <1>3, <1>4, <2>1, RefusedKept DEF WireInv, RankInv, Refused
  <2>3. Cur(RankOf(p))' = Cur(RankOf(p)) /\ Stage(RankOf(p))' = Stage(RankOf(p))
    <3>1. phase[LeadOf(RankOf(p))] # "round" /\ phase'[LeadOf(RankOf(p))] # "round"
      BY <1>1, <1>3, <1>5 DEF ControlTypes
    <3>2. Kind(LeadOf(RankOf(p)))' = Kind(LeadOf(RankOf(p)))
      BY <1>4 DEF Kind
    <3>3. QED
      BY <1>4, <3>1, <3>2 DEF Cur, Stage
  <2>4. LeadStays(RankOf(p))
    BY <1>3, <2>3 DEF LeadStays, At
  <2>5. QED
    BY <2>2, <2>4
<1>6. ResultsFit(p)'
  BY <1>4, ResultsStay DEF WireInv
<1>7. OnWorld(recvCounts)' /\ OnWorld(got)'
  BY <1>4 DEF WireInv, Shapes, OnWorld
<1>8. QED
  BY <1>1, <1>2, <1>3, <1>4, <1>5, <1>6, <1>7, QuietMove

\* the windows in which the others wait for the lead,
LEMMA PassWire ==
  ASSUME WireInv, Types, JobInv, NEW p \in World, Pass(p), ~IsLead(p)
  PROVE  WireInv'
<1>1. /\ phase[p] = "body" /\ window[p] \in {1, 3} /\ Arrives(p) /\ UNCHANGED <<eager>> /\ dangling' \in BOOLEAN /\ ControlTypes
  BY WindowEnds DEF Types, EndsWindow, Pass, InWindow
<1>2. OnlyMoves(p)
  BY <1>1, ArriveMoves DEF MovesWell
<1>3. /\ UNCHANGED <<job, verb, call, plans, stages, mpi, results, aborted>>
      /\ enters'[p] = enters[p] + 1 /\ window'[p] = window[p] + 1 /\ window[p] + 1 # 0
  BY <1>1 DEF Pass, Sync, ControlTypes
<1>4. UNCHANGED <<script, verb, recvCounts, got>>
  BY <1>3 DEF job, results
<1>5. p # LeadOf(RankOf(p))
  BY RankFacts, PartFacts
<1>6. ResultsFit(p)'
  BY <1>3, <1>4, ResultsStay DEF WireInv
<1>7. OnWorld(recvCounts)' /\ OnWorld(got)'
  BY <1>4 DEF WireInv, Shapes, OnWorld
<1>8. QED
  BY <1>1, <1>2, <1>3, <1>4, <1>5, <1>6, <1>7, QuietMove

\* A step leaves the buffers and the calls of the other ranks alone.
Elsewhere(r) ==
  \A b \in Ranks \ {r} :
    /\ call'[b] = call[b] /\ peers'[b] = peers[b] /\ wirePlan'[b] = wirePlan[b] /\ packOff'[b] = packOff[b]
    /\ sendSeg'[b] = sendSeg[b] /\ baseRecv'[b] = baseRecv[b] /\ recvSeg'[b] = recvSeg[b]
    /\ stageSend'[b] = stageSend[b] /\ stageRecv'[b] = stageRecv[b] /\ countsRecv'[b] = countsRecv[b]
    /\ red'[b] = red[b] /\ colls'[b] = colls[b]
    /\ \A tag \in Tags, a \in Ranks \ {r} : channel'[tag][a][b] = channel[tag][a][b] /\ wants'[tag][b][a] = wants[tag][b][a]

\* What a step at rank r has to show: it moves the lead from one place to another
\* and leaves everything as that place requires.
RankMoves(r, k, s, c, l, t, d) ==
  /\ RankFits(r, l, t, d)' /\ Refused(r)' /\ CallsAt(r, l, t, d)'
  /\ \A tag \in Tags, b \in Ranks \ {r} : \A x, y, z :
       CallFits(b, x, y, z) /\ LinkFits(tag, r, b, k, s, c, x, y, z) => LinkFits(tag, r, b, l, t, d, x, y, z)'
  /\ \A tag \in Tags, b \in Ranks \ {r} : \A x, y, z :
       CallFits(b, x, y, z) /\ LinkFits(tag, b, r, x, y, z, k, s, c) => LinkFits(tag, b, r, x, y, z, l, t, d)'

\* A step in a window before the last one.
LEMMA RankMove ==
  ASSUME WireInv, ControlTypes, JobInv, NEW r \in Ranks, NEW p \in PartsOf(r), OnlyMoves(p), aborted' = aborted,
         NEW k, NEW s, NEW c, NEW l, NEW t, NEW d, At(r, k, s, c), At(r, l, t, d)',
         Elsewhere(r), Shapes', UNCHANGED <<results, verb>>, window'[p] = 0 => window[p] = 0,
         RankMoves(r, k, s, c, l, t, d)
  PROVE  WireInv'
<1>1. p \in World /\ RankOf(p) = r /\ script' = script
  BY PartFacts DEF OnlyMoves
<1>2. ASSUME NEW b \in Ranks \ {r} PROVE LeadStays(b) /\ Refused(b)'
  <2>1. LeadOf(b) # p
    BY <1>1, PartFacts
  <2>2. QED
    BY <1>1, <2>1, OtherLeads DEF Elsewhere, WireInv, RankInv
<1>3. ASSUME NEW x, NEW y, NEW z, At(r, x, y, z)' PROVE x = l /\ y = t /\ z = d
  BY <1>3 DEF At
<1>4. ASSUME NEW b \in Ranks PROVE RankInv(b)'
  <2> SUFFICES ASSUME NEW x, NEW y, NEW z, At(b, x, y, z)' PROVE RankFits(b, x, y, z)' /\ Refused(b)'
    <3>1. Refused(b)'
      BY <1>2 DEF RankMoves
    <3>2. QED
      BY <3>1 DEF RankInv
  <2>1. CASE b = r
    BY <1>3, <2>1 DEF RankMoves
  <2>2. CASE b # r
    <3>1. At(b, x, y, z) /\ Refused(b)'
      BY <1>2, <2>2 DEF LeadStays
    <3>2. RankFits(b, x, y, z)
      BY <3>1 DEF WireInv, RankInv
    <3>3. \A u \in Locals : Passed2(Global(b, u), x)' => Passed2(Global(b, u), x)
      <4> SUFFICES ASSUME NEW u \in Locals PROVE Passed2(Global(b, u), x)' => Passed2(Global(b, u), x)
        OBVIOUS
      <4>1. Global(b, u) \in World \ {p}
        BY <1>1, <2>2, PartFacts
      <4>2. enters'[Global(b, u)] = enters[Global(b, u)] /\ Done(x - 1)' = Done(x - 1)
        BY <1>1, <4>1, StaticStays DEF OnlyMoves
      <4>3. QED
        BY <4>2 DEF Passed2
    <3>4. /\ peers'[b] = peers[b] /\ wirePlan'[b] = wirePlan[b] /\ sendSeg'[b] = sendSeg[b] /\ packOff'[b] = packOff[b]
          /\ stageSend'[b] = stageSend[b] /\ countsRecv'[b] = countsRecv[b] /\ recvSeg'[b] = recvSeg[b]
          /\ baseRecv'[b] = baseRecv[b] /\ stageRecv'[b] = stageRecv[b] /\ red'[b] = red[b]
      BY <2>2 DEF Elsewhere
    <3>5. QED
      BY <1>1, <3>1, <3>2, <3>3, <3>4, PartsStay DEF RankFits
  <2>3. QED
    BY <2>1, <2>2
<1>5. CallsFit'
  <2> SUFFICES ASSUME NEW b \in Ranks, NEW x, NEW y, NEW z, At(b, x, y, z)' PROVE CallsAt(b, x, y, z)'
    BY DEF CallsFit
  <2>1. CASE b = r
    BY <1>3, <2>1 DEF RankMoves
  <2>2. CASE b # r
    <3>1. CallsAt(b, x, y, z) /\ colls'[b] = colls[b]
      BY <1>2, <2>2 DEF LeadStays, WireInv, CallsFit, Elsewhere
    <3>2. QED
      BY <1>1, <3>1, CallsAreNext
  <2>3. QED
    BY <2>1, <2>2
<1>6. MessagesFit'
  <2> SUFFICES ASSUME NEW tag \in Tags, NEW a \in Ranks, NEW b \in Ranks, a # b,
                      NEW x, NEW y, NEW z, NEW u, NEW v, NEW w, At(a, x, y, z)', At(b, u, v, w)'
               PROVE  LinkFits(tag, a, b, x, y, z, u, v, w)'
    BY DEF MessagesFit
  <2>1. CASE a = r
    <3>1. x = l /\ y = t /\ z = d /\ b # r
      BY <1>3, <2>1
    <3>2. At(b, u, v, w)
      BY <1>2, <3>1 DEF LeadStays
    <3>3. LinkFits(tag, r, b, k, s, c, u, v, w) /\ CallFits(b, u, v, w)
      BY <2>1, <3>2 DEF WireInv, MessagesFit, RankInv, RankFits
    <3>4. QED
      BY <2>1, <3>1, <3>3 DEF RankMoves
  <2>2. CASE b = r
    <3>1. u = l /\ v = t /\ w = d /\ a # r
      BY <1>3, <2>2
    <3>2. At(a, x, y, z)
      BY <1>2, <3>1 DEF LeadStays
    <3>3. LinkFits(tag, a, r, x, y, z, k, s, c) /\ CallFits(a, x, y, z)
      BY <2>2, <3>2 DEF WireInv, MessagesFit, RankInv, RankFits
    <3>4. QED
      BY <2>2, <3>1, <3>3 DEF RankMoves
  <2>3. CASE a # r /\ b # r
    <3>1. At(a, x, y, z) /\ At(b, u, v, w)
      BY <1>2, <2>3 DEF LeadStays
    <3>2. LinkFits(tag, a, b, x, y, z, u, v, w)
      BY <3>1 DEF WireInv, MessagesFit
    <3>3. channel'[tag][a][b] = channel[tag][a][b] /\ wants'[tag][b][a] = wants[tag][b][a]
      BY <2>3 DEF Elsewhere
    <3>4. QED
      BY <1>1, <3>2, <3>3, LinkIs, LinkNext
  <2>4. QED
    BY <2>1, <2>2, <2>3
<1>7. ASSUME NEW q \in World PROVE ResultsFit(q)'
  <2>1. verb'[q] = verb[q] /\ recvCounts'[q] = recvCounts[q] /\ got'[q] = got[q]
    BY DEF results
  <2>2. window'[q] = 0 => window[q] = 0
    BY DEF OnlyMoves
  <2>3. QED
    BY <1>1, <2>1, <2>2, ResultsStay DEF WireInv
<1>8. QED
  BY <1>4, <1>5, <1>6, <1>7 DEF WireInv

\* The verbs whose messages a rank has sent and received are verbs of the job.
LEMMA CountsInRange ==
  ASSUME script \in Scripts, NEW r, NEW k, NEW s, NEW c, CallFits(r, k, s, c), NEW tag
  PROVE  /\ SentTo(tag, k, s, c) \in 0..Len(script) /\ HadTo(tag, k, s, c) \in 0..Len(script)
         /\ CalledTo(k, s, c) \in 0..(2 * Len(script))
<1>1. PICK n \in Nat : n = Len(script)
  BY ScriptFacts
<1>2. k \in 0..n /\ s \in 1..4 /\ (s # 4 => k > 0)
  BY <1>1 DEF CallFits
<1>3. c \in {"counts", "sized", "payload", "reduce"} => s # 4
  BY <1>2 DEF CallFits
<1>4. SentTo(tag, k, s, c) \in {k, k - 1} /\ HadTo(tag, k, s, c) \in {k, k - 1}
      /\ (s = 4 => SentTo(tag, k, s, c) = k /\ HadTo(tag, k, s, c) = k)
  BY DEF SentTo, HadTo
<1>5. CalledTo(k, s, c) \in {2 * k, 2 * k - 1, 2 * k - 2} /\ (s = 4 => CalledTo(k, s, c) = 2 * k)
  BY DEF CalledTo
<1>6. QED
  BY <1>1, <1>2, <1>4, <1>5

\* Moving on to where nothing new has been sent, received or called.
LEMMA SilentLinks ==
  ASSUME script' = script, script \in Scripts, NEW r \in Ranks, NEW k \in 1..Len(script), NEW s, NEW c, NEW t, NEW d,
         NEW tag, NEW b, channel'[tag][r][b] = channel[tag][r][b], wants'[tag][r][b] = wants[tag][r][b],
         channel'[tag][b][r] = channel[tag][b][r], wants'[tag][b][r] = wants[tag][b][r],
         \/ SentTo(tag, k, t, d) = SentTo(tag, k, s, c)
         \/ SentTo(tag, k, s, c) = k - 1 /\ SentTo(tag, k, t, d) = k /\ ~Sends(tag, k, r, b),
         \/ HadTo(tag, k, t, d) = HadTo(tag, k, s, c)
         \/ HadTo(tag, k, s, c) = k - 1 /\ HadTo(tag, k, t, d) = k /\ ~Sends(tag, k, b, r),
         Sends(tag, k, b, r) => SentTo(tag, k, t, d) = SentTo(tag, k, s, c),
         NEW x, NEW y, NEW z, CallFits(b, x, y, z)
  PROVE  /\ LinkFits(tag, r, b, k, s, c, x, y, z) => LinkFits(tag, r, b, k, t, d, x, y, z)'
         /\ LinkFits(tag, b, r, x, y, z, k, s, c) => LinkFits(tag, b, r, x, y, z, k, t, d)'
<1>4. HadTo(tag, x, y, z) \in 0..Len(script) /\ SentTo(tag, x, y, z) \in 0..Len(script)
  BY CountsInRange
<1>1. ASSUME LinkFits(tag, r, b, k, s, c, x, y, z)
      PROVE  LinkFits(tag, r, b, k, t, d, x, y, z)'
  <2>1. /\ Flows(channel[tag][r][b], tag, r, b, SentTo(tag, k, s, c), HadTo(tag, x, y, z))
        /\ wants[tag][b][r] = Awaiting(tag, r, b, x, y, z)
    BY <1>1, LinkIs
  <2>2. Flows(channel[tag][r][b], tag, r, b, SentTo(tag, k, t, d), HadTo(tag, x, y, z))
    <3>1. CASE SentTo(tag, k, t, d) = SentTo(tag, k, s, c)
      BY <2>1, <3>1
    <3>2. CASE SentTo(tag, k, s, c) = k - 1 /\ SentTo(tag, k, t, d) = k /\ ~Sends(tag, k, r, b)
      <4>1. Flows(channel[tag][r][b], tag, r, b, k - 1, HadTo(tag, x, y, z))
        BY <2>1, <3>2
      <4>2. Flows(channel[tag][r][b], tag, r, b, k, HadTo(tag, x, y, z))
        BY <1>4, <3>2, <4>1, FlowPost
      <4>3. QED
        BY <3>2, <4>2
    <3>3. QED
      BY <3>1, <3>2
  <2>3. QED
    BY <2>1, <2>2, LinkNext
<1>2. ASSUME LinkFits(tag, b, r, x, y, z, k, s, c)
      PROVE  LinkFits(tag, b, r, x, y, z, k, t, d)'
  <2>1. /\ Flows(channel[tag][b][r], tag, b, r, SentTo(tag, x, y, z), HadTo(tag, k, s, c))
        /\ wants[tag][r][b] = Awaiting(tag, b, r, k, s, c)
    BY <1>2, LinkIs
  <2>2. Flows(channel[tag][b][r], tag, b, r, SentTo(tag, x, y, z), HadTo(tag, k, t, d))
    <3>1. CASE HadTo(tag, k, t, d) = HadTo(tag, k, s, c)
      BY <2>1, <3>1
    <3>2. CASE HadTo(tag, k, s, c) = k - 1 /\ HadTo(tag, k, t, d) = k /\ ~Sends(tag, k, b, r)
      <4>1. Flows(channel[tag][b][r], tag, b, r, SentTo(tag, x, y, z), k - 1)
        BY <2>1, <3>2
      <4>2. Flows(channel[tag][b][r], tag, b, r, SentTo(tag, x, y, z), k)
        BY <1>4, <3>2, <4>1, FlowLand
      <4>3. QED
        BY <3>2, <4>2
    <3>3. QED
      BY <3>1, <3>2
  <2>3. Awaiting(tag, b, r, k, t, d) = Awaiting(tag, b, r, k, s, c)
    BY DEF Awaiting
  <2>4. QED
    BY <2>1, <2>2, <2>3, LinkNext
<1>3. QED
  BY <1>1, <1>2

\* the first window, which publishes,
LEMMA BeginWire ==
  ASSUME WireInv, Types, JobInv, NEW p \in World, Begin(p)
  PROVE  WireInv'
<1>1. MovesWell(p) /\ ControlTypes /\ Place(p)
  BY BeginMoves DEF Types, JobInv
<1>2. OnlyMoves(p)
  BY <1>1 DEF MovesWell
<1>3. PICK n \in Nat : n = Len(script)
  BY <1>1, ScriptFacts DEF ControlTypes
<1>4. PICK k \in 1..n : k = verb[p] + 1
  BY <1>1, <1>3 DEF ControlTypes, Begin
<1>5. /\ phase[p] = "body" /\ window[p] = 0 /\ verb' = [verb EXCEPT ![p] = k]
      /\ recvCounts' = [recvCounts EXCEPT ![p] = [g \in World |-> IF script[k].kind = "alltoallv" THEN script[k].m[g][p] ELSE 0]]
      /\ got' = [got EXCEPT ![p] = Empty]
      /\ enters' = [enters EXCEPT ![p] = enters[p] + 1] /\ phase' = [phase EXCEPT ![p] = "round"]
      /\ window' = [window EXCEPT ![p] = window[p] + 1]
      /\ UNCHANGED <<returns, err, job, call, plans, stages, mpi, dangling, aborted>>
  BY <1>4 DEF Begin, Sync
<1>6. script' = script /\ verb'[p] = k /\ window'[p] = 1 /\ phase'[p] = "round" /\ enters'[p] = enters[p] + 1
  BY <1>1, <1>5 DEF ControlTypes, job
<1>7. ASSUME p = LeadOf(RankOf(p)) PROVE LeadStays(RankOf(p)) /\ Refused(RankOf(p))'
  <2>1. PICK r \in Ranks : r = RankOf(p)
    BY RankFacts
  <2>2. Cur(r) = verb[p] /\ Stage(r) = 4
    BY <1>5, <1>7, <2>1 DEF Cur, Stage
  <2>3. Cur(r)' = k - 1 /\ Stage(r)' = 4
    BY <1>6, <1>7, <2>1 DEF Cur, Stage
  <2>4. k - 1 = verb[p]
    BY <1>1, <1>4 DEF ControlTypes
  <2>5. LeadStays(r)
    BY <1>5, <2>2, <2>3, <2>4 DEF LeadStays, At
  <2>6. At(r, verb[p], 4, call[r])
    BY <2>2 DEF At
  <2>7. CallFits(r, verb[p], 4, call[r]) /\ Refused(r)
    BY <2>6 DEF WireInv, RankInv, RankFits
  <2>8. call'[r] = "none"
    <3>1. call[r] \in {"none", "counts", "sized", "payload", "reduce"}
      BY DEF Types, MpiTypes
    <3>2. call[r] = "none"
      BY <2>7, <3>1 DEF CallFits
    <3>3. QED
      BY <1>5, <3>2
  <2>9. Refused(r)'
    BY <1>1, <1>5, <1>6, <1>7, <2>1, <2>7, <2>8, RefusedStays
  <2>10. QED
    BY <2>1, <2>5, <2>9
<1>8. OnWorld(recvCounts)' /\ OnWorld(got)'
  BY <1>5 DEF WireInv, Shapes, OnWorld
<1>9. ASSUME NEW q \in World \ {p} PROVE recvCounts'[q] = recvCounts[q] /\ got'[q] = got[q]
  BY <1>5 DEF WireInv, Shapes, OnWorld
<1>10. ResultsFit(p)'
  <2>1. recvCounts'[p] = [g \in World |-> IF script[k].kind = "alltoallv" THEN script[k].m[g][p] ELSE 0]
    BY <1>5 DEF WireInv, Shapes, OnWorld
  <2>2. Kind(p)' = script[k].kind /\ \A g : M(verb[p], g, p)' = script[k].m[g][p]
    BY <1>6 DEF Kind, M
  <2>3. QED
    BY <1>6, <2>1, <2>2 DEF ResultsFit
<1>11. /\ UNCHANGED <<plans, stages, mpi, call>> /\ (aborted => aborted')
       /\ enters'[p] = enters[p] + 1 /\ phase[p] = "body" /\ window[p] # 2
  BY <1>5, <1>6
<1>12. QED
  BY <1>1, <1>2, <1>7, <1>8, <1>9, <1>10, <1>11, QuietMove

\* the return from a round,
LEMMA ReturnWire ==
  ASSUME WireInv, Types, JobInv, NEW p \in World, ReturnSync(p)
  PROVE  WireInv'
<1>1. MovesWell(p) /\ ControlTypes /\ Place(p)
  BY ReturnMoves DEF Types, JobInv
<1>2. OnlyMoves(p) /\ script' = script
  BY <1>1 DEF MovesWell, OnlyMoves
<1>3. /\ UNCHANGED <<job, enters, err, verb, window, call, caller, plans, stages, mpi, results, dangling, aborted>>
      /\ phase[p] = "round" /\ phase' = [phase EXCEPT ![p] = "body"]
  BY DEF ReturnSync
<1>4. UNCHANGED <<enters, err, verb, window, recvCounts, got>>
  BY <1>3 DEF results
<1>5. PICK r \in Ranks : r = RankOf(p)
  BY RankFacts
<1>6. CASE ~(p = LeadOf(r) /\ window[p] = 1)
  <2>1. ASSUME p = LeadOf(r) PROVE LeadStays(r) /\ Refused(r)'
    <3>1. Refused(r)'
      BY <1>2, <1>3, <1>4, RefusedKept DEF WireInv, RankInv, Refused
    <3>2. QED
      BY <1>2, <1>3, <1>4, <1>6, <2>1, <3>1, LeadKept
  <2>2. ResultsFit(p)'
    BY <1>2, <1>4, ResultsStay DEF WireInv
  <2>3. OnWorld(recvCounts)' /\ OnWorld(got)'
    BY <1>4 DEF WireInv, Shapes, OnWorld
  <2>4. QED
    BY <1>1, <1>2, <1>3, <1>4, <1>5, <2>1, <2>2, <2>3, QuietMove
<1>7. CASE p = LeadOf(r) /\ window[p] = 1
  <2>1. verb[p] > 0 /\ window[p] > 0
    BY <1>1, <1>7 DEF Place
  <2>2. PICK n \in Nat : n = Len(script)
    BY <1>1, ScriptFacts DEF ControlTypes
  <2>3. PICK k \in 1..n : k = verb[p]
    BY <1>1, <2>1, <2>2, VerbFacts
  <2>4. At(r, k - 1, 4, call[r])
    BY <1>3, <1>7, <2>3 DEF At, Cur, Stage
  <2>5. RankFits(r, k - 1, 4, call[r]) /\ Refused(r)
    BY <2>4 DEF WireInv, RankInv
  <2>6. call[r] = "none"
    <3>1. call[r] \in {"none", "counts", "sized", "payload", "reduce"}
      BY DEF Types, MpiTypes
    <3>2. QED
      BY <2>5, <3>1 DEF RankFits, CallFits
  <2>7. At(r, k, 1, "none")'
    <3>1. phase'[p] = "body" /\ window'[p] = 1 /\ verb'[p] = k
      BY <1>1, <1>3, <1>4, <1>7, <2>3 DEF ControlTypes
    <3>2. Syncs[Kind(p)]' # 1
      <4>1. Syncs[Kind(p)] \in {2, 4}
        BY <1>1, <2>1, VerbFacts
      <4>2. Kind(p)' = Kind(p)
        BY <1>2, <1>4 DEF Kind
      <4>3. QED
        BY <4>1, <4>2
    <3>3. call'[r] = "none"
      BY <1>3, <2>6
    <3>4. QED
      BY <1>7, <3>1, <3>2, <3>3 DEF At, Cur, Stage
  <2>8. UNCHANGED <<peers, wirePlan, packOff, sendSeg, baseRecv, recvSeg, stageSend, stageRecv, countsRecv, red,
                    channel, wants, colls, call>>
    BY <1>3 DEF plans, stages, mpi
  <2>9. Elsewhere(r)
    BY <2>8 DEF Elsewhere
  <2>10. Shapes'
    BY <1>4, <2>8 DEF WireInv, Shapes, OnRanks, OnWorld
  <2>11. RankFits(r, k, 1, "none")'
    <3>1. k \in 0..Len(script') /\ k > 0
      BY <1>2, <2>2
    <3>2. CallFits(r, k, 1, "none")'
      BY <3>1 DEF CallFits
    <3>3. PlansFit(r, k, 1, "none")' /\ SendFits(r, k, 1)' /\ CountsFit(r, k, 1, "none")'
      BY DEF PlansFit, SendFits, CountsFit, CountsReady
    <3>4. RecvFits(r, k, 1, "none")' /\ LegsFit(r, k, 1, "none")' /\ RedFits(r, k, 1)'
      BY DEF RecvFits, RecvReady, LegsFit, LegReady, RedFits
    <3>5. QED
      BY <3>2, <3>3, <3>4 DEF RankFits
  <2>12. Refused(r)'
    BY <1>2, <1>3, <1>4, <2>5, RefusedKept DEF Refused
  <2>13. /\ SentTo("count", k - 1, 4, "none") = k - 1 /\ SentTo("payload", k - 1, 4, "none") = k - 1
         /\ SentTo("count", k, 1, "none") = k - 1 /\ SentTo("payload", k, 1, "none") = k - 1
         /\ \A tag : HadTo(tag, k - 1, 4, "none") = k - 1 /\ HadTo(tag, k, 1, "none") = k - 1
         /\ CalledTo(k - 1, 4, "none") = 2 * k - 2 /\ CalledTo(k, 1, "none") = 2 * k - 2
    BY DEF SentTo, HadTo, CalledTo
  <2>14. ASSUME NEW tag \in Tags, NEW b \in Ranks, NEW x, NEW y, NEW z
         PROVE  /\ LinkFits(tag, r, b, k - 1, 4, "none", x, y, z) => LinkFits(tag, r, b, k, 1, "none", x, y, z)'
                /\ LinkFits(tag, b, r, x, y, z, k - 1, 4, "none") => LinkFits(tag, b, r, x, y, z, k, 1, "none")'
    <3>1. SentTo(tag, k, 1, "none") = k - 1 /\ SentTo(tag, k - 1, 4, "none") = k - 1
      BY <2>13 DEF Tags
    <3>2. Awaiting(tag, b, r, k - 1, 4, "none") = 0 /\ Awaiting(tag, b, r, k, 1, "none") = 0
      BY <2>13, <3>1 DEF Awaiting
    <3>3. QED
      BY <1>2, <2>8, <2>13, <3>1, <3>2, LinkIs, LinkNext
  <2>15. CallsAt(r, k, 1, "none")'
    <3>1. CallsAt(r, k - 1, 4, "none") /\ colls'[r] = colls[r]
      BY <2>4, <2>6, <2>8 DEF WireInv, CallsFit
    <3>2. QED
      BY <1>2, <2>13, <3>1, CallsAreNext
  <2>16. RankMoves(r, k - 1, 4, "none", k, 1, "none")
    BY <2>11, <2>12, <2>14, <2>15 DEF RankMoves
  <2>17. p \in PartsOf(r) /\ At(r, k - 1, 4, "none")
    BY <1>5, <2>4, <2>6, RankFacts
  <2>18. QED
    BY <1>1, <1>2, <1>3, <1>4, <2>7, <2>9, <2>10, <2>16, <2>17, RankMove
<1>8. QED
  BY <1>6, <1>7

------------------------------------------------------------------------------
(***************************************************************************)
(* The windows of the lead                                                 *)
(***************************************************************************)

\* The lead p of r works in window w of verb k: where its rank is, and what the
\* partitions of the rank have published.
Published(r, k) ==
  \A u \in Locals :
    /\ verb[Global(r, u)] = k
    /\ script[k].kind \in {"counts", "alltoallv", "resolve"}
         => row[Global(r, u)] = k /\ \A d \in World : Counts(Global(r, u))[d] = M(k, Global(r, u), d)
    /\ script[k].kind # "counts" => slot[Global(r, u)] = k
WorksIn(p, r, k, w) ==
  /\ r \in Ranks /\ p = LeadOf(r) /\ p \in PartsOf(r) /\ p \in World /\ RankOf(p) = r
  /\ k \in 1..Len(script) /\ k = verb[p] /\ w = window[p] /\ phase[p] = "body"
  /\ Kind(p) = script[k].kind /\ Plan(p) = script[k].plan
  /\ w \in {1, 2, 3} /\ w < Syncs[script[k].kind] /\ Syncs[script[k].kind] \in {2, 4}
  /\ At(r, k, w, call[r]) /\ RankFits(r, k, w, call[r]) /\ Refused(r) /\ CallsAt(r, k, w, call[r])
  /\ enters[p] = Done(k - 1) + w /\ Done(k - 1) \in Nat
  /\ \A u \in Locals : Done(k - 1) + w <= enters[Global(r, u)] /\ enters[Global(r, u)] <= Done(k - 1) + w + 1
  /\ Published(r, k)

\* The partitions of a rank have published for the verb that one of them works in.
LEMMA RowsInVerb ==
  ASSUME ControlTypes, JobInv, NEW p \in World, phase[p] = "body", verb[p] > 0, window[p] > 0, window[p] < Syncs[Kind(p)],
         NEW r, r = RankOf(p), NEW k, k = verb[p]
  PROVE  /\ Published(r, k) /\ enters[p] = Done(k - 1) + window[p]
         /\ \A u \in Locals : enters[p] <= enters[Global(r, u)] /\ enters[Global(r, u)] <= enters[p] + 1
<1>1. r \in Ranks
  BY RankFacts
<1>2. ASSUME NEW u \in Locals
      PROVE  /\ verb[Global(r, u)] = k /\ Filled(Global(r, u)) /\ Global(r, u) \in World
             /\ enters[p] = Done(k - 1) + window[p]
             /\ enters[p] <= enters[Global(r, u)] /\ enters[Global(r, u)] <= enters[p] + 1
  <2>1. Global(r, u) \in PartsOf(RankOf(p)) /\ Global(r, u) \in World
    BY <1>1, PartFacts
  <2>2. QED
    BY <2>1, PeersInVerb DEF JobInv
<1>3. ASSUME NEW u \in Locals
      PROVE  /\ script[k].kind \in {"counts", "alltoallv", "resolve"}
                  => row[Global(r, u)] = k /\ \A d \in World : Counts(Global(r, u))[d] = M(k, Global(r, u), d)
             /\ script[k].kind # "counts" => slot[Global(r, u)] = k
  <2>1. k > 0 /\ Kind(Global(r, u)) = script[k].kind
    BY <1>2 DEF Kind
  <2>2. /\ script[k].kind \in {"counts", "alltoallv", "resolve"} => row[Global(r, u)] = k
        /\ script[k].kind # "counts" => slot[Global(r, u)] = k
    BY <1>2, <2>1 DEF Filled
  <2>3. QED
    BY <2>2 DEF Counts, M
<1>4. 0 \in Locals
  BY Sizes DEF Locals
<1>5. QED
  BY <1>2, <1>3, <1>4 DEF Published

\* A lead in the middle of a verb.
LEMMA LeadWorks ==
  ASSUME WireInv, Types, JobInv, NEW p \in World, IsLead(p), phase[p] = "body", verb[p] > 0, window[p] > 0, window[p] < Syncs[Kind(p)]
  PROVE  \E r \in Ranks : \E k \in 1..Len(script) : WorksIn(p, r, k, window[p])
<1>1. ControlTypes /\ Place(p)
  BY DEF Types, JobInv
<1>2. PICK r \in Ranks : r = RankOf(p) /\ p = LeadOf(r) /\ p \in PartsOf(r)
  BY RankFacts
<1>3. PICK k \in 1..Len(script) : /\ k = verb[p] /\ Kind(p) = script[k].kind /\ Plan(p) = script[k].plan
                                  /\ Syncs[script[k].kind] \in {2, 4} /\ Done(k - 1) \in Nat
  <2>1. verb[p] \in 1..Len(script) /\ Syncs[Kind(p)] \in {2, 4} /\ Done(verb[p] - 1) \in Nat
    BY <1>1, VerbFacts
  <2>2. QED
    BY <2>1 DEF Kind, Plan
<1>4. window[p] \in {1, 2, 3} /\ window[p] < Syncs[script[k].kind]
  BY <1>1, <1>3, PartTypes, SMTT(30)
<1>5. At(r, k, window[p], call[r])
  <2>1. At(r, verb[LeadOf(r)], IF window[LeadOf(r)] = Syncs[Kind(LeadOf(r))] THEN 4 ELSE window[LeadOf(r)], call[r])
    BY <1>2, <1>4, InWindowAt
  <2>2. QED
    BY <1>2, <1>3, <1>4, <2>1
<1>6. RankFits(r, k, window[p], call[r]) /\ Refused(r) /\ CallsAt(r, k, window[p], call[r])
  BY <1>5 DEF WireInv, RankInv, CallsFit
<1>7. /\ Published(r, k) /\ enters[p] = Done(k - 1) + window[p]
      /\ \A u \in Locals : enters[p] <= enters[Global(r, u)] /\ enters[Global(r, u)] <= enters[p] + 1
  BY <1>1, <1>2, <1>3, RowsInVerb
<1>8. WorksIn(p, r, k, window[p])
  BY <1>2, <1>3, <1>4, <1>5, <1>6, <1>7 DEF WorksIn
<1>9. QED
  BY <1>8

\* What the end of a window does to the place of the lead.
LEMMA AfterWindow ==
  ASSUME Types, JobInv, NEW p \in World, NEW r, NEW k, NEW w, WorksIn(p, r, k, w), EndsWindow(p), call'[r] = "none",
         w = 1 => ~LeavesOut(k, r), NEW s, s = IF w + 1 = Syncs[script[k].kind] THEN 4 ELSE w + 1
  PROVE  /\ ControlTypes /\ OnlyMoves(p) /\ script' = script /\ script \in Scripts /\ aborted' = aborted /\ verb' = verb /\ window'[p] # 0
         /\ At(r, k, s, "none")' /\ Refused(r)'
         /\ s = 2 => \A u \in Locals : ~Passed2(Global(r, u), k)'
<1>1. ControlTypes /\ script \in Scripts /\ Place(p)
  BY DEF Types, ControlTypes, JobInv
<1>2. Arrives(p) /\ UNCHANGED <<eager>> /\ dangling' \in BOOLEAN
  BY <1>1, WindowEnds
<1>3. OnlyMoves(p)
  BY <1>2, ArriveMoves DEF MovesWell
<1>4. /\ script' = script /\ aborted' = aborted /\ verb' = verb /\ err' = err
      /\ enters'[p] = enters[p] + 1 /\ phase'[p] = "round" /\ window'[p] = w + 1
  BY <1>1, <1>2 DEF Arrives, Sync, ControlTypes, WorksIn
<1>5. At(r, k, s, "none")'
  <2>1. Kind(p)' = script[k].kind
    BY <1>4 DEF Kind, WorksIn
  <2>2. w + 1 # 0 /\ w + 1 # 1
    BY DEF WorksIn
  <2>3. Cur(r)' = k
    BY <1>4, <2>2 DEF Cur, WorksIn
  <2>4. Stage(r)' = s
    BY <1>4, <2>1, <2>2 DEF Stage, WorksIn
  <2>5. QED
    BY <2>3, <2>4 DEF At
<1>6. Refused(r)'
  BY <1>1, <1>4, RefusedStays DEF WorksIn
<1>7. ASSUME s = 2, NEW u \in Locals, Passed2(Global(r, u), k)' PROVE FALSE
  <2>1. w = 1
    BY <1>7 DEF WorksIn
  <2>2. /\ Done(k - 1)' = Done(k - 1) /\ Done(k - 1) \in Nat /\ enters[p] = Done(k - 1) + 1 /\ enters[p] \in Nat
        /\ enters[Global(r, u)] <= Done(k - 1) + 2
    BY <1>1, <1>4, <2>1, StaticStays, PartTypes DEF WorksIn
  <2>3. enters'[Global(r, u)] > Done(k - 1) + 2
    BY <1>7, <2>2 DEF Passed2
  <2>4. Global(r, u) \in World
    BY PartFacts DEF WorksIn
  <2>5. enters'[Global(r, u)] = enters[Global(r, u)] \/ Global(r, u) = p
    BY <1>3, <2>4 DEF OnlyMoves
  <2>6. enters[Global(r, u)] \in Nat
    BY <1>1, <2>4, PartTypes
  <2>7. QED
    BY <1>4, <2>2, <2>3, <2>5, <2>6
<1>8. QED
  BY <1>1, <1>3, <1>4, <1>5, <1>6, <1>7 DEF WorksIn

\* And a call of MPI.
LEMMA AfterCall ==
  ASSUME Types, JobInv, NEW p \in World, NEW r, NEW k, NEW w, WorksIn(p, r, k, w), CallsMpi(p), NEW d, call'[r] = d,
         d = "counts" => ~LeavesOut(k, r)
  PROVE  /\ ControlTypes /\ OnlyMoves(p) /\ script' = script /\ script \in Scripts /\ aborted' = aborted /\ verb' = verb /\ window' = window
         /\ At(r, k, w, d)' /\ Refused(r)'
         /\ \A u \in Locals : Passed2(Global(r, u), k)' <=> Passed2(Global(r, u), k)
<1>1. ControlTypes /\ script \in Scripts
  BY DEF Types, ControlTypes
<1>2. UNCHANGED <<script, enters, returns, err, phase, verb, window, row, slot, mem, aborted>>
  BY MpiStays DEF control
<1>3. OnlyMoves(p)
  BY <1>2 DEF OnlyMoves
<1>4. At(r, k, w, d)'
  <2>1. Kind(LeadOf(r))' = Kind(LeadOf(r))
    BY <1>2 DEF Kind
  <2>2. Cur(r)' = Cur(r) /\ Stage(r)' = Stage(r)
    BY <1>2, <2>1 DEF Cur, Stage
  <2>3. QED
    BY <2>2 DEF At, WorksIn
<1>5. Refused(r)'
  <2>1. call'[r] = "counts" => ~LeavesOut(verb'[LeadOf(r)], r)
    BY <1>2 DEF WorksIn
  <2>2. QED
    BY <1>2, <2>1, RefusedKept DEF WorksIn
<1>6. \A u \in Locals : Passed2(Global(r, u), k)' <=> Passed2(Global(r, u), k)
  BY <1>2, StaticStays DEF Passed2
<1>7. QED
  BY <1>1, <1>2, <1>3, <1>4, <1>5, <1>6

------------------------------------------------------------------------------
(***************************************************************************)
(* Laying out the staging buffers                                          *)
(***************************************************************************)

\* A layout depends on the regions of the ranks that take part.
LEMMA StartSame ==
  ASSUME NEW P \in SUBSET Ranks, NEW col, NEW dol, \A h \in OfRanks(P) : col[h] = dol[h]
  PROVE  (\A g : Start(P, col, g) = Start(P, dol, g)) /\ Segment(P, col) = Segment(P, dol)
<1>1. [h \in World |-> IF RankOf(h) \in P THEN col[h] ELSE 0] = [h \in World |-> IF RankOf(h) \in P THEN dol[h] ELSE 0]
  BY DEF OfRanks
<1>2. \A g : Start(P, col, g) = Start(P, dol, g)
  BY <1>1 DEF Start
<1>3. ASSUME NEW b \in P
      PROVE  SumTo([t \in Locals |-> col[Global(b, t)]], S) = SumTo([t \in Locals |-> dol[Global(b, t)]], S)
  <2>1. \A t \in Locals : Global(b, t) \in OfRanks(P)
    BY PartFacts DEF OfRanks
  <2>2. [t \in Locals |-> col[Global(b, t)]] = [t \in Locals |-> dol[Global(b, t)]]
    BY <2>1
  <2>3. QED
    BY <2>2
<1>4. QED
  BY <1>2, <1>3 DEF Segment

\* The send side, when the rows are those of verb k.
LEMMA SendLaidOut ==
  ASSUME script \in Scripts, NEW r \in Ranks, NEW k \in 1..Len(script), Shapes,
         \A u \in Locals, g \in World : Counts(Global(r, u))[g] = M(k, Global(r, u), g),
         NEW P \in SUBSET Ranks, SizeStagingSend(r, P)
  PROVE  /\ sendSeg'[r] = Segment(P, Col(SendGrid(k, r)))
         /\ \A u \in Locals, g \in OfRanks(P) : packOff'[r][u][g] = CellAt(P, SendGrid(k, r), g, u)
         /\ Start(P, Col(SendGrid(k, r)), R * S) <= Len(stageSend'[r]) /\ IsSequence(stageSend'[r])
         /\ OnRanks(packOff)' /\ OnRanks(sendSeg)' /\ OnRanks(stageSend)'
         /\ \A b \in Ranks \ {r} : packOff'[b] = packOff[b] /\ sendSeg'[b] = sendSeg[b] /\ stageSend'[b] = stageSend[b]
<1> DEFINE W == SendGrid(k, r)
           earlier(u, g) == SumTo([su \in Locals |-> Counts(Global(r, su))[g]], u)
           col == [g \in World |-> earlier(S, g)]
<1>1. ASSUME NEW g \in World PROVE [su \in Locals |-> Counts(Global(r, su))[g]] = W[g]
  BY DEF SendGrid
<1>2. \A g \in World, u \in Locals : earlier(u, g) = SumTo(W[g], u)
  BY <1>1
<1>3. \A g \in World : earlier(S, g) = SumTo(W[g], S)
  BY <1>1
<1>4. col = Col(W)
  BY <1>3 DEF Col
<1>5. /\ packOff' = [packOff EXCEPT ![r] = [u \in Locals |-> [g \in World |->
                       IF RankOf(g) \in P THEN Start(P, col, g) + earlier(u, g) ELSE @[u][g]]]]
      /\ sendSeg' = [sendSeg EXCEPT ![r] = Segment(P, col)]
      /\ stageSend' = [stageSend EXCEPT ![r] = Grow(@, Start(P, col, R * S))]
  BY DEF SizeStagingSend
<1> HIDE DEF col, earlier
<1>6. /\ packOff = [b \in Ranks |-> packOff[b]] /\ sendSeg = [b \in Ranks |-> sendSeg[b]]
      /\ stageSend = [b \in Ranks |-> stageSend[b]] /\ IsSequence(stageSend[r])
  BY DEF Shapes, OnRanks
<1>7. /\ packOff'[r] = [u \in Locals |-> [g \in World |->
                       IF RankOf(g) \in P THEN Start(P, col, g) + earlier(u, g) ELSE packOff[r][u][g]]]
      /\ sendSeg'[r] = Segment(P, col)
      /\ stageSend'[r] = Grow(stageSend[r], Start(P, col, R * S))
  BY <1>5, <1>6
<1>8. ASSUME NEW u \in Locals, NEW g \in OfRanks(P) PROVE packOff'[r][u][g] = CellAt(P, W, g, u)
  <2>1. g \in World /\ RankOf(g) \in P
    BY DEF OfRanks
  <2>2. packOff'[r][u][g] = Start(P, col, g) + earlier(u, g)
    BY <1>7, <2>1
  <2>3. QED
    BY <1>2, <1>4, <2>1, <2>2 DEF CellAt
<1>9. Start(P, col, R * S) \in Nat
  <2>1. IsGrid(W)
    BY GridsAgree
  <2>2. \A h \in World : Col(W)[h] \in Nat
    BY <2>1, GridSums
  <2>3. QED
    BY <1>4, <2>2, StartFacts, Sizes
<1>10. Start(P, col, R * S) <= Len(stageSend'[r]) /\ IsSequence(stageSend'[r])
  BY <1>6, <1>7, <1>9, GrowFacts
<1>11. OnRanks(packOff)' /\ OnRanks(sendSeg)' /\ OnRanks(stageSend)'
  BY <1>5, <1>6 DEF OnRanks
<1>12. \A b \in Ranks \ {r} : packOff'[b] = packOff[b] /\ sendSeg'[b] = sendSeg[b] /\ stageSend'[b] = stageSend[b]
  BY <1>5, <1>6
<1>13. QED
  BY <1>4, <1>7, <1>8, <1>10, <1>11, <1>12

\* The receive side, when the counts are those of verb k.
LEMMA RecvLaidOut ==
  ASSUME script \in Scripts, NEW r \in Ranks, NEW k \in 1..Len(script), Shapes, NEW P \in SUBSET Ranks,
         NEW col, \A h \in OfRanks(P) : col[h] = Col(RecvGrid(k, r))[h], SizeStagingRecv(r, P, col)
  PROVE  /\ recvSeg'[r] = Segment(P, Col(RecvGrid(k, r)))
         /\ \A h \in OfRanks(P) : baseRecv'[r][h] = Start(P, Col(RecvGrid(k, r)), h)
         /\ Start(P, Col(RecvGrid(k, r)), R * S) <= Len(stageRecv'[r]) /\ IsSequence(stageRecv'[r])
         /\ OnRanks(baseRecv)' /\ OnRanks(recvSeg)' /\ OnRanks(stageRecv)'
         /\ \A b \in Ranks \ {r} : baseRecv'[b] = baseRecv[b] /\ recvSeg'[b] = recvSeg[b] /\ stageRecv'[b] = stageRecv[b]
<1> DEFINE W == RecvGrid(k, r)
<1>1. /\ baseRecv' = [baseRecv EXCEPT ![r] = [h \in World |-> IF RankOf(h) \in P THEN Start(P, col, h) ELSE @[h]]]
      /\ recvSeg' = [recvSeg EXCEPT ![r] = Segment(P, col)]
      /\ stageRecv' = [stageRecv EXCEPT ![r] = Grow(@, Start(P, col, R * S))]
  BY DEF SizeStagingRecv
<1>2. (\A g : Start(P, col, g) = Start(P, Col(W), g)) /\ Segment(P, col) = Segment(P, Col(W))
  BY StartSame
<1>3. /\ baseRecv = [b \in Ranks |-> baseRecv[b]] /\ recvSeg = [b \in Ranks |-> recvSeg[b]]
      /\ stageRecv = [b \in Ranks |-> stageRecv[b]] /\ IsSequence(stageRecv[r])
  BY DEF Shapes, OnRanks
<1>4. /\ baseRecv'[r] = [h \in World |-> IF RankOf(h) \in P THEN Start(P, col, h) ELSE baseRecv[r][h]]
      /\ recvSeg'[r] = Segment(P, Col(W))
      /\ stageRecv'[r] = Grow(stageRecv[r], Start(P, Col(W), R * S))
  BY <1>1, <1>2, <1>3
<1>5. \A h \in OfRanks(P) : baseRecv'[r][h] = Start(P, Col(W), h)
  BY <1>2, <1>4 DEF OfRanks
<1>6. Start(P, Col(W), R * S) \in Nat
  <2>1. IsGrid(W)
    BY GridsAgree
  <2>2. \A h \in World : Col(W)[h] \in Nat
    BY <2>1, GridSums
  <2>3. QED
    BY <2>2, StartFacts, Sizes
<1>7. Start(P, Col(W), R * S) <= Len(stageRecv'[r]) /\ IsSequence(stageRecv'[r])
  BY <1>3, <1>4, <1>6, GrowFacts
<1>8. OnRanks(baseRecv)' /\ OnRanks(recvSeg)' /\ OnRanks(stageRecv)'
  BY <1>1, <1>3 DEF OnRanks
<1>9. \A b \in Ranks \ {r} : baseRecv'[b] = baseRecv[b] /\ recvSeg'[b] = recvSeg[b] /\ stageRecv'[b] = stageRecv[b]
  BY <1>1, <1>3
<1>10. QED
  BY <1>4, <1>5, <1>7, <1>8, <1>9

------------------------------------------------------------------------------
(***************************************************************************)
(* What the lead posts and what it receives                                *)
(***************************************************************************)

\* The block of counts for a rank.
LEMMA CountBlockIs ==
  ASSUME NEW p, NEW r, NEW k, NEW w, WorksIn(p, r, k, w), script[k].kind \in {"counts", "alltoallv", "resolve"}, NEW b \in Ranks
  PROVE  CountBlock(r, b) = Traffic(k, r, b)
<1>1. ASSUME NEW t \in Locals, NEW u \in Locals
      PROVE  Counts(Global(r, u))[Global(b, t)] = M(k, Global(r, u), Global(b, t))
  <2>1. Global(b, t) \in World
    BY PartFacts
  <2>2. QED
    BY <2>1 DEF WorksIn, Published
<1>2. QED
  BY <1>1 DEF CountBlock, Traffic

\* A plan that covers what the rank sends leaves out nothing.
LEMMA CoversRefuses ==
  ASSUME NEW p, NEW r, NEW k, NEW w, WorksIn(p, r, k, w), script[k].kind \in {"counts", "alltoallv", "resolve"},
         script[k].derive \/ Covers(r, script[k].plan)
  PROVE  ~LeavesOut(k, r)
<1> SUFFICES ASSUME LeavesOut(k, r) PROVE FALSE
  OBVIOUS
<1>1. ~script[k].derive /\ script[k].plan.sparse
  BY DEF LeavesOut
<1>2. PICK q \in PartsOf(r), g \in World : script[k].m[q][g] # 0 /\ RankOf(g) \notin PeerRanks(script[k].plan, r)
  BY DEF LeavesOut
<1>3. r \in Ranks
  BY DEF WorksIn
<1>4. q \in World /\ RankOf(q) = r
  BY <1>3, PartFacts
<1>5. PICK u \in Locals : q = Global(r, u)
  BY <1>4, RankFacts
<1>6. Counts(q)[g] # 0
  BY <1>2, <1>5 DEF WorksIn, Published, M
<1>7. RankOf(g) \in Ranks /\ g \in PartsOf(RankOf(g))
  BY RankFacts
<1>8. RankOf(g) \in Reached(r)
  BY <1>6, <1>7 DEF Reached
<1>9. QED
  BY <1>1, <1>2, <1>8 DEF Covers

\* The numbers of the collectives of a verb.
LEMMA CollNumbers ==
  ASSUME script \in Scripts, NEW k \in 1..Len(script)
  PROVE  /\ k \in Nat /\ 2 * k - 1 \in 1..(2 * Len(script)) /\ 2 * k \in 1..(2 * Len(script)) /\ (2 * k - 1) - 1 = 2 * k - 2
         /\ HasColl(2 * k - 1) <=> EarlyColl(k)
         /\ HasColl(2 * k) <=> LateColl(k)
         /\ \A r, c : IsColl(2 * k - 1, r, c) <=> IsEarly(k, r, c)
         /\ \A r, c : IsColl(2 * k, r, c) <=> IsLate(k, r, c)
<1>1. PICK n \in Nat : n = Len(script)
  BY ScriptFacts
<1>2. k \in 1..n
  BY <1>1
<1>3. \A j \in 1..n : /\ (2 * k - 1 = 2 * j - 1 <=> j = k) /\ (2 * k = 2 * j <=> j = k)
                      /\ 2 * k - 1 # 2 * j /\ 2 * k # 2 * j - 1
  BY <1>2
<1>4. k \in Nat /\ 2 * k - 1 \in 1..(2 * n) /\ 2 * k \in 1..(2 * n) /\ (2 * k - 1) - 1 = 2 * k - 2
  BY <1>2
<1>5. (HasColl(2 * k - 1) <=> EarlyColl(k)) /\ (HasColl(2 * k) <=> LateColl(k))
  BY <1>1, <1>2, <1>3 DEF HasColl
<1>6. \A r, c : (IsColl(2 * k - 1, r, c) <=> IsEarly(k, r, c)) /\ (IsColl(2 * k, r, c) <=> IsLate(k, r, c))
  BY <1>1, <1>2, <1>3 DEF IsColl
<1>7. QED
  BY <1>1, <1>4, <1>5, <1>6

\* What Post does to the messages,
LEMMA PostEffect ==
  ASSUME IsMatrix(channel), IsMatrix(wants), NEW tag \in Tags, NEW r \in Ranks, NEW P, NEW data, NEW sends, NEW expects,
         Post(tag, r, P, data, sends, expects)
  PROVE  /\ \A u \in Tags, a \in Ranks, b \in Ranks : u # tag \/ a # r
              => channel'[u][a][b] = channel[u][a][b] /\ wants'[u][a][b] = wants[u][a][b]
         /\ \A b \in Ranks : channel'[tag][r][b] = IF b \in P \ {r} /\ sends[b] # 0
                               THEN Append(channel[tag][r][b], data[b]) ELSE channel[tag][r][b]
         /\ \A b \in Ranks : wants'[tag][r][b] = IF b \in P \ {r} THEN expects[b] ELSE 0
<1> DEFINE e == [b \in Ranks |-> IF b \in P \ {r} /\ sends[b] # 0 THEN Append(channel[tag][r][b], data[b]) ELSE channel[tag][r][b]]
           f == [a \in Ranks |-> IF a \in P \ {r} THEN expects[a] ELSE 0]
<1>1. channel' = Put(channel, tag, r, e) /\ wants' = Put(wants, tag, r, f)
  BY DEF Post, Put
<1>2. IsLine(e) /\ IsLine(f)
  BY DEF IsLine
<1>3. /\ \A b \in Ranks : e[b] = IF b \in P \ {r} /\ sends[b] # 0 THEN Append(channel[tag][r][b], data[b]) ELSE channel[tag][r][b]
      /\ \A b \in Ranks : f[b] = IF b \in P \ {r} THEN expects[b] ELSE 0
  OBVIOUS
<1> HIDE DEF e, f
<1>4. \A u \in Tags, a \in Ranks : /\ channel'[u][a] = IF u = tag /\ a = r THEN e ELSE channel[u][a]
                                   /\ wants'[u][a] = IF u = tag /\ a = r THEN f ELSE wants[u][a]
  BY <1>1, <1>2, PutLine
<1>5. QED
  BY <1>3, <1>4

\* and what Receive does.
LEMMA ReceiveEffect ==
  ASSUME IsMatrix(channel), IsMatrix(wants), NEW tag \in Tags, NEW r \in Ranks, Receive(tag, r)
  PROVE  /\ \A u \in Tags, a \in Ranks, b \in Ranks : u # tag \/ b # r => channel'[u][a][b] = channel[u][a][b]
         /\ \A u \in Tags, a \in Ranks, b \in Ranks : u # tag \/ a # r => wants'[u][a][b] = wants[u][a][b]
         /\ \A a \in Ranks : channel'[tag][a][r] = IF a \in Awaited(tag, r) THEN Tail(channel[tag][a][r]) ELSE channel[tag][a][r]
         /\ \A a \in Ranks : wants'[tag][r][a] = 0
<1> DEFINE f == [a \in Ranks |-> 0]
           L(a) == IF a \in Awaited(tag, r) THEN [channel[tag][a] EXCEPT ![r] = Tail(@)] ELSE channel[tag][a]
<1>1. channel' = [channel EXCEPT ![tag] = [a \in Ranks |-> L(a)]] /\ wants' = Put(wants, tag, r, f)
  BY DEF Receive, Put
<1>2. IsLine(f)
  BY DEF IsLine
<1>3. \A u \in Tags, a \in Ranks : wants'[u][a] = IF u = tag /\ a = r THEN f ELSE wants[u][a]
  BY <1>1, <1>2, PutLine
<1>4. channel = [u \in Tags |-> channel[u]] /\ \A u \in Tags, a \in Ranks : channel[u][a] = [b \in Ranks |-> channel[u][a][b]]
  BY DEF IsMatrix, IsLine
<1>5. ASSUME NEW a \in Ranks, NEW b \in Ranks
      PROVE  L(a)[b] = IF a \in Awaited(tag, r) /\ b = r THEN Tail(channel[tag][a][r]) ELSE channel[tag][a][b]
  BY <1>4
<1> HIDE DEF L
<1>6. \A u \in Tags : channel'[u] = IF u = tag THEN [a \in Ranks |-> L(a)] ELSE channel[u]
  BY <1>1, <1>4
<1>7. \A u \in Tags, a \in Ranks : channel'[u][a] = IF u = tag THEN L(a) ELSE channel[u][a]
  BY <1>6
<1>8. /\ \A u \in Tags, a \in Ranks, b \in Ranks : u # tag \/ b # r => channel'[u][a][b] = channel[u][a][b]
      /\ \A a \in Ranks : channel'[tag][a][r] = IF a \in Awaited(tag, r) THEN Tail(channel[tag][a][r]) ELSE channel[tag][a][r]
  BY <1>5, <1>7
<1>9. QED
  BY <1>3, <1>8

\* Posting the messages of verb k.
LEMMA PostLinks ==
  ASSUME script' = script, script \in Scripts, NEW r \in Ranks, NEW k \in 1..Len(script), NEW s, NEW c, NEW t, NEW d,
         NEW tag \in Tags, NEW P, NEW data, NEW sends, NEW expects, Post(tag, r, P, data, sends, expects),
         IsMatrix(channel), IsMatrix(wants),
         SentTo(tag, k, s, c) = k - 1, SentTo(tag, k, t, d) = k, HadTo(tag, k, s, c) = k - 1, HadTo(tag, k, t, d) = k - 1,
         NEW b \in Ranks \ {r}, Sends(tag, k, r, b) <=> b \in P /\ sends[b] # 0,
         Sends(tag, k, r, b) => IsMessage(tag, k, r, b, data[b]),
         (IF b \in P THEN expects[b] ELSE 0) = (IF Sends(tag, k, b, r) THEN SizeOf(tag, k, b, r) ELSE 0),
         NEW x, NEW y, NEW z, CallFits(b, x, y, z)
  PROVE  /\ LinkFits(tag, r, b, k, s, c, x, y, z) => LinkFits(tag, r, b, k, t, d, x, y, z)'
         /\ LinkFits(tag, b, r, x, y, z, k, s, c) => LinkFits(tag, b, r, x, y, z, k, t, d)'
<1>1. HadTo(tag, x, y, z) \in 0..Len(script) /\ k \in Nat
  BY CountsInRange, ScriptFacts
<1>2. /\ channel'[tag][b][r] = channel[tag][b][r] /\ wants'[tag][b][r] = wants[tag][b][r]
      /\ channel'[tag][r][b] = IF b \in P \ {r} /\ sends[b] # 0 THEN Append(channel[tag][r][b], data[b]) ELSE channel[tag][r][b]
      /\ wants'[tag][r][b] = IF b \in P \ {r} THEN expects[b] ELSE 0
  BY PostEffect
<1>3. ASSUME LinkFits(tag, r, b, k, s, c, x, y, z) PROVE LinkFits(tag, r, b, k, t, d, x, y, z)'
  <2>1. /\ Flows(channel[tag][r][b], tag, r, b, k - 1, HadTo(tag, x, y, z))
        /\ wants[tag][b][r] = Awaiting(tag, r, b, x, y, z)
    BY <1>3, LinkIs
  <2>2. IF Sends(tag, k, r, b) THEN \E msg : channel'[tag][r][b] = Append(channel[tag][r][b], msg) /\ IsMessage(tag, k, r, b, msg)
                               ELSE channel'[tag][r][b] = channel[tag][r][b]
    BY <1>2
  <2>3. \A new : new = channel'[tag][r][b] => Flows(new, tag, r, b, k, HadTo(tag, x, y, z))
    BY <1>1, <2>1, <2>2, FlowPost
  <2>4. QED
    BY <1>2, <2>1, <2>3, LinkNext
<1>4. ASSUME LinkFits(tag, b, r, x, y, z, k, s, c) PROVE LinkFits(tag, b, r, x, y, z, k, t, d)'
  <2>1. Flows(channel[tag][b][r], tag, b, r, SentTo(tag, x, y, z), k - 1)
    BY <1>4, LinkIs
  <2>2. k # k - 1
    BY <1>1
  <2>3. wants'[tag][r][b] = Awaiting(tag, b, r, k, t, d)
    BY <1>2, <2>2 DEF Awaiting
  <2>4. QED
    BY <1>2, <2>1, <2>3, LinkNext
<1>5. QED
  BY <1>3, <1>4

\* A message that is awaited is one of verb k; the receive has its length.
LEMMA AwaitedIs ==
  ASSUME script \in Scripts, NEW r \in Ranks, NEW k \in 1..Len(script), NEW s, NEW c, NEW tag \in Tags,
         SentTo(tag, k, s, c) = k, HadTo(tag, k, s, c) = k - 1, NEW b \in Ranks \ {r}, NEW x, NEW y, NEW z,
         LinkFits(tag, b, r, x, y, z, k, s, c)
  PROVE  /\ b \in Awaited(tag, r) <=> Sends(tag, k, b, r)
         /\ Sends(tag, k, b, r) => wants[tag][r][b] = SizeOf(tag, k, b, r)
<1>1. k \in Nat
  BY ScriptFacts
<1>2. wants[tag][r][b] = Awaiting(tag, b, r, k, s, c)
  BY LinkIs
<1>3. Awaiting(tag, b, r, k, s, c) = IF Sends(tag, k, b, r) THEN SizeOf(tag, k, b, r) ELSE 0
  BY <1>1 DEF Awaiting
<1>4. Sends(tag, k, b, r) => SizeOf(tag, k, b, r) # 0
  BY Sizes DEF Sends, SizeOf
<1>5. QED
  BY <1>2, <1>3, <1>4 DEF Awaited

\* Receiving the messages of verb k.
LEMMA LandLinks ==
  ASSUME script' = script, script \in Scripts, NEW r \in Ranks, NEW k \in 1..Len(script), NEW s, NEW c, NEW t, NEW d,
         NEW tag \in Tags, Landed(tag, r), Receive(tag, r), IsMatrix(channel), IsMatrix(wants), wants[tag][r][r] = 0,
         SentTo(tag, k, s, c) = k, SentTo(tag, k, t, d) = k, HadTo(tag, k, s, c) = k - 1, HadTo(tag, k, t, d) = k,
         NEW b \in Ranks \ {r}, NEW x, NEW y, NEW z, CallFits(b, x, y, z)
  PROVE  /\ LinkFits(tag, r, b, k, s, c, x, y, z) => LinkFits(tag, r, b, k, t, d, x, y, z)'
         /\ LinkFits(tag, b, r, x, y, z, k, s, c) => LinkFits(tag, b, r, x, y, z, k, t, d)'
         /\ LinkFits(tag, b, r, x, y, z, k, s, c) /\ Sends(tag, k, b, r) => IsMessage(tag, k, b, r, Message(tag, b, r))
<1>1. SentTo(tag, x, y, z) \in 0..Len(script) /\ k \in Nat
  BY CountsInRange, ScriptFacts
<1>2. /\ channel'[tag][r][b] = channel[tag][r][b] /\ wants'[tag][b][r] = wants[tag][b][r]
      /\ channel'[tag][b][r] = IF b \in Awaited(tag, r) THEN Tail(channel[tag][b][r]) ELSE channel[tag][b][r]
      /\ wants'[tag][r][b] = 0
  BY ReceiveEffect
<1>3. ASSUME LinkFits(tag, r, b, k, s, c, x, y, z) PROVE LinkFits(tag, r, b, k, t, d, x, y, z)'
  BY <1>2, <1>3, LinkIs, LinkNext
<1>4. ASSUME LinkFits(tag, b, r, x, y, z, k, s, c)
      PROVE  /\ LinkFits(tag, b, r, x, y, z, k, t, d)'
             /\ Sends(tag, k, b, r) => IsMessage(tag, k, b, r, Message(tag, b, r))
  <2>1. Flows(channel[tag][b][r], tag, b, r, SentTo(tag, x, y, z), k - 1)
    BY <1>4, LinkIs
  <2>2. b \in Awaited(tag, r) <=> Sends(tag, k, b, r)
    BY <1>4, AwaitedIs
  <2>3. b \in Awaited(tag, r) => channel[tag][b][r] # <<>>
    BY DEF Landed
  <2>4. /\ Sends(tag, k, b, r) => /\ IsMessage(tag, k, b, r, Head(channel[tag][b][r]))
                                  /\ Flows(Tail(channel[tag][b][r]), tag, b, r, SentTo(tag, x, y, z), k)
        /\ ~Sends(tag, k, b, r) => Flows(channel[tag][b][r], tag, b, r, SentTo(tag, x, y, z), k)
    BY <1>1, <2>1, <2>2, <2>3, FlowLand
  <2>5. Flows(channel'[tag][b][r], tag, b, r, SentTo(tag, x, y, z), k)
    BY <1>2, <2>2, <2>4
  <2>6. Awaiting(tag, b, r, k, t, d) = 0
    BY DEF Awaiting
  <2>7. QED
    BY <1>2, <2>4, <2>5, <2>6, LinkNext DEF Message
<1>5. QED
  BY <1>3, <1>4

\* Every rank is somewhere.
LEMMA Here ==
  ASSUME WireInv, NEW b \in Ranks
  PROVE  \E x, y, z : At(b, x, y, z) /\ CallFits(b, x, y, z) /\ CallsAt(b, x, y, z)
<1>1. At(b, Cur(b), Stage(b), call[b])
  BY DEF At
<1>2. QED
  BY <1>1 DEF WireInv, RankInv, RankFits, CallsFit

------------------------------------------------------------------------------
(***************************************************************************)
(* The count round                                                         *)
(***************************************************************************)

\* The peers under a plan that the ranks agreed on.
LEMMA AgreedPeers ==
  ASSUME script \in Scripts, NEW k \in 1..Len(script), NEW r \in Ranks, script[k].kind # "alltoallv" \/ ~script[k].derive
  PROVE  /\ ~script[k].derive /\ PlanIn(k, r) = script[k].plan /\ PeersIn(k, r) = PeerRanks(script[k].plan, r)
         /\ PeersIn(k, r) \in SUBSET Ranks
<1>1. ~script[k].derive
  BY VerbOf
<1>2. PeersIn(k, r) \in SUBSET Ranks
  BY PeersMutual
<1>3. QED
  BY <1>1, <1>2 DEF PlanIn, PeersIn

\* Posting the counts of the rank, or joining the collective of the counts,
LEMMA PostCountsWire ==
  ASSUME WireInv, Types, JobInv, NEW p \in World, PostCounts(p)
  PROVE  WireInv'
<1>1. /\ IsLead(p) /\ phase[p] = "body" /\ verb[p] > 0 /\ window[p] = 1 /\ Kind(p) \in Counting
      /\ ControlTypes /\ MpiTypes /\ CallsMpi(p)
  BY DEF PostCounts, InWindow, Types, Counting, CallsMpi
<1>2. Syncs[Kind(p)] \in {2, 4}
  BY <1>1, VerbFacts
<1>3. PICK r \in Ranks, k \in 1..Len(script) : WorksIn(p, r, k, 1)
  BY <1>1, <1>2, LeadWorks
<1>4. /\ RankOf(p) = r /\ verb[p] = k /\ Kind(p) = script[k].kind /\ Plan(p) = script[k].plan
      /\ p \in PartsOf(r) /\ At(r, k, 1, call[r]) /\ CallsAt(r, k, 1, call[r])
  BY <1>3 DEF WorksIn
<1>5. script[k].kind \in Counting /\ script[k].kind \in {"counts", "alltoallv", "resolve"} /\ script \in Scripts
  BY <1>1, <1>4 DEF Counting, ControlTypes
<1>6. /\ ~script[k].derive /\ PlanIn(k, r) = script[k].plan /\ PeersIn(k, r) = PeerRanks(script[k].plan, r)
      /\ PeersIn(k, r) \in SUBSET Ranks
  BY <1>5, AgreedPeers DEF Counting
<1> DEFINE P == PeersIn(k, r)
           whole == [b \in Ranks |-> S * S]
           data == [b \in Ranks |-> CountBlock(r, b)]
           sparse == script[k].plan.sparse
<1>7. /\ call[r] = "none" /\ Covers(r, script[k].plan)
      /\ peers' = [peers EXCEPT ![r] = P] /\ call' = [call EXCEPT ![r] = "counts"]
      /\ sparse => /\ Post("count", r, P, data, whole, whole) /\ UNCHANGED colls
                   /\ countsRecv' = IF r \in P THEN [countsRecv EXCEPT ![r][r] = CountBlock(r, r)] ELSE countsRecv
      /\ ~sparse => Collective(r, "alltoall", data) /\ UNCHANGED <<channel, wants, countsRecv>>
      /\ UNCHANGED <<wirePlan, packOff, sendSeg, baseRecv, recvSeg, stageSend, stageRecv, red, results>>
  BY <1>4, <1>6 DEF PostCounts
<1>8. \A b \in Ranks : data[b] = Traffic(k, r, b) /\ whole[b] = S * S
  BY <1>3, <1>5, CountBlockIs
<1> HIDE DEF data, whole
<1>9. ~LeavesOut(k, r)
  BY <1>3, <1>5, <1>7, CoversRefuses
<1>10. call'[r] = "counts" /\ peers'[r] = P /\ \A b \in Ranks \ {r} : call'[b] = call[b] /\ peers'[b] = peers[b]
  BY <1>1, <1>7 DEF MpiTypes
<1>11. /\ OnlyMoves(p) /\ script' = script /\ aborted' = aborted /\ verb' = verb /\ window' = window
       /\ At(r, k, 1, "counts")' /\ Refused(r)'
  BY <1>1, <1>3, <1>9, <1>10, AfterCall
<1>12. /\ OnRanks(countsRecv)' /\ \A b \in Ranks : OnRanks(countsRecv'[b])
       /\ \A b \in Ranks \ {r} : countsRecv'[b] = countsRecv[b]
       /\ sparse /\ r \in P => countsRecv'[r][r] = Traffic(k, r, r)
  <2>1. OnRanks(countsRecv) /\ \A b \in Ranks : OnRanks(countsRecv[b])
    BY DEF WireInv, Shapes
  <2>2. CountBlock(r, r) = Traffic(k, r, r)
    BY <1>3, <1>5, CountBlockIs
  <2>3. CASE sparse /\ r \in P
    <3>1. countsRecv' = [countsRecv EXCEPT ![r][r] = Traffic(k, r, r)]
      BY <1>7, <2>2, <2>3
    <3>2. QED
      BY <2>1, <3>1 DEF OnRanks
  <2>4. CASE ~(sparse /\ r \in P)
    <3>1. countsRecv' = countsRecv
      BY <1>7, <2>4
    <3>2. QED
      BY <2>1, <2>4, <3>1 DEF OnRanks
  <2>5. QED
    BY <2>3, <2>4
<1>13. /\ OnRanks(colls)' /\ \A b \in Ranks \ {r} : colls'[b] = colls[b]
       /\ sparse => colls'[r] = colls[r]
       /\ ~sparse => colls'[r] = Append(colls[r], [op |-> "alltoall", data |-> data])
  <2>1. OnRanks(colls)
    BY DEF WireInv, Shapes
  <2>2. QED
    BY <1>7, <2>1 DEF OnRanks, Collective
<1>14. Shapes'
  BY <1>7, <1>12, <1>13 DEF WireInv, Shapes, OnRanks, OnWorld, results
<1>15. IsMatrix(channel) /\ IsMatrix(wants)
  BY <1>1 DEF MpiTypes
<1>16. ASSUME NEW u \in Tags, NEW a \in Ranks, NEW b \in Ranks, u # "count" \/ a # r
       PROVE  channel'[u][a][b] = channel[u][a][b] /\ wants'[u][a][b] = wants[u][a][b]
  <2>1. CASE sparse
    BY <1>7, <1>15, <1>16, <2>1, PostEffect DEF Tags
  <2>2. CASE ~sparse
    BY <1>7, <2>2
  <2>3. QED
    BY <2>1, <2>2
<1>17. Elsewhere(r)
  BY <1>7, <1>10, <1>12, <1>13, <1>16 DEF Elsewhere
<1>18. RankFits(r, k, 1, "counts")'
  <2>1. k \in 0..Len(script') /\ k > 0
    BY <1>11
  <2>2. /\ script'[k] = script[k] /\ PeersIn(k, r)' = P /\ Traffic(k, r, r)' = Traffic(k, r, r)
    BY <1>11, StaticStays
  <2>3. CallFits(r, k, 1, "counts")'
    BY <1>5, <2>1, <2>2 DEF CallFits, Counting
  <2>4. PlansFit(r, k, 1, "counts")'
    BY <1>10, <2>2 DEF PlansFit
  <2>5. CountsFit(r, k, 1, "counts")'
    BY <1>12, <2>2 DEF CountsFit, CountsReady
  <2>6. SendFits(r, k, 1)' /\ RecvFits(r, k, 1, "counts")' /\ LegsFit(r, k, 1, "counts")' /\ RedFits(r, k, 1)'
    BY DEF SendFits, RecvFits, RecvReady, LegsFit, LegReady, RedFits
  <2>7. QED
    BY <2>3, <2>4, <2>5, <2>6 DEF RankFits
<1>19. /\ SentTo("count", k, 1, "none") = k - 1 /\ SentTo("count", k, 1, "counts") = k
       /\ SentTo("payload", k, 1, "none") = k - 1 /\ SentTo("payload", k, 1, "counts") = k - 1
       /\ \A tag : HadTo(tag, k, 1, "none") = k - 1 /\ HadTo(tag, k, 1, "counts") = k - 1
       /\ CalledTo(k, 1, "none") = 2 * k - 2 /\ CalledTo(k, 1, "counts") = 2 * k - 1
  BY DEF SentTo, HadTo, CalledTo
<1>20. CallsAt(r, k, 1, "counts")'
  <2>1. Calls(colls[r], r, (2 * k - 1) - 1)
    BY <1>4, <1>5, <1>7, <1>11, <1>19, CallsAreNext, CollNumbers
  <2>2. /\ HasColl(2 * k - 1) <=> ~sparse
        /\ \A c : IsColl(2 * k - 1, r, c) <=> IsEarly(k, r, c)
        /\ 2 * k - 1 \in 1..(2 * Len(script))
    BY <1>5, CollNumbers DEF EarlyColl, Counting
  <2>3. IF HasColl(2 * k - 1) THEN \E c : colls'[r] = Append(colls[r], c) /\ IsColl(2 * k - 1, r, c) ELSE colls'[r] = colls[r]
    <3>1. CASE sparse
      BY <1>13, <2>2, <3>1
    <3>2. CASE ~sparse
      <4>1. PICK c : c = [op |-> "alltoall", data |-> data]
        OBVIOUS
      <4>2. IsEarly(k, r, c)
        BY <1>8, <4>1 DEF IsEarly
      <4>3. QED
        BY <1>13, <2>2, <3>2, <4>1, <4>2
    <3>3. QED
      BY <3>1, <3>2
  <2>4. \A new : new = colls'[r] => Calls(new, r, 2 * k - 1)
    BY <1>5, <2>1, <2>2, <2>3, CallNext
  <2>5. QED
    BY <1>11, <1>19, <2>4, CallsAreNext
<1>21. ASSUME NEW tag \in Tags, NEW b \in Ranks \ {r}, NEW x, NEW y, NEW z, CallFits(b, x, y, z)
       PROVE  /\ LinkFits(tag, r, b, k, 1, "none", x, y, z) => LinkFits(tag, r, b, k, 1, "counts", x, y, z)'
              /\ LinkFits(tag, b, r, x, y, z, k, 1, "none") => LinkFits(tag, b, r, x, y, z, k, 1, "counts")'
  <2>1. CASE tag = "count" /\ sparse
    <3>1. b \in P <=> r \in PeersIn(k, b)
      BY <1>5, <1>6, PeersMutual
    <3>2. /\ Sends("count", k, r, b) <=> b \in P
          /\ Sends("count", k, b, r) <=> b \in P
      BY <1>5, <2>1, <3>1 DEF Sends, Counting
    <3>3. S * S # 0 /\ whole[b] = S * S /\ data[b] = Traffic(k, r, b)
      BY <1>8, Sizes
    <3>4. Sends("count", k, r, b) <=> b \in P /\ whole[b] # 0
      BY <3>2, <3>3
    <3>5. IsMessage("count", k, r, b, data[b]) /\ SizeOf("count", k, b, r) = whole[b]
      BY <3>3 DEF IsMessage, SizeOf
    <3>6. (IF b \in P THEN whole[b] ELSE 0) = (IF Sends("count", k, b, r) THEN SizeOf("count", k, b, r) ELSE 0)
      BY <3>2, <3>5
    <3>7. Post("count", r, P, data, whole, whole) /\ "count" \in Tags
      BY <1>7, <2>1
    <3>8. QED
      BY <1>5, <1>11, <1>15, <1>19, <1>21, <2>1, <3>4, <3>5, <3>6, <3>7, PostLinks
  <2>2. CASE ~(tag = "count" /\ sparse)
    <3>1. /\ channel'[tag][r][b] = channel[tag][r][b] /\ wants'[tag][r][b] = wants[tag][r][b]
          /\ channel'[tag][b][r] = channel[tag][b][r] /\ wants'[tag][b][r] = wants[tag][b][r]
      BY <1>7, <1>16, <2>2
    <3>2. tag = "count" => ~Sends(tag, k, r, b) /\ ~Sends(tag, k, b, r)
      BY <2>2 DEF Sends
    <3>3. /\ \/ SentTo(tag, k, 1, "counts") = SentTo(tag, k, 1, "none")
             \/ SentTo(tag, k, 1, "none") = k - 1 /\ SentTo(tag, k, 1, "counts") = k /\ ~Sends(tag, k, r, b)
          /\ HadTo(tag, k, 1, "counts") = HadTo(tag, k, 1, "none")
          /\ Sends(tag, k, b, r) => SentTo(tag, k, 1, "counts") = SentTo(tag, k, 1, "none")
      BY <1>19, <3>2 DEF Tags
    <3>4. QED
      BY <1>5, <1>11, <1>21, <3>1, <3>3, SilentLinks
  <2>3. QED
    BY <2>1, <2>2
<1>22. RankMoves(r, k, 1, "none", k, 1, "counts")
  BY <1>11, <1>18, <1>20, <1>21 DEF RankMoves
<1>23. UNCHANGED <<results, verb>> /\ (window'[p] = 0 => window[p] = 0) /\ At(r, k, 1, "none")
  BY <1>4, <1>7, <1>11
<1>24. QED
  BY <1>1, <1>4, <1>11, <1>14, <1>17, <1>22, <1>23, RankMove

\* When every rank has called the collective that r waits in, it is that of verb k.
LEMMA CalledHere ==
  ASSUME WireInv, script \in Scripts, NEW r \in Ranks, NEW j \in 1..(2 * Len(script)), HasColl(j), Calls(colls[r], r, j),
         Everybody(r), NEW a \in Ranks
  PROVE  IsColl(j, a, colls[a][Len(colls[r])])
<1>1. Len(colls[r]) = CollCount(j)
  BY DEF Calls
<1>2. Len(colls[a]) >= CollCount(j)
  BY <1>1 DEF Everybody
<1>3. PICK x, y, z : CallFits(a, x, y, z) /\ CallsAt(a, x, y, z)
  BY Here
<1>4. PICK n \in 0..(2 * Len(script)) : Calls(colls[a], a, n)
  <2>1. CalledTo(x, y, z) \in 0..(2 * Len(script))
    BY <1>3, CountsInRange
  <2>2. Calls(colls[a], a, CalledTo(x, y, z))
    BY <1>3 DEF CallsAt
  <2>3. QED
    BY <2>1, <2>2
<1>5. IsColl(j, a, colls[a][CollCount(j)])
  BY <1>2, <1>4, CalledByAll
<1>6. QED
  BY <1>1, <1>5

\* The counts of verb k that come in a message, with those that are there.
LEMMA CountsLanded ==
  ASSUME WireInv, MpiTypes, script \in Scripts, NEW r \in Ranks, NEW k \in 1..Len(script), NEW s, NEW c, At(r, k, s, c),
         SentTo("count", k, s, c) = k, HadTo("count", k, s, c) = k - 1, LandCounts(r),
         \A a \in PeersIn(k, r) : ~Sends("count", k, a, r) => countsRecv[r][a] = Traffic(k, a, r)
  PROVE  /\ \A a \in PeersIn(k, r) : countsRecv'[r][a] = Traffic(k, a, r)
         /\ OnRanks(countsRecv)' /\ \A b \in Ranks : OnRanks(countsRecv'[b])
         /\ \A b \in Ranks \ {r} : countsRecv'[b] = countsRecv[b]
<1>1. /\ Landed("count", r) /\ Receive("count", r) /\ "count" \in Tags
      /\ countsRecv' = [countsRecv EXCEPT ![r] = [a \in Ranks |->
                      IF a \in Awaited("count", r) THEN Message("count", a, r) ELSE countsRecv[r][a]]]
  BY DEF LandCounts, Tags
<1>2. OnRanks(countsRecv) /\ \A b \in Ranks : OnRanks(countsRecv[b])
  BY DEF WireInv, Shapes
<1>3. countsRecv'[r] = [a \in Ranks |-> IF a \in Awaited("count", r) THEN Message("count", a, r) ELSE countsRecv[r][a]]
  BY <1>1, <1>2 DEF OnRanks
<1>4. OnRanks(countsRecv)' /\ \A b \in Ranks \ {r} : countsRecv'[b] = countsRecv[b]
  BY <1>1, <1>2 DEF OnRanks
<1>5. \A b \in Ranks : OnRanks(countsRecv'[b])
  BY <1>2, <1>3, <1>4 DEF OnRanks
<1>6. IsMatrix(channel) /\ IsMatrix(wants) /\ wants["count"][r][r] = 0
  BY <1>1 DEF MpiTypes
<1>7. ASSUME NEW a \in PeersIn(k, r) PROVE countsRecv'[r][a] = Traffic(k, a, r)
  <2>1. a \in Ranks
    BY PeersMutual
  <2>2. CASE a = r
    <3>1. ~Sends("count", k, a, r) /\ a \notin Awaited("count", r)
      BY <1>6, <2>2 DEF Sends, Awaited
    <3>2. QED
      BY <1>3, <2>1, <3>1
  <2>3. CASE a # r
    <3>1. PICK x, y, z : At(a, x, y, z) /\ CallFits(a, x, y, z)
      BY <2>1, Here
    <3>2. LinkFits("count", a, r, x, y, z, k, s, c)
      BY <1>1, <2>1, <2>3, <3>1 DEF WireInv, MessagesFit
    <3>3. a \in Awaited("count", r) <=> Sends("count", k, a, r)
      BY <1>1, <2>1, <2>3, <3>2, AwaitedIs
    <3>4. ASSUME Sends("count", k, a, r) PROVE Message("count", a, r) = Traffic(k, a, r)
      <4>1. PICK m : m = SentTo("count", x, y, z)
        OBVIOUS
      <4>2. m \in 0..Len(script) /\ Flows(channel["count"][a][r], "count", a, r, m, k - 1)
        BY <3>1, <3>2, <4>1, CountsInRange, LinkIs
      <4>3. channel["count"][a][r] # <<>>
        BY <1>1, <3>3, <3>4 DEF Landed
      <4>4. IsMessage("count", k, a, r, Head(channel["count"][a][r]))
        BY <3>4, <4>2, <4>3, FlowLand
      <4>5. QED
        BY <4>4 DEF IsMessage, Message
    <3>5. QED
      BY <1>3, <2>1, <3>3, <3>4
  <2>4. QED
    BY <2>2, <2>3
<1>8. QED
  BY <1>4, <1>5, <1>7

\* the end of the window of the counts,
LEMMA EndCountWire ==
  ASSUME WireInv, Types, JobInv, NEW p \in World, EndCountWindow(p)
  PROVE  WireInv'
<1>1. /\ IsLead(p) /\ phase[p] = "body" /\ verb[p] > 0 /\ window[p] = 1 /\ Kind(p) \in Counting
      /\ ControlTypes /\ MpiTypes /\ EndsWindow(p)
  BY DEF EndCountWindow, InWindow, Types, Counting, EndsWindow
<1>2. Syncs[Kind(p)] \in {2, 4}
  BY <1>1, VerbFacts
<1>3. PICK r \in Ranks, k \in 1..Len(script) : WorksIn(p, r, k, 1)
  BY <1>1, <1>2, LeadWorks
<1>4. /\ RankOf(p) = r /\ verb[p] = k /\ Kind(p) = script[k].kind /\ Plan(p) = script[k].plan /\ p = LeadOf(r)
      /\ p \in PartsOf(r) /\ At(r, k, 1, call[r]) /\ CallsAt(r, k, 1, call[r]) /\ RankFits(r, k, 1, call[r]) /\ Refused(r)
  BY <1>3 DEF WorksIn
<1>5. script[k].kind \in Counting /\ script[k].kind \in {"counts", "alltoallv", "resolve"} /\ script \in Scripts
  BY <1>1, <1>4 DEF Counting, ControlTypes
<1>6. /\ ~script[k].derive /\ PlanIn(k, r) = script[k].plan /\ PeersIn(k, r) = PeerRanks(script[k].plan, r)
      /\ PeersIn(k, r) \in SUBSET Ranks
  BY <1>5, AgreedPeers DEF Counting
<1> DEFINE P == PeersIn(k, r)
           sparse == script[k].plan.sparse
<1>0. PICK s : s = IF script[k].kind = "counts" THEN 4 ELSE 2
  OBVIOUS
<1>7. /\ call[r] = "counts" /\ call' = [call EXCEPT ![r] = "none"]
      /\ ~sparse => /\ Everybody(r) /\ UNCHANGED <<channel, wants>>
                    /\ countsRecv' = [countsRecv EXCEPT ![r] = [a \in Ranks |-> From(a, r)[r]]]
      /\ sparse /\ script[k].kind = "counts" => LandCounts(r)
      /\ sparse /\ script[k].kind # "counts" => UNCHANGED <<channel, wants, countsRecv>>
      /\ script[k].kind = "resolve" => SizeStagingSend(r, peers[r])
      /\ script[k].kind # "resolve" => UNCHANGED <<packOff, sendSeg, stageSend>>
      /\ UNCHANGED <<peers, wirePlan, baseRecv, recvSeg, stageRecv, red, colls, results>>
  BY <1>4 DEF EndCountWindow
<1>8. script[k].kind \in {"counts", "resolve"} /\ s = (IF 1 + 1 = Syncs[script[k].kind] THEN 4 ELSE 1 + 1)
  BY <1>0, <1>5, KindsAre DEF Counting
<1>9. peers[r] = P /\ CallFits(r, k, 1, "counts") /\ CountsFit(r, k, 1, "counts") /\ ~LeavesOut(k, r)
  BY <1>4, <1>5, <1>7 DEF RankFits, PlansFit, Refused
<1>10. call'[r] = "none" /\ \A b \in Ranks \ {r} : call'[b] = call[b]
  BY <1>1, <1>7 DEF MpiTypes
<1>11. /\ OnlyMoves(p) /\ script' = script /\ aborted' = aborted /\ verb' = verb /\ window'[p] # 0
       /\ At(r, k, s, "none")' /\ Refused(r)'
       /\ s = 2 => \A u \in Locals : ~Passed2(Global(r, u), k)'
  BY <1>1, <1>3, <1>8, <1>9, <1>10, AfterWindow
<1>12. /\ SentTo("count", k, 1, "counts") = k /\ SentTo("count", k, s, "none") = k
       /\ SentTo("payload", k, 1, "counts") = k - 1 /\ SentTo("payload", k, s, "none") = (IF s = 4 THEN k ELSE k - 1)
       /\ \A tag : HadTo(tag, k, 1, "counts") = k - 1 /\ HadTo(tag, k, s, "none") = (IF s = 4 THEN k ELSE k - 1)
       /\ CalledTo(k, 1, "counts") = 2 * k - 1 /\ CalledTo(k, s, "none") = (IF s = 4 THEN 2 * k ELSE 2 * k - 1)
       /\ s \in {2, 4} /\ (s = 4 <=> script[k].kind = "counts")
  BY <1>0, <1>8 DEF SentTo, HadTo, CalledTo
<1>13. Calls(colls[r], r, 2 * k - 1)
  BY <1>4, <1>7, <1>11, <1>12, CallsAreNext
<1>14. sparse /\ r \in P => countsRecv[r][r] = Traffic(k, r, r)
  BY <1>5, <1>9 DEF CountsFit, CountsReady
<1>15. /\ OnRanks(countsRecv)' /\ \A b \in Ranks : OnRanks(countsRecv'[b])
       /\ \A b \in Ranks \ {r} : countsRecv'[b] = countsRecv[b]
       /\ \A a \in P : ~sparse \/ a = r \/ s = 4 => countsRecv'[r][a] = Traffic(k, a, r)
  <2>1. OnRanks(countsRecv) /\ \A b \in Ranks : OnRanks(countsRecv[b])
    BY DEF WireInv, Shapes
  <2>2. CASE ~sparse
    <3>1. \A b \in Ranks : countsRecv'[b] = IF b = r THEN [a \in Ranks |-> From(a, r)[r]] ELSE countsRecv[b]
      BY <1>7, <2>1, <2>2 DEF OnRanks
    <3>2. OnRanks(countsRecv)'
      BY <1>7, <2>1, <2>2 DEF OnRanks
    <3>3. ASSUME NEW a \in Ranks PROVE From(a, r)[r] = Traffic(k, a, r)
      <4>1. HasColl(2 * k - 1) /\ 2 * k - 1 \in 1..(2 * Len(script))
        BY <1>5, <2>2, CollNumbers DEF EarlyColl, Counting
      <4>2. IsColl(2 * k - 1, a, colls[a][Len(colls[r])])
        BY <1>5, <1>7, <1>13, <2>2, <4>1, CalledHere
      <4>3. IsEarly(k, a, colls[a][Len(colls[r])])
        BY <1>5, <4>2, CollNumbers
      <4>4. QED
        BY <4>3 DEF IsEarly, From
    <3>4. \A a \in P : a \in Ranks
      BY <1>6
    <3>5. \A b \in Ranks : OnRanks(countsRecv'[b])
      BY <2>1, <3>1 DEF OnRanks
    <3>6. QED
      BY <3>1, <3>2, <3>3, <3>4, <3>5
  <2>3. CASE sparse /\ s = 4
    <3>1. ASSUME NEW a \in P, ~Sends("count", k, a, r) PROVE a = r
      <4>1. a \in Ranks /\ r \in PeersIn(k, a)
        BY <1>5, <1>6, PeersMutual
      <4>2. QED
        BY <1>5, <2>3, <3>1, <4>1 DEF Sends, Counting
    <3>2. \A a \in P : ~Sends("count", k, a, r) => countsRecv[r][a] = Traffic(k, a, r)
      BY <1>14, <2>3, <3>1
    <3>3. LandCounts(r) /\ At(r, k, 1, "counts")
      BY <1>4, <1>7, <1>12, <2>3
    <3>4. QED
      BY <1>1, <1>5, <1>12, <3>2, <3>3, CountsLanded
  <2>4. CASE sparse /\ s = 2
    <3>1. countsRecv' = countsRecv
      BY <1>7, <1>12, <2>4
    <3>2. QED
      BY <1>14, <2>1, <2>4, <3>1 DEF OnRanks
  <2>5. QED
    BY <1>12, <2>2, <2>3, <2>4
<1>16. /\ OnRanks(packOff)' /\ OnRanks(sendSeg)' /\ OnRanks(stageSend)' /\ IsSequence(stageSend'[r])
       /\ \A b \in Ranks \ {r} : packOff'[b] = packOff[b] /\ sendSeg'[b] = sendSeg[b] /\ stageSend'[b] = stageSend[b]
       /\ s = 2 => /\ sendSeg'[r] = Segment(P, Col(SendGrid(k, r)))
                   /\ \A u \in Locals, g \in OfRanks(P) : packOff'[r][u][g] = CellAt(P, SendGrid(k, r), g, u)
                   /\ Start(P, Col(SendGrid(k, r)), R * S) <= Len(stageSend'[r])
  <2>1. CASE s = 4
    BY <1>7, <1>8, <1>12, <2>1 DEF WireInv, Shapes, OnRanks
  <2>2. CASE s = 2
    <3>1. SizeStagingSend(r, P) /\ Shapes
      BY <1>7, <1>8, <1>9, <1>12, <2>2 DEF WireInv
    <3>2. \A u \in Locals, g \in World : Counts(Global(r, u))[g] = M(k, Global(r, u), g)
      BY <1>3, <1>5 DEF WorksIn, Published
    <3>3. QED
      BY <1>5, <1>6, <2>2, <3>1, <3>2, SendLaidOut
  <2>3. QED
    BY <1>12, <2>1, <2>2
<1>17. Shapes'
  <2>1. \A b \in Ranks : IsSequence(stageSend'[b])
    BY <1>16 DEF WireInv, Shapes
  <2>2. QED
    BY <1>7, <1>15, <1>16, <2>1 DEF WireInv, Shapes, OnRanks, OnWorld, results
<1>18. IsMatrix(channel) /\ IsMatrix(wants) /\ wants["count"][r][r] = 0 /\ "count" \in Tags
  BY <1>1 DEF MpiTypes, Tags
<1>19. CASE sparse /\ s = 4
  <2>1. LandCounts(r)
    BY <1>7, <1>12, <1>19
  <2>2. Landed("count", r) /\ Receive("count", r)
    BY <2>1 DEF LandCounts
  <2>3. /\ \A u \in Tags, a \in Ranks, b \in Ranks : u # "count" \/ b # r => channel'[u][a][b] = channel[u][a][b]
        /\ \A u \in Tags, a \in Ranks, b \in Ranks : u # "count" \/ a # r => wants'[u][a][b] = wants[u][a][b]
    BY <1>18, <2>2, ReceiveEffect
  <2>4. Elsewhere(r)
    BY <1>7, <1>10, <1>15, <1>16, <2>3 DEF Elsewhere
  <2>5. RankFits(r, k, s, "none")'
    <3>1. script'[k] = script[k] /\ PeersIn(k, r)' = P /\ (\A a : Traffic(k, a, r)' = Traffic(k, a, r)) /\ Len(script') = Len(script)
      BY <1>11, StaticStays
    <3>2. CallFits(r, k, s, "none")' /\ PlansFit(r, k, s, "none")'
      BY <1>7, <1>8, <1>9, <1>12, <3>1 DEF CallFits, PlansFit
    <3>3. CountsFit(r, k, s, "none")'
      BY <1>15, <1>19, <3>1 DEF CountsFit, CountsReady
    <3>4. SendFits(r, k, s)' /\ RecvFits(r, k, s, "none")' /\ LegsFit(r, k, s, "none")' /\ RedFits(r, k, s)'
      BY <1>12, <1>19, <3>1 DEF SendFits, RecvFits, RecvReady, LegsFit, LegReady, RedFits, Moving, Reducing
    <3>5. QED
      BY <3>2, <3>3, <3>4 DEF RankFits
  <2>6. CallsAt(r, k, s, "none")'
    <3>1. ~HasColl(2 * k) /\ (2 * k) - 1 = 2 * k - 1 /\ 2 * k \in 1..(2 * Len(script))
      BY <1>5, <1>12, <1>19, CollNumbers DEF LateColl
    <3>2. Calls(colls[r], r, 2 * k)
      BY <1>5, <1>13, <3>1, CallNext
    <3>3. QED
      BY <1>7, <1>11, <1>12, <1>19, <3>2, CallsAreNext
  <2>7. ASSUME NEW tag \in Tags, NEW b \in Ranks \ {r}, NEW x, NEW y, NEW z, CallFits(b, x, y, z)
        PROVE  /\ LinkFits(tag, r, b, k, 1, "counts", x, y, z) => LinkFits(tag, r, b, k, s, "none", x, y, z)'
               /\ LinkFits(tag, b, r, x, y, z, k, 1, "counts") => LinkFits(tag, b, r, x, y, z, k, s, "none")'
    <3>1. CASE tag = "count"
      BY <1>5, <1>11, <1>12, <1>18, <1>19, <2>2, <2>7, <3>1, LandLinks
    <3>2. CASE tag = "payload"
      <4>1. ~Sends(tag, k, r, b) /\ ~Sends(tag, k, b, r)
        BY <1>12, <1>19, <3>2 DEF Sends
      <4>2. /\ channel'[tag][r][b] = channel[tag][r][b] /\ wants'[tag][r][b] = wants[tag][r][b]
            /\ channel'[tag][b][r] = channel[tag][b][r] /\ wants'[tag][b][r] = wants[tag][b][r]
        BY <2>3, <3>2
      <4>3. /\ SentTo(tag, k, 1, "counts") = k - 1 /\ SentTo(tag, k, s, "none") = k
            /\ HadTo(tag, k, 1, "counts") = k - 1 /\ HadTo(tag, k, s, "none") = k
        BY <1>12, <1>19, <3>2
      <4>4. QED
        BY <1>5, <1>11, <2>7, <4>1, <4>2, <4>3, SilentLinks
    <3>3. QED
      BY <3>1, <3>2 DEF Tags
  <2>8. RankMoves(r, k, 1, "counts", k, s, "none")
    BY <1>11, <2>5, <2>6, <2>7 DEF RankMoves
  <2>9. UNCHANGED <<results, verb>> /\ (window'[p] = 0 => window[p] = 0) /\ At(r, k, 1, "counts")
    BY <1>4, <1>7, <1>11
  <2>10. QED
    BY <1>1, <1>4, <1>11, <1>17, <2>4, <2>8, <2>9, RankMove
<1>20. CASE ~(sparse /\ s = 4)
  <2>1. UNCHANGED <<channel, wants>>
    BY <1>7, <1>8, <1>12, <1>20
  <2>2. Elsewhere(r)
    BY <1>7, <1>10, <1>15, <1>16, <2>1 DEF Elsewhere
  <2>3. RankFits(r, k, s, "none")'
    <3>1. /\ script'[k] = script[k] /\ PeersIn(k, r)' = P /\ (\A a : Traffic(k, a, r)' = Traffic(k, a, r)) /\ Len(script') = Len(script)
          /\ SendGrid(k, r)' = SendGrid(k, r)
      BY <1>11, StaticStays
    <3>2. CallFits(r, k, s, "none")' /\ PlansFit(r, k, s, "none")'
      BY <1>7, <1>8, <1>9, <1>12, <3>1 DEF CallFits, PlansFit
    <3>3. CountsFit(r, k, s, "none")'
      BY <1>12, <1>15, <1>20, <3>1 DEF CountsFit, CountsReady
    <3>4. SendFits(r, k, s)'
      BY <1>11, <1>12, <1>16, <3>1 DEF SendFits
    <3>5. RecvFits(r, k, s, "none")' /\ LegsFit(r, k, s, "none")' /\ RedFits(r, k, s)'
      BY <1>8, <1>12, <3>1 DEF RecvFits, RecvReady, LegsFit, LegReady, RedFits, Moving, Reducing
    <3>6. QED
      BY <3>2, <3>3, <3>4, <3>5 DEF RankFits
  <2>4. CallsAt(r, k, s, "none")'
    <3>1. CASE s = 4
      <4>1. ~HasColl(2 * k) /\ (2 * k) - 1 = 2 * k - 1 /\ 2 * k \in 1..(2 * Len(script))
        BY <1>5, <1>12, <3>1, CollNumbers DEF LateColl
      <4>2. Calls(colls[r], r, 2 * k)
        BY <1>5, <1>13, <4>1, CallNext
      <4>3. QED
        BY <1>7, <1>11, <1>12, <3>1, <4>2, CallsAreNext
    <3>2. CASE s = 2
      BY <1>7, <1>11, <1>12, <1>13, <3>2, CallsAreNext
    <3>3. QED
      BY <1>12, <3>1, <3>2
  <2>5. ASSUME NEW tag \in Tags, NEW b \in Ranks \ {r}, NEW x, NEW y, NEW z, CallFits(b, x, y, z)
        PROVE  /\ LinkFits(tag, r, b, k, 1, "counts", x, y, z) => LinkFits(tag, r, b, k, s, "none", x, y, z)'
               /\ LinkFits(tag, b, r, x, y, z, k, 1, "counts") => LinkFits(tag, b, r, x, y, z, k, s, "none")'
    <3>1. s = 4 => ~Sends(tag, k, r, b) /\ ~Sends(tag, k, b, r)
      BY <1>12, <1>20 DEF Sends, Tags
    <3>2. /\ \/ SentTo(tag, k, s, "none") = SentTo(tag, k, 1, "counts")
             \/ SentTo(tag, k, 1, "counts") = k - 1 /\ SentTo(tag, k, s, "none") = k /\ ~Sends(tag, k, r, b)
          /\ \/ HadTo(tag, k, s, "none") = HadTo(tag, k, 1, "counts")
             \/ HadTo(tag, k, 1, "counts") = k - 1 /\ HadTo(tag, k, s, "none") = k /\ ~Sends(tag, k, b, r)
          /\ Sends(tag, k, b, r) => SentTo(tag, k, s, "none") = SentTo(tag, k, 1, "counts")
      BY <1>12, <3>1 DEF Tags
    <3>3. QED
      BY <1>5, <1>11, <2>1, <2>5, <3>2, SilentLinks
  <2>6. RankMoves(r, k, 1, "counts", k, s, "none")
    BY <1>11, <2>3, <2>4, <2>5 DEF RankMoves
  <2>7. UNCHANGED <<results, verb>> /\ (window'[p] = 0 => window[p] = 0) /\ At(r, k, 1, "counts")
    BY <1>4, <1>7, <1>11
  <2>8. QED
    BY <1>1, <1>4, <1>11, <1>17, <2>2, <2>6, <2>7, RankMove
<1>21. QED
  BY <1>19, <1>20

------------------------------------------------------------------------------
(***************************************************************************)
(* The payload                                                             *)
(***************************************************************************)

\* The plan that the lead derives from the published rows.
LEMMA DerivedHere ==
  ASSUME NEW p, NEW r, NEW k, NEW w, WorksIn(p, r, k, w), script[k].kind = "alltoallv"
  PROVE  DerivedPlan(r) = DerivedIn(k, r)
<1>1. r \in Ranks
  BY DEF WorksIn
<1>2. ASSUME NEW q \in PartsOf(r) PROVE row[q] = k /\ \A g \in World : Counts(q)[g] = M(k, q, g)
  <2>1. q \in World /\ RankOf(q) = r
    BY <1>1, PartFacts
  <2>2. PICK u \in Locals : q = Global(r, u)
    BY <2>1, RankFacts
  <2>3. QED
    BY <2>2 DEF WorksIn, Published
<1>3. \A a \in Ranks : \A g \in PartsOf(a) : g \in World
  BY PartFacts
<1>4. Reached(r) = ReachedIn(k, r)
  BY <1>2, <1>3 DEF Reached, ReachedIn, Talks
<1>5. Heard(r) = HeardIn(k, r)
  BY <1>2 DEF Heard, HeardIn, Talks, M
<1>6. QED
  BY <1>4, <1>5 DEF DerivedPlan, DerivedIn

\* laying out the payload,
LEMMA PlanPayloadWire ==
  ASSUME WireInv, Types, JobInv, NEW p \in World, PlanPayload(p)
  PROVE  WireInv'
<1>1. /\ IsLead(p) /\ phase[p] = "body" /\ verb[p] > 0 /\ window[p] = 1 /\ Kind(p) = "alltoallv"
      /\ ControlTypes /\ MpiTypes /\ EndsWindow(p)
  BY Zenon DEF PlanPayload, InWindow, Types, EndsWindow
<1>2. Syncs[Kind(p)] \in {2, 4}
  BY <1>1, VerbFacts
<1>3. PICK r \in Ranks, k \in 1..Len(script) : WorksIn(p, r, k, 1)
  BY <1>1, <1>2, LeadWorks
<1>4. /\ RankOf(p) = r /\ verb[p] = k /\ Kind(p) = script[k].kind /\ Plan(p) = script[k].plan
      /\ p \in PartsOf(r) /\ At(r, k, 1, call[r]) /\ CallsAt(r, k, 1, call[r]) /\ RankFits(r, k, 1, call[r])
  BY <1>3 DEF WorksIn
<1>5. script[k].kind = "alltoallv" /\ script[k].kind \in {"counts", "alltoallv", "resolve"} /\ script \in Scripts
  BY <1>1, <1>4 DEF ControlTypes
<1> DEFINE P == PeersIn(k, r)
           published == [h \in World |-> LET q == Global(r, h % S)
                       IN  SumTo([su \in Locals |-> script[row[q]].m[Global(RankOf(h), su)][q]], S)]
<1>6. PlanIn(k, r) = (IF script[k].derive THEN DerivedPlan(r) ELSE script[k].plan) /\ P \in SUBSET Ranks
  BY <1>3, <1>5, DerivedHere, PeersMutual, SMTT(30) DEF PlanIn
<1>7. /\ script[k].derive \/ Covers(r, script[k].plan)
      /\ wirePlan' = [wirePlan EXCEPT ![r] = PlanIn(k, r)]
      /\ peers' = [peers EXCEPT ![r] = PeerRanks(wirePlan'[r], r)]
      /\ SizeStagingSend(r, peers'[r]) /\ SizeStagingRecv(r, peers'[r], published)
      /\ UNCHANGED <<call, countsRecv, red, channel, wants, colls, results>>
  <2>1. wirePlan' = [wirePlan EXCEPT ![r] = IF script[k].derive THEN DerivedPlan(r) ELSE script[k].plan]
    BY <1>4, SMTT(30) DEF PlanPayload
  <2>2. UNCHANGED <<call, countsRecv, red, channel, wants, colls, results>>
    BY SMTT(30) DEF PlanPayload, mpi
  <2>3. /\ script[k].derive \/ Covers(r, script[k].plan)
        /\ peers' = [peers EXCEPT ![r] = PeerRanks(wirePlan'[r], r)]
        /\ SizeStagingSend(r, peers'[r]) /\ SizeStagingRecv(r, peers'[r], published)
    BY <1>4, Zenon DEF PlanPayload
  <2>4. wirePlan' = [wirePlan EXCEPT ![r] = PlanIn(k, r)]
    BY <1>6, <2>1, Zenon
  <2>5. QED
    BY <2>2, <2>3, <2>4, Zenon
<1> HIDE DEF published
<1>8. /\ wirePlan'[r] = PlanIn(k, r) /\ peers'[r] = P
      /\ \A b \in Ranks \ {r} : wirePlan'[b] = wirePlan[b] /\ peers'[b] = peers[b]
  <2>1. wirePlan'[r] = PlanIn(k, r) /\ \A b \in Ranks \ {r} : wirePlan'[b] = wirePlan[b]
    BY <1>1, <1>7 DEF MpiTypes
  <2>2. peers'[r] = PeerRanks(PlanIn(k, r), r) /\ \A b \in Ranks \ {r} : peers'[b] = peers[b]
    BY <1>1, <1>7, <2>1 DEF MpiTypes
  <2>3. QED
    BY <2>1, <2>2 DEF PeersIn
<1>9. call[r] = "none" /\ call'[r] = "none"
  <2>1. call[r] \in {"none", "counts", "sized", "payload", "reduce"}
    BY <1>1 DEF MpiTypes
  <2>2. QED
    BY <1>4, <1>5, <1>7, <2>1 DEF RankFits, CallFits, Counting
<1>10. ~LeavesOut(k, r)
  BY <1>3, <1>5, <1>7, CoversRefuses
<1>11. /\ OnlyMoves(p) /\ script' = script /\ aborted' = aborted /\ verb' = verb /\ window'[p] # 0
       /\ At(r, k, 2, "none")' /\ Refused(r)'
       /\ \A u \in Locals : ~Passed2(Global(r, u), k)'
  <2>1. 2 = IF 1 + 1 = Syncs[script[k].kind] THEN 4 ELSE 1 + 1
    BY <1>5, KindsAre
  <2>2. QED
    BY <1>1, <1>3, <1>9, <1>10, <2>1, AfterWindow
<1>12. Shapes
  BY DEF WireInv
<1>13. /\ sendSeg'[r] = Segment(P, Col(SendGrid(k, r)))
       /\ \A u \in Locals, g \in OfRanks(P) : packOff'[r][u][g] = CellAt(P, SendGrid(k, r), g, u)
       /\ Start(P, Col(SendGrid(k, r)), R * S) <= Len(stageSend'[r]) /\ IsSequence(stageSend'[r])
       /\ OnRanks(packOff)' /\ OnRanks(sendSeg)' /\ OnRanks(stageSend)'
       /\ \A b \in Ranks \ {r} : packOff'[b] = packOff[b] /\ sendSeg'[b] = sendSeg[b] /\ stageSend'[b] = stageSend[b]
  <2>1. \A u \in Locals, g \in World : Counts(Global(r, u))[g] = M(k, Global(r, u), g)
    BY <1>3, <1>5 DEF WorksIn, Published
  <2>2. SizeStagingSend(r, P)
    BY <1>7, <1>8
  <2>3. QED
    BY <1>5, <1>6, <1>12, <2>1, <2>2, SendLaidOut
<1>14. /\ recvSeg'[r] = Segment(P, Col(RecvGrid(k, r)))
       /\ \A h \in OfRanks(P) : baseRecv'[r][h] = Start(P, Col(RecvGrid(k, r)), h)
       /\ Start(P, Col(RecvGrid(k, r)), R * S) <= Len(stageRecv'[r]) /\ IsSequence(stageRecv'[r])
       /\ OnRanks(baseRecv)' /\ OnRanks(recvSeg)' /\ OnRanks(stageRecv)'
       /\ \A b \in Ranks \ {r} : baseRecv'[b] = baseRecv[b] /\ recvSeg'[b] = recvSeg[b] /\ stageRecv'[b] = stageRecv[b]
  <2>1. ASSUME NEW h \in OfRanks(P) PROVE published[h] = Col(RecvGrid(k, r))[h]
    <3>1. h \in World /\ h % S \in Locals
      BY RankFacts DEF OfRanks
    <3>2. row[Global(r, h % S)] = k
      BY <1>3, <1>5, <3>1 DEF WorksIn, Published
    <3>3. [su \in Locals |-> script[row[Global(r, h % S)]].m[Global(RankOf(h), su)][Global(r, h % S)]] = RecvGrid(k, r)[h]
      BY <3>1, <3>2 DEF RecvGrid, M
    <3>4. QED
      BY <3>1, <3>3 DEF published, Col
  <2>2. SizeStagingRecv(r, P, published)
    BY <1>7, <1>8
  <2>3. QED
    BY <1>5, <1>6, <1>12, <2>1, <2>2, RecvLaidOut, SMTT(30)
<1>15. Shapes'
  <2>1. \A b \in Ranks : IsSequence(stageSend'[b]) /\ IsSequence(stageRecv'[b])
    BY <1>12, <1>13, <1>14 DEF Shapes
  <2>2. QED
    BY <1>7, <1>12, <1>13, <1>14, <2>1 DEF Shapes, OnRanks, OnWorld, results
<1>16. Elsewhere(r)
  BY <1>7, <1>8, <1>13, <1>14 DEF Elsewhere
<1>17. RankFits(r, k, 2, "none")'
  <2>1. /\ script'[k] = script[k] /\ PeersIn(k, r)' = P /\ PlanIn(k, r)' = PlanIn(k, r) /\ Len(script') = Len(script)
        /\ SendGrid(k, r)' = SendGrid(k, r) /\ RecvGrid(k, r)' = RecvGrid(k, r)
    BY <1>11, StaticStays
  <2>2. CallFits(r, k, 2, "none")' /\ PlansFit(r, k, 2, "none")'
    BY <1>8, <2>1 DEF CallFits, PlansFit
  <2>3. SendFits(r, k, 2)'
    BY <1>11, <1>13, <2>1 DEF SendFits
  <2>4. RecvFits(r, k, 2, "none")'
    BY <1>14, <2>1 DEF RecvFits
  <2>5. CountsFit(r, k, 2, "none")' /\ LegsFit(r, k, 2, "none")' /\ RedFits(r, k, 2)'
    BY <1>5, <2>1 DEF CountsFit, LegsFit, LegReady, RedFits, Counting, Reducing
  <2>6. QED
    BY <2>2, <2>3, <2>4, <2>5 DEF RankFits
<1>18. /\ SentTo("count", k, 1, "none") = k - 1 /\ SentTo("count", k, 2, "none") = k
       /\ SentTo("payload", k, 1, "none") = k - 1 /\ SentTo("payload", k, 2, "none") = k - 1
       /\ \A tag : HadTo(tag, k, 1, "none") = k - 1 /\ HadTo(tag, k, 2, "none") = k - 1
       /\ CalledTo(k, 1, "none") = 2 * k - 2 /\ CalledTo(k, 2, "none") = 2 * k - 1
  BY DEF SentTo, HadTo, CalledTo
<1>19. CallsAt(r, k, 2, "none")'
  <2>1. ~HasColl(2 * k - 1) /\ (2 * k - 1) - 1 = 2 * k - 2 /\ 2 * k - 1 \in 1..(2 * Len(script))
    BY <1>5, CollNumbers DEF EarlyColl
  <2>2. Calls(colls[r], r, (2 * k - 1) - 1)
    BY <1>4, <1>9, <1>11, <1>18, <2>1, CallsAreNext
  <2>3. Calls(colls[r], r, 2 * k - 1)
    BY <1>5, <2>1, <2>2, CallNext
  <2>4. QED
    BY <1>7, <1>11, <1>18, <2>3, CallsAreNext
<1>20. ASSUME NEW tag \in Tags, NEW b \in Ranks \ {r}, NEW x, NEW y, NEW z, CallFits(b, x, y, z)
       PROVE  /\ LinkFits(tag, r, b, k, 1, "none", x, y, z) => LinkFits(tag, r, b, k, 2, "none", x, y, z)'
              /\ LinkFits(tag, b, r, x, y, z, k, 1, "none") => LinkFits(tag, b, r, x, y, z, k, 2, "none")'
  <2>1. tag = "count" => ~Sends(tag, k, r, b) /\ ~Sends(tag, k, b, r)
    BY <1>5 DEF Sends
  <2>2. /\ \/ SentTo(tag, k, 2, "none") = SentTo(tag, k, 1, "none")
           \/ SentTo(tag, k, 1, "none") = k - 1 /\ SentTo(tag, k, 2, "none") = k /\ ~Sends(tag, k, r, b)
        /\ HadTo(tag, k, 2, "none") = HadTo(tag, k, 1, "none")
        /\ Sends(tag, k, b, r) => SentTo(tag, k, 2, "none") = SentTo(tag, k, 1, "none")
    BY <1>18, <2>1 DEF Tags
  <2>3. QED
    BY <1>5, <1>7, <1>11, <1>20, <2>2, SilentLinks
<1>21. RankMoves(r, k, 1, "none", k, 2, "none")
  BY <1>11, <1>17, <1>19, <1>20 DEF RankMoves
<1>22. UNCHANGED <<results, verb>> /\ (window'[p] = 0 => window[p] = 0) /\ At(r, k, 1, "none")
  BY <1>4, <1>7, <1>9, <1>11
<1>23. QED
  BY <1>1, <1>4, <1>11, <1>15, <1>16, <1>21, <1>22, RankMove, SMTT(60)

------------------------------------------------------------------------------
(***************************************************************************)
(* The second window, in which every partition works                       *)
(***************************************************************************)

\* p works in the second window of verb k; the lead is there, or waits behind it.
WorksSecond(p, r, k, s) ==
  /\ r \in Ranks /\ p \in PartsOf(r) /\ p \in World /\ RankOf(p) = r /\ phase[p] = "body" /\ window[p] = 2
  /\ k \in 1..Len(script) /\ k = verb[p] /\ Kind(p) = script[k].kind /\ Syncs[script[k].kind] = 4
  /\ s \in {2, 3} /\ (p = LeadOf(r) <=> IsLead(p)) /\ (p = LeadOf(r) => s = 2 /\ call[r] = "none")
  /\ At(r, k, s, call[r]) /\ RankFits(r, k, s, call[r]) /\ Refused(r) /\ CallsAt(r, k, s, call[r])
  /\ enters[p] = Done(k - 1) + 2 /\ Published(r, k)

\* The lead while a partition works in the second window.
LEMMA LeadNear ==
  ASSUME WireInv, Types, JobInv, NEW p \in World, phase[p] = "body", verb[p] > 0, window[p] = 2, Syncs[Kind(p)] = 4
  PROVE  \E r \in Ranks, s \in {2, 3} : \E k \in 1..Len(script) : WorksSecond(p, r, k, s)
<1>1. ControlTypes /\ MpiTypes
  BY DEF Types
<1>2. PICK r \in Ranks : r = RankOf(p) /\ p \in PartsOf(r) /\ (p = LeadOf(r) <=> IsLead(p))
  <2>1. RankOf(p) \in Ranks /\ p \in PartsOf(RankOf(p)) /\ (IsLead(p) => p = LeadOf(RankOf(p)))
    BY RankFacts
  <2>2. p = LeadOf(RankOf(p)) => IsLead(p)
    <3>1. LeadOf(RankOf(p)) % S = LeadOf(RankOf(p)) - LeadOf(RankOf(p)) /\ LeadOf(RankOf(p)) \in Nat
      BY <2>1, PartFacts
    <3>2. QED
      BY <3>1 DEF IsLead
  <2>3. QED
    BY <2>1, <2>2
<1>3. PICK k \in 1..Len(script) : k = verb[p] /\ Kind(p) = script[k].kind /\ Done(k - 1) \in Nat /\ Done(k) = Done(k - 1) + 4
  <2>1. verb[p] \in 1..Len(script) /\ Done(verb[p] - 1) \in Nat /\ Done(verb[p]) = Done(verb[p] - 1) + Syncs[Kind(p)]
    BY <1>1, VerbFacts
  <2>2. QED
    BY <2>1 DEF Kind
<1>4. /\ Published(r, k) /\ enters[p] = Done(k - 1) + 2
      /\ \A u \in Locals : enters[p] <= enters[Global(r, u)] /\ enters[Global(r, u)] <= enters[p] + 1
  BY <1>1, <1>2, <1>3, RowsInVerb
<1>5. LeadOf(r) \in World /\ 0 \in Locals /\ Global(r, 0) = LeadOf(r)
  BY <1>2, PartFacts, Sizes DEF Global, Locals
<1>6. /\ verb[LeadOf(r)] = k /\ enters[LeadOf(r)] \in Nat /\ window[LeadOf(r)] \in 0..4
      /\ Done(k - 1) + 2 <= enters[LeadOf(r)] /\ enters[LeadOf(r)] <= Done(k - 1) + 3
  BY <1>1, <1>3, <1>4, <1>5, PartTypes DEF Published
<1>7. PICK s \in {2, 3} : s = window[LeadOf(r)]
  <2>1. Place(LeadOf(r))
    BY <1>5 DEF JobInv
  <2>2. window[LeadOf(r)] # 0
    BY <1>3, <1>6, <2>1 DEF Place
  <2>3. enters[LeadOf(r)] = Done(k - 1) + window[LeadOf(r)]
    BY <1>6, <2>1, <2>2 DEF Place
  <2>4. window[LeadOf(r)] \in {2, 3}
    BY <1>3, <1>6, <2>3
  <2>5. QED
    BY <2>4
<1>8. At(r, k, s, call[r])
  <2>1. Kind(LeadOf(r)) = script[k].kind /\ Syncs[script[k].kind] = 4
    BY <1>3, <1>6 DEF Kind
  <2>2. Cur(r) = k /\ Stage(r) = s
    BY <1>6, <1>7, <2>1 DEF Cur, Stage
  <2>3. QED
    BY <2>2 DEF At
<1>9. RankFits(r, k, s, call[r]) /\ Refused(r) /\ CallsAt(r, k, s, call[r])
  BY <1>8 DEF WireInv, RankInv, CallsFit
<1>10. ASSUME p = LeadOf(r) PROVE s = 2 /\ call[r] = "none"
  <2>1. s = 2
    BY <1>7, <1>10
  <2>2. call[r] \in {"none", "counts", "sized", "payload", "reduce"}
    BY <1>1 DEF MpiTypes
  <2>3. QED
    BY <1>9, <2>1, <2>2 DEF RankFits, CallFits
<1>11. WorksSecond(p, r, k, s)
  BY <1>2, <1>3, <1>4, <1>8, <1>9, <1>10 DEF WorksSecond
<1>12. QED
  BY <1>11

\* Its end moves p past the window, and the lead on if p is the lead.
LEMMA AfterSecond ==
  ASSUME Types, JobInv, NEW p \in World, NEW r, NEW k, NEW s, WorksSecond(p, r, k, s), EndsWindow(p), UNCHANGED call,
         NEW t, t = IF p = LeadOf(r) THEN 3 ELSE s
  PROVE  /\ ControlTypes /\ OnlyMoves(p) /\ script' = script /\ script \in Scripts /\ aborted' = aborted /\ verb' = verb /\ window'[p] # 0
         /\ At(r, k, t, call[r])' /\ call'[r] = call[r] /\ Refused(r)'
         /\ \A u \in Locals : Global(r, u) # p => (Passed2(Global(r, u), k)' <=> Passed2(Global(r, u), k))
<1>1. ControlTypes /\ script \in Scripts /\ Place(LeadOf(r)) /\ r \in Ranks
  BY PartFacts DEF Types, ControlTypes, JobInv, WorksSecond
<1>2. Arrives(p) /\ UNCHANGED <<eager>> /\ dangling' \in BOOLEAN
  BY <1>1, WindowEnds
<1>3. OnlyMoves(p)
  BY <1>2, ArriveMoves DEF MovesWell
<1>4. /\ script' = script /\ aborted' = aborted /\ verb' = verb /\ err' = err
      /\ enters'[p] = enters[p] + 1 /\ phase'[p] = "round" /\ window'[p] = 3
      /\ \A q \in World \ {p} : enters'[q] = enters[q] /\ window'[q] = window[q] /\ phase'[q] = phase[q]
  <2>1. window'[p] = window[p] + 1 /\ window[p] = 2
    BY <1>1, <1>2 DEF Arrives, Sync, ControlTypes, WorksSecond
  <2>2. QED
    BY <1>1, <1>2, <1>3, <2>1 DEF Arrives, Sync, ControlTypes, OnlyMoves
<1>5. LeadOf(r) \in World
  BY <1>1, PartFacts
<1>6. At(r, k, t, call[r])' /\ Refused(r)'
  <2>1. CASE p = LeadOf(r)
    <3>1. Kind(p)' = script[k].kind
      BY <1>4 DEF Kind, WorksSecond
    <3>2. Cur(r)' = k /\ Stage(r)' = 3
      BY <1>4, <2>1, <3>1 DEF Cur, Stage, WorksSecond
    <3>3. At(r, k, t, call[r])'
      BY <2>1, <3>2 DEF At
    <3>4. Refused(r)'
      BY <1>1, <1>4, <2>1, RefusedStays DEF WorksSecond
    <3>5. QED
      BY <3>3, <3>4
  <2>2. CASE p # LeadOf(r)
    <3>1. LeadStays(r)
      BY <1>4, <1>5, <2>2, LeadKept
    <3>2. Refused(r)'
      BY <1>1, <1>4, <1>5, <2>2, RefusedKept DEF WorksSecond, Refused
    <3>3. At(r, k, s, call[r])'
      BY <3>1 DEF LeadStays, WorksSecond, At
    <3>4. QED
      BY <2>2, <3>2, <3>3
  <2>3. QED
    BY <2>1, <2>2
<1>7. ASSUME NEW u \in Locals, Global(r, u) # p PROVE Passed2(Global(r, u), k)' <=> Passed2(Global(r, u), k)
  <2>1. Global(r, u) \in World
    BY <1>1, PartFacts
  <2>2. enters'[Global(r, u)] = enters[Global(r, u)] /\ Done(k - 1)' = Done(k - 1)
    BY <1>4, <1>7, <2>1, StaticStays
  <2>3. QED
    BY <2>2 DEF Passed2
<1>8. QED
  BY <1>1, <1>3, <1>4, <1>6, <1>7

\* What it leaves as it was.
LEMMA SecondStays ==
  ASSUME script' = script, script \in Scripts, NEW r \in Ranks, NEW k \in 1..Len(script), NEW s \in {2, 3}, NEW c, RankFits(r, k, s, c),
         NEW t, t = s \/ (s = 2 /\ t = 3 /\ c = "none"), CallsAt(r, k, s, c),
         UNCHANGED <<peers, wirePlan, countsRecv, recvSeg, baseRecv, stageRecv, channel, wants, colls>>
  PROVE  /\ CallFits(r, k, t, c)' /\ PlansFit(r, k, t, c)' /\ CountsFit(r, k, t, c)' /\ RecvFits(r, k, t, c)' /\ LegsFit(r, k, t, c)'
         /\ CallsAt(r, k, t, c)'
         /\ \A tag \in Tags, b \in Ranks \ {r} : \A x, y, z :
              LinkFits(tag, r, b, k, s, c, x, y, z) => LinkFits(tag, r, b, k, t, c, x, y, z)'
         /\ \A tag \in Tags, b \in Ranks \ {r} : \A x, y, z :
              LinkFits(tag, b, r, x, y, z, k, s, c) => LinkFits(tag, b, r, x, y, z, k, t, c)'
<1>1. CallFits(r, k, t, c) /\ PlansFit(r, k, t, c)
  BY DEF RankFits, CallFits, PlansFit
<1>2. CountsFit(r, k, t, c) /\ RecvFits(r, k, t, c) /\ LegsFit(r, k, t, c)
  BY DEF RankFits, CountsFit, CountsReady, RecvFits, RecvReady, LegsFit, LegReady
<1>3. CallFits(r, k, t, c)' /\ PlansFit(r, k, t, c)' /\ CountsFit(r, k, t, c)' /\ RecvFits(r, k, t, c)' /\ LegsFit(r, k, t, c)'
  BY <1>1, <1>2, PartsStay
<1>4. /\ \A tag \in Tags : SentTo(tag, k, t, c) = SentTo(tag, k, s, c) /\ HadTo(tag, k, t, c) = HadTo(tag, k, s, c)
      /\ CalledTo(k, t, c) = CalledTo(k, s, c)
  BY DEF SentTo, HadTo, CalledTo
<1>5. CallsAt(r, k, t, c)'
  BY <1>4, CallsAreNext
<1>6. ASSUME NEW tag \in Tags, NEW b \in Ranks \ {r}, NEW x, NEW y, NEW z
      PROVE  /\ LinkFits(tag, r, b, k, s, c, x, y, z) => LinkFits(tag, r, b, k, t, c, x, y, z)'
             /\ LinkFits(tag, b, r, x, y, z, k, s, c) => LinkFits(tag, b, r, x, y, z, k, t, c)'
  <2>1. Awaiting(tag, b, r, k, t, c) = Awaiting(tag, b, r, k, s, c)
    BY <1>4 DEF Awaiting
  <2>2. QED
    BY <1>4, <2>1, LinkIs, LinkNext
<1>7. QED
  BY <1>3, <1>5, <1>6

\* The block that p packs for a partition.
LEMMA BlocksToPack ==
  ASSUME script \in Scripts, NEW k \in 1..Len(script), NEW p \in World, NEW d \in World, slot[p] = k, Counts(p)[d] = M(k, p, d)
  PROVE  /\ SubSeq(Block(slot[p], p, d), 1, Counts(p)[d]) = Block(k, p, d)
         /\ Len(Block(k, p, d)) = M(k, p, d) /\ \A j \in 1..M(k, p, d) : Block(k, p, d)[j] = <<k, p, d, j>>
<1>1. PICK n \in Nat : n = M(k, p, d)
  BY VerbOf
<1>2. Block(k, p, d) = [i \in 1..n |-> <<k, p, d, i>>]
  BY <1>1 DEF Block, M
<1>3. Block(k, p, d) = [i \in 1..n |-> Block(k, p, d)[i]]
  BY <1>2
<1>4. SubSeq(Block(k, p, d), 1, n) = Block(k, p, d)
  BY <1>3, WholePart
<1>5. Len(Block(k, p, d)) = n
  BY <1>3, SequenceOf
<1>6. QED
  BY <1>1, <1>2, <1>4, <1>5

\* packing,
LEMMA PackSendWire ==
  ASSUME WireInv, Types, JobInv, NEW p \in World, PackSend(p)
  PROVE  WireInv'
<1>1. /\ phase[p] = "body" /\ verb[p] > 0 /\ window[p] = 2 /\ Kind(p) \in Moving
      /\ ControlTypes /\ MpiTypes /\ EndsWindow(p)
  BY DEF PackSend, InWindow, Types, Moving, EndsWindow
<1>2. Syncs[Kind(p)] = 4
  BY <1>1, KindsAre DEF Moving
<1>3. PICK r \in Ranks, s \in {2, 3}, k \in 1..Len(script) : WorksSecond(p, r, k, s)
  BY <1>1, <1>2, LeadNear
<1>4. /\ RankOf(p) = r /\ k = verb[p] /\ Kind(p) = script[k].kind /\ p \in PartsOf(r)
      /\ (p = LeadOf(r) => s = 2 /\ call[r] = "none")
      /\ At(r, k, s, call[r]) /\ RankFits(r, k, s, call[r]) /\ CallsAt(r, k, s, call[r]) /\ Published(r, k)
  BY <1>3 DEF WorksSecond
<1>5. PICK c : c = call[r]
  OBVIOUS
<1>6. PICK t : t = IF p = LeadOf(r) THEN 3 ELSE s
  OBVIOUS
<1>7. t \in {2, 3} /\ (t = s \/ (s = 2 /\ t = 3 /\ c = "none"))
  BY <1>4, <1>5, <1>6
<1>8. PICK up \in Locals : up = p - LeadOf(r) /\ p = Global(r, up)
  BY <1>4, RankFacts, PartFacts
<1>9. script[k].kind \in Moving /\ script[k].kind \in {"counts", "alltoallv", "resolve"} /\ script[k].kind # "counts" /\ script \in Scripts
  BY <1>1, <1>4 DEF Moving, ControlTypes
<1> DEFINE P == PeersIn(k, r)
           W == SendGrid(k, r)
           blocks == [d \in World |-> SubSeq(Block(slot[p], p, d), 1, Counts(p)[d])]
<1>10. /\ peers[r] = P /\ P \in SUBSET Ranks
       /\ sendSeg[r] = Segment(P, Col(W)) /\ Start(P, Col(W), R * S) <= Len(stageSend[r])
       /\ \A u \in Locals, g \in OfRanks(P) :
            /\ packOff[r][u][g] = CellAt(P, W, g, u)
            /\ Passed2(Global(r, u), k) =>
                 \A j \in 1..W[g][u] : stageSend[r][CellAt(P, W, g, u) + j] = <<k, Global(r, u), g, j>>
  BY <1>4, <1>9, PeersMutual DEF RankFits, PlansFit, SendFits
<1>11. /\ stageSend' = [stageSend EXCEPT ![r] = Overlay(@, OfRanks(P), packOff[r][up], blocks)]
       /\ UNCHANGED <<call, peers, wirePlan, packOff, sendSeg, baseRecv, recvSeg, stageRecv, countsRecv, red, channel, wants, colls, results>>
  <2>1. UNCHANGED <<call, plans, stageRecv, countsRecv, red, mpi, results>>
    BY DEF PackSend
  <2>2. UNCHANGED <<call, peers, wirePlan, packOff, sendSeg, baseRecv, recvSeg, stageRecv, countsRecv, red, channel, wants, colls, results>>
    BY <2>1 DEF plans, mpi
  <2>3. stageSend' = [stageSend EXCEPT ![r] = Overlay(@, OfRanks(P), packOff[r][up], blocks)]
    BY <1>4, <1>8, <1>10 DEF PackSend
  <2>4. QED
    BY <2>2, <2>3
<1>12. \A d \in OfRanks(P) : /\ d \in World /\ W[d][up] = M(k, p, d) /\ Len(blocks[d]) = W[d][up]
                             /\ \A j \in 1..W[d][up] : blocks[d][j] = <<k, p, d, j>>
  <2> SUFFICES ASSUME NEW d \in OfRanks(P)
               PROVE  /\ d \in World /\ W[d][up] = M(k, p, d) /\ Len(blocks[d]) = W[d][up]
                      /\ \A j \in 1..W[d][up] : blocks[d][j] = <<k, p, d, j>>
    OBVIOUS
  <2>1. d \in World
    BY DEF OfRanks
  <2>2. W[d][up] = M(k, p, d)
    BY <1>8, <2>1 DEF SendGrid
  <2>3. slot[p] = k /\ Counts(p)[d] = M(k, p, d)
    BY <1>4, <1>8, <1>9, <2>1 DEF Published
  <2>4. blocks[d] = Block(k, p, d)
    BY <1>9, <2>1, <2>3, BlocksToPack
  <2>5. Len(Block(k, p, d)) = M(k, p, d) /\ \A j \in 1..M(k, p, d) : Block(k, p, d)[j] = <<k, p, d, j>>
    BY <1>9, <2>1, <2>3, BlocksToPack
  <2>6. PICK b : b = blocks[d]
    OBVIOUS
  <2>7. b = Block(k, p, d)
    BY <2>4, <2>6
  <2>8. Len(b) = W[d][up] /\ \A j \in 1..W[d][up] : b[j] = <<k, p, d, j>>
    BY <2>2, <2>5, <2>7
  <2>9. QED
    BY <2>1, <2>2, <2>6, <2>8
<1> HIDE DEF blocks
<1>13. /\ OnRanks(stageSend)' /\ stageSend'[r] = Overlay(stageSend[r], OfRanks(P), packOff[r][up], blocks)
       /\ IsSequence(stageSend[r]) /\ \A b \in Ranks \ {r} : stageSend'[b] = stageSend[b]
  BY <1>11 DEF WireInv, Shapes, OnRanks
<1>14. IsSequence(stageSend'[r]) /\ Len(stageSend'[r]) = Len(stageSend[r]) /\ Len(stageSend[r]) \in Nat
  BY <1>13, OverlayFacts, SequenceFacts
<1>15. IsGrid(W)
  BY <1>9, GridsAgree
<1>16. ASSUME NEW g \in OfRanks(P), NEW u \in Locals, NEW j \in 1..W[g][u]
       PROVE  /\ CellAt(P, W, g, u) + j \in 1..Len(stageSend[r]) /\ CellAt(P, W, g, u) \in Nat /\ W[g][u] \in Nat
              /\ \A e \in OfRanks(P) : (CellAt(P, W, g, u) + j) - packOff[r][up][e] \in 1..Len(blocks[e]) => e = g /\ u = up
  <2>1. /\ CellAt(P, W, g, u) \in Nat /\ W[g][u] \in Nat /\ Start(P, Col(W), R * S) \in Nat
        /\ CellAt(P, W, g, u) + W[g][u] <= Start(P, Col(W), R * S)
    BY <1>15, CellFits
  <2>2. CellAt(P, W, g, u) + j \in 1..Len(stageSend[r])
    BY <1>10, <1>14, <2>1, SMTT(30)
  <2>3. ASSUME NEW e \in OfRanks(P), (CellAt(P, W, g, u) + j) - packOff[r][up][e] \in 1..Len(blocks[e]) PROVE e = g /\ u = up
    <3>1. packOff[r][up][e] = CellAt(P, W, e, up) /\ Len(blocks[e]) = W[e][up] /\ CellAt(P, W, e, up) \in Nat
      BY <1>10, <1>12, <1>15, CellFits
    <3>2. PICK i \in 1..W[e][up] : i = (CellAt(P, W, g, u) + j) - CellAt(P, W, e, up)
      BY <2>3, <3>1
    <3>3. CellAt(P, W, g, u) + j = CellAt(P, W, e, up) + i
      BY <2>1, <3>1, <3>2
    <3>4. QED
      BY <1>15, <3>3, CellsApart
  <2>4. QED
    BY <2>1, <2>2, <2>3
<1>17. ASSUME NEW g \in OfRanks(P), NEW j \in 1..W[g][up]
       PROVE  stageSend'[r][CellAt(P, W, g, up) + j] = <<k, p, g, j>>
  <2>1. PICK i : i = CellAt(P, W, g, up) + j
    OBVIOUS
  <2>2. i \in 1..Len(stageSend[r]) /\ \A e \in OfRanks(P) : i - packOff[r][up][e] \in 1..Len(blocks[e]) => e = g
    BY <1>16, <2>1
  <2>3. i - packOff[r][up][g] = j /\ j \in 1..Len(blocks[g])
    BY <1>10, <1>12, <1>16, <2>1
  <2>4. Overlay(stageSend[r], OfRanks(P), packOff[r][up], blocks)[i] = blocks[g][i - packOff[r][up][g]]
    <3>1. PICK at, st : at = packOff[r][up] /\ st = stageSend[r]
      OBVIOUS
    <3>2. /\ IsSequence(st) /\ i \in 1..Len(st) /\ i - at[g] \in 1..Len(blocks[g])
          /\ \A e \in OfRanks(P) : i - at[e] \in 1..Len(blocks[e]) => e = g
      BY <1>13, <2>2, <2>3, <3>1
    <3>3. Overlay(st, OfRanks(P), at, blocks)[i] = blocks[g][i - at[g]]
      BY <3>2, OverlayFacts
    <3>4. QED
      BY <3>1, <3>3
  <2>5. stageSend'[r][i] = blocks[g][j]
    BY <1>13, <2>3, <2>4
  <2>6. QED
    BY <1>12, <2>1, <2>5
<1>18. ASSUME NEW g \in OfRanks(P), NEW u \in Locals, u # up, NEW j \in 1..W[g][u]
       PROVE  stageSend'[r][CellAt(P, W, g, u) + j] = stageSend[r][CellAt(P, W, g, u) + j]
  <2>1. PICK i : i = CellAt(P, W, g, u) + j
    OBVIOUS
  <2>2. i \in 1..Len(stageSend[r]) /\ \A e \in OfRanks(P) : i - packOff[r][up][e] \notin 1..Len(blocks[e])
    BY <1>16, <1>18, <2>1
  <2>3. QED
    BY <1>13, <2>1, <2>2, OverlayFacts, SMTT(30)
<1>19. /\ OnlyMoves(p) /\ script' = script /\ aborted' = aborted /\ verb' = verb /\ window'[p] # 0
       /\ At(r, k, t, call[r])' /\ call'[r] = call[r] /\ Refused(r)'
       /\ \A u \in Locals : Global(r, u) # p => (Passed2(Global(r, u), k)' <=> Passed2(Global(r, u), k))
  BY <1>1, <1>3, <1>6, <1>11, AfterSecond
<1>20. At(r, k, t, c)' /\ At(r, k, s, c)
  BY <1>4, <1>5, <1>19 DEF At
<1>21. SendFits(r, k, t)'
  <2>1. W' = W /\ P' = P
    BY <1>19, StaticStays
  <2>2. ASSUME NEW u \in Locals, NEW g \in OfRanks(P), Passed2(Global(r, u), k)', NEW j \in 1..W[g][u]
        PROVE  stageSend'[r][CellAt(P, W, g, u) + j] = <<k, Global(r, u), g, j>>
    <3>1. CASE u = up
      BY <1>8, <1>17, <2>2, <3>1
    <3>2. CASE u # up
      <4>1. Global(r, u) # p
        BY <1>8, <3>2, PartFacts
      <4>2. QED
        BY <1>10, <1>18, <1>19, <2>2, <3>2, <4>1
    <3>3. QED
      BY <3>1, <3>2
  <2>3. sendSeg' = sendSeg /\ packOff' = packOff
    BY <1>11
  <2>4. QED
    BY <1>10, <1>14, <2>1, <2>2, <2>3 DEF SendFits
<1>22. RedFits(r, k, t)'
  <2>1. script'[k].kind # "inplace" /\ t # 4
    BY <1>7, <1>9, <1>19 DEF Moving
  <2>2. QED
    BY <2>1 DEF RedFits
<1>23. /\ CallFits(r, k, t, c)' /\ PlansFit(r, k, t, c)' /\ CountsFit(r, k, t, c)' /\ RecvFits(r, k, t, c)' /\ LegsFit(r, k, t, c)'
       /\ CallsAt(r, k, t, c)'
       /\ \A tag \in Tags, b \in Ranks \ {r} : \A x, y, z :
            LinkFits(tag, r, b, k, s, c, x, y, z) => LinkFits(tag, r, b, k, t, c, x, y, z)'
       /\ \A tag \in Tags, b \in Ranks \ {r} : \A x, y, z :
            LinkFits(tag, b, r, x, y, z, k, s, c) => LinkFits(tag, b, r, x, y, z, k, t, c)'
  <2>1. RankFits(r, k, s, c) /\ CallsAt(r, k, s, c)
    BY <1>4, <1>5
  <2>2. UNCHANGED <<peers, wirePlan, countsRecv, recvSeg, baseRecv, stageRecv, channel, wants, colls>>
    BY <1>11
  <2>3. QED
    BY <1>7, <1>9, <1>19, <2>1, <2>2, SecondStays
<1>24. RankMoves(r, k, s, c, k, t, c)
  BY <1>19, <1>21, <1>22, <1>23 DEF RankMoves, RankFits
<1>25. Shapes'
  <2>1. \A b \in Ranks : IsSequence(stageSend'[b])
    BY <1>13, <1>14 DEF WireInv, Shapes
  <2>2. QED
    BY <1>11, <1>13, <2>1 DEF WireInv, Shapes, OnRanks, OnWorld, results
<1>26. Elsewhere(r)
  BY <1>11, <1>13 DEF Elsewhere
<1>27. UNCHANGED <<results, verb>> /\ (window'[p] = 0 => window[p] = 0)
  BY <1>11, <1>19
<1>28. QED
  BY <1>1, <1>4, <1>19, <1>20, <1>24, <1>25, <1>26, <1>27, RankMove

\* and the slices of a reduction in place.
LEMMA ReduceSliceWire ==
  ASSUME WireInv, Types, JobInv, NEW p \in World, ReduceSlice(p)
  PROVE  WireInv'
<1>1. /\ phase[p] = "body" /\ verb[p] > 0 /\ window[p] = 2 /\ Kind(p) = "inplace"
      /\ ControlTypes /\ MpiTypes /\ EndsWindow(p)
  BY DEF ReduceSlice, InWindow, Types, EndsWindow
<1>2. Syncs[Kind(p)] = 4
  BY <1>1, KindsAre
<1>3. PICK r \in Ranks, s \in {2, 3}, k \in 1..Len(script) : WorksSecond(p, r, k, s)
  BY <1>1, <1>2, LeadNear
<1>4. /\ RankOf(p) = r /\ k = verb[p] /\ Kind(p) = script[k].kind /\ p \in PartsOf(r)
      /\ (p = LeadOf(r) => s = 2 /\ call[r] = "none")
      /\ At(r, k, s, call[r]) /\ RankFits(r, k, s, call[r]) /\ CallsAt(r, k, s, call[r]) /\ Published(r, k)
  BY <1>3 DEF WorksSecond
<1>5. PICK c : c = call[r]
  OBVIOUS
<1>6. PICK t : t = IF p = LeadOf(r) THEN 3 ELSE s
  OBVIOUS
<1>7. t \in {2, 3} /\ (t = s \/ (s = 2 /\ t = 3 /\ c = "none"))
  BY <1>4, <1>5, <1>6
<1>8. PICK up \in Locals : up = p - LeadOf(r) /\ p = Global(r, up)
  BY <1>4, RankFacts, PartFacts
<1>9. script[k].kind = "inplace" /\ script \in Scripts
  BY <1>1, <1>4 DEF ControlTypes
<1>10. [u \in 1..S |-> <<Global(r, u - 1), slot[Global(r, u - 1)]>>] = LocalSum(k, r)
  <2>1. \A u \in 1..S : u - 1 \in Locals
    BY Sizes DEF Locals
  <2>2. \A u \in 1..S : slot[Global(r, u - 1)] = k
    BY <1>4, <1>9, <2>1 DEF Published
  <2>3. QED
    BY <2>2 DEF LocalSum
<1>11. /\ red' = [red EXCEPT ![r] = [e \in DOMAIN red[r] |-> IF e \in SliceOf(up) THEN LocalSum(k, r) ELSE red[r][e]]]
       /\ UNCHANGED <<call, peers, wirePlan, packOff, sendSeg, baseRecv, recvSeg, stageSend, stageRecv, countsRecv, channel, wants, colls, results>>
  <2>1. UNCHANGED <<call, plans, stageSend, stageRecv, countsRecv, mpi, results>>
    BY DEF ReduceSlice
  <2>2. UNCHANGED <<call, peers, wirePlan, packOff, sendSeg, baseRecv, recvSeg, stageSend, stageRecv, countsRecv, channel, wants, colls, results>>
    BY <2>1 DEF plans, mpi
  <2>3. SliceOf(up) = {e \in 0..(VecLen - 1) : (p - LeadOf(r)) * SliceSize <= e /\ e < (p - LeadOf(r)) * SliceSize + SliceSize}
    BY <1>8 DEF SliceOf
  <2>4. red' = [red EXCEPT ![r] = [e \in DOMAIN red[r] |-> IF e \in SliceOf(up)
                  THEN [u \in 1..S |-> <<Global(r, u - 1), slot[Global(r, u - 1)]>>] ELSE red[r][e]]]
    BY <1>4, <2>3 DEF ReduceSlice
  <2>5. QED
    BY <1>10, <2>2, <2>4
<1>12. /\ OnRanks(red)' /\ \A b \in Ranks \ {r} : red'[b] = red[b]
       /\ red'[r] = [e \in 0..VecLen |-> IF e \in SliceOf(up) THEN LocalSum(k, r) ELSE red[r][e]]
  <2>1. OnRanks(red) /\ red[r] = [e \in 0..VecLen |-> red[r][e]]
    BY DEF WireInv, Shapes
  <2>2. DOMAIN red[r] = 0..VecLen
    BY <2>1
  <2>3. QED
    BY <1>11, <2>1, <2>2 DEF OnRanks
<1>13. /\ OnlyMoves(p) /\ script' = script /\ aborted' = aborted /\ verb' = verb /\ window'[p] # 0
       /\ At(r, k, t, call[r])' /\ call'[r] = call[r] /\ Refused(r)'
       /\ \A u \in Locals : Global(r, u) # p => (Passed2(Global(r, u), k)' <=> Passed2(Global(r, u), k))
  BY <1>1, <1>3, <1>6, <1>11, AfterSecond
<1>14. At(r, k, t, c)' /\ At(r, k, s, c)
  BY <1>4, <1>5, <1>13 DEF At
<1>15. SendFits(r, k, t)'
  <2>1. script'[k].kind \notin Moving
    BY <1>9, <1>13 DEF Moving
  <2>2. QED
    BY <2>1 DEF SendFits, Moving
<1>16. RedFits(r, k, t)'
  <2>1. \A u \in Locals : SliceOf(u) \subseteq 0..VecLen
    BY Sizes DEF SliceOf
  <2>2. ASSUME NEW u \in Locals, Passed2(Global(r, u), k)', NEW e \in SliceOf(u) PROVE red'[r][e] = LocalSum(k, r)
    <3>1. red'[r][e] = IF e \in SliceOf(up) THEN LocalSum(k, r) ELSE red[r][e]
      BY <1>12, <2>1
    <3>2. CASE u = up
      BY <3>1, <3>2, <2>2
    <3>3. CASE u # up
      <4>1. Global(r, u) # p
        BY <1>8, <3>3, PartFacts
      <4>2. Passed2(Global(r, u), k)
        BY <1>13, <2>2, <4>1
      <4>3. red[r][e] = LocalSum(k, r)
        BY <1>4, <1>9, <2>2, <4>2 DEF RankFits, RedFits
      <4>4. QED
        BY <3>1, <4>3
    <3>4. QED
      BY <3>2, <3>3
  <2>3. t # 4
    BY <1>7
  <2>4. QED
    BY <2>2, <2>3 DEF RedFits, SliceOf, LocalSum
<1>17. /\ CallFits(r, k, t, c)' /\ PlansFit(r, k, t, c)' /\ CountsFit(r, k, t, c)' /\ RecvFits(r, k, t, c)' /\ LegsFit(r, k, t, c)'
       /\ CallsAt(r, k, t, c)'
       /\ \A tag \in Tags, b \in Ranks \ {r} : \A x, y, z :
            LinkFits(tag, r, b, k, s, c, x, y, z) => LinkFits(tag, r, b, k, t, c, x, y, z)'
       /\ \A tag \in Tags, b \in Ranks \ {r} : \A x, y, z :
            LinkFits(tag, b, r, x, y, z, k, s, c) => LinkFits(tag, b, r, x, y, z, k, t, c)'
  <2>1. RankFits(r, k, s, c) /\ CallsAt(r, k, s, c)
    BY <1>4, <1>5
  <2>2. UNCHANGED <<peers, wirePlan, countsRecv, recvSeg, baseRecv, stageRecv, channel, wants, colls>>
    BY <1>11
  <2>3. QED
    BY <1>7, <1>9, <1>13, <2>1, <2>2, SecondStays
<1>18. RankMoves(r, k, s, c, k, t, c)
  BY <1>13, <1>15, <1>16, <1>17 DEF RankMoves, RankFits
<1>19. Shapes'
  <2>1. \A b \in Ranks : red'[b] = [e \in 0..VecLen |-> red'[b][e]]
    BY <1>12 DEF WireInv, Shapes
  <2>2. QED
    BY <1>11, <1>12, <2>1 DEF WireInv, Shapes, OnRanks, OnWorld, results
<1>20. Elsewhere(r)
  BY <1>11, <1>12 DEF Elsewhere
<1>21. UNCHANGED <<results, verb>> /\ (window'[p] = 0 => window[p] = 0)
  BY <1>11, <1>13
<1>22. QED
  BY <1>1, <1>4, <1>13, <1>14, <1>18, <1>19, <1>20, <1>21, RankMove

\* alltoallv_resolve: the counts are in, and the receive side is laid out,
LEMMA SizeFromCountsWire ==
  ASSUME WireInv, Types, JobInv, NEW p \in World, SizeFromCounts(p)
  PROVE  WireInv'
<1>1. /\ IsLead(p) /\ phase[p] = "body" /\ verb[p] > 0 /\ window[p] = 3 /\ Kind(p) = "resolve"
      /\ ControlTypes /\ MpiTypes /\ CallsMpi(p)
  BY DEF SizeFromCounts, InWindow, Types, CallsMpi
<1>2. Syncs[Kind(p)] = 4
  BY <1>1, KindsAre
<1>3. PICK r \in Ranks, k \in 1..Len(script) : WorksIn(p, r, k, 3)
  BY <1>1, <1>2, LeadWorks
<1>4. /\ RankOf(p) = r /\ verb[p] = k /\ Kind(p) = script[k].kind
      /\ p \in PartsOf(r) /\ At(r, k, 3, call[r]) /\ CallsAt(r, k, 3, call[r]) /\ RankFits(r, k, 3, call[r])
  BY <1>3 DEF WorksIn
<1>5. script[k].kind = "resolve" /\ script[k].kind \in {"counts", "alltoallv", "resolve"} /\ script \in Scripts
  BY <1>1, <1>4 DEF ControlTypes
<1>6. PICK P \in SUBSET Ranks : P = PeersIn(k, r)
  BY <1>5, PeersMutual
<1>7. /\ call[r] = "none" /\ peers[r] = P /\ CountsFit(r, k, 3, "none") /\ RankFits(r, k, 3, "none") /\ At(r, k, 3, "none")
  BY <1>4, <1>5, <1>6 DEF SizeFromCounts, RankFits, PlansFit
<1>8. PICK col : col = [h \in World |-> SumTo([su \in Locals |-> countsRecv'[r][RankOf(h)][h % S][su]], S)]
  OBVIOUS
<1>9. /\ LandCounts(r) /\ SizeStagingRecv(r, P, col) /\ call' = [call EXCEPT ![r] = "sized"]
      /\ UNCHANGED <<peers, wirePlan, packOff, sendSeg, stageSend, red, colls, results>>
  BY <1>4, <1>7, <1>8 DEF SizeFromCounts
<1>10. call'[r] = "sized" /\ \A b \in Ranks \ {r} : call'[b] = call[b]
  BY <1>1, <1>9 DEF MpiTypes
<1>11. /\ OnlyMoves(p) /\ script' = script /\ aborted' = aborted /\ verb' = verb /\ window' = window
       /\ At(r, k, 3, "sized")' /\ Refused(r)'
       /\ \A u \in Locals : Passed2(Global(r, u), k)' <=> Passed2(Global(r, u), k)
  BY <1>1, <1>3, <1>10, AfterCall
<1>12. /\ SentTo("count", k, 3, "none") = k /\ SentTo("count", k, 3, "sized") = k
       /\ HadTo("count", k, 3, "none") = k - 1 /\ HadTo("count", k, 3, "sized") = k
       /\ SentTo("payload", k, 3, "none") = k - 1 /\ SentTo("payload", k, 3, "sized") = k - 1
       /\ HadTo("payload", k, 3, "none") = k - 1 /\ HadTo("payload", k, 3, "sized") = k - 1
       /\ CalledTo(k, 3, "none") = 2 * k - 1 /\ CalledTo(k, 3, "sized") = 2 * k - 1
  BY <1>5 DEF SentTo, HadTo, CalledTo
<1>13. /\ \A a \in P : countsRecv'[r][a] = Traffic(k, a, r)
       /\ OnRanks(countsRecv)' /\ \A b \in Ranks : OnRanks(countsRecv'[b])
       /\ \A b \in Ranks \ {r} : countsRecv'[b] = countsRecv[b]
  <2>1. ASSUME NEW a \in P, ~Sends("count", k, a, r) PROVE countsRecv[r][a] = Traffic(k, a, r)
    <3>1. ~script[k].derive /\ (a \in PeersIn(k, r) <=> r \in PeersIn(k, a)) /\ a \in Ranks
      BY <1>5, <1>6, AgreedPeers, PeersMutual
    <3>2. ~script[k].plan.sparse \/ a = r
      BY <1>5, <1>6, <2>1, <3>1 DEF Sends
    <3>3. CountsReady(r, k, 3, "none", a)
      BY <3>2 DEF CountsReady
    <3>4. QED
      BY <1>5, <1>6, <1>7, <3>3 DEF CountsFit, Counting
  <2>2. QED
    BY <1>1, <1>5, <1>6, <1>7, <1>9, <1>12, <2>1, CountsLanded
<1>14. /\ recvSeg'[r] = Segment(P, Col(RecvGrid(k, r)))
       /\ \A h \in OfRanks(P) : baseRecv'[r][h] = Start(P, Col(RecvGrid(k, r)), h)
       /\ Start(P, Col(RecvGrid(k, r)), R * S) <= Len(stageRecv'[r]) /\ IsSequence(stageRecv'[r])
       /\ OnRanks(baseRecv)' /\ OnRanks(recvSeg)' /\ OnRanks(stageRecv)'
       /\ \A b \in Ranks \ {r} : baseRecv'[b] = baseRecv[b] /\ recvSeg'[b] = recvSeg[b] /\ stageRecv'[b] = stageRecv[b]
  <2>1. ASSUME NEW h \in OfRanks(P) PROVE col[h] = Col(RecvGrid(k, r))[h]
    <3>1. h \in World /\ RankOf(h) \in P /\ h % S \in Locals
      BY RankFacts DEF OfRanks
    <3>2. [su \in Locals |-> countsRecv'[r][RankOf(h)][h % S][su]] = RecvGrid(k, r)[h]
      BY <1>13, <3>1, ZenonT(60) DEF RecvGrid, Traffic
    <3>3. QED
      BY <1>8, <3>1, <3>2 DEF Col
  <2>2. Shapes
    BY DEF WireInv
  <2>3. QED
    BY <1>5, <1>9, <2>1, <2>2, RecvLaidOut
<1>15. Shapes'
  <2>1. \A b \in Ranks : IsSequence(stageRecv'[b])
    BY <1>14 DEF WireInv, Shapes
  <2>2. QED
    BY <1>9, <1>13, <1>14, <2>1 DEF WireInv, Shapes, OnRanks, OnWorld, results
<1>16. IsMatrix(channel) /\ IsMatrix(wants) /\ wants["count"][r][r] = 0 /\ "count" \in Tags
  BY <1>1 DEF MpiTypes, Tags
<1>17. Landed("count", r) /\ Receive("count", r)
  BY <1>9 DEF LandCounts
<1>18. /\ \A u \in Tags, a \in Ranks, b \in Ranks : u # "count" \/ b # r => channel'[u][a][b] = channel[u][a][b]
       /\ \A u \in Tags, a \in Ranks, b \in Ranks : u # "count" \/ a # r => wants'[u][a][b] = wants[u][a][b]
  BY <1>16, <1>17, ReceiveEffect
<1>19. Elsewhere(r)
  BY <1>9, <1>10, <1>13, <1>14, <1>18 DEF Elsewhere
<1>20. RankFits(r, k, 3, "sized")'
  <2>1. /\ script'[k] = script[k] /\ PeersIn(k, r)' = P /\ (\A a : Traffic(k, a, r)' = Traffic(k, a, r)) /\ Len(script') = Len(script)
        /\ RecvGrid(k, r)' = RecvGrid(k, r)
    BY <1>6, <1>11, StaticStays
  <2>2. CallFits(r, k, 3, "sized")' /\ PlansFit(r, k, 3, "sized")'
    BY <1>5, <1>7, <1>9, <2>1 DEF CallFits, PlansFit
  <2>3. SendFits(r, k, 3)' /\ RedFits(r, k, 3)'
    BY <1>7, <1>9, <1>11, PartsStay DEF RankFits
  <2>4. CountsFit(r, k, 3, "sized")'
    BY <1>13, <2>1 DEF CountsFit
  <2>5. RecvFits(r, k, 3, "sized")'
    BY <1>14, <2>1 DEF RecvFits
  <2>6. LegsFit(r, k, 3, "sized")'
    BY DEF LegsFit, LegReady
  <2>7. QED
    BY <2>2, <2>3, <2>4, <2>5, <2>6 DEF RankFits
<1>21. CallsAt(r, k, 3, "sized")'
  BY <1>4, <1>7, <1>9, <1>11, <1>12, CallsAreNext
<1>22. ASSUME NEW tag \in Tags, NEW b \in Ranks \ {r}, NEW x, NEW y, NEW z, CallFits(b, x, y, z)
       PROVE  /\ LinkFits(tag, r, b, k, 3, "none", x, y, z) => LinkFits(tag, r, b, k, 3, "sized", x, y, z)'
              /\ LinkFits(tag, b, r, x, y, z, k, 3, "none") => LinkFits(tag, b, r, x, y, z, k, 3, "sized")'
  <2>1. CASE tag = "count"
    BY <1>5, <1>11, <1>12, <1>16, <1>17, <1>22, <2>1, LandLinks
  <2>2. CASE tag = "payload"
    <3>1. /\ channel'[tag][r][b] = channel[tag][r][b] /\ wants'[tag][r][b] = wants[tag][r][b]
          /\ channel'[tag][b][r] = channel[tag][b][r] /\ wants'[tag][b][r] = wants[tag][b][r]
      BY <1>18, <2>2
    <3>2. /\ SentTo(tag, k, 3, "sized") = SentTo(tag, k, 3, "none")
          /\ HadTo(tag, k, 3, "sized") = HadTo(tag, k, 3, "none")
      BY <1>12, <2>2
    <3>3. QED
      BY <1>5, <1>11, <1>22, <3>1, <3>2, SilentLinks
  <2>3. QED
    BY <2>1, <2>2 DEF Tags
<1>23. RankMoves(r, k, 3, "none", k, 3, "sized")
  BY <1>11, <1>20, <1>21, <1>22 DEF RankMoves
<1>24. UNCHANGED <<results, verb>> /\ (window'[p] = 0 => window[p] = 0)
  BY <1>9, <1>11
<1>25. QED
  BY <1>1, <1>4, <1>7, <1>11, <1>15, <1>19, <1>23, <1>24, RankMove

------------------------------------------------------------------------------
(***************************************************************************)
(* The exchange of the payload                                             *)
(***************************************************************************)

\* When all partitions of the rank have packed, the message for a peer is complete.
LEMMA PackedPay ==
  ASSUME script \in Scripts, NEW r \in Ranks, NEW k \in 1..Len(script), script[k].kind \in Moving, SendFits(r, k, 3),
         IsSequence(stageSend[r]), \A u \in Locals : Passed2(Global(r, u), k), NEW b \in PeersIn(k, r)
  PROVE  /\ b \in Ranks /\ sendSeg[r][b].n = PaySize(k, r, b)
         /\ IsPay(k, r, b, Outgoing(r)[b])
<1>1. PICK P \in SUBSET Ranks : P = PeersIn(k, r)
  BY PeersMutual
<1>2. PICK W, V : W = SendGrid(k, r) /\ V = Traffic(k, r, b)
  OBVIOUS
<1>3. b \in P /\ b \in Ranks
  BY <1>1
<1>4. IsGrid(W) /\ IsSquare(V) /\ RowsOf(W, b) = V
  BY <1>2, <1>3, GridsAgree
<1>5. PICK at, n, st : at = Segment(P, Col(W))[b].at /\ n = Segment(P, Col(W))[b].n /\ st = stageSend[r]
  OBVIOUS
<1>6. sendSeg[r] = Segment(P, Col(W)) /\ Start(P, Col(W), R * S) <= Len(st)
  BY <1>1, <1>2, <1>5 DEF SendFits
<1>7. at \in Nat /\ n \in Nat /\ at + n <= Start(P, Col(W), R * S) /\ Start(P, Col(W), R * S) \in Nat
  <2>1. at \in Nat /\ n \in Nat /\ at + n <= Start(P, Col(W), R * S)
    BY <1>3, <1>4, <1>5, SegmentsApart
  <2>2. \A h \in World : Col(W)[h] \in Nat
    BY <1>4, GridSums
  <2>3. R * S \in 0..(R * S)
    BY Sizes
  <2>4. QED
    BY <2>1, <2>2, <2>3, StartFacts
<1>8. Len(st) \in Nat /\ at + n <= Len(st)
  BY <1>5, <1>6, <1>7, SequenceFacts, SMTT(30)
<1>9. n = PaySize(k, r, b) /\ \A t, u \in Locals : CellAt(P, W, Global(b, t), u) = at + InnerAt(V, t, u)
  BY <1>2, <1>3, <1>4, <1>5, CellSplit DEF PaySize
<1>10. PICK msg : msg = SubSeq(st, at + 1, at + n)
  OBVIOUS
<1>11. IsSequence(msg) /\ Len(msg) = n /\ \A j \in 1..n : msg[j] = st[at + j]
  <2>1. IsSequence(st) /\ at \in Nat /\ n \in Nat /\ at + n <= Len(st)
    BY <1>5, <1>7, <1>8
  <2>2. QED
    BY <1>10, <2>1, PartAt
<1>12. ASSUME NEW t \in Locals, NEW u \in Locals, NEW j \in 1..V[t][u]
       PROVE  msg[InnerAt(V, t, u) + j] = <<k, Global(r, u), Global(b, t), j>>
  <2>1. /\ V[t][u] \in Nat /\ InnerAt(V, t, u) \in Nat /\ InnerAt(V, t, u) + V[t][u] <= n
    BY <1>2, <1>4, <1>9, SquareSums DEF PaySize
  <2>2. PICK x \in Nat : x = InnerAt(V, t, u)
    BY <2>1
  <2>3. x + j \in 1..n /\ CellAt(P, W, Global(b, t), u) = at + x
    <3>1. PICK v \in Nat : v = V[t][u]
      BY <2>1
    <3>2. j \in 1..v /\ x + v <= n /\ n \in Nat
      BY <1>7, <2>1, <2>2, <3>1
    <3>3. x + j \in 1..n
      BY <3>2
    <3>4. QED
      BY <1>9, <2>2, <3>3
  <2>4. msg[x + j] = st[at + (x + j)]
    BY <1>11, <2>3
  <2>5. at + (x + j) = CellAt(P, W, Global(b, t), u) + j
    BY <1>7, <2>2, <2>3
  <2>6. Global(b, t) \in OfRanks(P)
    BY <1>3, PartFacts DEF OfRanks
  <2>7. W[Global(b, t)][u] = V[t][u]
    BY <1>4 DEF RowsOf
  <2>8. stageSend[r][CellAt(P, W, Global(b, t), u) + j] = <<k, Global(r, u), Global(b, t), j>>
    BY <1>1, <1>2, <2>6, <2>7 DEF SendFits
  <2>9. QED
    BY <1>5, <2>2, <2>4, <2>5, <2>8
<1>13. Outgoing(r)[b] = msg /\ sendSeg[r][b].n = n
  BY <1>3, <1>5, <1>6, <1>10 DEF Outgoing
<1>14. QED
  BY <1>2, <1>3, <1>9, <1>11, <1>12, <1>13 DEF IsPay

\* Messages that land in the staging, each in its segment.
LEMMA LegsLand ==
  ASSUME script \in Scripts, NEW r \in Ranks, NEW k \in 1..Len(script), NEW st, IsSequence(st),
         NEW P \in SUBSET Ranks, P = PeersIn(k, r), Start(P, Col(RecvGrid(k, r)), R * S) <= Len(st),
         NEW at, \A a \in P : at[a] = Segment(P, Col(RecvGrid(k, r)))[a].at,
         NEW A \in SUBSET P, NEW runs, \A a \in A : IsPay(k, a, r, runs[a]), NEW a \in P
  PROVE  /\ a \in A => HoldsLeg(Overlay(st, A, at, runs), k, a, r)
         /\ a \notin A /\ HoldsLeg(st, k, a, r) => HoldsLeg(Overlay(st, A, at, runs), k, a, r)
<1>0. SUFFICES ASSUME NEW t \in Locals, NEW u \in Locals, NEW j \in 1..Traffic(k, a, r)[t][u],
                      NEW i, i = CellAt(P, RecvGrid(k, r), Global(a, t), u) + j
               PROVE  /\ a \in A => Overlay(st, A, at, runs)[i] = <<k, Global(a, u), Global(r, t), j>>
                      /\ a \notin A => Overlay(st, A, at, runs)[i] = st[i]
  BY DEF HoldsLeg
<1>1. PICK W, V : W = RecvGrid(k, r) /\ V = Traffic(k, a, r)
  OBVIOUS
<1>2. IsGrid(W) /\ IsSquare(V) /\ RowsOf(W, a) = V /\ a \in Ranks
  BY <1>1, GridsAgree
<1>3. PICK seg : seg = Segment(P, Col(W))
  OBVIOUS
<1>4. /\ \A e \in P : /\ seg[e].at \in Nat /\ seg[e].n \in Nat /\ seg[e].at + seg[e].n <= Start(P, Col(W), R * S)
                      /\ at[e] = seg[e].at
      /\ \A e, f \in P : e < f => seg[e].at + seg[e].n <= seg[f].at
  BY <1>1, <1>2, <1>3, SegmentsApart
<1>5. Start(P, Col(W), R * S) \in Nat /\ Len(st) \in Nat /\ Start(P, Col(W), R * S) <= Len(st)
  <2>1. \A h \in World : Col(W)[h] \in Nat
    BY <1>2, GridSums
  <2>2. R * S \in 0..(R * S)
    BY Sizes
  <2>3. QED
    BY <1>1, <2>1, <2>2, StartFacts, SequenceFacts
<1>6. ASSUME NEW e \in A PROVE Len(runs[e]) = seg[e].n
  <2>1. e \in P /\ e \in Ranks
    OBVIOUS
  <2>2. RowsOf(W, e) = Traffic(k, e, r)
    BY <1>1, <2>1, GridsAgree
  <2>3. seg[e].n = InnerSize(RowsOf(W, e))
    BY <1>2, <1>3, <2>1, CellSplit
  <2>4. QED
    BY <2>2, <2>3 DEF IsPay, PaySize
<1>7. PICK x \in Nat : x = InnerAt(V, t, u) + j
  BY <1>0, <1>1, <1>2, SquareSums
<1>8. x \in 1..seg[a].n /\ i = seg[a].at + x
  <2>1. seg[a].n = InnerSize(V) /\ CellAt(P, W, Global(a, t), u) = seg[a].at + InnerAt(V, t, u)
    BY <1>2, <1>3, CellSplit
  <2>2. V[t][u] \in Nat /\ InnerAt(V, t, u) \in Nat /\ InnerAt(V, t, u) + V[t][u] <= InnerSize(V)
    BY <1>2, SquareSums
  <2>3. seg[a].at \in Nat /\ seg[a].n \in Nat
    BY <1>4
  <2>4. QED
    BY <1>0, <1>1, <1>7, <2>1, <2>2, <2>3, SMTT(30)
<1>9. i \in 1..Len(st) /\ i - at[a] = x
  BY <1>4, <1>5, <1>8, SMTT(30)
<1>10. ASSUME NEW e \in A, i - at[e] \in 1..Len(runs[e]) PROVE e = a
  <2>1. PICK l, m, v, w \in Nat : l = seg[a].at /\ m = seg[a].n /\ v = seg[e].at /\ w = seg[e].n
    BY <1>4
  <2>2. i = l + x /\ x \in 1..m /\ i - v \in 1..w
    BY <1>4, <1>6, <1>8, <1>10, <2>1
  <2>3. a \in Nat /\ e \in Nat
    BY <1>2, PartFacts
  <2>4. (a < e => l + m <= v) /\ (e < a => v + w <= l)
    BY <1>4, <2>1
  <2>5. ~(a < e) /\ ~(e < a)
    <3>1. i \in Nat /\ v < i /\ i <= v + w /\ l < i /\ i <= l + m
      BY <2>2
    <3>2. ~(l + m <= v) /\ ~(v + w <= l)
      BY <3>1
    <3>3. QED
      BY <2>4, <3>2
  <2>6. QED
    BY <2>3, <2>5
<1>11. ASSUME a \in A PROVE Overlay(st, A, at, runs)[i] = <<k, Global(a, u), Global(r, t), j>>
  <2>1. i - at[a] \in 1..Len(runs[a])
    BY <1>6, <1>8, <1>9, <1>11
  <2>2. Overlay(st, A, at, runs)[i] = runs[a][i - at[a]]
    BY <1>9, <1>10, <1>11, <2>1, OverlayFacts
  <2>3. runs[a][InnerAt(V, t, u) + j] = <<k, Global(a, u), Global(r, t), j>>
    BY <1>1, <1>11 DEF IsPay
  <2>4. QED
    BY <1>7, <1>9, <2>2, <2>3
<1>12. ASSUME a \notin A PROVE Overlay(st, A, at, runs)[i] = st[i]
  BY <1>9, <1>10, <1>12, OverlayFacts
<1>13. QED
  BY <1>11, <1>12

\* The plan of the payload, and what the rank expects under it.
LEMMA PayloadHere ==
  ASSUME NEW p, NEW r, NEW k, WorksIn(p, r, k, 3), script[k].kind \in Moving, ControlTypes
  PROVE  /\ PeerRanks(PayloadPlan(p), r) = PeersIn(k, r)
         /\ Pairwise(p) <=> script[k].derive \/ script[k].plan.sparse
         /\ \A u \in Locals : Passed2(Global(r, u), k)
<1>1. /\ r \in Ranks /\ k \in 1..Len(script) /\ RankOf(p) = r /\ verb[p] = k /\ Kind(p) = script[k].kind /\ Plan(p) = script[k].plan
      /\ RankFits(r, k, 3, call[r]) /\ Done(k - 1) \in Nat /\ script \in Scripts
      /\ \A u \in Locals : Done(k - 1) + 3 <= enters[Global(r, u)] /\ enters[Global(r, u)] <= Done(k - 1) + 3 + 1
  BY DEF WorksIn, ControlTypes
<1>2. script[k].derive => script[k].kind = "alltoallv"
  BY <1>1, VerbOf
<1>3. PayloadPlan(p) = PlanIn(k, r)
  <2>1. CASE script[k].kind = "alltoallv"
    BY <1>1, <2>1 DEF PayloadPlan, RankFits, PlansFit
  <2>2. CASE script[k].kind # "alltoallv"
    BY <1>1, <1>2, <2>2 DEF PayloadPlan, PlanIn
  <2>3. QED
    BY <2>1, <2>2
<1>4. ~script[k].derive => PlanIn(k, r) = script[k].plan
  BY DEF PlanIn
<1>5. ASSUME NEW u \in Locals PROVE Passed2(Global(r, u), k)
  <2>1. PICK d \in Nat : d = Done(k - 1)
    BY <1>1
  <2>2. PICK e \in Nat : e = enters[Global(r, u)]
    BY <1>1, PartFacts DEF ControlTypes
  <2>3. d + 3 <= e /\ e <= d + 3 + 1
    BY <1>1, <2>1, <2>2
  <2>4. e > d + 2
    BY <2>1, <2>3
  <2>5. QED
    BY <2>1, <2>2, <2>4 DEF Passed2
<1>6. QED
  BY <1>1, <1>3, <1>4, <1>5 DEF Pairwise, PeersIn

\* The lengths of the messages that come from the peers.
LEMMA PayExpected ==
  ASSUME script \in Scripts, NEW r \in Ranks, NEW k \in 1..Len(script), NEW a \in Ranks
  PROVE  Segment(PeersIn(k, r), Col(RecvGrid(k, r)))[a].n = IF a \in PeersIn(k, r) THEN PaySize(k, a, r) ELSE 0
<1>1. PICK P \in SUBSET Ranks : P = PeersIn(k, r)
  BY PeersMutual
<1>2. IsGrid(RecvGrid(k, r)) /\ RowsOf(RecvGrid(k, r), a) = Traffic(k, a, r)
  BY GridsAgree
<1>3. a \in P => Segment(P, Col(RecvGrid(k, r)))[a].n = PaySize(k, a, r)
  BY <1>2, CellSplit DEF PaySize
<1>4. a \notin P => Segment(P, Col(RecvGrid(k, r)))[a].n = 0
  BY <1>2, SegmentsApart
<1>5. QED
  BY <1>1, <1>3, <1>4

\* posting the payload,
LEMMA PostPayloadWire ==
  ASSUME WireInv, Types, JobInv, NEW p \in World, PostPayload(p)
  PROVE  WireInv'
<1>1. /\ IsLead(p) /\ phase[p] = "body" /\ verb[p] > 0 /\ window[p] = 3 /\ Kind(p) \in Moving
      /\ ControlTypes /\ MpiTypes /\ CallsMpi(p)
  BY DEF PostPayload, InWindow, Types, CallsMpi, Moving
<1>2. Syncs[Kind(p)] = 4
  BY <1>1, KindsAre DEF Moving
<1>3. PICK r \in Ranks, k \in 1..Len(script) : WorksIn(p, r, k, 3)
  BY <1>1, <1>2, LeadWorks
<1>4. /\ RankOf(p) = r /\ verb[p] = k /\ Kind(p) = script[k].kind
      /\ p \in PartsOf(r) /\ At(r, k, 3, call[r]) /\ CallsAt(r, k, 3, call[r]) /\ RankFits(r, k, 3, call[r])
  BY <1>3 DEF WorksIn
<1>5. script[k].kind \in Moving /\ script[k].kind \in {"alltoallv", "resolve"} /\ script \in Scripts
  BY <1>1, <1>4 DEF ControlTypes, Moving
<1>6. PICK P \in SUBSET Ranks : P = PeersIn(k, r)
  BY <1>5, PeersMutual
<1>7. PICK c \in {"none", "sized"} : c = call[r] /\ c = IF script[k].kind = "resolve" THEN "sized" ELSE "none"
  BY <1>4 DEF PostPayload
<1>8. PICK pair \in BOOLEAN : pair <=> script[k].derive \/ script[k].plan.sparse
  OBVIOUS
<1>9. PeerRanks(PayloadPlan(p), r) = P /\ (Pairwise(p) <=> pair) /\ \A u \in Locals : Passed2(Global(r, u), k)
  BY <1>1, <1>3, <1>5, <1>6, <1>8, PayloadHere
<1>10. PICK data, sends, expects, at : data = Outgoing(r) /\ sends = [b \in Ranks |-> sendSeg[r][b].n]
                                       /\ expects = [a \in Ranks |-> recvSeg[r][a].n] /\ at = [a \in Ranks |-> recvSeg[r][a].at]
  OBVIOUS
<1>11. /\ pair => /\ Post("payload", r, P, data, sends, expects) /\ UNCHANGED colls
                  /\ stageRecv' = [stageRecv EXCEPT ![r] = Overlay(@, P \cap {r}, at, data)]
       /\ ~pair => Collective(r, "alltoallv", data) /\ UNCHANGED <<channel, wants, stageRecv>>
       /\ call' = [call EXCEPT ![r] = "payload"]
       /\ UNCHANGED <<peers, wirePlan, packOff, sendSeg, baseRecv, recvSeg, stageSend, countsRecv, red, results>>
  <2>1. UNCHANGED <<plans, stageSend, countsRecv, red, results>> /\ call' = [call EXCEPT ![r] = "payload"]
    BY <1>4 DEF PostPayload
  <2>2. pair => /\ Post("payload", r, P, data, sends, expects) /\ UNCHANGED colls
                /\ stageRecv' = [stageRecv EXCEPT ![r] = Overlay(@, P \cap {r}, at, data)]
    BY <1>4, <1>9, <1>10 DEF PostPayload, StageRuns
  <2>3. ~pair => Collective(r, "alltoallv", data) /\ UNCHANGED <<channel, wants, stageRecv>>
    BY <1>4, <1>9, <1>10 DEF PostPayload
  <2>4. QED
    BY <2>1, <2>2, <2>3 DEF plans
<1>12. call'[r] = "payload" /\ \A b \in Ranks \ {r} : call'[b] = call[b]
  BY <1>1, <1>11 DEF MpiTypes
<1>13. /\ OnlyMoves(p) /\ script' = script /\ aborted' = aborted /\ verb' = verb /\ window' = window
       /\ At(r, k, 3, "payload")' /\ Refused(r)'
       /\ \A u \in Locals : Passed2(Global(r, u), k)' <=> Passed2(Global(r, u), k)
  BY <1>1, <1>3, <1>12, AfterCall
<1>14. /\ SentTo("count", k, 3, c) = k /\ SentTo("count", k, 3, "payload") = k
       /\ HadTo("count", k, 3, "payload") = HadTo("count", k, 3, c)
       /\ SentTo("payload", k, 3, c) = k - 1 /\ SentTo("payload", k, 3, "payload") = k
       /\ HadTo("payload", k, 3, c) = k - 1 /\ HadTo("payload", k, 3, "payload") = k - 1
       /\ CalledTo(k, 3, c) = 2 * k - 1 /\ CalledTo(k, 3, "payload") = 2 * k
  BY <1>5, <1>7 DEF SentTo, HadTo, CalledTo
<1>15. /\ RankFits(r, k, 3, c) /\ SendFits(r, k, 3) /\ RecvFits(r, k, 3, c) /\ RecvReady(k, 3, c) /\ CallsAt(r, k, 3, c) /\ At(r, k, 3, c)
       /\ IsSequence(stageSend[r]) /\ IsSequence(stageRecv[r]) /\ OnRanks(stageRecv) /\ OnRanks(colls)
  <2>1. RankFits(r, k, 3, c) /\ CallsAt(r, k, 3, c) /\ At(r, k, 3, c)
    BY <1>4, <1>7
  <2>2. SendFits(r, k, 3) /\ RecvFits(r, k, 3, c)
    BY <2>1 DEF RankFits
  <2>3. RecvReady(k, 3, c)
    BY <1>5, <1>7 DEF RecvReady
  <2>4. QED
    BY <2>1, <2>2, <2>3 DEF WireInv, Shapes
<1>16. \A b \in P : b \in Ranks /\ sends[b] = PaySize(k, r, b) /\ IsPay(k, r, b, data[b])
  BY <1>5, <1>6, <1>9, <1>10, <1>15, PackedPay
<1>17. /\ recvSeg[r] = Segment(P, Col(RecvGrid(k, r))) /\ Start(P, Col(RecvGrid(k, r)), R * S) <= Len(stageRecv[r])
       /\ \A a \in Ranks : expects[a] = IF a \in P THEN PaySize(k, a, r) ELSE 0
  <2>1. recvSeg[r] = Segment(P, Col(RecvGrid(k, r))) /\ Start(P, Col(RecvGrid(k, r)), R * S) <= Len(stageRecv[r])
    BY <1>6, <1>15 DEF RecvFits
  <2>2. \A a \in Ranks : expects[a] = recvSeg[r][a].n
    BY <1>10
  <2>3. QED
    BY <1>5, <1>6, <2>1, <2>2, PayExpected
<1>18. /\ OnRanks(stageRecv)' /\ IsSequence(stageRecv'[r]) /\ Len(stageRecv'[r]) = Len(stageRecv[r])
       /\ \A b \in Ranks \ {r} : stageRecv'[b] = stageRecv[b]
       /\ pair => stageRecv'[r] = Overlay(stageRecv[r], P \cap {r}, at, data)
  <2>1. CASE pair
    <3>1. /\ OnRanks(stageRecv)' /\ stageRecv'[r] = Overlay(stageRecv[r], P \cap {r}, at, data)
          /\ \A b \in Ranks \ {r} : stageRecv'[b] = stageRecv[b]
      BY <1>11, <1>15, <2>1 DEF OnRanks
    <3>2. IsSequence(stageRecv'[r]) /\ Len(stageRecv'[r]) = Len(stageRecv[r])
      BY <1>15, <3>1, OverlayFacts
    <3>3. QED
      BY <3>1, <3>2
  <2>2. CASE ~pair
    BY <1>11, <1>15, <2>2 DEF OnRanks
  <2>3. QED
    BY <2>1, <2>2
<1>19. /\ OnRanks(colls)' /\ \A b \in Ranks \ {r} : colls'[b] = colls[b]
       /\ pair => colls'[r] = colls[r]
       /\ ~pair => colls'[r] = Append(colls[r], [op |-> "alltoallv", data |-> data])
  BY <1>11, <1>15 DEF OnRanks, Collective
<1>20. Shapes'
  <2>1. \A b \in Ranks : IsSequence(stageRecv'[b])
    BY <1>18 DEF WireInv, Shapes
  <2>2. QED
    BY <1>11, <1>18, <1>19, <2>1 DEF WireInv, Shapes, OnRanks, OnWorld, results
<1>21. IsMatrix(channel) /\ IsMatrix(wants) /\ "payload" \in Tags
  BY <1>1 DEF MpiTypes, Tags
<1>22. ASSUME NEW u \in Tags, NEW a \in Ranks, NEW b \in Ranks, u # "payload" \/ a # r
       PROVE  channel'[u][a][b] = channel[u][a][b] /\ wants'[u][a][b] = wants[u][a][b]
  <2>1. CASE pair
    BY <1>11, <1>21, <1>22, <2>1, PostEffect
  <2>2. CASE ~pair
    BY <1>11, <2>2
  <2>3. QED
    BY <2>1, <2>2
<1>23. Elsewhere(r)
  BY <1>11, <1>12, <1>18, <1>19, <1>22 DEF Elsewhere
<1>24. RankFits(r, k, 3, "payload")'
  <2>1. /\ script'[k] = script[k] /\ PeersIn(k, r)' = P /\ Traffic(k, r, r)' = Traffic(k, r, r) /\ Len(script') = Len(script)
        /\ RecvGrid(k, r)' = RecvGrid(k, r)
    BY <1>6, <1>13, StaticStays
  <2>2. CallFits(r, k, 3, "payload")'
    BY <1>5, <2>1 DEF CallFits
  <2>3. PlansFit(r, k, 3, "payload") /\ CountsFit(r, k, 3, "payload") /\ RecvFits(r, k, 3, "payload")
    BY <1>5, <1>7, <1>15 DEF RankFits, PlansFit, CountsFit, CountsReady, RecvFits, RecvReady, Counting, Moving
  <2>4. PlansFit(r, k, 3, "payload")' /\ CountsFit(r, k, 3, "payload")' /\ RecvFits(r, k, 3, "payload")'
    BY <1>11, <1>13, <1>18, <2>3, PartsStay
  <2>5. SendFits(r, k, 3)' /\ RedFits(r, k, 3)'
    BY <1>11, <1>13, <1>15, PartsStay DEF RankFits
  <2>6. ASSUME pair, r \in P PROVE LegIn(r, k, r)'
    <3>1. PICK A \in SUBSET P : A = P \cap {r} /\ r \in A
      BY <2>6
    <3>2. PICK st : st = stageRecv[r]
      OBVIOUS
    <3>3. \A a \in P : at[a] = Segment(P, Col(RecvGrid(k, r)))[a].at
      BY <1>10, <1>17
    <3>4. IsSequence(st) /\ Start(P, Col(RecvGrid(k, r)), R * S) <= Len(st) /\ \A a \in A : IsPay(k, a, r, data[a])
      BY <1>15, <1>16, <1>17, <3>1, <3>2
    <3>5. HoldsLeg(Overlay(st, A, at, data), k, r, r)
      BY <1>5, <1>6, <2>6, <3>1, <3>3, <3>4, LegsLand
    <3>6. HoldsLeg(stageRecv'[r], k, r, r)
      BY <1>18, <2>6, <3>1, <3>2, <3>5
    <3>7. \A buf : HoldsLeg(buf, k, r, r)' <=> HoldsLeg(buf, k, r, r)
      BY <1>6, <2>1 DEF HoldsLeg
    <3>8. QED
      BY <3>6, <3>7 DEF LegIn
  <2>7. LegsFit(r, k, 3, "payload")'
    BY <1>8, <2>1, <2>6 DEF LegsFit, LegReady
  <2>8. QED
    BY <2>2, <2>4, <2>5, <2>7 DEF RankFits
<1>25. CallsAt(r, k, 3, "payload")'
  <2>1. Calls(colls[r], r, 2 * k - 1)
    BY <1>13, <1>14, <1>15, CallsAreNext
  <2>2. /\ HasColl(2 * k) <=> ~pair
        /\ \A x : IsColl(2 * k, r, x) <=> IsLate(k, r, x)
        /\ 2 * k \in 1..(2 * Len(script)) /\ (2 * k) - 1 = 2 * k - 1
    <3>1. HasColl(2 * k) <=> LateColl(k)
      BY <1>5, CollNumbers
    <3>2. LateColl(k) <=> ~pair
      BY <1>5, <1>8 DEF LateColl
    <3>3. QED
      BY <1>5, <3>1, <3>2, CollNumbers
  <2>3. IF HasColl(2 * k) THEN \E x : colls'[r] = Append(colls[r], x) /\ IsColl(2 * k, r, x) ELSE colls'[r] = colls[r]
    <3>1. CASE pair
      BY <1>19, <2>2, <3>1
    <3>2. CASE ~pair
      <4>1. PICK x : x = [op |-> "alltoallv", data |-> data]
        OBVIOUS
      <4>2. P = Ranks
        BY <1>5, <1>6, <1>8, <3>2, PeersMutual
      <4>3. x.op = OpOf(k) /\ x.data = data /\ script[k].kind \notin {"sum", "inplace"}
        BY <1>5, <4>1 DEF OpOf
      <4>4. IsLate(k, r, x)
        BY <1>16, <4>2, <4>3 DEF IsLate
      <4>5. QED
        BY <1>19, <2>2, <3>2, <4>1, <4>4
    <3>3. QED
      BY <3>1, <3>2
  <2>4. \A new : new = colls'[r] => Calls(new, r, 2 * k)
    BY <1>5, <2>1, <2>2, <2>3, CallNext
  <2>5. QED
    BY <1>13, <1>14, <2>4, CallsAreNext
<1>26. ASSUME NEW tag \in Tags, NEW b \in Ranks \ {r}, NEW x, NEW y, NEW z, CallFits(b, x, y, z)
       PROVE  /\ LinkFits(tag, r, b, k, 3, c, x, y, z) => LinkFits(tag, r, b, k, 3, "payload", x, y, z)'
              /\ LinkFits(tag, b, r, x, y, z, k, 3, c) => LinkFits(tag, b, r, x, y, z, k, 3, "payload")'
  <2>1. CASE tag = "payload" /\ pair
    <3>1. PaySize(k, b, r) # 0 => (r \in PeersIn(k, b) <=> b \in P)
      BY <1>5, <1>6, PeersMutual
    <3>2. /\ Sends("payload", k, r, b) <=> b \in P /\ sends[b] # 0
          /\ Sends("payload", k, b, r) <=> b \in P /\ PaySize(k, b, r) # 0
      BY <1>5, <1>6, <1>8, <1>16, <2>1, <3>1 DEF Sends
    <3>3. Sends("payload", k, r, b) => IsMessage("payload", k, r, b, data[b])
      BY <1>16, <3>2 DEF IsMessage
    <3>4. (IF b \in P THEN expects[b] ELSE 0) = (IF Sends("payload", k, b, r) THEN SizeOf("payload", k, b, r) ELSE 0)
      BY <1>17, <3>2 DEF SizeOf
    <3>5. Post("payload", r, P, data, sends, expects)
      BY <1>11, <2>1
    <3>6. QED
      BY <1>5, <1>13, <1>14, <1>21, <1>26, <2>1, <3>2, <3>3, <3>4, <3>5, PostLinks
  <2>2. CASE ~(tag = "payload" /\ pair)
    <3>1. /\ channel'[tag][r][b] = channel[tag][r][b] /\ wants'[tag][r][b] = wants[tag][r][b]
          /\ channel'[tag][b][r] = channel[tag][b][r] /\ wants'[tag][b][r] = wants[tag][b][r]
      BY <1>11, <1>22, <2>2
    <3>2. tag = "payload" => ~Sends(tag, k, r, b) /\ ~Sends(tag, k, b, r)
      BY <1>8, <2>2 DEF Sends
    <3>3. /\ \/ SentTo(tag, k, 3, "payload") = SentTo(tag, k, 3, c)
             \/ SentTo(tag, k, 3, c) = k - 1 /\ SentTo(tag, k, 3, "payload") = k /\ ~Sends(tag, k, r, b)
          /\ HadTo(tag, k, 3, "payload") = HadTo(tag, k, 3, c)
          /\ Sends(tag, k, b, r) => SentTo(tag, k, 3, "payload") = SentTo(tag, k, 3, c)
      BY <1>14, <3>2 DEF Tags
    <3>4. QED
      BY <1>5, <1>13, <1>26, <3>1, <3>3, SilentLinks
  <2>3. QED
    BY <2>1, <2>2
<1>27. RankMoves(r, k, 3, c, k, 3, "payload")
  BY <1>13, <1>24, <1>25, <1>26 DEF RankMoves
<1>28. UNCHANGED <<results, verb>> /\ (window'[p] = 0 => window[p] = 0)
  BY <1>11, <1>13
<1>29. QED
  BY <1>1, <1>4, <1>13, <1>15, <1>20, <1>23, <1>27, <1>28, RankMove

\* The messages of verb k that have come to r.
LEMMA PayLanded ==
  ASSUME WireInv, MpiTypes, script \in Scripts, NEW r \in Ranks, NEW k \in 1..Len(script), NEW s, NEW c, At(r, k, s, c),
         SentTo("payload", k, s, c) = k, HadTo("payload", k, s, c) = k - 1, Landed("payload", r),
         script[k].kind \in Moving, script[k].derive \/ script[k].plan.sparse
  PROVE  /\ Awaited("payload", r) \in SUBSET PeersIn(k, r)
         /\ \A a \in Awaited("payload", r) : a # r /\ IsPay(k, a, r, Message("payload", a, r))
         /\ \A a \in PeersIn(k, r) : a # r /\ a \notin Awaited("payload", r) => PaySize(k, a, r) = 0
<1>1. wants["payload"][r][r] = 0 /\ "payload" \in Tags /\ \A a \in Awaited("payload", r) : a \in Ranks
  BY DEF MpiTypes, Tags, Awaited
<1>2. ASSUME NEW a \in Ranks, a # r
      PROVE  /\ a \in Awaited("payload", r) <=> Sends("payload", k, a, r)
             /\ Sends("payload", k, a, r) => IsPay(k, a, r, Message("payload", a, r))
  <2>1. PICK x, y, z : At(a, x, y, z) /\ CallFits(a, x, y, z)
    BY Here
  <2>2. LinkFits("payload", a, r, x, y, z, k, s, c)
    BY <1>1, <1>2, <2>1 DEF WireInv, MessagesFit
  <2>3. a \in Awaited("payload", r) <=> Sends("payload", k, a, r)
    BY <1>1, <1>2, <2>2, AwaitedIs
  <2>4. ASSUME Sends("payload", k, a, r) PROVE IsPay(k, a, r, Message("payload", a, r))
    <3>1. PICK m : m = SentTo("payload", x, y, z)
      OBVIOUS
    <3>2. m \in 0..Len(script) /\ Flows(channel["payload"][a][r], "payload", a, r, m, k - 1)
      BY <2>1, <2>2, <3>1, CountsInRange, LinkIs
    <3>3. channel["payload"][a][r] # <<>>
      BY <2>3, <2>4 DEF Landed
    <3>4. IsMessage("payload", k, a, r, Head(channel["payload"][a][r]))
      BY <2>4, <3>2, <3>3, FlowLand
    <3>5. QED
      BY <3>4 DEF IsMessage, Message
  <2>5. QED
    BY <2>3, <2>4
<1>3. ASSUME NEW a \in Ranks, a # r PROVE Sends("payload", k, a, r) <=> a \in PeersIn(k, r) /\ PaySize(k, a, r) # 0
  <2>1. PaySize(k, a, r) # 0 => (r \in PeersIn(k, a) <=> a \in PeersIn(k, r))
    BY PeersMutual
  <2>2. QED
    BY <1>3, <2>1 DEF Sends, Moving
<1>4. \A a \in Awaited("payload", r) : a \in Ranks /\ a # r
  BY <1>1 DEF Awaited
<1>5. \A a \in PeersIn(k, r) : a \in Ranks
  BY PeersMutual
<1>6. QED
  BY <1>2, <1>3, <1>4, <1>5

\* and receiving it,
LEMMA LandPayloadWire ==
  ASSUME WireInv, Types, JobInv, NEW p \in World, LandPayload(p)
  PROVE  WireInv'
<1>1. /\ IsLead(p) /\ phase[p] = "body" /\ verb[p] > 0 /\ window[p] = 3 /\ Kind(p) \in Moving
      /\ ControlTypes /\ MpiTypes /\ EndsWindow(p)
  BY DEF LandPayload, InWindow, Types, EndsWindow, Moving
<1>2. Syncs[Kind(p)] = 4
  BY <1>1, KindsAre DEF Moving
<1>3. PICK r \in Ranks, k \in 1..Len(script) : WorksIn(p, r, k, 3)
  BY <1>1, <1>2, LeadWorks
<1>4. /\ RankOf(p) = r /\ verb[p] = k /\ Kind(p) = script[k].kind
      /\ p \in PartsOf(r) /\ At(r, k, 3, call[r]) /\ CallsAt(r, k, 3, call[r]) /\ RankFits(r, k, 3, call[r])
  BY <1>3 DEF WorksIn
<1>5. script[k].kind \in Moving /\ script[k].kind \in {"alltoallv", "resolve"} /\ script \in Scripts
  BY <1>1, <1>4 DEF ControlTypes, Moving
<1>6. PICK P \in SUBSET Ranks : P = PeersIn(k, r)
  BY <1>5, PeersMutual
<1>7. call[r] = "payload" /\ At(r, k, 3, "payload") /\ CallsAt(r, k, 3, "payload") /\ RankFits(r, k, 3, "payload")
  BY <1>4 DEF LandPayload
<1>8. PICK pair \in BOOLEAN : pair <=> script[k].derive \/ script[k].plan.sparse
  OBVIOUS
<1>9. Pairwise(p) <=> pair
  BY <1>1, <1>3, <1>5, <1>8, PayloadHere
<1>10. PICK A, runs, at : /\ A = IF pair THEN Awaited("payload", r) ELSE Ranks
                          /\ runs = [a \in Ranks |-> IF pair THEN Message("payload", a, r) ELSE From(a, r)[r]]
                          /\ at = [a \in Ranks |-> recvSeg[r][a].at]
  OBVIOUS
<1>11. /\ stageRecv' = [stageRecv EXCEPT ![r] = Overlay(@, A, at, runs)]
       /\ pair => Landed("payload", r) /\ Receive("payload", r)
       /\ ~pair => Everybody(r) /\ UNCHANGED <<channel, wants>>
       /\ call' = [call EXCEPT ![r] = "none"]
       /\ UNCHANGED <<peers, wirePlan, packOff, sendSeg, baseRecv, recvSeg, stageSend, countsRecv, red, colls, results>>
  <2>1. UNCHANGED <<plans, stageSend, countsRecv, red, colls, results>> /\ call' = [call EXCEPT ![r] = "none"]
    BY <1>4 DEF LandPayload
  <2>2. CASE pair
    <3>1. Landed("payload", r) /\ Receive("payload", r) /\ StageRuns(r, Awaited("payload", r), [a \in Ranks |-> Message("payload", a, r)])
      BY <1>4, <1>9, <2>2 DEF LandPayload
    <3>2. runs = [a \in Ranks |-> Message("payload", a, r)] /\ A = Awaited("payload", r)
      BY <1>10, <2>2
    <3>3. QED
      BY <1>10, <2>1, <2>2, <3>1, <3>2 DEF StageRuns, plans
  <2>3. CASE ~pair
    <3>1. Everybody(r) /\ UNCHANGED <<channel, wants>> /\ StageRuns(r, Ranks, [a \in Ranks |-> From(a, r)[r]])
      BY <1>4, <1>9, <2>3 DEF LandPayload
    <3>2. runs = [a \in Ranks |-> From(a, r)[r]] /\ A = Ranks
      BY <1>10, <2>3
    <3>3. QED
      BY <1>10, <2>1, <2>3, <3>1, <3>2 DEF StageRuns, plans
  <2>4. QED
    BY <2>2, <2>3
<1>12. call'[r] = "none" /\ \A b \in Ranks \ {r} : call'[b] = call[b]
  BY <1>1, <1>11 DEF MpiTypes
<1>13. /\ OnlyMoves(p) /\ script' = script /\ aborted' = aborted /\ verb' = verb /\ window'[p] # 0
       /\ At(r, k, 4, "none")' /\ Refused(r)'
  <2>1. 4 = IF 3 + 1 = Syncs[script[k].kind] THEN 4 ELSE 3 + 1
    OBVIOUS
  <2>2. QED
    BY <1>1, <1>3, <1>12, <2>1, AfterWindow
<1>14. /\ SentTo("count", k, 3, "payload") = k /\ SentTo("count", k, 4, "none") = k
       /\ HadTo("count", k, 3, "payload") = (IF script[k].kind = "resolve" THEN k ELSE k - 1) /\ HadTo("count", k, 4, "none") = k
       /\ SentTo("payload", k, 3, "payload") = k /\ SentTo("payload", k, 4, "none") = k
       /\ HadTo("payload", k, 3, "payload") = k - 1 /\ HadTo("payload", k, 4, "none") = k
       /\ CalledTo(k, 3, "payload") = 2 * k /\ CalledTo(k, 4, "none") = 2 * k
  BY DEF SentTo, HadTo, CalledTo
<1>15. /\ RecvFits(r, k, 3, "payload") /\ LegsFit(r, k, 3, "payload") /\ RecvReady(k, 3, "payload")
       /\ IsSequence(stageRecv[r]) /\ OnRanks(stageRecv)
  <2>1. RecvFits(r, k, 3, "payload") /\ LegsFit(r, k, 3, "payload")
    BY <1>7 DEF RankFits
  <2>2. RecvReady(k, 3, "payload")
    BY <1>5 DEF RecvReady
  <2>3. QED
    BY <2>1, <2>2 DEF WireInv, Shapes
<1>16. recvSeg[r] = Segment(P, Col(RecvGrid(k, r))) /\ Start(P, Col(RecvGrid(k, r)), R * S) <= Len(stageRecv[r])
  BY <1>6, <1>15 DEF RecvFits
<1>17. /\ A \in SUBSET P /\ \A a \in A : IsPay(k, a, r, runs[a])
       /\ \A a \in P \ A : (a = r /\ LegIn(r, k, r)) \/ PaySize(k, a, r) = 0
  <2>1. CASE pair
    <3>1. /\ A \in SUBSET P /\ \A a \in A : a # r /\ IsPay(k, a, r, Message("payload", a, r))
          /\ \A a \in P : a # r /\ a \notin A => PaySize(k, a, r) = 0
      BY <1>1, <1>5, <1>6, <1>7, <1>8, <1>10, <1>11, <1>14, <2>1, PayLanded
    <3>2. \A a \in A : runs[a] = Message("payload", a, r)
      BY <1>10, <2>1, <3>1
    <3>3. r \in P => LegIn(r, k, r)
      BY <1>5, <1>6, <1>8, <1>15, <2>1 DEF LegsFit, LegReady
    <3>4. QED
      BY <3>1, <3>2, <3>3
  <2>2. CASE ~pair
    <3>1. A = Ranks /\ P = Ranks
      BY <1>5, <1>6, <1>8, <1>10, <2>2, PeersMutual
    <3>2. ASSUME NEW a \in Ranks PROVE IsPay(k, a, r, runs[a])
      <4>1. Calls(colls[r], r, 2 * k)
        BY <1>7, <1>13, <1>14, CallsAreNext
      <4>2. HasColl(2 * k) /\ 2 * k \in 1..(2 * Len(script))
        <5>1. LateColl(k)
          BY <1>5, <1>8, <2>2 DEF LateColl
        <5>2. QED
          BY <1>5, <5>1, CollNumbers
      <4>3. IsColl(2 * k, a, colls[a][Len(colls[r])])
        BY <1>5, <1>11, <2>2, <4>1, <4>2, CalledHere
      <4>4. IsLate(k, a, colls[a][Len(colls[r])])
        BY <1>5, <4>3, CollNumbers
      <4>5. IsPay(k, a, r, From(a, r)[r])
        BY <1>5, <4>4 DEF IsLate, From
      <4>6. QED
        BY <1>10, <2>2, <4>5
    <3>3. QED
      BY <3>1, <3>2
  <2>3. QED
    BY <2>1, <2>2
<1>18. /\ OnRanks(stageRecv)' /\ stageRecv'[r] = Overlay(stageRecv[r], A, at, runs)
       /\ \A b \in Ranks \ {r} : stageRecv'[b] = stageRecv[b]
       /\ IsSequence(stageRecv'[r]) /\ Len(stageRecv'[r]) = Len(stageRecv[r])
  <2>1. /\ OnRanks(stageRecv)' /\ stageRecv'[r] = Overlay(stageRecv[r], A, at, runs)
        /\ \A b \in Ranks \ {r} : stageRecv'[b] = stageRecv[b]
    BY <1>11, <1>15 DEF OnRanks
  <2>2. IsSequence(stageRecv'[r]) /\ Len(stageRecv'[r]) = Len(stageRecv[r])
    BY <1>15, <2>1, OverlayFacts
  <2>3. QED
    BY <2>1, <2>2
<1>19. ASSUME NEW a \in P PROVE HoldsLeg(stageRecv'[r], k, a, r)
  <2>1. CASE PaySize(k, a, r) = 0
    <3>1. \A t, u \in Locals : Traffic(k, a, r)[t][u] = 0
      BY <1>5, <2>1, SizeOfTalk
    <3>2. QED
      BY <3>1 DEF HoldsLeg
  <2>2. CASE PaySize(k, a, r) # 0
    <3>1. PICK st : st = stageRecv[r]
      OBVIOUS
    <3>2. \A e \in P : at[e] = Segment(P, Col(RecvGrid(k, r)))[e].at
      BY <1>10, <1>16
    <3>3. IsSequence(st) /\ Start(P, Col(RecvGrid(k, r)), R * S) <= Len(st)
      BY <1>15, <1>16, <3>1
    <3>4. a \in A \/ (a \notin A /\ HoldsLeg(st, k, a, r))
      BY <1>17, <2>2, <3>1 DEF LegIn
    <3>5. HoldsLeg(Overlay(st, A, at, runs), k, a, r)
      BY <1>5, <1>6, <1>17, <3>2, <3>3, <3>4, LegsLand
    <3>6. QED
      BY <1>18, <3>1, <3>5
  <2>3. QED
    BY <2>1, <2>2
<1>20. Shapes'
  <2>1. \A b \in Ranks : IsSequence(stageRecv'[b])
    BY <1>18 DEF WireInv, Shapes
  <2>2. QED
    BY <1>11, <1>18, <2>1 DEF WireInv, Shapes, OnRanks, OnWorld, results
<1>21. IsMatrix(channel) /\ IsMatrix(wants) /\ wants["payload"][r][r] = 0 /\ "payload" \in Tags
  BY <1>1 DEF MpiTypes, Tags
<1>22. /\ \A u \in Tags, a \in Ranks, b \in Ranks : u # "payload" \/ b # r => channel'[u][a][b] = channel[u][a][b]
       /\ \A u \in Tags, a \in Ranks, b \in Ranks : u # "payload" \/ a # r => wants'[u][a][b] = wants[u][a][b]
  <2>1. CASE pair
    BY <1>11, <1>21, <2>1, ReceiveEffect
  <2>2. CASE ~pair
    BY <1>11, <2>2
  <2>3. QED
    BY <2>1, <2>2
<1>23. Elsewhere(r)
  BY <1>11, <1>12, <1>18, <1>22 DEF Elsewhere
<1>24. RankFits(r, k, 4, "none")'
  <2>1. /\ script'[k] = script[k] /\ PeersIn(k, r)' = P /\ Len(script') = Len(script)
        /\ RecvGrid(k, r)' = RecvGrid(k, r) /\ \A a : Traffic(k, a, r)' = Traffic(k, a, r)
    BY <1>6, <1>13, StaticStays
  <2>2. CallFits(r, k, 4, "none")'
    BY <2>1 DEF CallFits
  <2>3. PlansFit(r, k, 4, "none") /\ CountsFit(r, k, 4, "none") /\ RecvFits(r, k, 4, "none")
    BY <1>5, <1>7, <1>15 DEF RankFits, PlansFit, CountsFit, CountsReady, RecvFits
  <2>4. PlansFit(r, k, 4, "none")' /\ CountsFit(r, k, 4, "none")' /\ RecvFits(r, k, 4, "none")'
    BY <1>11, <1>13, <1>18, <2>3, PartsStay
  <2>5. SendFits(r, k, 4)' /\ RedFits(r, k, 4)'
    BY <1>5, <2>1 DEF SendFits, RedFits, Reducing
  <2>6. ASSUME NEW a \in P PROVE LegIn(r, k, a)'
    <3>1. \A buf : HoldsLeg(buf, k, a, r)' <=> HoldsLeg(buf, k, a, r)
      BY <1>6, <2>1 DEF HoldsLeg
    <3>2. QED
      BY <1>19, <3>1 DEF LegIn
  <2>7. LegsFit(r, k, 4, "none")'
    BY <2>1, <2>6 DEF LegsFit
  <2>8. QED
    BY <2>2, <2>4, <2>5, <2>7 DEF RankFits
<1>25. CallsAt(r, k, 4, "none")'
  BY <1>7, <1>11, <1>13, <1>14, CallsAreNext
<1>26. ASSUME NEW tag \in Tags, NEW b \in Ranks \ {r}, NEW x, NEW y, NEW z, CallFits(b, x, y, z)
       PROVE  /\ LinkFits(tag, r, b, k, 3, "payload", x, y, z) => LinkFits(tag, r, b, k, 4, "none", x, y, z)'
              /\ LinkFits(tag, b, r, x, y, z, k, 3, "payload") => LinkFits(tag, b, r, x, y, z, k, 4, "none")'
  <2>1. CASE tag = "payload" /\ pair
    BY <1>5, <1>11, <1>13, <1>14, <1>21, <1>26, <2>1, LandLinks
  <2>2. CASE ~(tag = "payload" /\ pair)
    <3>1. /\ channel'[tag][r][b] = channel[tag][r][b] /\ wants'[tag][r][b] = wants[tag][r][b]
          /\ channel'[tag][b][r] = channel[tag][b][r] /\ wants'[tag][b][r] = wants[tag][b][r]
      BY <1>11, <1>22, <2>2
    <3>2. tag = "payload" \/ script[k].kind # "resolve" => ~Sends(tag, k, r, b) /\ ~Sends(tag, k, b, r)
      BY <1>5, <1>8, <2>2 DEF Sends, Tags
    <3>3. /\ SentTo(tag, k, 4, "none") = SentTo(tag, k, 3, "payload")
          /\ \/ HadTo(tag, k, 4, "none") = HadTo(tag, k, 3, "payload")
             \/ HadTo(tag, k, 3, "payload") = k - 1 /\ HadTo(tag, k, 4, "none") = k /\ ~Sends(tag, k, b, r)
      BY <1>14, <3>2 DEF Tags
    <3>4. QED
      BY <1>5, <1>13, <1>26, <3>1, <3>3, SilentLinks
  <2>3. QED
    BY <2>1, <2>2
<1>27. RankMoves(r, k, 3, "payload", k, 4, "none")
  BY <1>13, <1>24, <1>25, <1>26 DEF RankMoves
<1>28. UNCHANGED <<results, verb>> /\ (window'[p] = 0 => window[p] = 0)
  BY <1>11, <1>13
<1>29. QED
  BY <1>1, <1>4, <1>7, <1>13, <1>20, <1>23, <1>27, <1>28, RankMove

------------------------------------------------------------------------------
(***************************************************************************)
(* The reductions                                                          *)
(***************************************************************************)

\* A quotient that is rounded up.
LEMMA CeilCovers ==
  ASSUME NEW a \in Nat, NEW d \in Nat \ {0}
  PROVE  (a + d - 1) \div d \in Nat /\ a <= ((a + d - 1) \div d) * d
<1>1. PICK e \in Nat : e = a + d - 1
  OBVIOUS
<1>2. e \div d \in Nat /\ e % d \in 0..(d - 1) /\ e = ((e \div d) * d) + (e % d)
  BY Divide
<1>3. PICK q \in Nat, m \in 0..(d - 1), x \in Nat : q = e \div d /\ m = e % d /\ x = q * d
  BY <1>2, Multiples
<1>4. a <= x
  BY <1>1, <1>2, <1>3
<1>5. QED
  BY <1>1, <1>3, <1>4

\* Every element of the vector lies in the slice of some partition.
LEMMA SlicesCover ==
  ASSUME NEW e \in 0..(VecLen - 1)
  PROVE  \E u \in Locals : e \in SliceOf(u)
<1>1. PICK l \in Nat : l = (VecLen + Line - 1) \div Line /\ VecLen <= l * Line
  BY Sizes, CeilCovers
<1>2. PICK x \in Nat : x = (l + S - 1) \div S /\ l <= x * S
  BY Sizes, CeilCovers
<1>3. PICK d \in Nat : d = x * Line /\ d = SliceSize
  BY <1>1, <1>2, Sizes, Multiples DEF SliceSize
<1>4. VecLen <= d * S
  <2>1. PICK y \in Nat : y = x * S /\ l <= y
    BY <1>2, Sizes, Multiples
  <2>2. l * Line <= y * Line
    <3>1. l = y \/ l < y
      BY <2>1
    <3>2. l < y => (l * Line) + Line <= y * Line
      BY Sizes, Multiples
    <3>3. l * Line \in Nat /\ y * Line \in Nat /\ Line \in Nat
      BY Sizes, Multiples
    <3>4. QED
      BY <3>1, <3>2, <3>3
  <2>3. y * Line = d * S
    BY <1>3, <2>1, Sizes
  <2>4. PICK f, g \in Nat : f = l * Line /\ g = d * S
    BY Sizes, Multiples
  <2>5. VecLen <= f /\ f <= g
    BY <1>1, <2>2, <2>3, <2>4
  <2>6. QED
    BY <2>4, <2>5, Sizes
<1>5. e \in Nat /\ e < VecLen
  BY Sizes
<1>6. d # 0
  BY <1>4, <1>5, Sizes
<1>7. PICK u \in Nat, m \in 0..(d - 1), f \in Nat : f = u * d /\ e = f + m
  <2>1. e \div d \in Nat /\ e % d \in 0..(d - 1) /\ e = ((e \div d) * d) + (e % d)
    BY <1>5, <1>6, Divide
  <2>2. (e \div d) * d \in Nat
    BY <2>1, Multiples
  <2>3. QED
    BY <2>1, <2>2
<1>8. u < S
  <2>1. ASSUME S <= u PROVE FALSE
    <3>1. S * d <= u * d
      <4>1. S = u \/ S < u
        BY <2>1, Sizes
      <4>2. S < u => (S * d) + d <= u * d
        BY Sizes, Multiples
      <4>3. S * d \in Nat /\ u * d \in Nat
        BY Sizes, Multiples
      <4>4. QED
        BY <4>1, <4>2, <4>3
    <3>2. S * d = d * S
      BY Sizes
    <3>3. PICK g \in Nat : g = d * S
      BY Sizes, Multiples
    <3>4. g <= f /\ VecLen <= g
      BY <1>4, <1>7, <3>1, <3>2, <3>3
    <3>5. QED
      BY <1>5, <1>7, <3>4, Sizes
  <2>2. QED
    BY <2>1, Sizes
<1>9. u \in Locals
  BY <1>8, Sizes DEF Locals
<1>10. u * SliceSize <= e /\ e < u * SliceSize + SliceSize
  <2>1. f <= e /\ e < f + d
    BY <1>6, <1>7
  <2>2. QED
    BY <1>3, <1>7, <2>1
<1>11. QED
  BY <1>9, <1>10 DEF SliceOf

\* A sum of equal numbers.
LEMMA SumOfSame ==
  ASSUME NEW w, NEW n \in Nat, NEW d \in Nat, \A i \in 0..(n - 1) : w[i] = d
  PROVE  \A i \in 0..n : SumTo(w, i) = i * d
<1> DEFINE T == {i \in Nat : i <= n => SumTo(w, i) = i * d}
<1>1. 0 \in T
  BY SumZero
<1>2. ASSUME NEW i \in Nat, i \in T PROVE i + 1 \in T
  <2> SUFFICES ASSUME i + 1 <= n PROVE SumTo(w, i + 1) = (i + 1) * d
    OBVIOUS
  <2>1. SumTo(w, i) = i * d /\ w[i] = d
    BY <1>2
  <2>2. SumTo(w, i + 1) = SumTo(w, i) + w[i]
    BY SumNext
  <2>3. (i + 1) * d = (i * d) + d
    OBVIOUS
  <2>4. QED
    BY <2>1, <2>2, <2>3
<1>3. \A i \in Nat : i \in T
  <2> HIDE DEF T
  <2>1. QED
    BY <1>1, <1>2, SetInduction
<1>4. QED
  BY <1>3

\* The numbers of all ranks, one rank after the other, are those of the whole world.
LEMMA RanksFlatten ==
  ASSUME NEW k
  PROVE  FlattenSeq([i \in 1..R |-> LocalSum(k, i - 1)]) = WorldSum(k)
<1> DEFINE seqs == [i \in 1..R |-> LocalSum(k, i - 1)]
           X == Nat \X {k}
<1>1. ASSUME NEW a \in Ranks PROVE LocalSum(k, a) \in Seq(X) /\ Len(LocalSum(k, a)) = S /\ \A j \in 1..S : LocalSum(k, a)[j] = <<Global(a, j - 1), k>>
  <2>1. \A j \in 1..S : j - 1 \in Locals
    BY Sizes DEF Locals
  <2>2. \A j \in 1..S : <<Global(a, j - 1), k>> \in X
    BY <2>1, PartFacts, RankFacts
  <2>3. LocalSum(k, a) \in [1..S -> X]
    BY <2>2 DEF LocalSum
  <2>4. QED
    BY <2>3, Sizes DEF LocalSum
<1>2. \A i \in 1..R : i - 1 \in Ranks
  BY Sizes DEF Ranks
<1>3. seqs \in [1..R -> Seq(X)] /\ \A i \in 1..R : seqs[i] = LocalSum(k, i - 1)
  BY <1>1, <1>2
<1> HIDE DEF seqs, X
<1>4. PICK flat : flat = FlattenSeq(seqs)
  OBVIOUS
<1>5. flat \in Seq(X) /\ Len(flat) = SumTo(Lengths(seqs, R), R) /\ HoldsAll(flat, seqs, R)
  BY <1>3, <1>4, FlattenAt, Sizes
<1>6. \A i \in 0..(R - 1) : i + 1 \in 1..R /\ (i + 1) - 1 = i /\ i \in Ranks
  BY Sizes DEF Ranks
<1>7. \A i \in 0..(R - 1) : seqs[i + 1] = LocalSum(k, i) /\ Len(seqs[i + 1]) = S
  BY <1>1, <1>3, <1>6
<1>8. \A i \in 0..R : SumTo(Lengths(seqs, R), i) = i * S
  <2>1. \A i \in 0..(R - 1) : Lengths(seqs, R)[i] = S
    BY <1>7 DEF Lengths
  <2>2. QED
    BY <2>1, SumOfSame, Sizes
<1>9. PICK n \in Nat : n = R * S /\ Len(flat) = n
  BY <1>5, <1>8, Sizes
<1>10. ASSUME NEW x \in 1..n PROVE flat[x] = <<x - 1, k>>
  <2>1. PICK g \in World : g = x - 1 /\ x = g + 1
    BY <1>9, Sizes DEF World
  <2>2. RankOf(g) \in Ranks /\ g % S \in Locals /\ g = Global(RankOf(g), g % S)
    BY RankFacts
  <2>3. PICK a \in Ranks, u \in Locals : g = Global(a, u)
    BY <2>2
  <2>4. a \in 0..(R - 1) /\ a \in 0..R /\ u + 1 \in 1..S /\ (u + 1) - 1 = u /\ u \in Nat
    BY Sizes DEF Ranks, Locals
  <2>5. PICK at \in Nat : at = a * S /\ g = at + u
    BY <2>3, <2>4, Sizes, Multiples DEF Global, LeadOf
  <2>6. SumTo(Lengths(seqs, R), a) = at /\ Len(seqs[a + 1]) = S /\ seqs[a + 1] = LocalSum(k, a)
    BY <1>7, <1>8, <2>4, <2>5
  <2>7. flat[at + (u + 1)] = LocalSum(k, a)[u + 1]
    BY <1>5, <2>4, <2>6 DEF HoldsAll
  <2>8. LocalSum(k, a)[u + 1] = <<g, k>>
    BY <1>1, <2>3, <2>4
  <2>9. at + (u + 1) = x
    BY <2>1, <2>4, <2>5
  <2>10. QED
    BY <2>1, <2>7, <2>8, <2>9
<1>11. flat = [i \in 1..n |-> flat[i]]
  BY <1>5, <1>9
<1>12. flat = WorldSum(k)
  BY <1>9, <1>10, <1>11 DEF WorldSum
<1>13. QED
  BY <1>4, <1>12 DEF seqs

\* A reduction moves nothing: what a step of it leaves as it was.
LEMMA ReducingStays ==
  ASSUME script' = script, script \in Scripts, NEW r \in Ranks, NEW k \in 1..Len(script), script[k].kind \in Reducing,
         NEW s \in 1..3, NEW t \in 1..4, s <= t, NEW c \in {"none", "reduce"}, NEW d \in {"none", "reduce"},
         CallFits(r, k, t, d), UNCHANGED <<channel, wants>>
  PROVE  /\ CallFits(r, k, t, d)' /\ PlansFit(r, k, t, d)' /\ SendFits(r, k, t)' /\ CountsFit(r, k, t, d)'
         /\ RecvFits(r, k, t, d)' /\ LegsFit(r, k, t, d)'
         /\ \A tag \in Tags, b \in Ranks \ {r} : \A x, y, z :
              CallFits(b, x, y, z) /\ LinkFits(tag, r, b, k, s, c, x, y, z) => LinkFits(tag, r, b, k, t, d, x, y, z)'
         /\ \A tag \in Tags, b \in Ranks \ {r} : \A x, y, z :
              CallFits(b, x, y, z) /\ LinkFits(tag, b, r, x, y, z, k, s, c) => LinkFits(tag, b, r, x, y, z, k, t, d)'
<1>1. script'[k] = script[k] /\ script[k].kind \in {"sum", "inplace"}
  BY DEF Reducing
<1>2. CallFits(r, k, t, d)'
  BY PartsStay
<1>3. PlansFit(r, k, t, d)'
  BY <1>1 DEF PlansFit
<1>4. SendFits(r, k, t)' /\ LegsFit(r, k, t, d)'
  BY <1>1 DEF SendFits, LegsFit, Moving
<1>5. CountsFit(r, k, t, d)'
  BY <1>1 DEF CountsFit, Counting
<1>6. RecvFits(r, k, t, d)'
  BY <1>1 DEF RecvFits, RecvReady
<1>7. ASSUME NEW tag \in Tags, NEW b \in Ranks \ {r}, NEW x, NEW y, NEW z, CallFits(b, x, y, z)
      PROVE  /\ LinkFits(tag, r, b, k, s, c, x, y, z) => LinkFits(tag, r, b, k, t, d, x, y, z)'
             /\ LinkFits(tag, b, r, x, y, z, k, s, c) => LinkFits(tag, b, r, x, y, z, k, t, d)'
  <2>1. ~Sends(tag, k, r, b) /\ ~Sends(tag, k, b, r)
    BY <1>1 DEF Sends
  <2>2. /\ SentTo(tag, k, t, d) = SentTo(tag, k, s, c) \/ (SentTo(tag, k, s, c) = k - 1 /\ SentTo(tag, k, t, d) = k)
        /\ HadTo(tag, k, t, d) = HadTo(tag, k, s, c) \/ (HadTo(tag, k, s, c) = k - 1 /\ HadTo(tag, k, t, d) = k)
    BY <1>1 DEF SentTo, HadTo, Tags
  <2>3. QED
    BY <1>7, <2>1, <2>2, SilentLinks
<1>8. QED
  BY <1>2, <1>3, <1>4, <1>5, <1>6, <1>7

\* sizing the vector of a reduction in place,
LEMMA PassLeadWire ==
  ASSUME WireInv, Types, JobInv, NEW p \in World, Pass(p), IsLead(p)
  PROVE  WireInv'
<1>1. /\ phase[p] = "body" /\ verb[p] > 0 /\ window[p] = 1 /\ Kind(p) = "inplace"
      /\ ControlTypes /\ EndsWindow(p)
      /\ UNCHANGED <<call, plans, stages, mpi, results>>
  BY DEF Pass, InWindow, Types, EndsWindow
<1>2. Syncs[Kind(p)] = 4
  BY <1>1, KindsAre
<1>3. PICK r \in Ranks, k \in 1..Len(script) : WorksIn(p, r, k, 1)
  BY <1>1, <1>2, LeadWorks
<1>4. /\ RankOf(p) = r /\ verb[p] = k /\ Kind(p) = script[k].kind /\ p \in PartsOf(r)
      /\ At(r, k, 1, call[r]) /\ CallsAt(r, k, 1, call[r]) /\ RankFits(r, k, 1, call[r])
  BY <1>3 DEF WorksIn
<1>5. script[k].kind = "inplace" /\ script \in Scripts
  BY <1>1, <1>4 DEF ControlTypes
<1>6. call[r] = "none"
  <2>1. call[r] \in {"none", "counts", "sized", "payload", "reduce"}
    BY DEF Types, MpiTypes
  <2>2. QED
    BY <1>4, <1>5, <2>1 DEF RankFits, CallFits, Counting
<1>7. At(r, k, 1, "none") /\ CallsAt(r, k, 1, "none") /\ call'[r] = "none"
  BY <1>1, <1>4, <1>6
<1>8. /\ OnlyMoves(p) /\ script' = script /\ aborted' = aborted /\ verb' = verb /\ window'[p] # 0
      /\ At(r, k, 2, "none")' /\ Refused(r)'
      /\ \A u \in Locals : ~Passed2(Global(r, u), k)'
  <2>1. ~LeavesOut(k, r)
    BY <1>5 DEF LeavesOut
  <2>2. 2 = IF 1 + 1 = Syncs[script[k].kind] THEN 4 ELSE 1 + 1
    BY <1>5, KindsAre
  <2>3. QED
    BY <1>1, <1>3, <1>7, <2>1, <2>2, AfterWindow
<1>9. UNCHANGED <<peers, wirePlan, packOff, sendSeg, baseRecv, recvSeg, stageSend, stageRecv, countsRecv, red, channel, wants, colls, recvCounts, got>>
  BY <1>1 DEF plans, stages, mpi, results
<1>10. Elsewhere(r)
  BY <1>1, <1>9 DEF Elsewhere
<1>11. Shapes'
  BY <1>9 DEF WireInv, Shapes, OnRanks, OnWorld
<1>12. CallFits(r, k, 2, "none")
  BY DEF CallFits
<1>13. RedFits(r, k, 2)'
  <2>1. \A u \in Locals : ~Passed2(Global(r, u), k)'
    BY <1>8
  <2>2. QED
    BY <2>1 DEF RedFits
<1>14. CallsAt(r, k, 2, "none")'
  <2>1. Calls(colls[r], r, 2 * k - 2)
    BY <1>7, <1>8, CallsAreNext DEF CalledTo
  <2>2. /\ ~HasColl(2 * k - 1) /\ 2 * k - 1 \in 1..(2 * Len(script)) /\ (2 * k - 1) - 1 = 2 * k - 2
    BY <1>5, CollNumbers DEF EarlyColl
  <2>3. \A new : new = colls[r] => Calls(new, r, 2 * k - 1)
    BY <1>5, <2>1, <2>2, CallNext
  <2>4. CalledTo(k, 2, "none") = 2 * k - 1
    BY DEF CalledTo
  <2>5. QED
    BY <1>8, <1>9, <2>3, <2>4, CallsAreNext
<1>15. RankMoves(r, k, 1, "none", k, 2, "none")
  BY <1>5, <1>8, <1>9, <1>12, <1>13, <1>14, ReducingStays DEF RankMoves, RankFits, Reducing
<1>16. UNCHANGED <<results, verb>> /\ (window'[p] = 0 => window[p] = 0)
  BY <1>1, <1>8
<1>17. QED
  BY <1>1, <1>4, <1>7, <1>8, <1>10, <1>11, <1>15, <1>16, RankMove

\* joining the reduction,
LEMMA PostReduceWire ==
  ASSUME WireInv, Types, JobInv, NEW p \in World, PostReduce(p)
  PROVE  WireInv'
<1>1. /\ IsLead(p) /\ phase[p] = "body" /\ verb[p] > 0
      /\ (window[p] = 1 /\ Kind(p) = "sum") \/ (window[p] = 3 /\ Kind(p) = "inplace")
      /\ ControlTypes /\ MpiTypes /\ CallsMpi(p)
  BY DEF PostReduce, InWindow, Types, CallsMpi
<1>2. window[p] > 0 /\ window[p] < Syncs[Kind(p)]
  BY <1>1, KindsAre
<1>3. PICK r \in Ranks, k \in 1..Len(script) : WorksIn(p, r, k, window[p])
  BY <1>1, <1>2, LeadWorks
<1>4. PICK w \in 1..3 : /\ w = window[p] /\ WorksIn(p, r, k, w)
                        /\ (w = 1 /\ script[k].kind = "sum") \/ (w = 3 /\ script[k].kind = "inplace")
  BY <1>1, <1>3, SMTT(30) DEF WorksIn
<1>5. /\ RankOf(p) = r /\ verb[p] = k /\ Kind(p) = script[k].kind /\ p \in PartsOf(r)
      /\ At(r, k, w, call[r]) /\ CallsAt(r, k, w, call[r]) /\ RankFits(r, k, w, call[r]) /\ Published(r, k)
  BY <1>4 DEF WorksIn
<1>6. script[k].kind \in Reducing /\ script \in Scripts
  BY <1>1, <1>4 DEF ControlTypes, Reducing
<1>7. call[r] = "none" /\ At(r, k, w, "none") /\ CallsAt(r, k, w, "none") /\ RankFits(r, k, w, "none")
  BY <1>5 DEF PostReduce
<1>8. [u \in 1..S |-> <<Global(r, u - 1), slot[Global(r, u - 1)]>>] = LocalSum(k, r)
  <2>1. \A u \in 1..S : u - 1 \in Locals
    BY Sizes DEF Locals
  <2>2. \A u \in 1..S : slot[Global(r, u - 1)] = k
    BY <1>4, <1>5, <2>1 DEF Published
  <2>3. QED
    BY <2>2 DEF LocalSum
<1>9. PICK data : /\ data = IF script[k].kind = "sum" THEN [e \in {VecLen} |-> LocalSum(k, r)] ELSE [e \in 0..(VecLen - 1) |-> red[r][e]]
                  /\ colls' = [colls EXCEPT ![r] = Append(@, [op |-> script[k].kind, data |-> data])]
  <2>1. PICK local : local = [u \in 1..S |-> <<Global(r, u - 1), slot[Global(r, u - 1)]>>]
    OBVIOUS
  <2>2. local = LocalSum(k, r)
    BY <1>8, <2>1
  <2>3. Collective(r, script[k].kind, IF script[k].kind = "sum" THEN [e \in {VecLen} |-> local]
                                   ELSE [e \in 0..(VecLen - 1) |-> red[r][e]])
    BY <1>5, <2>1 DEF PostReduce
  <2>4. QED
    BY <2>2, <2>3 DEF Collective
<1>10. data = [e \in ElemsOf(k) |-> LocalSum(k, r)]
  <2>1. CASE script[k].kind = "sum"
    BY <1>9, <2>1 DEF ElemsOf
  <2>2. CASE script[k].kind = "inplace"
    <3>1. WorksIn(p, r, k, 3) /\ RedFits(r, k, 3)
      BY <1>4, <1>7, <2>2 DEF RankFits
    <3>2. /\ Done(k - 1) \in Nat
          /\ \A u \in Locals : Done(k - 1) + 3 <= enters[Global(r, u)]
      BY <3>1 DEF WorksIn
    <3>3. ASSUME NEW u \in Locals PROVE Passed2(Global(r, u), k)
      <4>1. PICK d \in Nat : d = Done(k - 1)
        BY <3>2
      <4>2. PICK e \in Nat : e = enters[Global(r, u)]
        BY <1>1, PartFacts DEF ControlTypes
      <4>3. e > d + 2
        BY <3>2, <4>1, <4>2
      <4>4. QED
        BY <4>1, <4>2, <4>3 DEF Passed2
    <3>4. ASSUME NEW e \in 0..(VecLen - 1) PROVE red[r][e] = LocalSum(k, r)
      <4>1. PICK u \in Locals : e \in SliceOf(u)
        BY SlicesCover
      <4>2. QED
        BY <2>2, <3>1, <3>3, <4>1 DEF RedFits
    <3>5. ElemsOf(k) = 0..(VecLen - 1)
      BY <2>2 DEF ElemsOf
    <3>6. QED
      BY <1>9, <2>2, <3>4, <3>5
  <2>3. QED
    BY <1>4, <2>1, <2>2
<1>11. /\ call' = [call EXCEPT ![r] = "reduce"]
       /\ UNCHANGED <<peers, wirePlan, packOff, sendSeg, baseRecv, recvSeg, stageSend, stageRecv, countsRecv, red, channel, wants, recvCounts, got>>
  BY <1>5 DEF PostReduce, plans, stages, results
<1>12. call'[r] = "reduce" /\ \A b \in Ranks \ {r} : call'[b] = call[b]
  BY <1>1, <1>11 DEF MpiTypes
<1>13. /\ OnlyMoves(p) /\ script' = script /\ aborted' = aborted /\ verb' = verb /\ window' = window
       /\ At(r, k, w, "reduce")' /\ Refused(r)'
       /\ \A u \in Locals : Passed2(Global(r, u), k)' <=> Passed2(Global(r, u), k)
  BY <1>1, <1>4, <1>12, AfterCall
<1>14. /\ OnRanks(colls)' /\ \A b \in Ranks \ {r} : colls'[b] = colls[b]
       /\ colls'[r] = Append(colls[r], [op |-> script[k].kind, data |-> data])
  BY <1>9 DEF WireInv, Shapes, OnRanks
<1>15. Elsewhere(r)
  BY <1>11, <1>12, <1>14 DEF Elsewhere
<1>16. Shapes'
  BY <1>11, <1>14 DEF WireInv, Shapes, OnRanks, OnWorld
<1>17. CallFits(r, k, w, "reduce")
  BY <1>4 DEF CallFits
<1>18. RedFits(r, k, w)'
  BY <1>7, <1>11, <1>13, PartsStay DEF RankFits
<1>19. CallsAt(r, k, w, "reduce")'
  <2>1. /\ HasColl(2 * k) /\ ~HasColl(2 * k - 1)
        /\ \A x : IsColl(2 * k, r, x) <=> IsLate(k, r, x)
        /\ 2 * k - 1 \in 1..(2 * Len(script)) /\ (2 * k - 1) - 1 = 2 * k - 2
        /\ 2 * k \in 1..(2 * Len(script)) /\ (2 * k) - 1 = 2 * k - 1
    <3>1. LateColl(k) /\ ~EarlyColl(k)
      BY <1>6 DEF LateColl, EarlyColl, Reducing
    <3>2. QED
      BY <1>6, <3>1, CollNumbers
  <2>2. \A new : new = colls[r] => Calls(new, r, 2 * k - 1)
    <3>1. CASE w = 1
      <4>1. Calls(colls[r], r, 2 * k - 2)
        BY <1>7, <1>13, <3>1, CallsAreNext DEF CalledTo
      <4>2. QED
        BY <1>6, <2>1, <4>1, CallNext
    <3>2. CASE w = 3
      BY <1>7, <1>13, <3>2, CallsAreNext DEF CalledTo
    <3>3. QED
      BY <1>4, <3>1, <3>2
  <2>3. \E x : colls'[r] = Append(colls[r], x) /\ IsColl(2 * k, r, x)
    <3>1. PICK x : x = [op |-> script[k].kind, data |-> data]
      OBVIOUS
    <3>2. x.op = OpOf(k) /\ x.data = data /\ script[k].kind \in {"sum", "inplace"}
      BY <1>6, <3>1 DEF OpOf, Reducing
    <3>3. IsLate(k, r, x)
      BY <1>10, <3>2 DEF IsLate
    <3>4. QED
      BY <1>14, <2>1, <3>1, <3>3
  <2>4. Calls(colls[r], r, 2 * k - 1)
    BY <2>2
  <2>5. \A new : new = colls'[r] => Calls(new, r, 2 * k)
    BY <1>6, <2>1, <2>3, <2>4, CallNext
  <2>6. CalledTo(k, w, "reduce") = 2 * k
    BY DEF CalledTo
  <2>7. QED
    BY <1>13, <2>5, <2>6, CallsAreNext
<1>20. RankMoves(r, k, w, "none", k, w, "reduce")
  <2>1. w \in 1..4 /\ w <= w /\ UNCHANGED <<channel, wants>>
    BY <1>11
  <2>2. QED
    BY <1>6, <1>13, <1>17, <1>18, <1>19, <2>1, ReducingStays DEF RankMoves, RankFits
<1>21. UNCHANGED <<results, verb>> /\ (window'[p] = 0 => window[p] = 0)
  BY <1>11, <1>13 DEF results
<1>22. QED
  BY <1>1, <1>5, <1>7, <1>13, <1>15, <1>16, <1>20, <1>21, RankMove

\* and taking the sum of all ranks from it.
LEMMA LandReduceWire ==
  ASSUME WireInv, Types, JobInv, NEW p \in World, LandReduce(p)
  PROVE  WireInv'
<1>1. /\ IsLead(p) /\ phase[p] = "body" /\ verb[p] > 0
      /\ (window[p] = 1 /\ Kind(p) = "sum") \/ (window[p] = 3 /\ Kind(p) = "inplace")
      /\ ControlTypes /\ MpiTypes /\ EndsWindow(p)
  BY DEF LandReduce, InWindow, Types, EndsWindow
<1>2. window[p] > 0 /\ window[p] < Syncs[Kind(p)]
  BY <1>1, KindsAre
<1>3. PICK r \in Ranks, k \in 1..Len(script) : WorksIn(p, r, k, window[p])
  BY <1>1, <1>2, LeadWorks
<1>4. PICK w \in 1..3 : /\ w = window[p] /\ WorksIn(p, r, k, w)
                        /\ (w = 1 /\ script[k].kind = "sum") \/ (w = 3 /\ script[k].kind = "inplace")
  BY <1>1, <1>3 DEF WorksIn
<1>5. /\ RankOf(p) = r /\ verb[p] = k /\ Kind(p) = script[k].kind /\ p \in PartsOf(r)
      /\ At(r, k, w, call[r]) /\ CallsAt(r, k, w, call[r]) /\ RankFits(r, k, w, call[r])
  BY <1>4 DEF WorksIn
<1>6. script[k].kind \in Reducing /\ script \in Scripts
  BY <1>1, <1>4 DEF ControlTypes, Reducing
<1>7. /\ call[r] = "reduce" /\ At(r, k, w, "reduce") /\ CallsAt(r, k, w, "reduce")
      /\ Everybody(r) /\ call' = [call EXCEPT ![r] = "none"]
      /\ red' = [red EXCEPT ![r] = [e \in DOMAIN @ |->
                      IF e \in DOMAIN From(r, r)
                      THEN FlattenSeq([i \in 1..R |-> From(i - 1, r)[e]]) ELSE @[e]]]
      /\ UNCHANGED <<plans, stageSend, stageRecv, countsRecv, mpi, results>>
  BY <1>5 DEF LandReduce
<1>8. UNCHANGED <<peers, wirePlan, packOff, sendSeg, baseRecv, recvSeg, stageSend, stageRecv, countsRecv, channel, wants, colls, recvCounts, got>>
  BY <1>7 DEF plans, mpi, results
<1>9. call'[r] = "none" /\ \A b \in Ranks \ {r} : call'[b] = call[b]
  BY <1>1, <1>7 DEF MpiTypes
<1>10. /\ OnlyMoves(p) /\ script' = script /\ aborted' = aborted /\ verb' = verb /\ window'[p] # 0
       /\ At(r, k, 4, "none")' /\ Refused(r)'
  <2>1. ~LeavesOut(k, r)
    BY <1>6 DEF LeavesOut, Reducing
  <2>2. 4 = IF w + 1 = Syncs[script[k].kind] THEN 4 ELSE w + 1
    BY <1>4, KindsAre
  <2>3. QED
    BY <1>1, <1>4, <1>9, <2>1, <2>2, AfterWindow
<1>11. ASSUME NEW a \in Ranks PROVE From(a, r) = [e \in ElemsOf(k) |-> LocalSum(k, a)]
  <2>1. Calls(colls[r], r, 2 * k)
    BY <1>7, <1>10, CallsAreNext DEF CalledTo
  <2>2. HasColl(2 * k) /\ 2 * k \in 1..(2 * Len(script))
    <3>1. LateColl(k)
      BY <1>6 DEF LateColl, Reducing
    <3>2. QED
      BY <1>6, <3>1, CollNumbers
  <2>3. IsColl(2 * k, a, colls[a][Len(colls[r])])
    BY <1>6, <1>7, <2>1, <2>2, CalledHere
  <2>4. IsLate(k, a, colls[a][Len(colls[r])])
    BY <1>6, <2>3, CollNumbers
  <2>5. QED
    BY <1>6, <2>4 DEF IsLate, From, Reducing
<1>12. ASSUME NEW e \in ElemsOf(k) PROVE FlattenSeq([i \in 1..R |-> From(i - 1, r)[e]]) = WorldSum(k)
  <2>1. \A i \in 1..R : i - 1 \in Ranks
    BY Sizes DEF Ranks
  <2>2. \A i \in 1..R : From(i - 1, r)[e] = LocalSum(k, i - 1)
    BY <1>11, <2>1
  <2>3. [i \in 1..R |-> From(i - 1, r)[e]] = [i \in 1..R |-> LocalSum(k, i - 1)]
    BY <2>2
  <2>4. QED
    BY <2>3, RanksFlatten
<1>13. /\ OnRanks(red)' /\ red'[r] = [e \in 0..VecLen |-> red'[r][e]]
       /\ \A b \in Ranks \ {r} : red'[b] = red[b]
       /\ \A e \in ElemsOf(k) : red'[r][e] = WorldSum(k)
  <2>1. OnRanks(red) /\ red[r] = [e \in 0..VecLen |-> red[r][e]]
    BY DEF WireInv, Shapes
  <2>2. DOMAIN red[r] = 0..VecLen
    BY <2>1
  <2>3. DOMAIN From(r, r) = ElemsOf(k) /\ ElemsOf(k) \subseteq 0..VecLen
    <3>1. From(r, r) = [e \in ElemsOf(k) |-> LocalSum(k, r)]
      BY <1>11
    <3>2. ElemsOf(k) \subseteq 0..VecLen
      BY Sizes DEF ElemsOf
    <3>3. QED
      BY <3>1, <3>2
  <2>4. PICK new : new = [e \in 0..VecLen |-> IF e \in ElemsOf(k) THEN FlattenSeq([i \in 1..R |-> From(i - 1, r)[e]]) ELSE red[r][e]]
    OBVIOUS
  <2>5. red' = [red EXCEPT ![r] = new]
    BY <1>7, <2>2, <2>3, <2>4
  <2>6. OnRanks(red)' /\ red'[r] = new /\ \A b \in Ranks \ {r} : red'[b] = red[b]
    BY <2>1, <2>5 DEF OnRanks
  <2>7. new = [e \in 0..VecLen |-> new[e]]
    BY <2>4
  <2>8. \A e \in ElemsOf(k) : new[e] = WorldSum(k)
    BY <1>12, <2>3, <2>4
  <2>9. QED
    BY <2>6, <2>7, <2>8
<1>14. Elsewhere(r)
  BY <1>8, <1>9, <1>13 DEF Elsewhere
<1>15. Shapes'
  <2>1. \A b \in Ranks : red'[b] = [e \in 0..VecLen |-> red'[b][e]]
    BY <1>13 DEF WireInv, Shapes
  <2>2. QED
    BY <1>8, <1>13, <2>1 DEF WireInv, Shapes, OnRanks, OnWorld
<1>16. CallFits(r, k, 4, "none")
  BY <1>6, ScriptFacts DEF CallFits
<1>17. RedFits(r, k, 4)'
  <2>1. ElemsOf(k)' = ElemsOf(k) /\ WorldSum(k)' = WorldSum(k)
    BY <1>10, MessagesStay DEF WorldSum
  <2>2. \A e \in ElemsOf(k)' : red'[r][e] = WorldSum(k)'
    BY <1>13, <2>1
  <2>3. QED
    BY <2>2 DEF RedFits
<1>18. CallsAt(r, k, 4, "none")'
  <2>1. CalledTo(k, w, "reduce") = 2 * k /\ CalledTo(k, 4, "none") = 2 * k
    BY DEF CalledTo
  <2>2. QED
    BY <1>7, <1>8, <1>10, <2>1, CallsAreNext
<1>19. RankMoves(r, k, w, "reduce", k, 4, "none")
  <2>1. 4 \in 1..4 /\ w <= 4 /\ UNCHANGED <<channel, wants>>
    BY <1>8
  <2>2. QED
    BY <1>6, <1>10, <1>16, <1>17, <1>18, <2>1, ReducingStays DEF RankMoves, RankFits
<1>20. UNCHANGED <<results, verb>> /\ (window'[p] = 0 => window[p] = 0)
  BY <1>7, <1>10
<1>21. QED
  BY <1>1, <1>5, <1>7, <1>10, <1>14, <1>15, <1>19, <1>20, RankMove

(***************************************************************************)
(* The last window, in which every partition takes its results             *)
(***************************************************************************)

\* p works in the last window of verb k; what its rank then has.
WorksLast(p, r, k) ==
  /\ r \in Ranks /\ k \in 1..Len(script) /\ r = RankOf(p) /\ k = verb[p] /\ p \in PartsOf(r)
  /\ RankFits(r, k, 4, "none")

\* Its lead has exchanged everything, and may wait in the first round of the next verb.
LEMMA LeadAfter ==
  ASSUME WireInv, Types, JobInv, ~aborted, NEW p \in World, phase[p] = "body", verb[p] > 0, window[p] = Syncs[Kind(p)]
  PROVE  \E r \in Ranks : \E k \in 1..Len(script) : WorksLast(p, r, k)
<1>1. PICK r \in Ranks, q \in World : r = RankOf(p) /\ q = LeadOf(r) /\ p \in PartsOf(r) /\ RankOf(q) = r
  BY RankFacts, PartFacts
<1>2. /\ ControlTypes /\ Place(p) /\ Place(q) /\ InStep(p, q) /\ InStep(q, p) /\ Refused(r)
  BY <1>1 DEF JobInv, Types, WireInv, RankInv
<1>3. PICK k \in 1..Len(script) : k = verb[p] /\ Kind(p) = script[k].kind
  BY <1>2, VerbFacts DEF Kind
<1>4. /\ script \in Scripts /\ Len(script) \in Nat /\ Syncs[script[k].kind] \in {2, 4}
      /\ Done(k - 1) \in Nat /\ Done(k) \in Nat /\ Done(k) = Done(k - 1) + Syncs[script[k].kind]
      /\ \A i, j \in 0..Len(script) : i <= j => Done(i) <= Done(j)
  <2>1. script \in Scripts
    BY <1>2 DEF ControlTypes
  <2>2. script[k].kind \in Kinds /\ k \in 0..Len(script)
    BY <2>1, ScriptFacts
  <2>3. Syncs[script[k].kind] \in {2, 4}
    BY <2>2, KindsAre
  <2>4. QED
    BY <2>1, <2>2, <2>3, ScriptFacts
<1>5. PICK n, e, t \in Nat : n = Done(k) /\ e = enters[q] /\ t = returns[q]
  BY <1>1, <1>2, <1>4 DEF ControlTypes
<1>6. returns[p] = n
  <2>1. window[p] > 0
    BY <1>3, <1>4
  <2>2. enters[p] = n /\ err[p] = "none"
    BY <1>2, <1>3, <1>4, <1>5, <2>1 DEF Place
  <2>3. QED
    BY <1>2, <2>2 DEF Place
<1>7. n <= e /\ t <= n /\ (e = t \/ e = t + 1)
  <2>1. n <= e
    BY <1>1, <1>2, <1>5, <1>6 DEF InStep
  <2>2. enters[p] = n
    BY <1>2, <1>3, <1>4, <1>5 DEF Place
  <2>3. t <= n
    BY <1>1, <1>2, <1>5, <2>2 DEF InStep
  <2>4. e = t \/ e = t + 1
    BY <1>2, <1>5 DEF Place
  <2>5. QED
    BY <2>1, <2>3, <2>4
<1>8. At(r, k, 4, call[r])
  <2>1. CASE e = n
    <3>1. Done(k - 1) < enters[q] /\ enters[q] <= Done(k)
      BY <1>4, <1>5, <2>1
    <3>2. verb[q] = k /\ Kind(q) = script[k].kind
      BY <1>2, <3>1, VerbAt DEF Kind
    <3>3. window[q] = 0 \/ window[q] = Syncs[script[k].kind]
      <4>1. PICK v \in Nat : v = window[q]
        BY <1>2, PartTypes
      <4>2. v > 0 => enters[q] = Done(k - 1) + v
        BY <1>2, <3>2, <4>1 DEF Place
      <4>3. QED
        BY <1>4, <1>5, <2>1, <4>1, <4>2, SMTT(30)
    <3>4. window[q] # 1
      BY <1>4, <3>3
    <3>5. QED
      BY <1>1, <3>2, <3>3, <3>4 DEF At, Cur, Stage
  <2>2. CASE e = n + 1
    <3>1. err[q] # "poisoned"
      BY <1>1, <1>2 DEF Refused
    <3>2. phase[q] = "round"
      BY <1>2, <1>5, <1>7, <2>2, <3>1 DEF Place
    <3>3. PICK v \in 1..4 : v = window[q]
      BY <1>2, <3>2 DEF Place, ControlTypes
    <3>4. PICK j \in 1..Len(script) : /\ j = verb[q] /\ Done(j - 1) \in Nat /\ Done(j) \in Nat
                                      /\ e = Done(j - 1) + v /\ e <= Done(j)
      <4>1. verb[q] > 0 /\ enters[q] = Done(verb[q] - 1) + window[q]
        BY <1>2, <3>3 DEF Place
      <4>2. verb[q] \in 1..Len(script)
        BY <1>2, <4>1, VerbFacts
      <4>3. enters[q] <= Done(verb[q])
        BY <1>2, InVerb
      <4>4. QED
        BY <1>4, <1>5, <3>3, <4>1, <4>2, <4>3, ScriptFacts
    <3>5. ~ j <= k
      <4>1. j <= k => Done(j) <= n
        BY <1>4, <1>5
      <4>2. QED
        BY <2>2, <3>4, <4>1
    <3>6. ~ j > k + 1
      <4>1. SUFFICES ASSUME j > k + 1 PROVE FALSE
        OBVIOUS
      <4>2. k + 1 \in 1..Len(script) /\ k + 1 <= j - 1 /\ j - 1 \in 0..Len(script) /\ (k + 1) - 1 = k
        BY <1>4, <4>1
      <4>3. PICK i \in 1..Len(script) : i = k + 1 /\ i - 1 = k
        BY <4>2
      <4>4. Done(i) \in Nat /\ Done(i) = n + Syncs[script[i].kind] /\ script[i].kind \in Kinds
        <5>1. Done(i - 1) \in Nat /\ Done(i) = Done(i - 1) + Syncs[script[i].kind] /\ script[i].kind \in Kinds
          BY <1>4, ScriptFacts
        <5>2. Done(i - 1) = n
          BY <1>5, <4>3
        <5>3. i \in 0..Len(script)
          BY <1>4
        <5>4. Done(i) \in Nat
          BY <1>4, <5>3, ScriptFacts
        <5>5. QED
          BY <5>1, <5>2, <5>4
      <4>5. Syncs[script[i].kind] \in {2, 4}
        BY <4>4, KindsAre
      <4>6. Done(i) <= Done(j - 1)
        BY <1>4, <4>2, <4>3
      <4>7. PICK x, y \in Nat : x = Done(i) /\ y = Done(j - 1)
        BY <3>4, <4>4
      <4>8. x >= n + 2 /\ x <= y /\ n + 1 = y + v
        <5>1. PICK z \in {2, 4} : z = Syncs[script[i].kind]
          BY <4>5
        <5>2. x = n + z
          BY <4>4, <4>7, <5>1
        <5>3. x <= y
          BY <4>6, <4>7
        <5>4. n + 1 = y + v
          BY <2>2, <3>4, <4>7
        <5>5. QED
          BY <5>2, <5>3, <5>4
      <4>9. QED
        BY <4>8
    <3>7. j = k + 1 /\ v = 1
      <4>1. j = k + 1
        BY <3>5, <3>6
      <4>2. Done(j - 1) = n
        BY <1>5, <4>1
      <4>3. QED
        BY <2>2, <3>4, <4>1, <4>2
    <3>8. QED
      BY <1>1, <3>2, <3>3, <3>4, <3>7 DEF At, Cur, Stage
  <2>3. QED
    BY <1>7, <2>1, <2>2
<1>9. RankFits(r, k, 4, call[r])
  BY <1>8 DEF WireInv, RankInv
<1>10. call[r] = "none"
  <2>1. call[r] \in {"none", "counts", "sized", "payload", "reduce"}
    BY DEF Types, MpiTypes
  <2>2. QED
    BY <1>9, <2>1 DEF RankFits, CallFits
<1>11. QED
  BY <1>1, <1>3, <1>9, <1>10 DEF WorksLast

\* A partition outside the plan has nothing to send to r, or its rank refuses the plan.
LEMMA OutsidePlan ==
  ASSUME script \in Scripts, NEW k \in 1..Len(script), script[k].kind \in {"counts", "alltoallv", "resolve"},
         NEW p \in World, NEW g \in World, RankOf(g) \notin PeersIn(k, RankOf(p))
  PROVE  M(k, g, p) = 0 \/ LeavesOut(k, RankOf(g))
<1>1. PICK r \in Ranks, a \in Ranks : r = RankOf(p) /\ a = RankOf(g) /\ p \in PartsOf(r) /\ g \in PartsOf(a)
  BY RankFacts
<1>2. SUFFICES ASSUME M(k, g, p) # 0 PROVE LeavesOut(k, a)
  BY <1>1
<1>3. Talks(k, a, r)
  BY <1>1, <1>2 DEF Talks
<1>4. a \notin PeersIn(k, r)
  BY <1>1
<1>5. r \notin PeersIn(k, a)
  BY <1>3, <1>4, VerbOf, PeersMutual
<1>6. QED
  BY <1>3, <1>5, PeersMutual

\* The counts that the rank has for p.
LEMMA ExtractedIs ==
  ASSUME script \in Scripts, NEW p \in World, NEW r, NEW k, WorksLast(p, r, k), script[k].kind \in Counting, NEW g \in World
  PROVE  Extracted(p)[g] = IF RankOf(g) \in PeersIn(k, r) THEN M(k, g, p) ELSE 0
<1>1. /\ r \in Ranks /\ k \in 1..Len(script) /\ r = RankOf(p) /\ p \in PartsOf(r)
      /\ PlansFit(r, k, 4, "none") /\ CountsFit(r, k, 4, "none")
  BY DEF WorksLast, RankFits
<1>2. script[k].kind \in {"counts", "alltoallv", "resolve"}
  BY DEF Counting
<1>3. peers[r] = PeersIn(k, r)
  BY <1>1, <1>2 DEF PlansFit
<1>4. PICK u \in Locals, v \in Locals, a \in Ranks : /\ u = p - LeadOf(r) /\ p = Global(r, u)
                                                     /\ v = g % S /\ g = Global(a, v) /\ a = RankOf(g)
  <2>1. p % S \in Locals /\ p = Global(r, p % S) /\ p % S = p - LeadOf(r)
    BY <1>1, RankFacts, PartFacts
  <2>2. QED
    BY <1>1, <2>1, RankFacts
<1>5. Extracted(p)[g] = IF a \in PeersIn(k, r) THEN countsRecv[r][a][u][v] ELSE 0
  BY <1>1, <1>3, <1>4 DEF Extracted
<1>6. a \in PeersIn(k, r) => countsRecv[r][a] = Traffic(k, a, r)
  BY <1>1 DEF CountsFit, CountsReady
<1>7. Traffic(k, a, r)[u][v] = M(k, g, p)
  BY <1>1, <1>4, GridsAgree
<1>8. QED
  BY <1>4, <1>5, <1>6, <1>7

\* The runs that the scattering reads.
LEMMA ScatteredIs ==
  ASSUME Shapes, script \in Scripts, NEW p \in World, NEW r, NEW k, WorksLast(p, r, k), script[k].kind \in Moving,
         NEW n, \A g \in World : RankOf(g) \in PeersIn(k, r) => n[g] = M(k, g, p), NEW g \in World
  PROVE  Scattered(p, n)[g] = IF RankOf(g) \in PeersIn(k, r) THEN Block(k, g, p) ELSE <<>>
<1>1. /\ r \in Ranks /\ k \in 1..Len(script) /\ r = RankOf(p) /\ p \in PartsOf(r)
      /\ PlansFit(r, k, 4, "none") /\ RecvFits(r, k, 4, "none") /\ LegsFit(r, k, 4, "none")
  BY DEF WorksLast, RankFits
<1>2. script[k].kind \in {"alltoallv", "resolve"}
  BY DEF Moving
<1>3. PICK P \in SUBSET Ranks : P = PeersIn(k, r)
  BY <1>1, PeersMutual
<1>4. peers[r] = P
  BY <1>1, <1>2, <1>3 DEF PlansFit
<1>5. PICK u \in Locals, v \in Locals, a \in Ranks : /\ u = p - LeadOf(r) /\ p = Global(r, u)
                                                     /\ v = g % S /\ g = Global(a, v) /\ a = RankOf(g)
  <2>1. p % S \in Locals /\ p = Global(r, p % S) /\ p % S = p - LeadOf(r)
    BY <1>1, RankFacts, PartFacts
  <2>2. QED
    BY <1>1, <2>1, RankFacts
<1>6. PICK h \in World : h = Global(a, u) /\ h = LeadOf(a) + p - LeadOf(r) /\ RankOf(h) = a /\ h % S = u
  <2>1. Global(a, u) \in World /\ RankOf(Global(a, u)) = a /\ Global(a, u) % S = u
    BY PartFacts
  <2>2. LeadOf(a) \in Nat /\ LeadOf(r) \in Nat /\ p \in Nat /\ u \in Nat
    BY <1>1, <1>5, PartFacts, RankFacts, Sizes DEF Locals
  <2>3. Global(a, u) = LeadOf(a) + p - LeadOf(r)
    BY <1>5, <2>2 DEF Global
  <2>4. QED
    BY <2>1, <2>3
<1>7. PICK cur : cur = baseRecv[r][h] + SumTo([su \in Locals |-> n[Global(a, su)]], v)
  OBVIOUS
<1>8. Scattered(p, n)[g] = IF a \in P THEN SubSeq(stageRecv[r], cur + 1, cur + n[g]) ELSE <<>>
  BY <1>1, <1>4, <1>5, <1>6, <1>7 DEF Scattered
<1>9. CASE a \notin P
  BY <1>3, <1>5, <1>8, <1>9
<1>10. CASE a \in P
  <2>1. h \in OfRanks(P) /\ IsGrid(RecvGrid(k, r)) /\ n[g] = M(k, g, p)
    BY <1>1, <1>3, <1>5, <1>6, <1>10, GridsAgree DEF OfRanks
  <2>2. /\ baseRecv[r][h] = Start(P, Col(RecvGrid(k, r)), h)
        /\ Start(P, Col(RecvGrid(k, r)), R * S) <= Len(stageRecv[r])
    BY <1>1, <1>2, <1>3, <2>1 DEF RecvFits, RecvReady
  <2>3. /\ \A su \in Locals : RecvGrid(k, r)[h][su] = M(k, Global(a, su), p)
        /\ RecvGrid(k, r)[h][v] = M(k, g, p)
    BY <1>5, <1>6 DEF RecvGrid
  <2>4. SumTo([su \in Locals |-> n[Global(a, su)]], v) = SumTo(RecvGrid(k, r)[h], v)
    <3>1. \A su \in Locals : [x \in Locals |-> n[Global(a, x)]][su] = RecvGrid(k, r)[h][su]
      <4>1. \A su \in Locals : Global(a, su) \in World /\ RankOf(Global(a, su)) = a
        BY PartFacts
      <4>2. QED
        BY <1>3, <1>10, <2>3, <4>1
    <3>2. v \in Nat /\ \A i \in 0..(v - 1) : i \in Locals
      BY Sizes DEF Locals
    <3>3. QED
      BY <3>1, <3>2, SameSum
  <2>5. cur = CellAt(P, RecvGrid(k, r), h, v)
    BY <1>7, <2>2, <2>4 DEF CellAt
  <2>6. /\ cur \in Nat /\ M(k, g, p) \in Nat /\ cur + M(k, g, p) <= Start(P, Col(RecvGrid(k, r)), R * S)
        /\ Start(P, Col(RecvGrid(k, r)), R * S) \in Nat
    BY <2>1, <2>3, <2>5, CellFits
  <2>7. IsSequence(stageRecv[r]) /\ Len(stageRecv[r]) \in Nat
    BY <1>1, SequenceFacts DEF Shapes
  <2>8. cur + M(k, g, p) <= Len(stageRecv[r])
    BY <2>2, <2>6, <2>7
  <2>9. LegIn(r, k, a)
    BY <1>1, <1>3, <1>10, SMTT(30) DEF LegsFit, LegReady
  <2>10. \A j \in 1..M(k, g, p) : stageRecv[r][cur + j] = <<k, g, p, j>>
    <3>1. Traffic(k, a, r)[u][v] = M(k, g, p)
      BY <1>1, <1>5, GridsAgree
    <3>2. \A j \in 1..Traffic(k, a, r)[u][v] :
            stageRecv[r][CellAt(PeersIn(k, r), RecvGrid(k, r), Global(a, u), v) + j] = <<k, Global(a, v), Global(r, u), j>>
      BY <2>9 DEF LegIn, HoldsLeg
    <3>3. QED
      BY <1>3, <1>5, <1>6, <2>5, <3>1, <3>2
  <2>11. PICK b : b = Block(k, g, p)
    OBVIOUS
  <2>12. b = [j \in 1..M(k, g, p) |-> b[j]] /\ \A j \in 1..M(k, g, p) : b[j] = <<k, g, p, j>>
    BY <2>11 DEF Block, M
  <2>13. SubSeq(stageRecv[r], cur + 1, cur + M(k, g, p)) = b
    <3>1. PICK m, c, st : m \in Nat /\ c \in Nat /\ m = M(k, g, p) /\ c = cur /\ st = stageRecv[r]
      BY <2>6
    <3>2. m \in Nat /\ c \in Nat /\ IsSequence(st) /\ c + m <= Len(st) /\ b = [j \in 1..m |-> b[j]]
      BY <2>7, <2>8, <2>12, <3>1
    <3>3. \A j \in 1..m : st[c + j] = b[j]
      BY <2>10, <2>12, <3>1
    <3>4. SubSeq(st, c + 1, c + m) = b
      BY <3>2, <3>3, PartIs
    <3>5. QED
      BY <3>1, <3>4
  <2>14. QED
    BY <1>3, <1>5, <1>8, <1>10, <2>1, <2>11, <2>13
<1>11. QED
  BY <1>9, <1>10

\* A block of no elements.
LEMMA NoBlock ==
  ASSUME NEW k, NEW g, NEW d, M(k, g, d) = 0
  PROVE  Block(k, g, d) = <<>>
<1>1. Block(k, g, d) = [i \in 1..0 |-> <<k, g, d, i>>]
  BY DEF Block, M
<1>2. 1..0 = {}
  OBVIOUS
<1>3. QED
  BY <1>1, <1>2

\* What p finds is what the verb promises.
LEMMA Completes ==
  ASSUME WireInv, Types, JobInv, NEW p \in World, NEW r, NEW k, WorksLast(p, r, k), Finish(p)
  PROVE  /\ OnWorld(recvCounts)' /\ OnWorld(got)'
         /\ \A q \in World \ {p} : recvCounts'[q] = recvCounts[q] /\ got'[q] = got[q]
         /\ script[k].kind = "alltoallv" => recvCounts'[p] = [g \in World |-> M(k, g, p)]
         /\ script[k].kind \in Moving => \A g \in World : got'[p][g] = Block(k, g, p) \/ LeavesOut(k, RankOf(g))
         /\ script[k].kind \in Counting => \A g \in World : recvCounts'[p][g] = M(k, g, p) \/ LeavesOut(k, RankOf(g))
         /\ script[k].kind \in Reducing => \A e \in DOMAIN got'[p] : got'[p][e] = WorldSum(k)
<1>1. /\ r \in Ranks /\ k \in 1..Len(script) /\ r = RankOf(p) /\ k = verb[p] /\ Kind(p) = script[k].kind
      /\ script \in Scripts /\ Shapes /\ ResultsFit(p) /\ RedFits(r, k, 4) /\ k > 0
  BY DEF WorksLast, RankFits, Kind, Types, ControlTypes, WireInv
<1>2. PICK n : n = IF Kind(p) = "alltoallv" THEN recvCounts[p] ELSE Extracted(p)
  OBVIOUS
<1>3. PICK runs : runs = Scattered(p, n)
  OBVIOUS
<1>4. PICK sums : sums = [e \in IF Kind(p) = "sum" THEN {VecLen} ELSE 0..(VecLen - 1) |-> red[RankOf(p)][e]]
  OBVIOUS
<1>5. /\ Kind(p) = "counts" => recvCounts' = [recvCounts EXCEPT ![p] = n] /\ UNCHANGED got
      /\ Kind(p) \in {"alltoallv", "resolve"} => recvCounts' = [recvCounts EXCEPT ![p] = n] /\ got' = [got EXCEPT ![p] = runs]
      /\ Kind(p) \in {"sum", "inplace"} => got' = [got EXCEPT ![p] = sums] /\ UNCHANGED recvCounts
  BY <1>2, <1>3, <1>4 DEF Finish
<1>6. Kind(p) \in {"counts", "alltoallv", "resolve", "sum", "inplace"}
  BY DEF Finish, InWindow
<1>7. OnWorld(recvCounts) /\ OnWorld(got)
  BY <1>1 DEF Shapes
<1>8. /\ OnWorld(recvCounts)' /\ OnWorld(got)'
      /\ \A q \in World \ {p} : recvCounts'[q] = recvCounts[q] /\ got'[q] = got[q]
      /\ Kind(p) \in {"counts", "alltoallv", "resolve"} => recvCounts'[p] = n
      /\ Kind(p) \in {"alltoallv", "resolve"} => got'[p] = runs
      /\ Kind(p) \in {"sum", "inplace"} => got'[p] = sums
  <2>1. CASE Kind(p) = "counts"
    BY <1>5, <1>7, <2>1 DEF OnWorld
  <2>2. CASE Kind(p) \in {"alltoallv", "resolve"}
    BY <1>5, <1>7, <2>2 DEF OnWorld
  <2>3. CASE Kind(p) \in {"sum", "inplace"}
    BY <1>5, <1>7, <2>3 DEF OnWorld
  <2>4. QED
    BY <1>6, <2>1, <2>2, <2>3
<1>9. script[k].kind = "alltoallv" => n = [g \in World |-> M(k, g, p)]
  BY <1>1, <1>2 DEF ResultsFit
<1>10. ASSUME script[k].kind \in Counting, NEW g \in World
       PROVE  n[g] = IF RankOf(g) \in PeersIn(k, r) THEN M(k, g, p) ELSE 0
  <2>1. n = Extracted(p)
    BY <1>1, <1>2, <1>10 DEF Counting
  <2>2. QED
    BY <1>1, <1>10, <2>1, ExtractedIs
<1>11. ASSUME script[k].kind \in Moving, NEW g \in World PROVE got'[p][g] = Block(k, g, p) \/ LeavesOut(k, RankOf(g))
  <2>1. script[k].kind \in {"alltoallv", "resolve"}
    BY <1>11 DEF Moving
  <2>2. \A h \in World : RankOf(h) \in PeersIn(k, r) => n[h] = M(k, h, p)
    <3>1. CASE script[k].kind = "alltoallv"
      BY <1>9, <3>1
    <3>2. CASE script[k].kind = "resolve"
      BY <1>10, <3>2 DEF Counting
    <3>3. QED
      BY <2>1, <3>1, <3>2
  <2>3. got'[p][g] = IF RankOf(g) \in PeersIn(k, r) THEN Block(k, g, p) ELSE <<>>
    <3>1. Scattered(p, n)[g] = IF RankOf(g) \in PeersIn(k, r) THEN Block(k, g, p) ELSE <<>>
      BY <1>1, <1>11, <2>2, ScatteredIs
    <3>2. QED
      BY <1>1, <1>3, <1>8, <2>1, <3>1
  <2>4. RankOf(g) \notin PeersIn(k, r) => M(k, g, p) = 0 \/ LeavesOut(k, RankOf(g))
    BY <1>1, <2>1, OutsidePlan
  <2>5. QED
    BY <2>3, <2>4, NoBlock
<1>12. ASSUME script[k].kind \in Counting, NEW g \in World PROVE recvCounts'[p][g] = M(k, g, p) \/ LeavesOut(k, RankOf(g))
  <2>1. script[k].kind \in {"counts", "alltoallv", "resolve"}
    BY <1>12 DEF Counting
  <2>2. RankOf(g) \notin PeersIn(k, r) => M(k, g, p) = 0 \/ LeavesOut(k, RankOf(g))
    BY <1>1, <2>1, OutsidePlan
  <2>3. recvCounts'[p] = n
    BY <1>1, <1>8, <2>1
  <2>4. QED
    BY <1>10, <1>12, <2>2, <2>3
<1>13. ASSUME script[k].kind \in Reducing, NEW e \in DOMAIN got'[p] PROVE got'[p][e] = WorldSum(k)
  <2>1. Kind(p) \in {"sum", "inplace"} /\ got'[p] = sums
    BY <1>1, <1>8, <1>13 DEF Reducing
  <2>2. sums = [x \in ElemsOf(k) |-> red[r][x]]
    BY <1>1, <1>4 DEF ElemsOf
  <2>3. e \in ElemsOf(k) /\ got'[p][e] = red[r][e]
    BY <1>13, <2>1, <2>2
  <2>4. QED
    BY <1>1, <1>13, <2>3 DEF RedFits
<1>14. QED
  BY <1>1, <1>8, <1>9, <1>11, <1>12, <1>13

\* the last window,
LEMMA FinishWire ==
  ASSUME WireInv, Types, JobInv, ~aborted, NEW p \in World, Finish(p)
  PROVE  WireInv'
<1>1. /\ phase[p] = "body" /\ verb[p] > 0 /\ window[p] = Syncs[Kind(p)] /\ window[p] # 0 /\ ControlTypes
      /\ window' = [window EXCEPT ![p] = 0]
      /\ UNCHANGED <<job, rounds, verb, call, caller, plans, stages, mpi, dangling, aborted>>
  BY DEF Finish, InWindow, Types
<1>2. UNCHANGED <<script, enters, err, phase, verb, aborted>> /\ window'[p] = 0
  BY <1>1 DEF job, rounds, ControlTypes
<1>3. PICK r, k : WorksLast(p, r, k)
  BY <1>1, LeadAfter
<1>4. r \in Ranks /\ r = RankOf(p) /\ k \in 1..Len(script) /\ k = verb[p] /\ Kind(p) = script[k].kind
  BY <1>3 DEF WorksLast, Kind
<1>5. OnlyMoves(p)
  BY FinishMoves DEF MovesWell
<1>6. ASSUME p = LeadOf(RankOf(p)) PROVE LeadStays(RankOf(p)) /\ Refused(RankOf(p))'
  <2>1. LeadOf(r) = p /\ Refused(r)
    BY <1>4, <1>6 DEF WireInv, RankInv
  <2>2. Refused(r)'
    <3>1. call'[r] = "counts" => ~LeavesOut(verb'[LeadOf(r)], r)
      BY <1>1, <2>1 DEF Refused
    <3>2. QED
      BY <1>2, <1>4, <2>1, <3>1, RefusedKept
  <2>3. Cur(r)' = Cur(r) /\ Stage(r)' = Stage(r)
    BY <1>1, <1>2, <2>1 DEF Cur, Stage
  <2>4. LeadStays(r)
    BY <1>1, <2>3 DEF LeadStays, At
  <2>5. QED
    BY <1>4, <2>2, <2>4
<1>7. /\ OnWorld(recvCounts)' /\ OnWorld(got)'
      /\ \A q \in World \ {p} : recvCounts'[q] = recvCounts[q] /\ got'[q] = got[q]
      /\ script[k].kind = "alltoallv" => recvCounts'[p] = [g \in World |-> M(k, g, p)]
      /\ script[k].kind \in Moving => \A g \in World : got'[p][g] = Block(k, g, p) \/ LeavesOut(k, RankOf(g))
      /\ script[k].kind \in Counting => \A g \in World : recvCounts'[p][g] = M(k, g, p) \/ LeavesOut(k, RankOf(g))
      /\ script[k].kind \in Reducing => \A e \in DOMAIN got'[p] : got'[p][e] = WorldSum(k)
  BY <1>3, Completes
<1>8. ResultsFit(p)'
  <2>1. /\ verb'[p] = k /\ Kind(p)' = script[k].kind /\ WorldSum(k)' = WorldSum(k)
        /\ \A g, d : M(k, g, d)' = M(k, g, d) /\ Block(k, g, d)' = Block(k, g, d)
        /\ \A a : LeavesOut(k, a)' <=> LeavesOut(k, a)
    BY <1>2, <1>4, StaticStays DEF Kind, WorldSum
  <2>2. script[k].kind = "alltoallv" => recvCounts'[p] = [g \in World |-> M(k, g, p)']
    BY <1>7, <2>1
  <2>3. script[k].kind \in Moving => \A g \in World : got'[p][g] = Block(k, g, p)' \/ LeavesOut(k, RankOf(g))'
    BY <1>7, <2>1
  <2>4. script[k].kind \in Counting => \A g \in World : recvCounts'[p][g] = M(k, g, p)' \/ LeavesOut(k, RankOf(g))'
    BY <1>7, <2>1
  <2>5. script[k].kind \in Reducing => \A e \in DOMAIN got'[p] : got'[p][e] = WorldSum(k)'
    BY <1>7, <2>1
  <2>6. QED
    BY <2>1, <2>2, <2>3, <2>4, <2>5 DEF ResultsFit, Moving, Counting, Reducing
<1>9. enters'[p] = enters[p] /\ (aborted => aborted') /\ UNCHANGED <<plans, stages, mpi, call>>
  BY <1>1, <1>2
<1>10. QED
  BY <1>1, <1>5, <1>6, <1>7, <1>8, <1>9, QuietMove

(***************************************************************************)
(* The delivery invariant is inductive                                     *)
(***************************************************************************)

\* The empty sequence.
LEMMA EmptySequence == IsSequence(<<>>) /\ Len(<<>>) = 0
<1>1. <<>> = [i \in 1..0 |-> <<>>[i]]
  OBVIOUS
<1>2. QED
  BY <1>1 DEF IsSequence

\* It holds at first,
LEMMA InitWire == HybridInit => WireInv
<1> SUFFICES ASSUME HybridInit PROVE WireInv
  OBVIOUS
<1>1. /\ script \in Scripts /\ call = [r \in Ranks |-> "none"]
      /\ enters = [p \in World |-> 0] /\ err = [p \in World |-> "none"]
      /\ verb = [p \in World |-> 0] /\ window = [p \in World |-> 0]
      /\ channel = [tag \in Tags |-> [a \in Ranks |-> [b \in Ranks |-> <<>>]]]
      /\ wants = [tag \in Tags |-> [b \in Ranks |-> [a \in Ranks |-> 0]]]
      /\ colls = [r \in Ranks |-> <<>>]
  BY DEF HybridInit
<1>2. /\ \A r \in Ranks : LeadOf(r) \in World
      /\ Len(script) \in Nat
  BY <1>1, PartFacts, ScriptFacts
<1>3. ASSUME NEW r \in Ranks, NEW k, NEW s, NEW c, At(r, k, s, c) PROVE k = 0 /\ s = 4 /\ c = "none"
  BY <1>1, <1>2, <1>3 DEF At, Cur, Stage
<1>4. Shapes
  <2>1. /\ packOff = [r \in Ranks |-> [u \in Locals |-> [g \in World |-> 0]]]
        /\ sendSeg = [r \in Ranks |-> [b \in Ranks |-> [at |-> 0, n |-> 0]]] /\ recvSeg = sendSeg
        /\ baseRecv = [r \in Ranks |-> [g \in World |-> 0]]
        /\ stageSend = [r \in Ranks |-> <<>>] /\ stageRecv = stageSend
        /\ countsRecv = [r \in Ranks |-> [a \in Ranks |-> [t \in Locals |-> [su \in Locals |-> 0]]]]
        /\ red = [r \in Ranks |-> [e \in 0..VecLen |-> <<>>]]
        /\ recvCounts = [p \in World |-> [g \in World |-> 0]] /\ got = [p \in World |-> Empty]
    BY DEF HybridInit
  <2>2. /\ OnRanks(packOff) /\ OnRanks(sendSeg) /\ OnRanks(baseRecv) /\ OnRanks(recvSeg)
        /\ OnRanks(stageSend) /\ OnRanks(stageRecv) /\ OnRanks(countsRecv) /\ OnRanks(red) /\ OnRanks(colls)
    BY <1>1, <2>1 DEF OnRanks
  <2>3. OnWorld(recvCounts) /\ OnWorld(got)
    BY <2>1 DEF OnWorld
  <2>4. \A r \in Ranks : stageSend[r] = <<>> /\ stageRecv[r] = <<>>
    BY <2>1
  <2>5. \A r \in Ranks : OnRanks(countsRecv[r]) /\ red[r] = [e \in 0..VecLen |-> red[r][e]]
    BY <2>1 DEF OnRanks
  <2>6. QED
    BY <2>2, <2>3, <2>4, <2>5, EmptySequence DEF Shapes
<1>5. ASSUME NEW tag \in Tags, NEW a \in Ranks, NEW b \in Ranks, NEW k, NEW s, NEW c, NEW l, NEW t, NEW d,
             At(a, k, s, c), At(b, l, t, d)
      PROVE  LinkFits(tag, a, b, k, s, c, l, t, d)
  <2>1. k = 0 /\ s = 4 /\ l = 0 /\ t = 4
    BY <1>3, <1>5
  <2>2. SentTo(tag, k, s, c) = 0 /\ HadTo(tag, l, t, d) = 0 /\ Awaiting(tag, a, b, l, t, d) = 0
    <3>1. SentTo(tag, k, s, c) = 0 /\ HadTo(tag, l, t, d) = 0 /\ SentTo(tag, l, t, d) = 0
      BY <2>1 DEF SentTo, HadTo
    <3>2. QED
      BY <3>1 DEF Awaiting
  <2>3. channel[tag][a][b] = <<>> /\ wants[tag][b][a] = 0
    BY <1>1
  <2>4. QED
    BY <2>2, <2>3, FlowStart, LinkIs
<1>6. ASSUME NEW r \in Ranks, NEW k, NEW s, NEW c, At(r, k, s, c) PROVE CallsAt(r, k, s, c)
  <2>1. CalledTo(k, s, c) = 0 /\ colls[r] = <<>>
    BY <1>1, <1>3, <1>6 DEF CalledTo
  <2>2. Calls(<<>>, r, 0)
    BY <1>1, EmptySequence, CollCounts DEF Calls
  <2>3. QED
    BY <2>1, <2>2 DEF CallsAt
<1>7. ASSUME NEW r \in Ranks PROVE RankInv(r)
  <2>1. \A k \in 1..Len(script) : Done(k - 1) \in Nat
    BY <1>1, ScriptFacts
  <2>2. Refused(r)
    BY <1>1, <1>2, <2>1 DEF Refused
  <2>3. ASSUME NEW k, NEW s, NEW c, At(r, k, s, c) PROVE RankFits(r, k, s, c)
    <3>1. k = 0 /\ s = 4 /\ c = "none"
      BY <1>3, <2>3
    <3>2. CallFits(r, k, s, c)
      BY <1>2, <3>1 DEF CallFits
    <3>3. ~(k > 0)
      BY <3>1
    <3>4. PlansFit(r, k, s, c) /\ SendFits(r, k, s) /\ CountsFit(r, k, s, c) /\ RecvFits(r, k, s, c)
          /\ LegsFit(r, k, s, c) /\ RedFits(r, k, s)
      BY <3>3 DEF PlansFit, SendFits, CountsFit, RecvFits, LegsFit, RedFits
    <3>5. QED
      BY <3>2, <3>4 DEF RankFits
  <2>4. QED
    BY <2>2, <2>3 DEF RankInv
<1>8. \A p \in World : ResultsFit(p)
  BY <1>1 DEF ResultsFit
<1>9. QED
  BY <1>4, <1>5, <1>6, <1>7, <1>8 DEF WireInv, MessagesFit, CallsFit

\* in every step,
LEMMA StepWire ==
  ASSUME HybridInv, WireInv, HybridNext
  PROVE  WireInv'
<1>1. ~aborted /\ Types /\ ControlTypes /\ JobInv
  BY DEF HybridNext, HybridInv, Types
<1>2. PICK p \in World : HybridStep(p)
  BY DEF HybridNext
<1>3. CASE Begin(p)
  BY <1>1, <1>3, BeginWire
<1>4. CASE ReturnSync(p)
  BY <1>1, <1>4, ReturnWire
<1>5. CASE Throws(p)
  BY <1>1, <1>5, ThrowsWire
<1>6. CASE Pass(p)
  BY <1>1, <1>6, PassWire, PassLeadWire
<1>7. CASE Finish(p)
  BY <1>1, <1>7, FinishWire
<1>8. CASE PostCounts(p)
  BY <1>1, <1>8, PostCountsWire
<1>9. CASE EndCountWindow(p)
  BY <1>1, <1>9, EndCountWire
<1>10. CASE PlanPayload(p)
  BY <1>1, <1>10, PlanPayloadWire
<1>11. CASE PackSend(p)
  BY <1>1, <1>11, PackSendWire
<1>12. CASE SizeFromCounts(p)
  BY <1>1, <1>12, SizeFromCountsWire
<1>13. CASE PostPayload(p)
  BY <1>1, <1>13, PostPayloadWire
<1>14. CASE LandPayload(p)
  BY <1>1, <1>14, LandPayloadWire
<1>15. CASE PostReduce(p)
  BY <1>1, <1>15, PostReduceWire
<1>16. CASE LandReduce(p)
  BY <1>1, <1>16, LandReduceWire
<1>17. CASE ReduceSlice(p)
  BY <1>1, <1>17, ReduceSliceWire
<1>18. CASE LeaveJob(p)
  BY <1>1, <1>18, LeaveWire
<1>19. QED
  BY <1>2, <1>3, <1>4, <1>5, <1>6, <1>7, <1>8, <1>9, <1>10, <1>11, <1>12, <1>13, <1>14, <1>15, <1>16, <1>17, <1>18,
     StepKinds DEF EndsWindow, CallsMpi

\* and while nothing happens.
LEMMA StutterWire ==
  ASSUME WireInv, UNCHANGED hybridVars
  PROVE  WireInv'
<1>1. /\ UNCHANGED <<script, enters, err, phase, verb, window, call, aborted>>
      /\ UNCHANGED <<plans, stages, mpi, recvCounts, got>>
  BY DEF hybridVars, job, rounds, results
<1>2. ASSUME NEW r \in Ranks PROVE LeadStays(r) /\ Refused(r)'
  <2>1. LeadStays(r)
    BY <1>1, LeadKept
  <2>2. Refused(r)'
    BY <1>1, RefusedKept DEF WireInv, RankInv, Refused
  <2>3. QED
    BY <2>1, <2>2
<1>3. \A r \in Ranks : \A k, u : Passed2(Global(r, u), k)' <=> Passed2(Global(r, u), k)
  BY <1>1, StaticStays DEF Passed2
<1>4. ASSUME NEW p \in World PROVE ResultsFit(p)'
  BY <1>1, ResultsStay DEF WireInv
<1>5. OnWorld(recvCounts)' /\ OnWorld(got)'
  BY <1>1 DEF WireInv, Shapes, OnWorld
<1>6. QED
  BY <1>1, <1>2, <1>3, <1>4, <1>5, QuietStep

\* A job that is aborted shows why.
Marked == aborted => \E p \in World : err[p] # "none"
LEMMA AbortMarks ==
  ASSUME ControlTypes, ~aborted, NEW p \in World, HybridStep(p), aborted'
  PROVE  err'[p] # "none"
<1>1. err \in [World -> Errs]
  BY DEF ControlTypes
<1>2. Throws(p)
  <2>1. EndsWindow(p) => UNCHANGED aborted
    BY WindowEnds DEF Arrives
  <2>2. CallsMpi(p) => UNCHANGED aborted
    BY DEF CallsMpi, PostCounts, SizeFromCounts, PostPayload, PostReduce
  <2>3. Begin(p) \/ ReturnSync(p) \/ Finish(p) \/ LeaveJob(p) => UNCHANGED aborted
    BY DEF Begin, ReturnSync, Finish, LeaveJob
  <2>4. QED
    BY <2>1, <2>2, <2>3, StepKinds
<1>3. \E why \in {"own", "poisoned", "refused"} : Abort(p, why)
  <2>1. \A why : Unwind(p, why) => UNCHANGED aborted
    BY DEF Unwind
  <2>2. \A why : ThrowInVerb(p, why) => Abort(p, why) \/ UNCHANGED aborted
    BY <2>1 DEF ThrowInVerb
  <2>3. QED
    BY <1>2, <2>1, <2>2 DEF Throws, FailSync, BodyThrows, ResizeThrows, RefusePlan
<1>4. QED
  BY <1>1, <1>3 DEF Abort

\* The delivery invariant: every message, buffer and plan of a rank is as its place in
\* the script says, and what a partition has been given is what its verb promises.
DeliveryInv == HybridInv /\ WireInv /\ Marked
THEOREM DeliveryInductive == HybridSpec => []DeliveryInv
<1>1. HybridInit => DeliveryInv
  <2>1. HybridInit => Marked
    BY DEF HybridInit, Marked
  <2>2. QED
    BY <2>1, InitHybridInv, InitWire DEF DeliveryInv
<1>2. DeliveryInv /\ [HybridNext]_hybridVars => DeliveryInv'
  <2>1. ASSUME HybridInv, WireInv, Marked, HybridNext PROVE DeliveryInv'
    <3>1. ~aborted /\ ControlTypes
      BY <2>1 DEF HybridNext, HybridInv, Types
    <3>2. Marked'
      BY <2>1, <3>1, AbortMarks DEF HybridNext, Marked
    <3>3. QED
      BY <2>1, <3>2, StepHybridInv, StepWire DEF DeliveryInv
  <2>2. ASSUME HybridInv, WireInv, Marked, UNCHANGED hybridVars PROVE DeliveryInv'
    <3>1. Marked'
      BY <2>2 DEF Marked, hybridVars, rounds
    <3>2. QED
      BY <2>2, <3>1, StutterHybridInv, StutterWire DEF DeliveryInv
  <2>3. QED
    BY <2>1, <2>2 DEF DeliveryInv
<1>3. QED
  BY <1>1, <1>2, PTL DEF HybridSpec

(***************************************************************************)
(* What the invariant gives                                                *)
(***************************************************************************)

\* The results of a completed verb.
LEMMA ResultsDelivered ==
  ASSUME HybridInv, WireInv
  PROVE  DeliversInWorldOrder
<1>1. script \in Scripts /\ verb \in [World -> 0..Len(script)]
  BY DEF HybridInv, Types, ControlTypes
<1>2. ASSUME NEW k \in 1..Len(script), NEW a \in Ranks, LeavesOut(k, a) PROVE Unrefused(k, a)
  <2>1. enters[LeadOf(a)] <= Done(k - 1) + 1
    BY <1>2 DEF WireInv, RankInv, Refused
  <2>2. QED
    BY <1>2, <2>1 DEF Unrefused, Done
<1>3. ASSUME NEW p \in World, window[p] = 0, verb[p] > 0
      PROVE  /\ Kind(p) \in Moving => \A g \in World : got[p][g] = Block(verb[p], g, p) \/ Unrefused(verb[p], RankOf(g))
             /\ Kind(p) \in Counting => \A g \in World : recvCounts[p][g] = script[verb[p]].m[g][p] \/ Unrefused(verb[p], RankOf(g))
             /\ Kind(p) \in Reducing => \A e \in DOMAIN got[p] : got[p][e] = [i \in 1..(R * S) |-> <<i - 1, verb[p]>>]
  <2>1. PICK k \in 1..Len(script) : k = verb[p]
    BY <1>1, <1>3
  <2>2. ResultsFit(p)
    BY DEF WireInv
  <2>3. /\ Kind(p) \in Moving => \A g \in World : got[p][g] = Block(k, g, p) \/ LeavesOut(k, RankOf(g))
        /\ Kind(p) \in Counting => \A g \in World : recvCounts[p][g] = M(k, g, p) \/ LeavesOut(k, RankOf(g))
        /\ Kind(p) \in Reducing => \A e \in DOMAIN got[p] : got[p][e] = WorldSum(k)
    BY <1>3, <2>1, <2>2 DEF ResultsFit
  <2>4. \A g \in World : LeavesOut(k, RankOf(g)) => Unrefused(k, RankOf(g))
    BY <1>2, RankFacts
  <2>5. QED
    BY <2>1, <2>3, <2>4 DEF M, WorldSum
<1>4. QED
  BY <1>3 DEF DeliversInWorldOrder, Completed, Moving, Counting, Reducing

\* Two ranks that are somewhere.
LEMMA HereAgree ==
  ASSUME WireInv, script \in Scripts, NEW a \in Ranks, NEW b \in Ranks
  PROVE  \A i \in DOMAIN colls[a] \cap DOMAIN colls[b] : colls[a][i].op = colls[b][i].op
<1>1. PICK k, s, c : At(a, k, s, c) /\ CallFits(a, k, s, c) /\ CallsAt(a, k, s, c)
  BY Here
<1>2. PICK l, t, d : At(b, l, t, d) /\ CallFits(b, l, t, d) /\ CallsAt(b, l, t, d)
  BY Here
<1>3. PICK m \in 0..(2 * Len(script)) : Calls(colls[a], a, m)
  BY <1>1, CountsInRange DEF CallsAt
<1>4. PICK n \in 0..(2 * Len(script)) : Calls(colls[b], b, n)
  BY <1>2, CountsInRange DEF CallsAt
<1>5. QED
  BY <1>3, <1>4, SameOps

\* A message that is there has the length that its receiver expects.
LEMMA HereFits ==
  ASSUME WireInv, MpiTypes, script \in Scripts, NEW a \in Ranks, NEW b \in Ranks,
         wants["payload"][b][a] # 0, channel["payload"][a][b] # <<>>
  PROVE  Len(Message("payload", a, b)) = wants["payload"][b][a]
<1>1. a # b /\ "payload" \in Tags
  BY DEF MpiTypes, Tags
<1>2. PICK x, y, z : At(a, x, y, z) /\ CallFits(a, x, y, z)
  BY Here
<1>3. PICK k, s, c : At(b, k, s, c) /\ CallFits(b, k, s, c)
  BY Here
<1>4. LinkFits("payload", a, b, x, y, z, k, s, c)
  BY <1>1, <1>2, <1>3 DEF WireInv, MessagesFit
<1>5. wants["payload"][b][a] = Awaiting("payload", a, b, k, s, c)
  BY <1>4, LinkIs
<1>6. SentTo("payload", k, s, c) # HadTo("payload", k, s, c) /\ Sends("payload", k, a, b)
  BY <1>5 DEF Awaiting
<1>7. s # 4 /\ SentTo("payload", k, s, c) = k /\ HadTo("payload", k, s, c) = k - 1
  BY <1>6 DEF SentTo, HadTo
<1>8. k \in 1..Len(script)
  BY <1>3, <1>7, ScriptFacts DEF CallFits
<1>9. wants["payload"][b][a] = PaySize(k, a, b)
  BY <1>5, <1>6 DEF Awaiting, SizeOf
<1>10. PICK m : m = SentTo("payload", x, y, z)
  OBVIOUS
<1>11. m \in 0..Len(script) /\ Flows(channel["payload"][a][b], "payload", a, b, m, k - 1)
  BY <1>2, <1>4, <1>7, <1>10, CountsInRange, LinkIs
<1>12. IsMessage("payload", k, a, b, Head(channel["payload"][a][b]))
  BY <1>6, <1>8, <1>11, FlowLand
<1>13. QED
  BY <1>9, <1>12 DEF IsMessage, IsPay, Message

\* A job that has ended leaves nothing behind.
LEMMA NothingLeft ==
  ASSUME HybridInv, WireInv, Marked, \A p \in World : phase[p] = "done" /\ err[p] = "none",
         NEW tag \in Tags, NEW a \in Ranks, NEW b \in Ranks
  PROVE  channel[tag][a][b] = <<>> /\ wants[tag][b][a] = 0
<1>1. JobInv /\ ControlTypes /\ MpiTypes /\ script \in Scripts
  BY DEF HybridInv, Marked, Types, ControlTypes
<1>2. PICK n \in Nat : n = Len(script)
  BY <1>1, ScriptFacts
<1>3. ASSUME NEW r \in Ranks PROVE At(r, n, 4, call[r])
  <2>1. LeadOf(r) \in World
    BY PartFacts
  <2>2. window[LeadOf(r)] = 0 /\ verb[LeadOf(r)] = n
    BY <1>1, <1>2, <2>1 DEF JobInv, Place
  <2>3. QED
    BY <2>2 DEF At, Cur, Stage
<1>4. CASE a = b
  BY <1>1, <1>4 DEF MpiTypes
<1>5. CASE a # b
  <2>1. LinkFits(tag, a, b, n, 4, call[a], n, 4, call[b])
    BY <1>3, <1>5 DEF WireInv, MessagesFit
  <2>2. /\ SentTo(tag, n, 4, call[a]) = n /\ HadTo(tag, n, 4, call[b]) = n /\ SentTo(tag, n, 4, call[b]) = n
    BY DEF SentTo, HadTo
  <2>3. /\ Flows(channel[tag][a][b], tag, a, b, n, n)
        /\ wants[tag][b][a] = 0
    BY <2>1, <2>2, LinkIs DEF Awaiting
  <2>4. PICK ch : ch = channel[tag][a][b]
    OBVIOUS
  <2>5. IsSequence(ch) /\ Len(ch) + MsgCount(tag, a, b, n) = MsgCount(tag, a, b, n)
    BY <2>3, <2>4 DEF Flows
  <2>6. MsgCount(tag, a, b, n) \in Nat
    <3>1. n \in 0..Len(script)
      BY <1>2
    <3>2. QED
      BY <1>1, <3>1, MsgCounts
  <2>7. Len(ch) = 0 /\ ch = [i \in 1..Len(ch) |-> ch[i]]
    BY <2>5, <2>6, SequenceFacts
  <2>8. ch = <<>>
    BY <2>7
  <2>9. QED
    BY <2>3, <2>4, <2>8
<1>6. QED
  BY <1>4, <1>5

\* In every job, on any number of ranks and partitions, a completed alltoallv or
\* alltoallv_resolve has given its caller every block of its verb, a count exchange the
\* transpose of the send counts, and a reduction this verb's number of every partition,
\* in the order of the world (HybridComm.h:40-44).
THEOREM BlocksDelivered == HybridSpec => []DeliversInWorldOrder
<1>1. DeliveryInv => DeliversInWorldOrder
  BY ResultsDelivered DEF DeliveryInv
<1>2. QED
  BY <1>1, DeliveryInductive, PTL

\* The ranks never disagree on parent_: a message has the length that its receiver
\* expects, the collectives match, and a job that ended everywhere leaves no message and
\* no receive behind (sparse_pairwise, MPI_Alltoall, MPI_Alltoallv, MPI_Allreduce).
THEOREM RanksStayAgreed == HybridSpec => []RanksAgree
<1>1. DeliveryInv => RanksAgree
  <2>1. SUFFICES ASSUME HybridInv, WireInv, Marked PROVE RanksAgree
    BY DEF DeliveryInv
  <2>2. MpiTypes /\ script \in Scripts
    BY <2>1 DEF HybridInv, Types, ControlTypes
  <2>3. \A a, b \in Ranks : wants["payload"][b][a] # 0 /\ channel["payload"][a][b] # <<>> =>
          Len(Message("payload", a, b)) = wants["payload"][b][a]
    BY <2>1, <2>2, HereFits
  <2>4. \A a, b \in Ranks : \A i \in DOMAIN colls[a] \cap DOMAIN colls[b] : colls[a][i].op = colls[b][i].op
    BY <2>1, <2>2, HereAgree
  <2>5. (\A p \in World : phase[p] = "done" /\ err[p] = "none") =>
          \A tag \in Tags, a, b \in Ranks : channel[tag][a][b] = <<>> /\ wants[tag][b][a] = 0
    BY <2>1, NothingLeft
  <2>6. QED
    BY <2>3, <2>4, <2>5 DEF RanksAgree
<1>2. QED
  BY <1>1, DeliveryInductive, PTL

==============================================================================
