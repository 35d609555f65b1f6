------------------------ MODULE OperatorStoreProofs ------------------------
(***************************************************************************)
(* Theorems about OperatorStore, for any number of modes, any hash, any    *)
(* table, row and word sizes and any sequence of calls.                    *)
(***************************************************************************)
EXTENDS OperatorStore, SequenceLemmas, FiniteSetTheorems, FunctionTheorems

(***************************************************************************)
(* Sets in order                                                           *)
(***************************************************************************)

\* A strict total order on S, as a set of pairs.
Orders(R, S) ==
  /\ \A x \in S : <<x, x>> \notin R
  /\ \A x, y, z \in S : <<x, y>> \in R /\ <<y, z>> \in R => <<x, z>> \in R
  /\ \A x, y \in S : x # y => <<x, y>> \in R \/ <<y, x>> \in R

Below(S, R, x) == {y \in S : <<y, x>> \in R}

\* How many members come before x: different numbers for different members.
LEMMA Ranks ==
  ASSUME NEW S, IsFiniteSet(S), NEW R, Orders(R, S)
  PROVE  /\ \A x \in S : Cardinality(Below(S, R, x)) \in 0..(Cardinality(S) - 1)
         /\ \A x, y \in S : <<x, y>> \in R => Cardinality(Below(S, R, x)) < Cardinality(Below(S, R, y))
<1>1. ASSUME NEW x \in S
      PROVE  /\ IsFiniteSet(Below(S, R, x)) /\ Cardinality(Below(S, R, x)) \in Nat
             /\ Cardinality(Below(S, R, x)) < Cardinality(S)
  <2>1. Below(S, R, x) \in SUBSET S /\ x \notin Below(S, R, x)
    BY DEF Below, Orders
  <2>2. /\ IsFiniteSet(Below(S, R, x)) /\ Cardinality(Below(S, R, x)) <= Cardinality(S)
        /\ Cardinality(Below(S, R, x)) # Cardinality(S)
    BY <2>1, FS_Subset
  <2>3. QED
    BY <2>2, FS_CardinalityType
<1>2. ASSUME NEW x \in S, NEW y \in S, <<x, y>> \in R
      PROVE  Cardinality(Below(S, R, x)) < Cardinality(Below(S, R, y))
  <2>1. Below(S, R, x) \in SUBSET Below(S, R, y)
    BY <1>2 DEF Below, Orders
  <2>2. x \in Below(S, R, y) /\ x \notin Below(S, R, x)
    BY <1>2 DEF Below, Orders
  <2>3. /\ Cardinality(Below(S, R, x)) <= Cardinality(Below(S, R, y))
        /\ Cardinality(Below(S, R, x)) # Cardinality(Below(S, R, y))
    BY <1>1, <2>1, <2>2, FS_Subset
  <2>4. QED
    BY <1>1, <2>3
<1>3. QED
  BY <1>1, <1>2, FS_CardinalityType

\* InOrder lists each member of S once, and in that order.
LEMMA InOrderLists ==
  ASSUME NEW S, IsFiniteSet(S), NEW R, Orders(R, S)
  PROVE  /\ InOrder(S, R) \in [1..Cardinality(S) -> S]
         /\ \A x \in S : \E k \in 1..Cardinality(S) : InOrder(S, R)[k] = x
         /\ \A j, k \in 1..Cardinality(S) : j < k => <<InOrder(S, R)[j], InOrder(S, R)[k]>> \in R
         /\ \A j, k \in 1..Cardinality(S) : InOrder(S, R)[j] = InOrder(S, R)[k] => j = k
<1> DEFINE n == Cardinality(S)
           rank == [x \in S |-> Cardinality(Below(S, R, x)) + 1]
<1>1. n \in Nat /\ IsFiniteSet(1..n) /\ Cardinality(1..n) = n
  BY FS_CardinalityType, FS_Interval
<1>2. /\ \A x \in S : rank[x] \in 1..n
      /\ \A x, y \in S : <<x, y>> \in R => rank[x] < rank[y]
  BY <1>1, Ranks
<1>3. \A x, y \in S : rank[x] = rank[y] => x = y
  <2>1. SUFFICES ASSUME NEW x \in S, NEW y \in S, rank[x] = rank[y], x # y PROVE FALSE
    OBVIOUS
  <2>2. rank[x] \in Nat /\ rank[y] \in Nat /\ ~(rank[x] < rank[y]) /\ ~(rank[y] < rank[x])
    BY <1>1, <1>2, <2>1
  <2>3. QED
    BY <1>2, <2>1, <2>2 DEF Orders
<1>4. rank \in Injection(S, 1..n)
  <2>1. rank \in [S -> 1..n]
    BY <1>2
  <2>2. IsInjective(rank)
    BY <1>3 DEF IsInjective
  <2>3. QED
    BY <2>1, <2>2 DEF Injection
<1>5. rank \in Surjection(S, 1..n)
  BY <1>1, <1>4, FS_Injection
<1>6. \A k \in 1..n : \E x \in S : rank[x] = k
  BY <1>5 DEF Surjection
<1>7. ASSUME NEW k \in 1..n PROVE InOrder(S, R)[k] \in S /\ rank[InOrder(S, R)[k]] = k
  <2>1. PICK x \in S : rank[x] = k
    BY <1>6
  <2>2. Cardinality({y \in S : <<y, x>> \in R}) = k - 1
    BY <1>1, <1>2, <2>1, Ranks DEF Below
  <2>3. InOrder(S, R)[k] = CHOOSE z \in S : Cardinality({y \in S : <<y, z>> \in R}) = k - 1
    BY DEF InOrder
  <2>4. InOrder(S, R)[k] \in S /\ Cardinality(Below(S, R, InOrder(S, R)[k])) = k - 1
    BY <2>2, <2>3 DEF Below
  <2>5. QED
    BY <1>1, <2>4
<1>8. InOrder(S, R) \in [1..n -> S]
  BY <1>7 DEF InOrder
<1>9. \A x \in S : InOrder(S, R)[rank[x]] = x
  BY <1>2, <1>3, <1>7
<1>10. \A j, k \in 1..n : InOrder(S, R)[j] = InOrder(S, R)[k] => j = k
  BY <1>7
<1>11. ASSUME NEW j \in 1..n, NEW k \in 1..n, j < k
       PROVE  <<InOrder(S, R)[j], InOrder(S, R)[k]>> \in R
  <2>1. PICK x \in S, y \in S : x = InOrder(S, R)[j] /\ y = InOrder(S, R)[k] /\ rank[x] = j /\ rank[y] = k
    BY <1>7
  <2>2. x # y /\ ~(rank[y] < rank[x])
    BY <1>11, <2>1
  <2>3. QED
    BY <1>2, <2>1, <2>2 DEF Orders
<1>12. QED
  BY <1>2, <1>8, <1>9, <1>10, <1>11

\* A sequence that lists S in that order is InOrder's.
LEMMA InOrderIs ==
  ASSUME NEW S, NEW R, Orders(R, S), NEW n \in Nat, NEW s \in [1..n -> S],
         \A x \in S : \E k \in 1..n : s[k] = x,
         \A j, k \in 1..n : j < k => <<s[j], s[k]>> \in R
  PROVE  InOrder(S, R) = s /\ IsFiniteSet(S) /\ Cardinality(S) = n
<1>1. ASSUME NEW j \in 1..n, NEW k \in 1..n, s[j] = s[k] PROVE j = k
  <2>1. s[j] \in S /\ s[k] \in S
    OBVIOUS
  <2>2. ~(j < k) /\ ~(k < j)
    BY <1>1, <2>1 DEF Orders
  <2>3. QED
    BY <2>2
<1>2. s \in Bijection(1..n, S)
  BY <1>1 DEF Bijection, Injection, Surjection, IsInjective
<1>3. IsFiniteSet(S) /\ Cardinality(S) = n
  <2>1. ExistsBijection(1..n, S)
    BY <1>2 DEF ExistsBijection
  <2>2. IsFiniteSet(S)
    BY <2>1, FS_NatBijection
  <2>3. QED
    BY <2>1, <2>2, FS_CountingElements
<1>4. ASSUME NEW k \in 1..n PROVE Cardinality(Below(S, R, s[k])) = k - 1
  <2> DEFINE B == Below(S, R, s[k])
             f == [j \in 1..(k - 1) |-> s[j]]
  <2>1. \A j \in 1..(k - 1) : s[j] \in B
    BY DEF Below
  <2>2. ASSUME NEW x \in B PROVE \E j \in 1..(k - 1) : s[j] = x
    <3>1. PICK j \in 1..n : s[j] = x
      BY DEF Below
    <3>2. <<s[j], s[k]>> \in R /\ s[j] \in S /\ s[k] \in S
      BY <3>1 DEF Below
    <3>3. ~(k < j) /\ j # k
      BY <3>2 DEF Orders
    <3>4. QED
      BY <3>1, <3>3
  <2>3. f \in Bijection(1..(k - 1), B)
    <3>1. f \in [1..(k - 1) -> B]
      BY <2>1
    <3>2. \A a, b \in 1..(k - 1) : f[a] = f[b] => a = b
      BY <1>1
    <3>3. \A x \in B : \E j \in 1..(k - 1) : f[j] = x
      BY <2>2
    <3>4. QED
      BY <3>1, <3>2, <3>3 DEF Bijection, Injection, Surjection, IsInjective
  <2>4. k - 1 \in Nat
    OBVIOUS
  <2>5. ExistsBijection(1..(k - 1), B)
    BY <2>3 DEF ExistsBijection
  <2>6. QED
    BY <2>4, <2>5, FS_CountingElements
<1>5. ASSUME NEW k \in 1..n PROVE InOrder(S, R)[k] = s[k]
  <2>1. InOrder(S, R)[k] = CHOOSE z \in S : Cardinality({y \in S : <<y, z>> \in R}) = k - 1
    BY <1>3 DEF InOrder
  <2>2. s[k] \in S /\ Cardinality({y \in S : <<y, s[k]>> \in R}) = k - 1
    BY <1>4 DEF Below
  <2>3. \A z \in S : Cardinality({y \in S : <<y, z>> \in R}) = k - 1 => z = s[k]
    <3>1. SUFFICES ASSUME NEW z \in S, Cardinality({y \in S : <<y, z>> \in R}) = k - 1 PROVE z = s[k]
      OBVIOUS
    <3>2. PICK j \in 1..n : s[j] = z
      OBVIOUS
    <3>3. j - 1 = k - 1
      BY <1>4, <3>1, <3>2 DEF Below
    <3>4. QED
      BY <3>2, <3>3
  <2>4. QED
    BY <2>1, <2>2, <2>3
<1>6. InOrder(S, R) = [k \in 1..n |-> s[k]]
  <2>1. InOrder(S, R) = [k \in 1..n |-> CHOOSE x \in S : Cardinality({y \in S : <<y, x>> \in R}) = k - 1]
    BY <1>3 DEF InOrder
  <2>2. \A k \in 1..n : (CHOOSE x \in S : Cardinality({y \in S : <<y, x>> \in R}) = k - 1) = s[k]
    BY <1>5, <2>1
  <2>3. QED
    BY <2>1, <2>2
<1>7. QED
  BY <1>3, <1>6

Ascending(s, n) == \A j, k \in 1..n : j < k => s[j] < s[k]

\* The order of numbers is an order of any set of them.
LEMMA LessOrders == ASSUME NEW S \in SUBSET Int PROVE Orders({pair \in S \X S : pair[1] < pair[2]}, S)
<1> DEFINE R == {pair \in S \X S : pair[1] < pair[2]}
<1>1. \A x, y \in S : <<x, y>> \in R <=> x < y
  OBVIOUS
<1>2. QED
  BY <1>1 DEF Orders

\* Numbers in ascending order.
LEMMA AscendedLists ==
  ASSUME NEW S \in SUBSET Int, IsFiniteSet(S)
  PROVE  /\ Ascended(S) \in [1..Cardinality(S) -> S] /\ Ascended(S) \in Seq(S)
         /\ Cardinality(S) \in Nat /\ Len(Ascended(S)) = Cardinality(S)
         /\ \A x \in S : \E k \in 1..Cardinality(S) : Ascended(S)[k] = x
         /\ Ascending(Ascended(S), Cardinality(S))
         /\ \A j, k \in 1..Cardinality(S) : Ascended(S)[j] = Ascended(S)[k] => j = k
<1> DEFINE R == {pair \in S \X S : pair[1] < pair[2]}
           n == Cardinality(S)
<1>1. n \in Nat
  BY FS_CardinalityType
<1>2. /\ InOrder(S, R) \in [1..n -> S]
      /\ \A x \in S : \E k \in 1..n : InOrder(S, R)[k] = x
      /\ \A j, k \in 1..n : j < k => <<InOrder(S, R)[j], InOrder(S, R)[k]>> \in R
      /\ \A j, k \in 1..n : InOrder(S, R)[j] = InOrder(S, R)[k] => j = k
  BY LessOrders, InOrderLists
<1>3. Ascended(S) = InOrder(S, R)
  BY DEF Ascended
<1>4. Ascending(Ascended(S), n)
  BY <1>2, <1>3 DEF Ascending
<1>5. Ascended(S) \in Seq(S) /\ Len(Ascended(S)) = n
  BY <1>1, <1>2, <1>3
<1>6. QED
  BY <1>1, <1>2, <1>3, <1>4, <1>5

\* The only sequence that lists the set in ascending order.
LEMMA AscendedIs ==
  ASSUME NEW S \in SUBSET Int, NEW n \in Nat, NEW s \in [1..n -> S],
         \A x \in S : \E k \in 1..n : s[k] = x, Ascending(s, n)
  PROVE  Ascended(S) = s /\ IsFiniteSet(S) /\ Cardinality(S) = n
<1> DEFINE R == {pair \in S \X S : pair[1] < pair[2]}
<1>1. \A j, k \in 1..n : j < k => <<s[j], s[k]>> \in R
  BY DEF Ascending
<1>2. Orders(R, S)
  BY LessOrders
<1>3. Ascended(S) = InOrder(S, R)
  BY DEF Ascended
<1> HIDE DEF R
<1>4. InOrder(S, R) = s /\ IsFiniteSet(S) /\ Cardinality(S) = n
  BY <1>1, <1>2, InOrderIs
<1>5. QED
  BY <1>3, <1>4

\* The members of a sequence, by its definition.
LEMMA ToSetOf ==
  ASSUME NEW n \in Nat, NEW S, NEW s \in [1..n -> S], \A x \in S : \E k \in 1..n : s[k] = x
  PROVE  ToSet(s) = S
  BY DEF ToSet

(***************************************************************************)
(* Rows                                                                    *)
(***************************************************************************)

\* The constants that are widths are positive numbers.
LEMMA Widths ==
  /\ InlineWidth \in Nat \ {0} /\ IndexCeiling \in Nat \ {0} /\ WordBits \in Nat \ {0}
  /\ PromoteDensityInv \in Nat \ {0} /\ BlockWords \in Nat \ {0}
  BY StoreAssumption

\* A monomial is a finite set of bits, and bits are numbers.
LEMMA MonomialsAreFinite ==
  ASSUME NEW M \in Monomials
  PROVE  IsFiniteSet(M) /\ Cardinality(M) \in Nat /\ M \in SUBSET Int /\ M \in SUBSET Nat
<1>1. Bits \in SUBSET Int /\ Bits \in SUBSET Nat /\ 0 \in Int /\ (2 * Modes) - 1 \in Int
  BY ModesAssumption DEF Bits
<1>2. IsFiniteSet(Bits)
  BY <1>1, FS_Interval DEF Bits
<1>3. IsFiniteSet(M)
  BY <1>2, FS_Subset DEF Monomials
<1>4. QED
  BY <1>1, <1>3, FS_CardinalityType DEF Monomials

\* The positions of a term are its bits.
LEMMA PositionsAre ==
  ASSUME NEW M \in Monomials
  PROVE  Positions(M) \in Seq(M) /\ Len(Positions(M)) = Cardinality(M) /\ ToSet(Positions(M)) = M
<1>1. IsFiniteSet(M) /\ M \in SUBSET Int /\ Cardinality(M) \in Nat
  BY MonomialsAreFinite
<1>2. /\ Ascended(M) \in [1..Cardinality(M) -> M] /\ Ascended(M) \in Seq(M)
      /\ Len(Ascended(M)) = Cardinality(M)
      /\ \A x \in M : \E k \in 1..Cardinality(M) : Ascended(M)[k] = x
  BY <1>1, AscendedLists
<1>3. ToSet(Ascended(M)) = M
  BY <1>1, <1>2, ToSetOf, ZenonT(30)
<1>4. QED
  BY <1>2, <1>3 DEF Positions

\* Terms with the same positions are the same term.
LEMMA SamePositions ==
  ASSUME NEW M \in Monomials, NEW N \in Monomials, Positions(M) = Positions(N)
  PROVE  M = N
  BY PositionsAre

\* Which rows spill, and what a row holds.
LEMMA PackedRowOf ==
  ASSUME NEW M \in Monomials
  PROVE  /\ PackedRow(Positions(M)).count = Spilled <=> Cardinality(M) > InlineWidth
         /\ Cardinality(M) > InlineWidth => PackedRow(Positions(M)) = [count |-> Spilled, pos |-> <<>>]
         /\ ~(Cardinality(M) > InlineWidth) => PackedRow(Positions(M)) = [count |-> Cardinality(M), pos |-> Positions(M)]
<1>1. Len(Positions(M)) = Cardinality(M) /\ Cardinality(M) \in Nat /\ InlineWidth \in Nat
  BY PositionsAre, MonomialsAreFinite, Widths
<1>2. QED
  BY <1>1 DEF PackedRow, Spilled

\* What is read from a row, and what it is equal to.
LEMMA RowsHold ==
  ASSUME NEW list \in Seq(Monomials), Packs(list, rows, overflow), NEW i \in 0..(Len(list) - 1)
  PROVE  /\ row(i) = list[i + 1]
         /\ \A M \in Monomials : row_eq_key(i, M) <=> list[i + 1] = M
         /\ \A M \in Monomials : row_eq_positions(i, Positions(M)) <=> list[i + 1] = M
<1> DEFINE N == list[i + 1]
<1>1. N \in Monomials /\ i + 1 \in 1..Len(list) /\ i \in Nat
  OBVIOUS
<1>2. rows[i + 1] = PackedRow(Positions(N))
  BY <1>1 DEF Packs
<1>3. CASE Cardinality(N) > InlineWidth
  <2>1. overflow[i] = N
    BY <1>3 DEF Packs
  <2>2. rows[i + 1].count = Spilled
    BY <1>1, <1>2, <1>3, PackedRowOf
  <2>3. \A M \in Monomials : ToSet(Positions(M)) = M
    BY PositionsAre
  <2>4. QED
    BY <2>1, <2>2, <2>3 DEF row, row_eq_key, row_eq_positions
<1>4. CASE ~(Cardinality(N) > InlineWidth)
  <2>1. rows[i + 1].count # Spilled /\ rows[i + 1].count = Cardinality(N) /\ rows[i + 1].pos = Positions(N)
    BY <1>1, <1>2, <1>4, PackedRowOf
  <2>2. ToSet(Positions(N)) = N
    BY <1>1, PositionsAre
  <2>3. row(i) = N
    BY <2>1, <2>2 DEF row
  <2>4. ASSUME NEW M \in Monomials, Cardinality(M) = Cardinality(N), N \subseteq M PROVE M = N
    <3>1. IsFiniteSet(M) /\ N \in SUBSET M
      BY <2>4, MonomialsAreFinite
    <3>2. QED
      BY <2>4, <3>1, FS_Subset
  <2>5. \A M \in Monomials : row_eq_key(i, M) <=> N = M
    BY <2>1, <2>2, <2>4 DEF row_eq_key
  <2>6. \A M \in Monomials : row_eq_positions(i, Positions(M)) <=> N = M
    BY <1>1, <2>1, SamePositions DEF row_eq_positions
  <2>7. QED
    BY <2>3, <2>5, <2>6
<1>5. QED
  BY <1>3, <1>4

\* The terms that the rows and the spill map hold.
TermsFrom(packed, spilled) ==
  [i \in 1..Len(packed) |-> IF packed[i].count = Spilled THEN spilled[i - 1] ELSE ToSet(packed[i].pos)]

\* The list of terms, in a state and in the next one, as a function of rows and spill map.
LEMMA TermsAre == Terms = TermsFrom(rows, overflow) /\ Terms' = TermsFrom(rows', overflow')
<1>1. \A n, i : i \in 1..n => (i - 1) + 1 = i
  OBVIOUS
<1>2. Terms = TermsFrom(rows, overflow)
  BY <1>1 DEF Terms, TermsFrom, Size, row
<1>3. Terms' = TermsFrom(rows', overflow')
  BY <1>1 DEF Terms, TermsFrom, Size, row
<1>4. QED
  BY <1>2, <1>3

\* Rows and spill map that hold a term at each place unpack to the list of these terms.
LEMMA PacksTerms ==
  ASSUME NEW list \in Seq(Monomials), NEW packed, NEW spilled, Packs(list, packed, spilled)
  PROVE  TermsFrom(packed, spilled) = list /\ Len(packed) = Len(list)
<1>1. Len(list) \in Nat /\ list = [i \in 1..Len(list) |-> list[i]] /\ \A i \in 1..Len(list) : list[i] \in Monomials
  OBVIOUS
<1>2. packed = [i \in 1..Len(list) |-> PackedRow(Positions(list[i]))]
  BY DEF Packs
<1>3. Len(packed) = Len(list)
  BY <1>1, <1>2
<1>4. ASSUME NEW i \in 1..Len(list)
      PROVE  (IF packed[i].count = Spilled THEN spilled[i - 1] ELSE ToSet(packed[i].pos)) = list[i]
  <2>1. packed[i] = PackedRow(Positions(list[i])) /\ list[i] \in Monomials
    BY <1>1, <1>2
  <2>2. CASE Cardinality(list[i]) > InlineWidth
    <3>1. packed[i].count = Spilled
      BY <2>1, <2>2, PackedRowOf
    <3>2. i - 1 \in 0..(Len(list) - 1) /\ (i - 1) + 1 = i
      BY <1>1
    <3>3. spilled[i - 1] = list[i]
      BY <2>2, <3>2 DEF Packs
    <3>4. QED
      BY <3>1, <3>3
  <2>3. CASE ~(Cardinality(list[i]) > InlineWidth)
    <3>1. packed[i].count # Spilled /\ packed[i].pos = Positions(list[i])
      BY <2>1, <2>3, PackedRowOf
    <3>2. QED
      BY <2>1, <3>1, PositionsAre
  <2>4. QED
    BY <2>2, <2>3
<1>5. TermsFrom(packed, spilled) = [i \in 1..Len(list) |-> list[i]]
  BY <1>3, <1>4 DEF TermsFrom
<1>6. QED
  BY <1>1, <1>3, <1>5

\* What a write of terms does to the spill map, entry by entry.
LEMMA SpillMapIs ==
  ASSUME NEW spilled, NEW base, NEW new
  PROVE  SpillMap(spilled, base, new) =
           [i \in {j \in DOMAIN spilled : ~(j \in base .. (base + Len(new)) - 1)}
                    \cup {j \in base .. (base + Len(new)) - 1 : Cardinality(new[(j - base) + 1]) > InlineWidth}
              |-> IF i \in base .. (base + Len(new)) - 1 THEN new[(i - base) + 1] ELSE spilled[i]]
  BY DEF SpillMap

\* Setting the rows after the last one packs the longer list.
LEMMA PacksMore ==
  ASSUME NEW list \in Seq(Monomials), NEW packed, NEW spilled, Packs(list, packed, spilled),
         NEW new \in Seq(Monomials)
  PROVE  Packs(list \o new, packed \o [k \in DOMAIN new |-> PackedRow(Positions(new[k]))],
               SpillMap(spilled, Len(list), new))
<1> DEFINE m == Len(list)
           n == Len(new)
           all == list \o new
<1>1. /\ m \in Nat /\ n \in Nat /\ Len(all) = m + n /\ DOMAIN new = 1..n
      /\ \A i \in 1..(m + n) : all[i] = IF i <= m THEN list[i] ELSE new[i - m]
  OBVIOUS
<1> HIDE DEF m, n, all
<1>2. packed \o [k \in DOMAIN new |-> PackedRow(Positions(new[k]))]
        = [i \in 1..Len(all) |-> PackedRow(Positions(all[i]))]
  <2> DEFINE R == {PackedRow(pos) : pos \in {Positions(M) : M \in Monomials}}
             more == [k \in 1..n |-> PackedRow(Positions(new[k]))]
             whole == [i \in 1..(m + n) |-> PackedRow(Positions(all[i]))]
  <2>1. packed = [i \in 1..m |-> PackedRow(Positions(list[i]))]
    BY DEF Packs, m
  <2>2. \A i \in 1..m : list[i] \in Monomials
    BY DEF m
  <2>3. \A i \in 1..n : new[i] \in Monomials
    BY DEF n
  <2>10. \A M \in Monomials : PackedRow(Positions(M)) \in R
    OBVIOUS
  <2> HIDE DEF R
  <2>4. packed \in Seq(R) /\ Len(packed) = m
    BY <1>1, <2>1, <2>2, <2>10
  <2>5. more \in Seq(R) /\ Len(more) = n
    BY <1>1, <2>3, <2>10
  <2>6. whole \in Seq(R) /\ Len(whole) = m + n
    <3>1. \A i \in 1..(m + n) : all[i] \in Monomials
      BY <1>1, <2>2, <2>3
    <3>2. m + n \in Nat
      BY <1>1
    <3>3. QED
      BY <3>1, <3>2, <2>10
  <2>7. \A i \in 1..m : whole[i] = packed[i]
    BY <1>1, <2>1
  <2>8. \A i \in 1..n : whole[m + i] = more[i]
    BY <1>1
  <2>9. whole = packed \o more
    <3> HIDE DEF whole, more
    <3>1. QED
      BY <2>4, <2>5, <2>6, <2>7, <2>8, Joined
  <2>11. QED
    BY <1>1, <2>9
<1>3. SpillMap(spilled, m, new) = [i \in {j \in 0..(Len(all) - 1) : Cardinality(all[j + 1]) > InlineWidth} |-> all[i + 1]]
  <2> DEFINE here(i) == i \in m .. (m + n) - 1
             term(i) == new[(i - m) + 1]
             kept == {i \in DOMAIN spilled : ~here(i)}
             late == {i \in m .. (m + n) - 1 : Cardinality(term(i)) > InlineWidth}
             long == {j \in 0..((m + n) - 1) : Cardinality(all[j + 1]) > InlineWidth}
  <2>1. /\ DOMAIN spilled = {j \in 0..(m - 1) : Cardinality(list[j + 1]) > InlineWidth}
        /\ \A i \in DOMAIN spilled : spilled[i] = list[i + 1]
    BY DEF Packs, m
  <2>2. \A j \in 0..(m - 1) : all[j + 1] = list[j + 1] /\ ~here(j) /\ j \in 0..((m + n) - 1)
    BY <1>1
  <2>3. \A j \in m..((m + n) - 1) : all[j + 1] = term(j) /\ j \in 0..((m + n) - 1)
    BY <1>1
  <2>4. \A j \in 0..((m + n) - 1) : j \in 0..(m - 1) \/ j \in m..((m + n) - 1)
    BY <1>1
  <2>5. kept \cup late = long
    BY <2>1, <2>2, <2>3, <2>4
  <2>6. \A i \in kept \cup late : (IF here(i) THEN term(i) ELSE spilled[i]) = all[i + 1]
    BY <2>1, <2>2, <2>3
  <2>7. SpillMap(spilled, m, new) = [i \in kept \cup late |-> IF here(i) THEN term(i) ELSE spilled[i]]
    <3>1. Len(new) = n
      BY DEF n
    <3>2. SpillMap(spilled, m, new) =
            [i \in {j \in DOMAIN spilled : ~(j \in m .. (m + n) - 1)}
                     \cup {j \in m .. (m + n) - 1 : Cardinality(new[(j - m) + 1]) > InlineWidth}
               |-> IF i \in m .. (m + n) - 1 THEN new[(i - m) + 1] ELSE spilled[i]]
      BY <3>1, SpillMapIs
    <3>3. QED
      BY <3>2
  <2> HIDE DEF kept, late, long
  <2>8. SpillMap(spilled, m, new) = [i \in long |-> all[i + 1]]
    BY <2>5, <2>6, <2>7
  <2>9. QED
    BY <1>1, <2>8 DEF long
<1>4. QED
  BY <1>2, <1>3 DEF Packs, m, all

(***************************************************************************)
(* The table                                                               *)
(***************************************************************************)

\* Min returns the least member of a set of numbers.
LEMMA LeastOf ==
  ASSUME NEW T \in SUBSET Nat, T # {}
  PROVE  Min(T) \in T /\ \A x \in T : Min(T) <= x
<1>1. PICK n \in T : \A x \in T : n <= x
  BY LeastNatural
<1>2. QED
  BY <1>1 DEF Min

\* A remainder is less than the divisor.
LEMMA Remainder ==
  ASSUME NEW a \in Nat, NEW c \in Nat \ {0}
  PROVE  a % c \in 0..(c - 1) /\ a \div c \in Nat /\ a = ((a \div c) * c) + (a % c)
  OBVIOUS

\* A number below the divisor is its own remainder.
LEMMA RemainderOf ==
  ASSUME NEW q \in Nat, NEW c \in Nat \ {0}, NEW r \in 0..(c - 1)
  PROVE  ((q * c) + r) % c = r /\ ((q * c) + r) \div c = q
  OBVIOUS

\* A probe passes every slot.
LEMMA ProbesAll ==
  ASSUME NEW c \in Nat \ {0}, NEW b \in Nat, NEW r \in 0..(c - 1)
  PROVE  \E n \in 0..(c - 1) : (b + n) % c = r
<1> DEFINE q == b \div c
           p == b % c
<1>1. p \in 0..(c - 1) /\ q \in Nat /\ b = (q * c) + p
  BY Remainder
<1> HIDE DEF p, q
<1>2. CASE p <= r
  <2>1. b + (r - p) = (q * c) + r /\ r - p \in 0..(c - 1)
    BY <1>1, <1>2
  <2>2. (b + (r - p)) % c = r
    BY <1>1, <2>1, RemainderOf
  <2>3. QED
    BY <2>1, <2>2
<1>3. CASE r < p
  <2>1. (q + 1) * c = (q * c) + c
    BY <1>1
  <2>2. b + ((r + c) - p) = ((q + 1) * c) + r /\ (r + c) - p \in 0..(c - 1) /\ q + 1 \in Nat
    BY <1>1, <1>3, <2>1
  <2>3. (b + ((r + c) - p)) % c = r
    BY <2>2, RemainderOf
  <2>4. QED
    BY <2>2, <2>3
<1>4. QED
  BY <1>1, <1>2, <1>3

\* A hash and the place at which it starts to probe are numbers.
LEMMA HashesSpread == \A h \in Hashes : h \in Nat /\ Spread[h] \in Nat
  BY StoreAssumption DEF Hashes

\* The number of slots of a table.
LEMMA CapacityIs == ASSUME NEW t \in TableType, Capacity(t) > 0 PROVE Capacity(t) \in Nat \ {0}
<1> DEFINE R == [idx : Nat, h : Nat]
<1>1. t.slots \in Seq(R)
  BY DEF TableType
<1> HIDE DEF R
<1>2. Len(t.slots) \in Nat
  BY <1>1
<1>3. QED
  BY <1>2 DEF Capacity

\* A probe is one of the slots.
LEMMA ProbeInTable ==
  ASSUME NEW t \in TableType, Capacity(t) > 0, NEW h \in Hashes, NEW n \in Nat
  PROVE  /\ Capacity(t) \in Nat \ {0}
         /\ Probe(t, h, n) \in 1..Capacity(t)
         /\ EntryAt(t, h, n) = t.slots[Probe(t, h, n)]
         /\ EntryAt(t, h, n) \in [idx : Nat, h : Nat]
<1> DEFINE R == [idx : Nat, h : Nat]
<1>1. Capacity(t) \in Nat \ {0} /\ t.slots \in [1..Capacity(t) -> R]
  <2>1. t.slots \in Seq(R)
    BY DEF TableType
  <2> HIDE DEF R
  <2>2. Len(t.slots) \in Nat /\ t.slots \in [1..Len(t.slots) -> R]
    BY <2>1
  <2>3. QED
    BY <2>2 DEF Capacity
<1>2. Spread[h] + n \in Nat
  BY HashesSpread
<1>3. (Spread[h] + n) % Capacity(t) \in 0..(Capacity(t) - 1)
  BY <1>1, <1>2, Remainder
<1>4. Probe(t, h, n) \in 1..Capacity(t)
  BY <1>1, <1>3 DEF Probe
<1>5. QED
  BY <1>1, <1>4 DEF EntryAt

\* A chain ends at the first empty slot.
LEMMA ChainEnds ==
  ASSUME NEW t \in TableType, Capacity(t) > 0, NEW h \in Hashes
  PROVE  /\ ChainLength(t, h) \in 0..Capacity(t)
         /\ \A n \in 0..(Capacity(t) - 1) : n < ChainLength(t, h) <=> Unbroken(t, h, n)
         /\ ChainLength(t, h) < Capacity(t) => EntryAt(t, h, ChainLength(t, h)).idx = kEmptySlot
<1> DEFINE c == Capacity(t)
           Empty == {n \in 0..(c - 1) : EntryAt(t, h, n).idx = kEmptySlot}
           len == ChainLength(t, h)
<1>1. c \in Nat \ {0}
  BY ProbeInTable
<1>2. Empty \cup {c} \in SUBSET Nat /\ Empty \cup {c} # {}
  BY <1>1
<1>3. len = Min(Empty \cup {c})
  BY DEF ChainLength
<1> HIDE DEF c, Empty, len
<1>4. len \in Empty \cup {c} /\ \A x \in Empty \cup {c} : len <= x
  BY <1>2, <1>3, LeastOf
<1>5. len \in 0..c
  BY <1>1, <1>4 DEF Empty
<1>6. len < c => EntryAt(t, h, len).idx = kEmptySlot
  BY <1>1, <1>4 DEF Empty
<1>7. ASSUME NEW n \in 0..(c - 1), n < len PROVE Unbroken(t, h, n)
  <2>1. \A m \in 0..n : m \in 0..(c - 1) /\ ~(len <= m)
    BY <1>1, <1>5, <1>7
  <2>2. \A m \in 0..n : m \notin Empty
    BY <1>4, <2>1
  <2>3. QED
    BY <2>1, <2>2 DEF Unbroken, Empty
<1>8. ASSUME NEW n \in 0..(c - 1), Unbroken(t, h, n) PROVE n < len
  <2>1. SUFFICES ASSUME len <= n PROVE FALSE
    BY <1>1, <1>5
  <2>2. len \in 0..n /\ len < c
    BY <1>1, <1>5, <2>1
  <2>3. QED
    BY <1>6, <1>8, <2>2 DEF Unbroken
<1>9. QED
  BY <1>5, <1>6, <1>7, <1>8 DEF c, len

\* A table with fewer entries than slots has an empty one, where every chain ends.
LEMMA RoomInTable ==
  ASSUME NEW t, NEW E, Keeps(t, E), t.count < Capacity(t), NEW h \in Hashes
  PROVE  /\ ChainLength(t, h) \in 0..(Capacity(t) - 1)
         /\ EntryAt(t, h, ChainLength(t, h)).idx = kEmptySlot
<1> DEFINE c == Capacity(t)
<1>1. t \in TableType /\ c > 0 /\ c \in Nat \ {0} /\ IsFiniteSet(E) /\ t.count = Cardinality(E)
  BY ProbeInTable DEF Keeps
<1>0. t.count < c
  OBVIOUS
<1>2. \E s \in 1..c : t.slots[s].idx = kEmptySlot
  <2>1. SUFFICES ASSUME \A s \in 1..c : s \in FilledSlots(t) PROVE FALSE
    BY DEF FilledSlots
  <2> DEFINE f == [s \in 1..c |-> t.slots[s]]
  <2>2. f \in [1..c -> E]
    BY <2>1 DEF Keeps
  <2>3. \A r, s \in 1..c : f[r] = f[s] => r = s
    BY <2>1 DEF Keeps
  <2>4. f \in Injection(1..c, E)
    BY <2>2, <2>3 DEF Injection, IsInjective
  <2>5. Cardinality(1..c) <= Cardinality(E)
    BY <1>1, <2>4, FS_Injection
  <2> HIDE DEF c
  <2>6. Cardinality(1..c) = c
    <3>1. 1 \in Int /\ c \in Int /\ c >= 1
      BY <1>1
    <3>2. QED
      BY <3>1, FS_Interval
  <2>7. QED
    BY <1>0, <1>1, <2>5, <2>6, FS_CardinalityType
<1>3. PICK s \in 1..c : t.slots[s].idx = kEmptySlot
  BY <1>2
<1>4. Spread[h] \in Nat /\ s - 1 \in 0..(c - 1)
  BY HashesSpread, <1>1
<1>5. PICK n \in 0..(c - 1) : (Spread[h] + n) % c = s - 1
  BY <1>1, <1>4, ProbesAll
<1>6. EntryAt(t, h, n).idx = kEmptySlot
  BY <1>1, <1>3, <1>5 DEF EntryAt, Probe
<1>7. ~Unbroken(t, h, n)
  BY <1>1, <1>6 DEF Unbroken
<1>8. ChainLength(t, h) < c /\ ChainLength(t, h) \in 0..c /\ EntryAt(t, h, ChainLength(t, h)).idx = kEmptySlot
  <2>1. ChainLength(t, h) \in 0..c /\ ~(n < ChainLength(t, h))
    BY <1>1, <1>7, ChainEnds
  <2>2. ChainLength(t, h) < c
    BY <1>1, <2>1
  <2>3. QED
    BY <1>1, <2>1, <2>2, ChainEnds
<1>9. QED
  BY <1>1, <1>8

\* An entry put at the end of its chain is kept, and so is everything else.
LEMMA PutKeeps ==
  ASSUME NEW t, NEW E, Keeps(t, E), t.count < Capacity(t),
         NEW idx \in Nat \ {kEmptySlot}, NEW h \in Hashes, \A e \in E : e.idx # idx
  PROVE  /\ Keeps(PutInChain(t, idx, h), E \cup {[idx |-> idx, h |-> h]})
         /\ Capacity(PutInChain(t, idx, h)) = Capacity(t)
         /\ PutInChain(t, idx, h).count = t.count + 1
<1> DEFINE R == [idx : Nat, h : Nat]
           new == [idx |-> idx, h |-> h]
           len == ChainLength(t, h)
           p == Probe(t, h, len)
           u == PutInChain(t, idx, h)
           c == Capacity(t)
<1>1. /\ t \in TableType /\ c > 0 /\ c \in Nat \ {0} /\ t.slots \in Seq(R) /\ t.count \in Nat
      /\ len \in 0..(c - 1) /\ len \in Nat /\ EntryAt(t, h, len).idx = kEmptySlot
  <2>1. t \in TableType /\ c > 0 /\ len \in 0..(c - 1) /\ EntryAt(t, h, len).idx = kEmptySlot
    BY RoomInTable DEF Keeps
  <2>2. c \in Nat \ {0}
    BY <2>1, ProbeInTable
  <2>3. QED
    BY <2>1, <2>2 DEF TableType
<1>2. p \in 1..c /\ t.slots[p].idx = kEmptySlot
  BY <1>1, ProbeInTable
<1>3. new \in R /\ new \in Entries /\ new.idx = idx /\ new.h = h
  BY HashesSpread DEF Entries
<1>4. u.slots = [t.slots EXCEPT ![p] = new] /\ u.count = t.count + 1 /\ DOMAIN u = {"slots", "count"}
      /\ u = [slots |-> u.slots, count |-> u.count]
  BY DEF PutInChain
<1> HIDE DEF R, new, len, p, u
<1>5. /\ u.slots \in Seq(R) /\ Len(u.slots) = c
      /\ \A s \in 1..c : u.slots[s] = IF s = p THEN new ELSE t.slots[s]
  <2>1. Len(t.slots) = c
    BY DEF Capacity
  <2>2. QED
    BY <1>1, <1>2, <1>3, <1>4, <2>1
<1>6. u \in TableType /\ Capacity(u) = c
  <2>1. Capacity(u) = c
    BY <1>5 DEF Capacity
  <2>2. TableType = [slots : Seq(R), count : Nat]
    BY DEF TableType, R
  <2>3. u.count \in Nat
    BY <1>1, <1>4
  <2>4. u \in [slots : Seq(R), count : Nat]
    BY <1>4, <1>5, <2>3
  <2>5. QED
    BY <2>1, <2>2, <2>4
<1>7. \A g, n : Probe(u, g, n) = Probe(t, g, n)
  BY <1>6 DEF Probe
<1>8. \A g \in Hashes, n \in Nat :
        /\ Probe(t, g, n) \in 1..c
        /\ EntryAt(u, g, n) = IF Probe(t, g, n) = p THEN new ELSE EntryAt(t, g, n)
  <2>1. SUFFICES ASSUME NEW g \in Hashes, NEW n \in Nat
                 PROVE  /\ Probe(t, g, n) \in 1..c
                        /\ EntryAt(u, g, n) = IF Probe(t, g, n) = p THEN new ELSE EntryAt(t, g, n)
    OBVIOUS
  <2>2. Probe(t, g, n) \in 1..c
    BY <1>1, ProbeInTable
  <2>3. QED
    BY <1>5, <1>7, <2>2 DEF EntryAt
<1>9. FilledSlots(u) = FilledSlots(t) \cup {p}
  BY <1>2, <1>3, <1>5, <1>6 DEF FilledSlots
<1>10. \A s \in FilledSlots(t) : u.slots[s] = t.slots[s] /\ s # p /\ s \in 1..c
  BY <1>2, <1>5 DEF FilledSlots
<1>11. u.slots[p] = new
  BY <1>2, <1>5
<1>12. ASSUME NEW g \in Hashes, NEW n \in Nat, Unbroken(t, g, n) PROVE Unbroken(u, g, n)
  BY <1>3, <1>8, <1>12 DEF Unbroken
<1>13. ASSUME NEW s \in FilledSlots(u)
       PROVE  u.slots[s] \in E \cup {new} /\ Reached(u, s)
  <2>1. CASE s \in FilledSlots(t)
    <3>1. u.slots[s] = t.slots[s] /\ t.slots[s] \in E /\ Reached(t, s) /\ t.slots[s].h \in Hashes
      BY <1>10, <2>1 DEF Keeps, Entries
    <3>2. PICK n \in 0..(c - 1) : Probe(t, t.slots[s].h, n) = s /\ Unbroken(t, t.slots[s].h, n)
      BY <3>1 DEF Reached
    <3>3. n \in Nat
      BY <1>1
    <3>4. Probe(u, u.slots[s].h, n) = s /\ Unbroken(u, u.slots[s].h, n)
      BY <1>7, <1>12, <3>1, <3>2, <3>3
    <3>5. QED
      BY <1>6, <3>1, <3>4 DEF Reached
  <2>2. CASE s = p
    <3>1. Unbroken(u, h, len)
      <4>1. ASSUME NEW m \in 0..len PROVE EntryAt(u, h, m).idx # kEmptySlot
        <5>1. CASE m = len
          <6>1. EntryAt(u, h, m) = new
            BY <1>1, <1>8, <5>1 DEF p
          <6>2. QED
            BY <1>3, <6>1
        <5>2. CASE m < len
          <6>1. m \in 0..(c - 1) /\ m \in Nat
            BY <1>1, <5>2
          <6>2. Unbroken(t, h, m)
            BY <1>1, <5>2, <6>1, ChainEnds DEF len
          <6>3. Unbroken(u, h, m)
            BY <1>12, <6>1, <6>2
          <6>4. QED
            BY <6>1, <6>3 DEF Unbroken
        <5>3. QED
          BY <1>1, <5>1, <5>2
      <4>2. QED
        BY <4>1 DEF Unbroken
    <3>2. Probe(u, h, len) = s
      BY <1>7, <2>2 DEF p
    <3>3. QED
      BY <1>1, <1>3, <1>6, <1>11, <2>2, <3>1, <3>2 DEF Reached
  <2>3. QED
    BY <1>9, <2>1, <2>2
<1>14. \A e \in E \cup {new} : \E s \in FilledSlots(u) : u.slots[s] = e
  <2>1. \A e \in E : \E s \in FilledSlots(t) : t.slots[s] = e
    BY DEF Keeps
  <2>2. QED
    BY <1>9, <1>10, <1>11, <2>1
<1>15. ASSUME NEW r \in FilledSlots(u), NEW s \in FilledSlots(u), u.slots[r].idx = u.slots[s].idx
       PROVE  r = s
  <2>1. \A q \in FilledSlots(t) : t.slots[q].idx # idx
    BY DEF Keeps
  <2>2. \A q, v \in FilledSlots(t) : t.slots[q].idx = t.slots[v].idx => q = v
    BY DEF Keeps
  <2>3. QED
    BY <1>3, <1>9, <1>10, <1>11, <1>15, <2>1, <2>2
<1>16. E \cup {new} \in SUBSET Entries /\ IsFiniteSet(E \cup {new}) /\ u.count = Cardinality(E \cup {new})
  <2>1. E \in SUBSET Entries /\ IsFiniteSet(E) /\ t.count = Cardinality(E)
    BY DEF Keeps
  <2>2. new \notin E
    BY <1>3
  <2>3. IsFiniteSet(E \cup {new}) /\ Cardinality(E \cup {new}) = Cardinality(E) + 1
    BY <2>1, <2>2, FS_AddElement
  <2>4. E \cup {new} \in SUBSET Entries
    BY <1>3, <2>1
  <2>5. QED
    BY <1>4, <2>1, <2>3, <2>4
<1>17. Keeps(u, E \cup {new})
  BY <1>1, <1>6, <1>13, <1>14, <1>15, <1>16 DEF Keeps
<1>18. QED
  BY <1>4, <1>6, <1>17 DEF u, new

\* On the chain of a hash are entries that the table keeps, and all that have it.
LEMMA Lookup ==
  ASSUME NEW t, NEW E, Keeps(t, E), t.count < Capacity(t), NEW h \in Hashes
  PROVE  /\ \A n \in 0..(ChainLength(t, h) - 1) : EntryAt(t, h, n) \in E
         /\ \A e \in E : e.h = h => \E n \in 0..(ChainLength(t, h) - 1) : EntryAt(t, h, n) = e
<1> DEFINE c == Capacity(t)
           len == ChainLength(t, h)
<1>1. t \in TableType /\ c > 0 /\ c \in Nat \ {0} /\ len \in 0..(c - 1) /\ len \in Nat
  <2>1. t \in TableType /\ c > 0 /\ len \in 0..(c - 1)
    BY RoomInTable DEF Keeps
  <2>2. c \in Nat \ {0}
    BY <2>1, ProbeInTable
  <2>3. QED
    BY <2>1, <2>2
<1>2. \A n \in 0..(c - 1) : n < len <=> Unbroken(t, h, n)
  BY <1>1, ChainEnds
<1> HIDE DEF c, len
<1>3. ASSUME NEW n \in 0..(len - 1) PROVE EntryAt(t, h, n) \in E
  <2>1. n \in 0..(c - 1) /\ n \in Nat /\ n \in 0..n /\ n < len
    BY <1>1
  <2>2. EntryAt(t, h, n).idx # kEmptySlot
    BY <1>2, <2>1 DEF Unbroken
  <2>3. Probe(t, h, n) \in 1..Capacity(t) /\ EntryAt(t, h, n) = t.slots[Probe(t, h, n)]
    BY <1>1, <2>1, ProbeInTable DEF c
  <2>4. Probe(t, h, n) \in FilledSlots(t)
    BY <2>2, <2>3 DEF FilledSlots
  <2>5. QED
    BY <2>3, <2>4 DEF Keeps
<1>4. ASSUME NEW e \in E, e.h = h PROVE \E n \in 0..(len - 1) : EntryAt(t, h, n) = e
  <2>1. PICK s \in FilledSlots(t) : t.slots[s] = e /\ Reached(t, s)
    BY DEF Keeps
  <2>2. PICK n \in 0..(c - 1) : Probe(t, h, n) = s /\ Unbroken(t, h, n)
    BY <1>4, <2>1 DEF Reached, c
  <2>3. n \in 0..(len - 1) /\ EntryAt(t, h, n) = e
    BY <1>1, <1>2, <2>1, <2>2 DEF EntryAt
  <2>4. QED
    BY <2>3
<1>5. QED
  BY <1>3, <1>4 DEF len

\* No entries.
LEMMA EmptyKeeps ==
  ASSUME NEW cap \in Nat \ {0}
  PROVE  Keeps(EmptyTable(cap), {}) /\ Capacity(EmptyTable(cap)) = cap /\ EmptyTable(cap).count = 0
<1> DEFINE R == [idx : Nat, h : Nat]
           u == EmptyTable(cap)
<1>1. kEmptySlot \in Nat
  BY Widths DEF kEmptySlot
<1>2. [idx |-> kEmptySlot, h |-> 0] \in R
  BY <1>1
<1>3. u = [slots |-> [s \in 1..cap |-> [idx |-> kEmptySlot, h |-> 0]], count |-> 0]
  BY DEF EmptyTable
<1> HIDE DEF R
<1>4. u.slots \in Seq(R) /\ Len(u.slots) = cap /\ \A s \in 1..cap : u.slots[s].idx = kEmptySlot
  BY <1>2, <1>3
<1>5. u \in TableType
  <2>1. TableType = [slots : Seq(R), count : Nat]
    BY DEF TableType, R
  <2>2. QED
    BY <1>3, <1>4, <2>1
<1>6. Capacity(u) = cap /\ FilledSlots(u) = {} /\ u.count = 0
  BY <1>3, <1>4 DEF Capacity, FilledSlots
<1>7. Cardinality({}) = 0 /\ IsFiniteSet({})
  BY FS_EmptySet
<1>8. Keeps(u, {})
  BY <1>5, <1>6, <1>7 DEF Keeps
<1>9. QED
  BY <1>6, <1>8

\* The steps of a rehash: what is moved after each number of old slots.
MovedUpTo(f, t, cap, n) ==
  f = [s \in 0..n |->
         IF s = 0 THEN EmptyTable(cap)
         ELSE IF t.slots[s].idx = kEmptySlot THEN f[s - 1]
         ELSE PutInChain(f[s - 1], t.slots[s].idx, t.slots[s].h)]

\* The equation of the recursive function by which a rehash moves the slots.
LEMMA MovedAt ==
  ASSUME NEW t, NEW cap, NEW n, NEW f, MovedUpTo(f, t, cap, n), NEW s \in 0..n
  PROVE  f[s] = IF s = 0 THEN EmptyTable(cap)
                ELSE IF t.slots[s].idx = kEmptySlot THEN f[s - 1]
                ELSE PutInChain(f[s - 1], t.slots[s].idx, t.slots[s].h)
<1> DEFINE e == [k \in 0..n |->
                   IF k = 0 THEN EmptyTable(cap)
                   ELSE IF t.slots[k].idx = kEmptySlot THEN f[k - 1]
                   ELSE PutInChain(f[k - 1], t.slots[k].idx, t.slots[k].h)]
<1>1. f[s] = e[s]
  BY Zenon DEF MovedUpTo
<1>2. QED
  BY <1>1

\* There is such a function: the first slots determine what the new table holds.
LEMMA MovedExists ==
  ASSUME NEW t, NEW cap
  PROVE  \A n \in Nat : \E f : MovedUpTo(f, t, cap, n)
<1> DEFINE T == {n \in Nat : \E f : MovedUpTo(f, t, cap, n)}
           step(f, s) == IF s = 0 THEN EmptyTable(cap)
                         ELSE IF t.slots[s].idx = kEmptySlot THEN f[s - 1]
                         ELSE PutInChain(f[s - 1], t.slots[s].idx, t.slots[s].h)
<1>1. 0 \in T
  <2> DEFINE f == [s \in 0..0 |-> EmptyTable(cap)]
  <2>1. f = [s \in 0..0 |-> step(f, s)]
    OBVIOUS
  <2>2. MovedUpTo(f, t, cap, 0)
    BY <2>1, Zenon DEF MovedUpTo
  <2>3. QED
    BY <2>2
<1>2. ASSUME NEW n \in Nat, n \in T PROVE n + 1 \in T
  <2>1. PICK f : MovedUpTo(f, t, cap, n)
    BY <1>2
  <2> DEFINE h == [s \in 0..(n + 1) |-> step(f, s)]
  <2>2. \A s \in 0..n : h[s] = f[s]
    BY <2>1, MovedAt
  <2>3. \A s \in 0..(n + 1) : h[s] = step(h, s)
    <3>1. \A s \in 0..(n + 1) : h[s] = step(f, s)
      OBVIOUS
    <3> HIDE DEF h
    <3>2. \A s \in 0..(n + 1) : s # 0 => s - 1 \in 0..n
      OBVIOUS
    <3>3. QED
      BY <2>2, <3>1, <3>2
  <2>4. h = [s \in 0..(n + 1) |-> h[s]]
    OBVIOUS
  <2> HIDE DEF h
  <2>5. [s \in 0..(n + 1) |-> h[s]] = [s \in 0..(n + 1) |-> step(h, s)]
    BY <2>3
  <2>6. MovedUpTo(h, t, cap, n + 1)
    BY <2>4, <2>5, Zenon DEF MovedUpTo
  <2>7. QED
    BY <2>6
<1>3. \A n \in Nat : n \in T
  <2> HIDE DEF T
  <2>1. QED
    BY <1>1, <1>2, SetInduction
<1>4. QED
  BY <1>3

\* rehash_to is the last value of that function.
LEMMA RehashIsMoved ==
  ASSUME NEW t, Capacity(t) \in Nat, NEW cap, ~(cap <= Capacity(t))
  PROVE  \E f : MovedUpTo(f, t, cap, Capacity(t)) /\ rehash_to(t, cap) = f[Capacity(t)]
<1> DEFINE c == CHOOSE moved : moved = [s \in 0..Capacity(t) |->
                   IF s = 0 THEN EmptyTable(cap)
                   ELSE IF t.slots[s].idx = kEmptySlot THEN moved[s - 1]
                   ELSE PutInChain(moved[s - 1], t.slots[s].idx, t.slots[s].h)]
<1>1. rehash_to(t, cap) = c[Capacity(t)]
  BY DEF rehash_to
<1>2. \E f : MovedUpTo(f, t, cap, Capacity(t))
  BY MovedExists
<1>3. MovedUpTo(c, t, cap, Capacity(t))
  BY <1>2, Zenon DEF MovedUpTo
<1> HIDE DEF c
<1>4. QED
  BY <1>1, <1>3

KeptUpTo(t, n) == {t.slots[s] : s \in {r \in FilledSlots(t) : r <= n}}

\* A rehash keeps every entry.
LEMMA RehashKeeps ==
  ASSUME NEW t, NEW E, Keeps(t, E), NEW cap \in Nat, t.count < cap
  PROVE  /\ Keeps(rehash_to(t, cap), E) /\ rehash_to(t, cap).count = t.count
         /\ Capacity(rehash_to(t, cap)) = IF cap <= Capacity(t) THEN Capacity(t) ELSE cap
<1> DEFINE c == Capacity(t)
<1>1. /\ t \in TableType /\ c \in Nat \ {0} /\ t.count \in Nat /\ cap \in Nat \ {0}
      /\ E \in SUBSET Entries /\ IsFiniteSet(E) /\ t.count = Cardinality(E)
  <2>1. t \in TableType /\ c > 0 /\ E \in SUBSET Entries /\ IsFiniteSet(E) /\ t.count = Cardinality(E)
    BY DEF Keeps
  <2>2. c \in Nat \ {0}
    BY <2>1, CapacityIs
  <2>3. t.count \in Nat
    BY <2>1, FS_CardinalityType
  <2>4. QED
    BY <2>1, <2>2, <2>3
<1>2. CASE cap <= c
  BY <1>2 DEF rehash_to
<1>3. CASE ~(cap <= c)
  <2>1. PICK f : MovedUpTo(f, t, cap, c) /\ rehash_to(t, cap) = f[c]
    BY <1>1, <1>3, RehashIsMoved
  <2> DEFINE T == {n \in Nat : n <= c => Keeps(f[n], KeptUpTo(t, n)) /\ Capacity(f[n]) = cap}
  <2>2. 0 \in T
    <3>1. f[0] = EmptyTable(cap)
      BY <1>1, <2>1, MovedAt
    <3>2. KeptUpTo(t, 0) = {}
      BY <1>1 DEF KeptUpTo, FilledSlots
    <3>3. QED
      BY <1>1, <3>1, <3>2, EmptyKeeps
  <2>3. ASSUME NEW n \in Nat, n \in T PROVE n + 1 \in T
    <3> SUFFICES ASSUME n + 1 <= c PROVE Keeps(f[n + 1], KeptUpTo(t, n + 1)) /\ Capacity(f[n + 1]) = cap
      OBVIOUS
    <3>1. Keeps(f[n], KeptUpTo(t, n)) /\ Capacity(f[n]) = cap
      BY <1>1, <2>3
    <3>2. n + 1 \in 0..c /\ n + 1 # 0 /\ (n + 1) - 1 = n /\ n + 1 \in 1..c
      BY <1>1
    <3>3. f[n + 1] = IF t.slots[n + 1].idx = kEmptySlot THEN f[n]
                     ELSE PutInChain(f[n], t.slots[n + 1].idx, t.slots[n + 1].h)
      BY <2>1, <3>2, MovedAt
    <3>4. CASE t.slots[n + 1].idx = kEmptySlot
      <4>1. {r \in FilledSlots(t) : r <= n + 1} = {r \in FilledSlots(t) : r <= n}
        BY <1>1, <3>4 DEF FilledSlots
      <4>2. QED
        BY <3>1, <3>3, <3>4, <4>1 DEF KeptUpTo
    <3>5. CASE t.slots[n + 1].idx # kEmptySlot
      <4>1. n + 1 \in FilledSlots(t)
        BY <3>2, <3>5 DEF FilledSlots
      <4>2. t.slots[n + 1] \in E
        BY <4>1 DEF Keeps
      <4>3. t.slots[n + 1] \in Entries
        BY <1>1, <4>2
      <4>4. /\ t.slots[n + 1] = [idx |-> t.slots[n + 1].idx, h |-> t.slots[n + 1].h]
            /\ t.slots[n + 1].idx \in Nat \ {kEmptySlot} /\ t.slots[n + 1].h \in Hashes
        BY <4>3 DEF Entries
      <4>5. {r \in FilledSlots(t) : r <= n + 1} = {r \in FilledSlots(t) : r <= n} \cup {n + 1}
        BY <1>1, <4>1 DEF FilledSlots
      <4>6. KeptUpTo(t, n + 1) = KeptUpTo(t, n) \cup {t.slots[n + 1]}
        BY <4>5 DEF KeptUpTo
      <4>7. \A e \in KeptUpTo(t, n) : e.idx # t.slots[n + 1].idx
        <5>1. \A s \in FilledSlots(t) : s <= n => s # n + 1
          BY DEF FilledSlots
        <5>2. \A s \in FilledSlots(t) : t.slots[s].idx = t.slots[n + 1].idx => s = n + 1
          BY <4>1 DEF Keeps
        <5>3. QED
          BY <5>1, <5>2 DEF KeptUpTo
      <4>8. f[n].count < Capacity(f[n])
        <5>1. KeptUpTo(t, n) \in SUBSET E
          BY DEF KeptUpTo, Keeps
        <5>2. Cardinality(KeptUpTo(t, n)) <= Cardinality(E) /\ IsFiniteSet(KeptUpTo(t, n))
          BY <1>1, <5>1, FS_Subset
        <5>3. f[n].count = Cardinality(KeptUpTo(t, n)) /\ Cardinality(KeptUpTo(t, n)) \in Nat
          BY <3>1, <5>2, FS_CardinalityType DEF Keeps
        <5>4. QED
          BY <1>1, <3>1, <5>2, <5>3
      <4> DEFINE idx == t.slots[n + 1].idx
                 h == t.slots[n + 1].h
      <4>9. idx \in Nat \ {kEmptySlot} /\ h \in Hashes /\ \A e \in KeptUpTo(t, n) : e.idx # idx
        BY <4>4, <4>7
      <4>10. f[n + 1] = PutInChain(f[n], idx, h) /\ KeptUpTo(t, n + 1) = KeptUpTo(t, n) \cup {[idx |-> idx, h |-> h]}
        BY <3>3, <3>5, <4>4, <4>6
      <4> HIDE DEF idx, h
      <4>11. /\ Keeps(PutInChain(f[n], idx, h), KeptUpTo(t, n) \cup {[idx |-> idx, h |-> h]})
             /\ Capacity(PutInChain(f[n], idx, h)) = Capacity(f[n])
        <5> DEFINE u == f[n]
                   K == KeptUpTo(t, n)
        <5>1. Keeps(u, K) /\ u.count < Capacity(u) /\ \A e \in K : e.idx # idx
          BY <3>1, <4>8, <4>9
        <5> HIDE DEF u, K
        <5>2. /\ Keeps(PutInChain(u, idx, h), K \cup {[idx |-> idx, h |-> h]})
              /\ Capacity(PutInChain(u, idx, h)) = Capacity(u)
          BY <4>9, <5>1, PutKeeps
        <5>3. QED
          BY <5>2 DEF u, K
      <4>12. QED
        BY <3>1, <4>10, <4>11
    <3>6. QED
      BY <3>4, <3>5
  <2>4. \A n \in Nat : n \in T
    <3> HIDE DEF T
    <3>1. QED
      BY <2>2, <2>3, SetInduction
  <2>5. Keeps(f[c], KeptUpTo(t, c)) /\ Capacity(f[c]) = cap
    BY <1>1, <2>4
  <2>6. KeptUpTo(t, c) = E
    <3>1. {r \in FilledSlots(t) : r <= c} = FilledSlots(t)
      BY <1>1 DEF FilledSlots
    <3>2. QED
      BY <3>1 DEF KeptUpTo, Keeps
  <2>7. f[c].count = t.count
    BY <1>1, <2>5, <2>6 DEF Keeps
  <2>8. QED
    BY <1>3, <2>1, <2>5, <2>6, <2>7
<1>4. QED
  BY <1>2, <1>3

\* Slots and count of a table are numbers.
LEMMA TableNumbers ==
  ASSUME NEW t, NEW E, Keeps(t, E)
  PROVE  Capacity(t) \in Nat \ {0} /\ t.count \in Nat /\ (Roomy(t) => t.count < Capacity(t))
<1>1. t \in TableType /\ Capacity(t) > 0 /\ IsFiniteSet(E) /\ t.count = Cardinality(E)
  BY DEF Keeps
<1>2. Capacity(t) \in Nat \ {0}
  BY <1>1, CapacityIs
<1>3. t.count \in Nat
  BY <1>1, FS_CardinalityType
<1>4. QED
  BY <1>2, <1>3 DEF Roomy

\* insert_slot: the table doubles before it is too full.
LEMMA InsertSlotKeeps ==
  ASSUME NEW t, NEW E, Keeps(t, E), Roomy(t),
         NEW idx \in Nat \ {kEmptySlot}, NEW h \in Hashes, \A e \in E : e.idx # idx
  PROVE  /\ Keeps(insert_slot(t, idx, h), E \cup {[idx |-> idx, h |-> h]})
         /\ Roomy(insert_slot(t, idx, h))
<1> DEFINE c == Capacity(t)
           u == rehash_if_needed(t)
<1>1. c \in Nat \ {0} /\ t.count \in Nat /\ t.count < c /\ c >= 2 /\ 10 * t.count < 7 * c
  BY TableNumbers DEF Roomy
<1>2. Keeps(u, E) /\ u.count = t.count /\ Capacity(u) \in Nat /\ Capacity(u) >= 2 /\ 10 * (t.count + 1) < 7 * Capacity(u)
  <2>1. CASE (t.count + 1) * 10 >= c * 7
    <3>1. u = rehash_to(t, 2 * c) /\ 2 * c \in Nat /\ t.count < 2 * c /\ ~(2 * c <= c)
      BY <1>1, <2>1 DEF rehash_if_needed
    <3>2. Keeps(u, E) /\ u.count = t.count /\ Capacity(u) = 2 * c
      BY <3>1, RehashKeeps
    <3>3. QED
      BY <1>1, <3>2
  <2>2. CASE ~((t.count + 1) * 10 >= c * 7)
    <3>1. u = t
      BY <2>2 DEF rehash_if_needed
    <3>2. QED
      BY <1>1, <2>2, <3>1
  <2>3. QED
    BY <2>1, <2>2
<1> HIDE DEF u, c
<1>3. u.count < Capacity(u)
  BY <1>1, <1>2
<1>4. /\ Keeps(PutInChain(u, idx, h), E \cup {[idx |-> idx, h |-> h]})
      /\ Capacity(PutInChain(u, idx, h)) = Capacity(u)
      /\ PutInChain(u, idx, h).count = u.count + 1
  BY <1>2, <1>3, PutKeeps
<1>5. Roomy(PutInChain(u, idx, h))
  BY <1>1, <1>2, <1>4 DEF Roomy
<1>6. QED
  BY <1>4, <1>5 DEF insert_slot, u

\* The steps of a sequence of insertions.
InsertedUpTo(f, t, entries, n) ==
  f = [k \in 0..n |->
         IF k = 0 THEN t
         ELSE IF entries[k].idx = kEmptySlot THEN f[k - 1]
         ELSE insert_slot(f[k - 1], entries[k].idx, entries[k].h)]

\* The equation of the recursive function by which entries are inserted one after the other.
LEMMA InsertedAt ==
  ASSUME NEW t, NEW entries, NEW n, NEW f, InsertedUpTo(f, t, entries, n), NEW k \in 0..n
  PROVE  f[k] = IF k = 0 THEN t
                ELSE IF entries[k].idx = kEmptySlot THEN f[k - 1]
                ELSE insert_slot(f[k - 1], entries[k].idx, entries[k].h)
<1> DEFINE e == [s \in 0..n |->
                   IF s = 0 THEN t
                   ELSE IF entries[s].idx = kEmptySlot THEN f[s - 1]
                   ELSE insert_slot(f[s - 1], entries[s].idx, entries[s].h)]
<1>1. f[k] = e[k]
  BY Zenon DEF InsertedUpTo
<1>2. QED
  BY <1>1

\* There is such a function.
LEMMA InsertedExists ==
  ASSUME NEW t, NEW entries
  PROVE  \A n \in Nat : \E f : InsertedUpTo(f, t, entries, n)
<1> DEFINE T == {n \in Nat : \E f : InsertedUpTo(f, t, entries, n)}
           step(f, k) == IF k = 0 THEN t
                         ELSE IF entries[k].idx = kEmptySlot THEN f[k - 1]
                         ELSE insert_slot(f[k - 1], entries[k].idx, entries[k].h)
<1>1. 0 \in T
  <2> DEFINE f == [k \in 0..0 |-> t]
  <2>1. f = [k \in 0..0 |-> step(f, k)]
    OBVIOUS
  <2>2. InsertedUpTo(f, t, entries, 0)
    BY <2>1, Zenon DEF InsertedUpTo
  <2>3. QED
    BY <2>2
<1>2. ASSUME NEW n \in Nat, n \in T PROVE n + 1 \in T
  <2>1. PICK f : InsertedUpTo(f, t, entries, n)
    BY <1>2
  <2> DEFINE h == [k \in 0..(n + 1) |-> step(f, k)]
  <2>2. \A k \in 0..n : h[k] = f[k]
    BY <2>1, InsertedAt
  <2>3. \A k \in 0..(n + 1) : h[k] = step(h, k)
    <3>1. \A k \in 0..(n + 1) : h[k] = step(f, k)
      OBVIOUS
    <3> HIDE DEF h
    <3>2. \A k \in 0..(n + 1) : k # 0 => k - 1 \in 0..n
      OBVIOUS
    <3>3. QED
      BY <2>2, <3>1, <3>2
  <2>4. h = [k \in 0..(n + 1) |-> h[k]]
    OBVIOUS
  <2> HIDE DEF h
  <2>5. [k \in 0..(n + 1) |-> h[k]] = [k \in 0..(n + 1) |-> step(h, k)]
    BY <2>3
  <2>6. InsertedUpTo(h, t, entries, n + 1)
    BY <2>4, <2>5, Zenon DEF InsertedUpTo
  <2>7. QED
    BY <2>6
<1>3. \A n \in Nat : n \in T
  <2> HIDE DEF T
  <2>1. QED
    BY <1>1, <1>2, SetInduction
<1>4. QED
  BY <1>3

\* InsertAll is the last value of that function.
LEMMA InsertAllIsInserted ==
  ASSUME NEW t, NEW entries, Len(entries) \in Nat
  PROVE  \E f : InsertedUpTo(f, t, entries, Len(entries)) /\ InsertAll(t, entries) = f[Len(entries)]
<1> DEFINE c == CHOOSE inserted : inserted = [k \in 0..Len(entries) |->
                   IF k = 0 THEN t
                   ELSE IF entries[k].idx = kEmptySlot THEN inserted[k - 1]
                   ELSE insert_slot(inserted[k - 1], entries[k].idx, entries[k].h)]
<1>1. InsertAll(t, entries) = c[Len(entries)]
  BY DEF InsertAll
<1>2. \E f : InsertedUpTo(f, t, entries, Len(entries))
  BY InsertedExists
<1>3. InsertedUpTo(c, t, entries, Len(entries))
  BY <1>2, Zenon DEF InsertedUpTo
<1> HIDE DEF c
<1>4. QED
  BY <1>1, <1>3

Given(entries, n) == {entries[k] : k \in {j \in 1..n : entries[j].idx # kEmptySlot}}

\* Insertions keep what they are given.
LEMMA InsertAllKeeps ==
  ASSUME NEW t, NEW E, Keeps(t, E), Roomy(t), NEW entries, NEW n \in Nat, Len(entries) = n,
         Given(entries, n) \in SUBSET Entries,
         \A j, k \in 1..n : entries[j].idx # kEmptySlot /\ entries[j].idx = entries[k].idx => j = k,
         \A e \in E, k \in 1..n : e.idx # entries[k].idx
  PROVE  Keeps(InsertAll(t, entries), E \cup Given(entries, n)) /\ Roomy(InsertAll(t, entries))
<1>1. PICK f : InsertedUpTo(f, t, entries, n) /\ InsertAll(t, entries) = f[n]
  BY InsertAllIsInserted
<1> DEFINE T == {k \in Nat : k <= n => Keeps(f[k], E \cup Given(entries, k)) /\ Roomy(f[k])}
<1>2. 0 \in T
  <2>1. f[0] = t
    BY <1>1, InsertedAt
  <2>2. Given(entries, 0) = {}
    BY DEF Given
  <2>3. QED
    BY <2>1, <2>2, ZenonT(30)
<1>3. ASSUME NEW m \in Nat, m \in T PROVE m + 1 \in T
  <2> SUFFICES ASSUME m + 1 <= n PROVE Keeps(f[m + 1], E \cup Given(entries, m + 1)) /\ Roomy(f[m + 1])
    OBVIOUS
  <2>1. Keeps(f[m], E \cup Given(entries, m)) /\ Roomy(f[m])
    BY <1>3
  <2>2. m + 1 \in 0..n /\ m + 1 # 0 /\ (m + 1) - 1 = m /\ m + 1 \in 1..n
    OBVIOUS
  <2>3. f[m + 1] = IF entries[m + 1].idx = kEmptySlot THEN f[m]
                   ELSE insert_slot(f[m], entries[m + 1].idx, entries[m + 1].h)
    BY <1>1, <2>2, InsertedAt
  <2>4. CASE entries[m + 1].idx = kEmptySlot
    <3>1. {j \in 1..(m + 1) : entries[j].idx # kEmptySlot} = {j \in 1..m : entries[j].idx # kEmptySlot}
      BY <2>4
    <3>2. QED
      BY <2>1, <2>3, <2>4, <3>1 DEF Given
  <2>5. CASE entries[m + 1].idx # kEmptySlot
    <3>1. {j \in 1..(m + 1) : entries[j].idx # kEmptySlot}
            = {j \in 1..m : entries[j].idx # kEmptySlot} \cup {m + 1}
      BY <2>5
    <3>2. Given(entries, m + 1) = Given(entries, m) \cup {entries[m + 1]}
      BY <3>1 DEF Given
    <3>3. entries[m + 1] \in Entries
      BY <2>2, <2>5 DEF Given
    <3> DEFINE idx == entries[m + 1].idx
               h == entries[m + 1].h
    <3>4. entries[m + 1] = [idx |-> idx, h |-> h] /\ idx \in Nat \ {kEmptySlot} /\ h \in Hashes
      BY <3>3 DEF Entries
    <3>5. \A e \in E \cup Given(entries, m) : e.idx # idx
      <4>1. \A e \in E : e.idx # idx
        BY <2>2
      <4>2. \A k \in 1..m : entries[k].idx # idx
        <5>1. SUFFICES ASSUME NEW k \in 1..m, entries[k].idx = entries[m + 1].idx PROVE FALSE
          OBVIOUS
        <5>2. k \in 1..n /\ k # m + 1
          BY <2>2
        <5>3. QED
          BY <2>2, <2>5, <5>1, <5>2
      <4>3. QED
        BY <4>1, <4>2 DEF Given
    <3>6. f[m + 1] = insert_slot(f[m], idx, h)
      BY <2>3, <2>5
    <3>7. E \cup Given(entries, m + 1) = (E \cup Given(entries, m)) \cup {[idx |-> idx, h |-> h]}
      BY <3>2, <3>4
    <3> HIDE DEF idx, h
    <3>8. /\ Keeps(insert_slot(f[m], idx, h), (E \cup Given(entries, m)) \cup {[idx |-> idx, h |-> h]})
          /\ Roomy(insert_slot(f[m], idx, h))
      BY <2>1, <3>4, <3>5, InsertSlotKeeps
    <3>9. QED
      BY <3>6, <3>7, <3>8
  <2>6. QED
    BY <2>4, <2>5
<1>4. \A k \in Nat : k \in T
  <2> HIDE DEF T
  <2>1. QED
    BY <1>2, <1>3, SetInduction
<1>5. Keeps(f[n], E \cup Given(entries, n)) /\ Roomy(f[n])
  <2>1. n \in T /\ n <= n
    BY <1>4
  <2>2. QED
    BY <2>1
<1>6. QED
  BY <1>1, <1>5

(***************************************************************************)
(* The searches                                                            *)
(***************************************************************************)

\* What an invariant says of the terms, one by one.
LEMMA RowFacts ==
  ASSUME RowsInv
  PROVE  /\ Terms \in Seq(Monomials) /\ Len(Terms) = Size /\ Size \in Nat /\ DOMAIN Terms = 1..Size
         /\ \A i \in 1..Size : Terms[i] \in Monomials
         /\ \A i, j \in 1..Size : Terms[i] = Terms[j] => i = j
         /\ \A i \in 0..(Size - 1) : /\ row(i) = Terms[i + 1]
                                     /\ \A M \in Monomials : row_eq_key(i, M) <=> Terms[i + 1] = M
                                     /\ \A M \in Monomials : row_eq_positions(i, Positions(M)) <=> Terms[i + 1] = M
         /\ Size < kEmptySlot + 1 /\ kEmptySlot \in Nat /\ kNotFound = kEmptySlot + 1
<1>1. Terms \in Seq(Monomials) /\ Packs(Terms, rows, overflow) /\ Size <= IndexCeiling
  BY DEF RowsInv
<1>2. Len(Terms) = Size
  BY <1>1, PacksTerms DEF Size
<1>3. Size \in Nat /\ DOMAIN Terms = 1..Size /\ \A i \in 1..Size : Terms[i] \in Monomials
  BY <1>1, <1>2
<1>4. \A i, j \in 1..Size : Terms[i] = Terms[j] => i = j
  BY <1>3 DEF RowsInv, IsInjective
<1>5. \A i \in 0..(Size - 1) : /\ row(i) = Terms[i + 1]
                               /\ \A M \in Monomials : row_eq_key(i, M) <=> Terms[i + 1] = M
                               /\ \A M \in Monomials : row_eq_positions(i, Positions(M)) <=> Terms[i + 1] = M
  BY <1>1, <1>2, RowsHold
<1>6. Size < kEmptySlot + 1 /\ kEmptySlot \in Nat /\ kNotFound = kEmptySlot + 1
  BY <1>1, <1>3, Widths DEF kEmptySlot, kNotFound
<1>7. QED
  BY <1>1, <1>2, <1>3, <1>4, <1>5, <1>6

\* The hits of a hash: rows whose terms have it, and all of them.
LEMMA HitsAre ==
  ASSUME RowsInv, TableInv, NEW h \in Hashes
  PROVE  /\ Hits(h) \in SUBSET Nat
         /\ \A n \in Hits(h) : EntryAt(table, h, n).idx \in 0..(Size - 1)
         /\ \A i \in 0..(Size - 1) : Hash32[Terms[i + 1]] = h => \E n \in Hits(h) : EntryAt(table, h, n).idx = i
<1> DEFINE E == EntriesOf(Terms)
           len == ChainLength(table, h)
<1>1. Keeps(table, E) /\ table.count < Capacity(table)
  <2>1. Keeps(table, E) /\ Roomy(table)
    BY DEF TableInv
  <2>2. QED
    BY <2>1, TableNumbers
<1>2. /\ \A n \in 0..(len - 1) : EntryAt(table, h, n) \in E
      /\ \A e \in E : e.h = h => \E n \in 0..(len - 1) : EntryAt(table, h, n) = e
  BY <1>1, Lookup
<1>3. len \in Nat
  BY <1>1, RoomInTable
<1>4. \A e \in E : \E i \in 1..Size : e = [idx |-> i - 1, h |-> Hash32[Terms[i]]]
  BY RowFacts DEF EntriesOf
<1>5. \A i \in 1..Size : [idx |-> i - 1, h |-> Hash32[Terms[i]]] \in E
  BY RowFacts DEF EntriesOf
<1> HIDE DEF E, len
<1>6. Hits(h) = {n \in 0..(len - 1) : EntryAt(table, h, n).h = h}
  BY DEF Hits, len
<1>7. ASSUME NEW n \in Hits(h) PROVE EntryAt(table, h, n).idx \in 0..(Size - 1)
  <2>1. PICK i \in 1..Size : EntryAt(table, h, n) = [idx |-> i - 1, h |-> Hash32[Terms[i]]]
    BY <1>2, <1>4, <1>6
  <2>2. i - 1 \in 0..(Size - 1)
    BY RowFacts
  <2>3. QED
    BY <2>1, <2>2
<1>8. ASSUME NEW i \in 0..(Size - 1), Hash32[Terms[i + 1]] = h
      PROVE  \E n \in Hits(h) : EntryAt(table, h, n).idx = i
  <2>1. i + 1 \in 1..Size /\ (i + 1) - 1 = i
    BY RowFacts
  <2>2. [idx |-> i, h |-> h] \in E
    BY <1>5, <1>8, <2>1
  <2>3. PICK n \in 0..(len - 1) : EntryAt(table, h, n) = [idx |-> i, h |-> h]
    BY <1>2, <2>2
  <2>4. QED
    BY <1>6, <2>3
<1>9. QED
  BY <1>3, <1>6, <1>7, <1>8

\* The first of some hits that are all in one row is that row.
LEMMA FirstOfIs ==
  ASSUME NEW h, NEW hits \in SUBSET Nat, NEW i, \A n \in hits : EntryAt(table, h, n).idx = i
  PROVE  FirstOf(h, hits) = IF hits = {} THEN kNotFound ELSE i
<1>1. CASE hits = {}
  BY <1>1 DEF FirstOf
<1>2. CASE hits # {}
  BY <1>2, LeastOf DEF FirstOf
<1>3. QED
  BY <1>1, <1>2

RowsOf(M) == {i \in 0..(Size - 1) : Terms[i + 1] = M}

\* Each search finds the row, or that there is none.
LEMMA Finds ==
  ASSUME RowsInv, TableInv, NEW M \in Monomials
  PROVE  /\ \A i \in RowsOf(M) : /\ RowsOf(M) = {i}
                                 /\ find(M) = i /\ find_batch(M) = i /\ find_batch_positions(Positions(M)) = i
         /\ RowsOf(M) = {} => /\ find(M) = kNotFound /\ find_batch(M) = kNotFound
                              /\ find_batch_positions(Positions(M)) = kNotFound
<1> DEFINE h == Hash32[M]
           keys == {n \in Hits(h) : row_eq_key(EntryAt(table, h, n).idx, M)}
           rowsp == {n \in Hits(h) : row_eq_positions(EntryAt(table, h, n).idx, Positions(M))}
           cand == Candidate(h)
<1>1. h \in Hashes
  BY DEF Hashes
<1>2. /\ Hits(h) \in SUBSET Nat
      /\ \A n \in Hits(h) : EntryAt(table, h, n).idx \in 0..(Size - 1)
      /\ \A i \in 0..(Size - 1) : Hash32[Terms[i + 1]] = h => \E n \in Hits(h) : EntryAt(table, h, n).idx = i
  BY <1>1, HitsAre
<1>3. \A i \in 0..(Size - 1) : /\ row_eq_key(i, M) <=> i \in RowsOf(M)
                               /\ row_eq_positions(i, Positions(M)) <=> i \in RowsOf(M)
  BY RowFacts DEF RowsOf
<1>4. ToSet(Positions(M)) = M
  BY PositionsAre
<1>5. \A i, j \in RowsOf(M) : i = j
  <2>1. \A i, j \in 0..(Size - 1) : Terms[i + 1] = Terms[j + 1] => i = j
    <3>1. SUFFICES ASSUME NEW i \in 0..(Size - 1), NEW j \in 0..(Size - 1), Terms[i + 1] = Terms[j + 1] PROVE i = j
      OBVIOUS
    <3>2. i + 1 \in 1..Size /\ j + 1 \in 1..Size
      BY RowFacts
    <3>3. i + 1 = j + 1
      BY <3>1, <3>2, RowFacts
    <3>4. QED
      BY <3>3
  <2>2. QED
    BY <2>1 DEF RowsOf
<1>6. keys \in SUBSET Nat /\ rowsp \in SUBSET Nat /\ find(M) = FirstOf(h, keys) /\ find_positions(h, Positions(M)) = FirstOf(h, rowsp)
  BY <1>2 DEF find, find_positions
<1>7. /\ \A n \in keys : EntryAt(table, h, n).idx \in RowsOf(M)
      /\ \A n \in rowsp : EntryAt(table, h, n).idx \in RowsOf(M)
  BY <1>2, <1>3
<1>8. /\ find_batch(M) = IF cand = kNotFound THEN kNotFound ELSE IF row_eq_key(cand, M) THEN cand ELSE find(M)
      /\ find_batch_positions(Positions(M)) =
           IF cand = kNotFound THEN kNotFound
           ELSE IF row_eq_positions(cand, Positions(M)) THEN cand ELSE find_positions(h, Positions(M))
  BY <1>4 DEF find_batch, find_batch_positions
<1>9. IF Hits(h) = {} THEN cand = kNotFound ELSE cand \in 0..(Size - 1)
  <2>1. cand = IF Hits(h) = {} THEN kNotFound ELSE EntryAt(table, h, Min(Hits(h))).idx
    BY DEF Candidate, FirstOf
  <2>2. Hits(h) # {} => Min(Hits(h)) \in Hits(h)
    BY <1>2, LeastOf
  <2>3. QED
    BY <1>2, <2>1, <2>2
<1>10. \A i \in 0..(Size - 1) : i # kNotFound
  BY RowFacts
<1>11. \A i \in RowsOf(M) : i \in 0..(Size - 1) /\ Terms[i + 1] = M
  BY DEF RowsOf
<1> HIDE DEF h, keys, rowsp, cand
<1>12. ASSUME NEW i \in RowsOf(M)
       PROVE  /\ RowsOf(M) = {i}
              /\ find(M) = i /\ find_batch(M) = i /\ find_batch_positions(Positions(M)) = i
  <2>1. PICK n \in Hits(h) : EntryAt(table, h, n).idx = i
    BY <1>2, <1>11 DEF h
  <2>2. n \in keys /\ n \in rowsp
    BY <1>2, <1>3, <2>1 DEF keys, rowsp
  <2>3. /\ \A m \in keys : EntryAt(table, h, m).idx = i
        /\ \A m \in rowsp : EntryAt(table, h, m).idx = i
    BY <1>5, <1>7
  <2>4. find(M) = i /\ find_positions(h, Positions(M)) = i
    BY <1>6, <2>2, <2>3, FirstOfIs
  <2>5. cand \in 0..(Size - 1) /\ cand # kNotFound
    BY <1>9, <1>10, <2>1
  <2>6. find_batch(M) = i /\ find_batch_positions(Positions(M)) = i
    BY <1>3, <1>5, <1>8, <2>4, <2>5
  <2>7. QED
    BY <1>5, <2>4, <2>6
<1>13. ASSUME RowsOf(M) = {}
       PROVE  find(M) = kNotFound /\ find_batch(M) = kNotFound /\ find_batch_positions(Positions(M)) = kNotFound
  <2>1. keys = {} /\ rowsp = {}
    BY <1>7, <1>13
  <2>2. find(M) = kNotFound /\ find_positions(h, Positions(M)) = kNotFound
    BY <1>6, <2>1 DEF FirstOf
  <2>3. QED
    BY <1>3, <1>8, <1>9, <1>13, <2>2
<1>14. QED
  BY <1>12, <1>13

\* Rows and table that are well-formed make the three look-ups exact.
LEMMA RowsAndTableFind ==
  ASSUME RowsInv, TableInv
  PROVE  FindsEveryRow
<1> SUFFICES ASSUME NEW M \in Monomials
             PROVE  LET at == {i \in 0 .. Size - 1 : row(i) = M}
                    IN  /\ Cardinality(at) <= 1
                        /\ {find(M), find_batch(M), find_batch_positions(Positions(M))}
                             = IF at = {} THEN {kNotFound} ELSE at
  BY DEF FindsEveryRow
<1>1. {i \in 0 .. Size - 1 : row(i) = M} = RowsOf(M)
  BY RowFacts DEF RowsOf
<1>2. CASE RowsOf(M) = {}
  <2>1. Cardinality({}) = 0
    BY FS_EmptySet
  <2>2. find(M) = kNotFound /\ find_batch(M) = kNotFound /\ find_batch_positions(Positions(M)) = kNotFound
    BY <1>2, Finds
  <2>3. QED
    BY <1>1, <1>2, <2>1, <2>2
<1>3. CASE RowsOf(M) # {}
  <2>1. PICK i \in RowsOf(M) : TRUE
    BY <1>3
  <2>2. /\ RowsOf(M) = {i}
        /\ find(M) = i /\ find_batch(M) = i /\ find_batch_positions(Positions(M)) = i
    BY <2>1, Finds
  <2>3. Cardinality({i}) = 1
    BY FS_Singleton
  <2>4. QED
    BY <1>1, <2>2, <2>3
<1>4. QED
  BY <1>2, <1>3

(***************************************************************************)
(* Tables that are built                                                   *)
(***************************************************************************)

\* A power of two is a number, and as large as its exponent: there are as many subsets.
LEMMA PowersOfTwo ==
  ASSUME NEW e \in Nat
  PROVE  2 ^ e \in Nat /\ 2 ^ e >= e /\ (e >= 1 => 2 ^ e >= 2)
<1> DEFINE S == 1..e
<1>1. IsFiniteSet(S) /\ Cardinality(S) = e
  BY FS_Interval
<1>2. IsFiniteSet(SUBSET S) /\ Cardinality(SUBSET S) = 2 ^ e
  BY <1>1, FS_SUBSET
<1>3. 2 ^ e \in Nat
  BY <1>2, FS_CardinalityType
<1>4. 2 ^ e >= e
  <2> DEFINE f == [x \in S |-> {x}]
  <2>1. f \in Injection(S, SUBSET S)
    <3>1. f \in [S -> SUBSET S]
      OBVIOUS
    <3>2. \A x, y \in S : f[x] = f[y] => x = y
      OBVIOUS
    <3>3. QED
      BY <3>1, <3>2 DEF Injection, IsInjective
  <2>2. Cardinality(S) <= Cardinality(SUBSET S)
    BY <1>2, <2>1, FS_Injection
  <2>3. QED
    BY <1>1, <1>2, <1>3, <2>2
<1>5. ASSUME e >= 1 PROVE 2 ^ e >= 2
  <2> DEFINE T == {{}, {1}}
  <2>1. T \in SUBSET (SUBSET S)
    BY <1>5
  <2>2. Cardinality(T) <= Cardinality(SUBSET S)
    BY <1>2, <2>1, FS_Subset
  <2>3. Cardinality(T) = 2
    <3>1. Cardinality({{}}) = 1 /\ IsFiniteSet({{}})
      BY FS_Singleton
    <3>2. {1} \notin {{}} /\ T = {{}} \cup {{1}}
      OBVIOUS
    <3>3. ASSUME NEW A, IsFiniteSet(A), Cardinality(A) = 1, NEW x, x \notin A
          PROVE  Cardinality(A \cup {x}) = 2
      BY <3>3, FS_AddElement
    <3> HIDE DEF T
    <3>4. QED
      BY <3>1, <3>2, <3>3, Zenon
  <2>4. QED
    BY <1>2, <1>3, <2>2, <2>3
<1>6. QED
  BY <1>3, <1>4, <1>5

\* The smallest table has two slots or more.
LEMMA SmallestTable == MinSlots \in Nat /\ MinSlots >= 2
<1>1. MinSlots \in Nat
  BY StoreAssumption
<1>2. PICK e \in 1..MinSlots : MinSlots = 2 ^ e
  BY StoreAssumption
<1>3. e \in Nat /\ e >= 1
  BY <1>1
<1>4. QED
  BY <1>1, <1>2, <1>3, PowersOfTwo

\* A reserved size is a number of slots.
LEMMA SlotsAreNumbers == ASSUME NEW n \in Nat PROVE slots_for(n) \in Nat
<1> DEFINE m == IF MinSlots > (n * 10) \div 7 + 1 THEN MinSlots ELSE (n * 10) \div 7 + 1
           T == {2 ^ e : e \in {x \in 0..m : 2 ^ x >= m}}
<1>1. m \in Nat
  <2>1. n * 10 \in Nat
    OBVIOUS
  <2>2. (n * 10) \div 7 \in Nat
    BY <2>1, Remainder
  <2>3. QED
    BY <2>2, SmallestTable
<1>2. slots_for(n) = Min(T)
  BY DEF slots_for, bit_ceil
<1> HIDE DEF m
<1>3. T \in SUBSET Nat
  <2>1. \A e \in 0..m : e \in Nat
    BY <1>1
  <2>2. QED
    BY <2>1, PowersOfTwo
<1>4. T # {}
  <2>1. m \in 0..m /\ 2 ^ m >= m
    BY <1>1, PowersOfTwo
  <2>2. QED
    BY <2>1
<1> HIDE DEF T
<1>5. QED
  BY <1>2, <1>3, <1>4, LeastOf

\* A table reserved for any number of rows is empty.
LEMMA ReservedKeeps ==
  ASSUME NEW n \in Nat
  PROVE  /\ Keeps(reserve_index(EmptyTable(MinSlots), n), {})
         /\ Roomy(reserve_index(EmptyTable(MinSlots), n))
<1> DEFINE t == EmptyTable(MinSlots)
           cap == slots_for(n + 1)
           u == rehash_to(t, cap)
<1>1. cap \in Nat
  BY SlotsAreNumbers
<1>2. Keeps(t, {}) /\ Capacity(t) = MinSlots /\ t.count = 0 /\ MinSlots \in Nat /\ MinSlots >= 2
  BY SmallestTable, EmptyKeeps
<1>3. reserve_index(t, n) = u
  BY DEF reserve_index
<1> HIDE DEF t, cap
<1>4. CASE cap <= MinSlots
  <2>1. u = t
    BY <1>2, <1>4 DEF rehash_to
  <2>2. QED
    BY <1>2, <1>3, <2>1 DEF Roomy, t
<1>5. CASE ~(cap <= MinSlots)
  <2>1. t.count < cap
    BY <1>1, <1>2, <1>5
  <2>2. Keeps(u, {}) /\ u.count = t.count /\ Capacity(u) = cap
    BY <1>1, <1>2, <1>5, <2>1, RehashKeeps
  <2>3. Roomy(u)
    BY <1>1, <1>2, <1>5, <2>2 DEF Roomy
  <2>4. QED
    BY <1>3, <2>2, <2>3 DEF t
<1>6. QED
  BY <1>4, <1>5

\* bulk_insert_hashed: the entries of the rows after the last one.
LEMMA BulkKeeps ==
  ASSUME NEW list \in Seq(Monomials), NEW new \in Seq(Monomials), Len(list) + Len(new) <= IndexCeiling,
         NEW t, Keeps(t, EntriesOf(list)), Roomy(t)
  PROVE  /\ Keeps(bulk_insert_hashed(t, Len(list), [k \in DOMAIN new |-> Hash32[new[k]]]), EntriesOf(list \o new))
         /\ Roomy(bulk_insert_hashed(t, Len(list), [k \in DOMAIN new |-> Hash32[new[k]]]))
<1> DEFINE m == Len(list)
           n == Len(new)
           hashes == [k \in DOMAIN new |-> Hash32[new[k]]]
           entries == [k \in DOMAIN hashes |-> [idx |-> (m + k) - 1, h |-> hashes[k]]]
           all == list \o new
           E == EntriesOf(list)
<1>1. /\ m \in Nat /\ n \in Nat /\ DOMAIN new = 1..n /\ DOMAIN list = 1..m /\ DOMAIN all = 1..(m + n)
      /\ \A i \in 1..m : list[i] \in Monomials
      /\ \A i \in 1..n : new[i] \in Monomials
      /\ \A i \in 1..(m + n) : all[i] = IF i <= m THEN list[i] ELSE new[i - m]
  OBVIOUS
<1>2. entries = [k \in 1..n |-> [idx |-> (m + k) - 1, h |-> Hash32[new[k]]]]
  BY <1>1
<1>3. bulk_insert_hashed(t, m, hashes) = InsertAll(t, entries)
  <2>1. \A k \in DOMAIN hashes : m + k - 1 = (m + k) - 1
    BY <1>1
  <2>2. [k \in DOMAIN hashes |-> [idx |-> m + k - 1, h |-> hashes[k]]] = entries
    BY <2>1
  <2>3. QED
    BY <2>2 DEF bulk_insert_hashed
<1>4. EntriesOf(all) = EntriesOf(list) \cup {[idx |-> (m + k) - 1, h |-> Hash32[new[k]]] : k \in 1..n}
  <2>1. EntriesOf(all) = {[idx |-> i - 1, h |-> Hash32[all[i]]] : i \in 1..(m + n)}
    BY <1>1 DEF EntriesOf
  <2>2. EntriesOf(list) = {[idx |-> i - 1, h |-> Hash32[list[i]]] : i \in 1..m}
    BY <1>1 DEF EntriesOf
  <2>3. ASSUME NEW i \in 1..m PROVE i \in 1..(m + n) /\ all[i] = list[i]
    BY <1>1
  <2>4. ASSUME NEW k \in 1..n PROVE m + k \in 1..(m + n) /\ all[m + k] = new[k]
    BY <1>1
  <2>5. ASSUME NEW i \in 1..(m + n)
        PROVE  i \in 1..m \/ (i - m \in 1..n /\ i = m + (i - m) /\ all[i] = new[i - m])
    BY <1>1
  <2> HIDE DEF all, m, n, E
  <2>6. QED
    BY <2>1, <2>2, <2>3, <2>4, <2>5, SMTT(30)
<1> HIDE DEF m, n, hashes, entries, all, E
<1>5. Len(entries) = n /\ \A k \in 1..n : entries[k] = [idx |-> (m + k) - 1, h |-> Hash32[new[k]]]
  BY <1>1, <1>2
<1>6. \A k \in 1..n : (m + k) - 1 \in Nat /\ (m + k) - 1 # kEmptySlot /\ Hash32[new[k]] \in Hashes
  <2>1. m + n <= IndexCeiling /\ IndexCeiling \in Nat
    BY Widths DEF m, n
  <2>2. QED
    BY <1>1, <2>1 DEF kEmptySlot, Hashes
<1>7. Given(entries, n) = {[idx |-> (m + k) - 1, h |-> Hash32[new[k]]] : k \in 1..n}
  <2>1. \A k \in 1..n : entries[k].idx # kEmptySlot
    BY <1>5, <1>6
  <2>2. {j \in 1..n : entries[j].idx # kEmptySlot} = 1..n
    BY <2>1
  <2>3. QED
    BY <1>5, <2>2 DEF Given
<1>8. Given(entries, n) \in SUBSET Entries
  BY <1>6, <1>7 DEF Entries
<1>9. \A j, k \in 1..n : entries[j].idx # kEmptySlot /\ entries[j].idx = entries[k].idx => j = k
  <2>1. \A j, k \in 1..n : (m + j) - 1 = (m + k) - 1 => j = k
    BY <1>1
  <2>2. QED
    BY <1>5, <2>1
<1>10. \A e \in E, k \in 1..n : e.idx # entries[k].idx
  <2>1. \A e \in E : \E i \in 1..m : e.idx = i - 1
    BY <1>1 DEF E, EntriesOf
  <2>2. \A i \in 1..m, k \in 1..n : i - 1 # (m + k) - 1
    BY <1>1
  <2>3. QED
    BY <1>5, <2>1, <2>2
<1>11. Keeps(InsertAll(t, entries), E \cup Given(entries, n)) /\ Roomy(InsertAll(t, entries))
  <2>1. Keeps(t, E) /\ Roomy(t)
    BY DEF E
  <2>2. n \in Nat /\ Len(entries) = n
    BY <1>1, <1>5
  <2>3. QED
    BY ONLY <1>8, <1>9, <1>10, <2>1, <2>2, InsertAllKeeps, ZenonT(30)
<1>12. E \cup Given(entries, n) = EntriesOf(all)
  BY <1>4, <1>7 DEF E
<1>13. QED
  BY <1>3, <1>11, <1>12 DEF m, hashes, all

\* A clone keeps what the original keeps.
LEMMA CloneKeeps ==
  ASSUME NEW t, NEW E, Keeps(t, E), NEW u, Keeps(u, {}), Roomy(u)
  PROVE  Keeps(InsertAll(u, t.slots), E) /\ Roomy(InsertAll(u, t.slots))
<1> DEFINE n == Capacity(t)
           entries == t.slots
<1>1. n \in Nat /\ Len(entries) = n
  BY TableNumbers DEF Capacity
<1>2. {k \in 1..n : entries[k].idx # kEmptySlot} = FilledSlots(t)
  BY DEF FilledSlots
<1>3. Given(entries, n) = E
  BY <1>2 DEF Given, Keeps
<1>4. E \in SUBSET Entries
  BY DEF Keeps
<1>5. \A j, k \in 1..n : entries[j].idx # kEmptySlot /\ entries[j].idx = entries[k].idx => j = k
  BY <1>2 DEF Keeps
<1> HIDE DEF n, entries
<1>6. Keeps(InsertAll(u, entries), {} \cup Given(entries, n)) /\ Roomy(InsertAll(u, entries))
  BY <1>1, <1>3, <1>4, <1>5, InsertAllKeeps
<1>7. QED
  BY <1>3, <1>6 DEF entries

(***************************************************************************)
(* The seeds                                                               *)
(***************************************************************************)

\* Paired monomials with the same modes are the same.
LEMMA SameMonomial ==
  ASSUME NEW A \in Monomials, NEW B \in Monomials, is_paired(A), is_paired(B),
         \A q \in ModeIds : has_even(A, q) = has_even(B, q)
  PROVE  A = B
<1>1. Modes \in Nat \ {0}
  BY ModesAssumption
<1>2. ASSUME NEW b \in Bits PROVE b \in A <=> b \in B
  <2> DEFINE q == b \div 2
             r == b % 2
  <2>1. b \in Nat /\ b \in 0..((2 * Modes) - 1)
    BY <1>1 DEF Bits
  <2>2. r \in 0..1 /\ q \in Nat /\ b = (q * 2) + r
    BY <2>1, Remainder
  <2> HIDE DEF q, r
  <2>3. q \in ModeIds
    BY <1>1, <2>1, <2>2 DEF ModeIds
  <2>4. (r = 0 /\ b = 2 * q) \/ (r = 1 /\ b = 2 * q + 1)
    BY <2>2
  <2>5. /\ 2 * q \in A <=> 2 * q \in B
        /\ 2 * q + 1 \in A <=> 2 * q \in A
        /\ 2 * q + 1 \in B <=> 2 * q \in B
    BY <2>3 DEF is_paired, has_even, has_odd
  <2>6. QED
    BY <2>4, <2>5
<1>3. QED
  BY <1>2 DEF Monomials

\* for_each_paired_monomial visits the paired monomials in one order.
LEMMA PairedOrders ==
  ASSUME NEW S \in SUBSET Monomials, \A M \in S : is_paired(M)
  PROVE  Orders(PairedOrder(S), S)
<1>1. \A A, B \in S : <<A, B>> \in PairedOrder(S) <=> PairedBefore(A, B)
  BY DEF PairedOrder
<1>2. \A M \in S : Cardinality(M) \in Nat
  BY MonomialsAreFinite
<1>3. ModeIds \in SUBSET Nat /\ \A q \in ModeIds : \A r \in 0..(q - 1) : r \in ModeIds /\ r < q
  BY ModesAssumption DEF ModeIds
<1>4. ASSUME NEW A \in S PROVE ~PairedBefore(A, A)
  BY <1>2 DEF PairedBefore
<1>5. ASSUME NEW A \in S, NEW B \in S, NEW C \in S, PairedBefore(A, B), PairedBefore(B, C)
      PROVE  PairedBefore(A, C)
  <2>1. CASE Cardinality(A) < Cardinality(B) \/ Cardinality(B) < Cardinality(C)
    <3>1. Cardinality(A) <= Cardinality(B) /\ Cardinality(B) <= Cardinality(C)
      BY <1>2, <1>5 DEF PairedBefore
    <3>2. Cardinality(A) < Cardinality(C)
      BY <1>2, <2>1, <3>1
    <3>3. QED
      BY <3>2 DEF PairedBefore
  <2>2. CASE ~(Cardinality(A) < Cardinality(B)) /\ ~(Cardinality(B) < Cardinality(C))
    <3>1. Cardinality(A) = Cardinality(C)
      BY <1>5, <2>2 DEF PairedBefore
    <3>2. PICK q \in ModeIds : /\ has_even(A, q) /\ ~has_even(B, q)
                               /\ \A r \in 0 .. q - 1 : has_even(A, r) = has_even(B, r)
      BY <1>5, <2>2 DEF PairedBefore
    <3>3. PICK p \in ModeIds : /\ has_even(B, p) /\ ~has_even(C, p)
                               /\ \A r \in 0 .. p - 1 : has_even(B, r) = has_even(C, r)
      BY <1>5, <2>2 DEF PairedBefore
    <3>4. q \in Nat /\ p \in Nat /\ q # p
      BY <1>3, <3>2, <3>3
    <3>5. CASE q < p
      <4>1. q \in 0..(p - 1) /\ \A r \in 0..(q - 1) : r \in 0..(p - 1)
        BY <3>4, <3>5
      <4>2. /\ has_even(A, q) /\ ~has_even(C, q)
            /\ \A r \in 0 .. q - 1 : has_even(A, r) = has_even(C, r)
        BY <3>2, <3>3, <4>1
      <4>3. QED
        BY <3>1, <4>2 DEF PairedBefore
    <3>6. CASE p < q
      <4>1. p \in 0..(q - 1) /\ \A r \in 0..(p - 1) : r \in 0..(q - 1)
        BY <3>4, <3>6
      <4>2. /\ has_even(A, p) /\ ~has_even(C, p)
            /\ \A r \in 0 .. p - 1 : has_even(A, r) = has_even(C, r)
        BY <3>2, <3>3, <4>1
      <4>3. QED
        BY <3>1, <4>2 DEF PairedBefore
    <3>7. QED
      BY <3>4, <3>5, <3>6
  <2>3. QED
    BY <2>1, <2>2
<1>6. ASSUME NEW A \in S, NEW B \in S, A # B PROVE PairedBefore(A, B) \/ PairedBefore(B, A)
  <2>1. CASE Cardinality(A) # Cardinality(B)
    BY <1>2, <2>1 DEF PairedBefore
  <2>2. CASE Cardinality(A) = Cardinality(B)
    <3> DEFINE D == {q \in ModeIds : has_even(A, q) # has_even(B, q)}
    <3>1. D \in SUBSET Nat
      BY <1>3
    <3>2. D # {}
      <4>1. A \in Monomials /\ B \in Monomials /\ is_paired(A) /\ is_paired(B)
        OBVIOUS
      <4>2. QED
        BY <1>6, <4>1, SameMonomial
    <3>3. PICK q \in D : \A p \in D : q <= p
      BY <3>1, <3>2, LeastNatural
    <3>4. \A r \in 0..(q - 1) : r \in ModeIds /\ ~(q <= r)
      BY <1>3
    <3>5. \A r \in 0..(q - 1) : has_even(A, r) = has_even(B, r)
      BY <3>3, <3>4
    <3>6. CASE has_even(A, q)
      BY <2>2, <3>5, <3>6 DEF PairedBefore
    <3>7. CASE ~has_even(A, q)
      <4>1. has_even(B, q)
        BY <3>3, <3>7 DEF has_even
      <4>2. \A r \in 0 .. q - 1 : has_even(B, r) = has_even(A, r)
        BY <3>5
      <4>3. QED
        BY <2>2, <3>7, <4>1, <4>2 DEF PairedBefore
    <3>8. QED
      BY <3>6, <3>7
  <2>3. QED
    BY <2>1, <2>2
<1>7. QED
  BY <1>1, <1>4, <1>5, <1>6 DEF Orders

\* The seeds are distinct terms.
LEMMA SeedsAre ==
  ASSUME NEW s \in Setups
  PROVE  SeedOrder(s) \in Seq(Monomials) /\ IsInjective(SeedOrder(s)) /\ ToSet(SeedOrder(s)) = SeedTerms(s)
<1>1. CASE s.schrodinger
  <2> DEFINE S == SeedTerms(s)
             R == PairedOrder(S)
  <2>1. S \in SUBSET Monomials /\ \A M \in S : is_paired(M)
    BY <1>1 DEF SeedTerms
  <2>2. IsFiniteSet(S)
    <3>1. IsFiniteSet(Bits)
      BY ModesAssumption, FS_Interval DEF Bits
    <3>2. IsFiniteSet(Monomials)
      BY <3>1, FS_SUBSET DEF Monomials
    <3>3. QED
      BY <2>1, <3>2, FS_Subset
  <2>3. SeedOrder(s) = InOrder(S, R)
    BY <1>1 DEF SeedOrder
  <2> HIDE DEF S, R
  <2>4. Orders(R, S)
    BY <2>1, PairedOrders DEF R
  <2>5. /\ InOrder(S, R) \in [1..Cardinality(S) -> S]
        /\ \A x \in S : \E k \in 1..Cardinality(S) : InOrder(S, R)[k] = x
        /\ \A j, k \in 1..Cardinality(S) : InOrder(S, R)[j] = InOrder(S, R)[k] => j = k
    BY <2>2, <2>4, InOrderLists
  <2>6. Cardinality(S) \in Nat
    BY <2>2, FS_CardinalityType
  <2>7. InOrder(S, R) \in Seq(Monomials)
    <3>1. InOrder(S, R) \in [1..Cardinality(S) -> Monomials]
      BY <2>1, <2>5
    <3>2. QED
      BY <2>6, <3>1
  <2>8. IsInjective(InOrder(S, R))
    BY <2>5 DEF IsInjective
  <2>9. ToSet(InOrder(S, R)) = S
    <3> DEFINE list == InOrder(S, R)
               n == Cardinality(S)
    <3>1. n \in Nat /\ list \in [1..n -> S] /\ \A x \in S : \E k \in 1..n : list[k] = x
      BY <2>5, <2>6
    <3> HIDE DEF list, n
    <3>2. ToSet(list) = S
      BY <3>1, ToSetOf
    <3>3. QED
      BY <3>2 DEF list
  <2>10. QED
    BY <2>3, <2>7, <2>8, <2>9 DEF S
<1>2. CASE ~s.schrodinger
  <2> DEFINE term == [i \in DOMAIN s.initial_operator |-> s.initial_operator[i].term]
  <2>1. term \in Seq(Monomials) /\ IsInjective(term)
    BY StoreAssumption
  <2>2. SeedOrder(s) = term
    BY <1>2 DEF SeedOrder
  <2>3. ToSet(term) = SeedTerms(s)
    BY <1>2 DEF SeedTerms, ToSet
  <2>4. QED
    BY <2>1, <2>2, <2>3
<1>3. QED
  BY <1>1, <1>2

(***************************************************************************)
(* Rows and table through the operations                                   *)
(***************************************************************************)

\* The seeds make well-formed rows and a well-formed table.
LEMMA InitRows ==
  ASSUME Init
  PROVE  RowsInv /\ TableInv /\ Terms = SeedOrder(setup) /\ setup \in Setups
<1> DEFINE seeds == SeedOrder(setup)
           n == Len(seeds)
<1>1. setup \in Setups
  BY DEF Init
<1>2. seeds \in Seq(Monomials) /\ IsInjective(seeds)
  BY <1>1, SeedsAre
<1>3. n \in Nat /\ DOMAIN seeds = 1..n
  BY <1>2
<1>4. /\ check_append_fits(0, n)
      /\ rows = [i \in DOMAIN seeds |-> PackedRow(Positions(seeds[i]))]
      /\ overflow = SpillMap(<<>>, 0, seeds)
      /\ table = bulk_insert_hashed(reserve_index(EmptyTable(MinSlots), n), 0,
                                    [i \in DOMAIN seeds |-> Hash32[seeds[i]]])
  BY DEF Init
<1> HIDE DEF seeds
<1>5. n <= IndexCeiling
  BY <1>3, <1>4, Widths DEF check_append_fits
<1>6. <<>> \in Seq(Monomials) /\ Len(<<>>) = 0 /\ <<>> \o seeds = seeds
  BY <1>2
<1>7. Packs(<<>>, <<>>, <<>>)
  <2>1. {j \in 0..(0 - 1) : Cardinality(<<>>[j + 1]) > InlineWidth} = {}
    OBVIOUS
  <2>2. <<>> = [i \in 1..0 |-> PackedRow(Positions(<<>>[i]))]
    OBVIOUS
  <2>3. <<>> = [i \in {} |-> <<>>[i + 1]]
    OBVIOUS
  <2>4. QED
    BY <1>6, <2>1, <2>2, <2>3 DEF Packs
<1>8. Packs(seeds, rows, overflow)
  <2> DEFINE packed == [k \in DOMAIN seeds |-> PackedRow(Positions(seeds[k]))]
  <2>1. Packs(<<>> \o seeds, <<>> \o packed, SpillMap(<<>>, Len(<<>>), seeds))
    BY <1>2, <1>6, <1>7, PacksMore
  <2>2. <<>> \o packed = packed
    <3>1. packed \in Seq({packed[k] : k \in DOMAIN seeds})
      BY <1>3
    <3> HIDE DEF packed
    <3>2. QED
      BY <3>1
  <2>3. QED
    BY <1>4, <1>6, <2>1, <2>2
<1>9. Terms = seeds /\ Size = n
  BY <1>2, <1>8, TermsAre, PacksTerms DEF Size
<1>10. RowsInv
  BY <1>2, <1>5, <1>8, <1>9 DEF RowsInv
<1>11. TableInv
  <2> DEFINE t == reserve_index(EmptyTable(MinSlots), n)
  <2>1. EntriesOf(<<>>) = {}
    BY DEF EntriesOf
  <2>2. Keeps(t, EntriesOf(<<>>)) /\ Roomy(t)
    BY <1>3, <2>1, ReservedKeeps
  <2>3. Len(<<>>) + Len(seeds) <= IndexCeiling
    BY <1>3, <1>5, <1>6
  <2>4. table = bulk_insert_hashed(t, Len(<<>>), [k \in DOMAIN seeds |-> Hash32[seeds[k]]])
    BY <1>4, <1>6
  <2> HIDE DEF t
  <2>5. Keeps(table, EntriesOf(<<>> \o seeds)) /\ Roomy(table)
    BY <1>2, <1>6, <2>2, <2>3, <2>4, BulkKeeps
  <2>6. QED
    BY <1>6, <1>9, <2>5 DEF TableInv
<1>12. QED
  BY <1>1, <1>9, <1>10, <1>11 DEF seeds

\* The elements of a concatenation.
LEMMA ConcatFacts ==
  ASSUME NEW S, NEW a \in Seq(S), NEW b \in Seq(S)
  PROVE  /\ a \o b \in Seq(S) /\ Len(a \o b) = Len(a) + Len(b) /\ DOMAIN (a \o b) = 1..(Len(a) + Len(b))
         /\ Len(a) \in Nat /\ Len(b) \in Nat /\ DOMAIN a = 1..Len(a) /\ DOMAIN b = 1..Len(b)
         /\ \A i \in 1..(Len(a) + Len(b)) : (a \o b)[i] = IF i <= Len(a) THEN a[i] ELSE b[i - Len(a)]
         /\ \A i \in 1..Len(a) : i \in 1..(Len(a) + Len(b)) /\ (a \o b)[i] = a[i]
         /\ \A i \in 1..Len(b) : Len(a) + i \in 1..(Len(a) + Len(b)) /\ (a \o b)[Len(a) + i] = b[i]
  OBVIOUS

\* Distinct members after other distinct ones.
LEMMA InjectiveConcat ==
  ASSUME NEW S, NEW a \in Seq(S), NEW b \in Seq(S),
         \A i, j \in 1..Len(a) : a[i] = a[j] => i = j,
         \A i, j \in 1..Len(b) : b[i] = b[j] => i = j,
         \A i \in 1..Len(a), j \in 1..Len(b) : a[i] # b[j]
  PROVE  IsInjective(a \o b)
<1> DEFINE m == Len(a)
           n == Len(b)
           all == a \o b
<1>1. /\ m \in Nat /\ n \in Nat /\ DOMAIN all = 1..(m + n)
      /\ \A i \in 1..(m + n) : all[i] = IF i <= m THEN a[i] ELSE b[i - m]
  BY ConcatFacts
<1>2. /\ \A i, j \in 1..m : a[i] = a[j] => i = j
      /\ \A i, j \in 1..n : b[i] = b[j] => i = j
      /\ \A i \in 1..m, j \in 1..n : a[i] # b[j]
  OBVIOUS
<1> HIDE DEF m, n, all
<1>3. ASSUME NEW i \in 1..(m + n), NEW j \in 1..(m + n), all[i] = all[j] PROVE i = j
  <2>1. CASE i <= m /\ j <= m
    BY <1>1, <1>2, <1>3, <2>1
  <2>2. CASE i <= m /\ ~(j <= m)
    <3>1. i \in 1..m /\ j - m \in 1..n
      BY <1>1, <2>2
    <3>2. QED
      BY <1>1, <1>2, <1>3, <2>2, <3>1
  <2>3. CASE ~(i <= m) /\ j <= m
    <3>1. j \in 1..m /\ i - m \in 1..n
      BY <1>1, <2>3
    <3>2. QED
      BY <1>1, <1>2, <1>3, <2>3, <3>1
  <2>4. CASE ~(i <= m) /\ ~(j <= m)
    <3>1. i - m \in 1..n /\ j - m \in 1..n
      BY <1>1, <2>4
    <3>2. i - m = j - m
      BY <1>1, <1>2, <1>3, <2>4, <3>1
    <3>3. QED
      BY <1>1, <3>2
  <2>5. QED
    BY <2>1, <2>2, <2>3, <2>4
<1>4. QED
  BY <1>1, <1>3 DEF IsInjective, all

\* The queries of a batch that are not found, in batch order: distinct new terms.
LEMMA MissesAre ==
  ASSUME RowsInv, TableInv, NEW batch \in Batches, NEW missed,
         missed = Ascended({k \in DOMAIN batch : find_batch_positions(Positions(batch[k])) = kNotFound}),
         NEW misses, misses = [n \in DOMAIN missed |-> batch[missed[n]]]
  PROVE  /\ misses \in Seq(Monomials) /\ Terms \o misses \in Seq(Monomials)
         /\ IsInjective(Terms \o misses)
<1> DEFINE D == {k \in DOMAIN batch : find_batch_positions(Positions(batch[k])) = kNotFound}
           m == Size
           n == Cardinality(D)
<1>1. batch \in Seq(Monomials) /\ IsInjective(batch)
  BY StoreAssumption
<1>2. Len(batch) \in Nat /\ DOMAIN batch = 1..Len(batch) /\ \A k \in DOMAIN batch : batch[k] \in Monomials
  BY <1>1
<1>3. D \in SUBSET Int /\ IsFiniteSet(D)
  <2>1. D \in SUBSET (1..Len(batch)) /\ IsFiniteSet(1..Len(batch))
    BY <1>2, FS_Interval
  <2>2. QED
    BY <2>1, FS_Subset
<1>4. \A k \in D : batch[k] \in Monomials /\ k \in DOMAIN batch /\ RowsOf(batch[k]) = {}
  <2>1. SUFFICES ASSUME NEW k \in D PROVE batch[k] \in Monomials /\ k \in DOMAIN batch /\ RowsOf(batch[k]) = {}
    OBVIOUS
  <2>2. batch[k] \in Monomials /\ k \in DOMAIN batch /\ find_batch_positions(Positions(batch[k])) = kNotFound
    <3>1. k \in DOMAIN batch /\ find_batch_positions(Positions(batch[k])) = kNotFound
      BY <2>1, Zenon
    <3>2. QED
      BY <1>2, <3>1
  <2>3. SUFFICES ASSUME NEW i \in RowsOf(batch[k]) PROVE FALSE
    BY <2>2
  <2>4. find_batch_positions(Positions(batch[k])) = i
    BY <2>2, <2>3, Finds
  <2>5. i \in 0..(Size - 1) /\ i # kNotFound
    BY RowFacts DEF RowsOf
  <2>6. QED
    BY <2>2, <2>4, <2>5
<1>5. missed = Ascended(D)
  OBVIOUS
<1> HIDE DEF D, n
<1>6. /\ missed \in [1..n -> D] /\ n \in Nat
      /\ \A j, k \in 1..n : missed[j] = missed[k] => j = k
  <2>1. /\ Ascended(D) \in [1..Cardinality(D) -> D] /\ Cardinality(D) \in Nat
        /\ \A j, k \in 1..Cardinality(D) : Ascended(D)[j] = Ascended(D)[k] => j = k
    BY ONLY <1>3, AscendedLists, FS_CardinalityType, ZenonT(30)
  <2>2. n = Cardinality(D) /\ missed = Ascended(D)
    BY <1>5 DEF n
  <2>3. QED
    BY ONLY <2>1, <2>2, ZenonT(30)
<1>7. DOMAIN missed = 1..n /\ misses = [k \in 1..n |-> batch[missed[k]]]
  BY <1>6
<1>8. \A k \in 1..n : missed[k] \in D /\ misses[k] = batch[missed[k]] /\ misses[k] \in Monomials
  BY <1>4, <1>6, <1>7
<1>9. misses \in Seq(Monomials) /\ Len(misses) = n
  <2>1. misses \in [1..n -> Monomials]
    BY <1>7, <1>8
  <2>2. QED
    BY <1>6, <2>1
<1>10. Terms \in Seq(Monomials) /\ Len(Terms) = m /\ m \in Nat
  BY RowFacts
<1>11. \A j, k \in 1..n : misses[j] = misses[k] => j = k
  BY <1>1, <1>4, <1>6, <1>8, SMTT(30) DEF IsInjective
<1>12. \A i \in 1..m, k \in 1..n : Terms[i] # misses[k]
  <2>1. SUFFICES ASSUME NEW i \in 1..m, NEW k \in 1..n, Terms[i] = misses[k] PROVE FALSE
    OBVIOUS
  <2>2. i - 1 \in 0..(Size - 1) /\ (i - 1) + 1 = i
    BY <1>10
  <2>3. i - 1 \in RowsOf(batch[missed[k]])
    BY <1>8, <2>1, <2>2 DEF RowsOf
  <2>4. QED
    BY <1>4, <1>8, <2>3
<1>13. \A i, j \in 1..m : Terms[i] = Terms[j] => i = j
  BY RowFacts
<1> HIDE DEF m
<1>14. IsInjective(Terms \o misses)
  <2>1. /\ \A i, j \in 1..Len(Terms) : Terms[i] = Terms[j] => i = j
        /\ \A i, j \in 1..Len(misses) : misses[i] = misses[j] => i = j
        /\ \A i \in 1..Len(Terms), j \in 1..Len(misses) : Terms[i] # misses[j]
    <3>1. Len(Terms) = m /\ Len(misses) = n
      BY <1>9, <1>10
    <3>2. QED
      BY ONLY <3>1, <1>11, <1>12, <1>13, Zenon
  <2>2. misses \in Seq(Monomials) /\ Terms \in Seq(Monomials)
    BY <1>9, <1>10
  <2>3. QED
    BY ONLY <2>1, <2>2, InjectiveConcat
<1>15. Terms \o misses \in Seq(Monomials)
  BY <1>9, <1>10, ConcatFacts
<1>16. QED
  BY <1>9, <1>14, <1>15

\* What a batch adds.
LEMMA Growth ==
  ASSUME RowsInv, TableInv, NEW batch \in Batches, InsertAbsent(batch)
  PROVE  \E misses \in Seq(Monomials) :
           /\ Terms' = Terms \o misses /\ Size' = Size + Len(misses) /\ Len(misses) > 0
           /\ index' = append_rows(index, misses, Size)
           /\ RowsInv' /\ TableInv'
<1> DEFINE missed == Ascended({k \in DOMAIN batch : find_batch_positions(Positions(batch[k])) = kNotFound})
           misses == [n \in DOMAIN missed |-> batch[missed[n]]]
<1>1. /\ Len(misses) > 0 /\ check_append_fits(Size, Len(misses))
      /\ rows' = rows \o [k \in DOMAIN misses |-> PackedRow(Positions(misses[k]))]
      /\ overflow' = SpillMap(overflow, Size, misses)
      /\ table' = bulk_insert_hashed(table, Size, [k \in DOMAIN misses |-> Hash32[misses[k]]])
      /\ index' = append_rows(index, misses, Size)
  BY DEF InsertAbsent
<1>2. misses \in Seq(Monomials) /\ Terms \o misses \in Seq(Monomials) /\ IsInjective(Terms \o misses)
  BY MissesAre
<1> HIDE DEF missed, misses
<1>3. Terms \in Seq(Monomials) /\ Len(Terms) = Size /\ Size \in Nat /\ Packs(Terms, rows, overflow)
  BY RowFacts DEF RowsInv
<1>4. Len(misses) \in Nat /\ Len(Terms \o misses) = Size + Len(misses)
  BY <1>2, <1>3
<1>5. Packs(Terms \o misses, rows', overflow')
  BY <1>1, <1>2, <1>3, PacksMore
<1>6. Terms' = Terms \o misses /\ Size' = Size + Len(misses)
  <2>1. TermsFrom(rows', overflow') = Terms \o misses /\ Len(rows') = Len(Terms \o misses)
    BY <1>2, <1>5, PacksTerms
  <2>2. QED
    BY <1>4, <2>1, TermsAre DEF Size
<1>7. Size + Len(misses) <= IndexCeiling
  BY <1>1, <1>3, <1>4, Widths DEF check_append_fits
<1>8. RowsInv'
  BY <1>2, <1>5, <1>6, <1>7 DEF RowsInv
<1>9. Keeps(table', EntriesOf(Terms \o misses)) /\ Roomy(table')
  <2>1. Keeps(table, EntriesOf(Terms)) /\ Roomy(table)
    BY DEF TableInv
  <2>2. QED
    BY <1>1, <1>2, <1>3, <1>7, <2>1, BulkKeeps
<1>10. TableInv'
  BY <1>6, <1>9 DEF TableInv
<1>11. QED
  BY <1>1, <1>2, <1>6, <1>8, <1>10

\* While rows and spill map do not change the terms do not either.
LEMMA SameRows ==
  ASSUME RowsInv, UNCHANGED <<rows, overflow>>
  PROVE  RowsInv' /\ Terms' = Terms /\ Size' = Size
<1>1. Terms' = Terms /\ Size' = Size
  BY TermsAre DEF Size
<1>2. QED
  BY <1>1 DEF RowsInv

\* A copy has the same entries.
LEMMA CopyKeeps ==
  ASSUME RowsInv, TableInv, Copy
  PROVE  TableInv'
<1>1. Keeps(table, EntriesOf(Terms)) /\ table.count \in Nat
  BY TableNumbers DEF TableInv
<1>2. table' = InsertAll(reserve_index(EmptyTable(MinSlots), table.count), table.slots)
  BY DEF Copy
<1>3. Keeps(table', EntriesOf(Terms)) /\ Roomy(table')
  BY <1>1, <1>2, ReservedKeeps, CloneKeeps
<1>4. Terms' = Terms
  BY SameRows DEF Copy
<1>5. QED
  BY <1>3, <1>4 DEF TableInv

\* Every operation keeps rows and table well-formed.
LEMMA RowsAndTableStep ==
  ASSUME RowsInv, TableInv, [Next]_vars
  PROVE  RowsInv' /\ TableInv'
<1>1. ASSUME UNCHANGED <<rows, overflow, table>> PROVE RowsInv' /\ TableInv'
  <2>1. RowsInv' /\ Terms' = Terms
    BY <1>1, SameRows
  <2>2. QED
    BY <1>1, <2>1 DEF TableInv
<1>2. ASSUME NEW batch \in Batches, InsertAbsent(batch) PROVE RowsInv' /\ TableInv'
  BY <1>2, Growth
<1>3. CASE current_picture_coeffs_
  BY <1>1, <1>3 DEF current_picture_coeffs_
<1>4. CASE initialize_operator_caches_
  BY <1>1, <1>4 DEF initialize_operator_caches_
<1>5. CASE Contract
  BY <1>1, <1>5 DEF Contract
<1>6. ASSUME NEW dict \in Dicts, update_initial_operator(dict) PROVE RowsInv' /\ TableInv'
  BY <1>1, <1>6 DEF update_initial_operator
<1>7. ASSUME NEW G \in Generators, Scan(G) PROVE RowsInv' /\ TableInv'
  BY <1>1, <1>7 DEF Scan
<1>8. CASE Copy
  <2>1. RowsInv'
    BY <1>8, SameRows DEF Copy
  <2>2. QED
    BY <1>8, <2>1, CopyKeeps
<1>9. CASE UNCHANGED vars
  BY <1>1, <1>9 DEF vars
<1>10. QED
  BY <1>2, <1>3, <1>4, <1>5, <1>6, <1>7, <1>8, <1>9 DEF Next

\* However often hashes collide, probes wrap, and the table was rehashed or copied, the three
\* searches find exactly the row that holds the term.
THEOREM StoreFindsEveryRow == Spec => []FindsEveryRow
<1>1. Init => RowsInv /\ TableInv
  BY InitRows
<1>2. (RowsInv /\ TableInv) /\ [Next]_vars => (RowsInv /\ TableInv)'
  BY RowsAndTableStep
<1>3. RowsInv /\ TableInv => FindsEveryRow
  BY RowsAndTableFind
<1>4. QED
  BY <1>1, <1>2, <1>3, PTL DEF Spec

(***************************************************************************)
(* Words                                                                   *)
(***************************************************************************)

\* Multiplication keeps the order of numbers.
LEMMA ProductGrows ==
  ASSUME NEW d \in Nat, NEW p \in Nat, NEW q \in Nat, p <= q
  PROVE  p * d <= q * d
<1>1. q * d = (p * d) + ((q - p) * d) /\ (q - p) * d \in Nat /\ p * d \in Nat
  OBVIOUS
<1>2. QED
  BY <1>1

\* Division keeps the order of numbers.
LEMMA QuotientGrows ==
  ASSUME NEW d \in Nat \ {0}, NEW a \in Nat, NEW b \in Nat, a <= b
  PROVE  a \div d <= b \div d
<1> DEFINE p == a \div d
           q == b \div d
<1>1. p \in Nat /\ a % d \in 0..(d - 1) /\ a = (p * d) + (a % d)
  BY Remainder
<1>2. q \in Nat /\ b % d \in 0..(d - 1) /\ b = (q * d) + (b % d)
  BY Remainder
<1> HIDE DEF p, q
<1>3. SUFFICES ASSUME q + 1 <= p PROVE FALSE
  BY <1>1, <1>2 DEF p, q
<1>4. (q + 1) * d <= p * d
  BY <1>1, <1>2, <1>3, ProductGrows
<1>5. (q + 1) * d = (q * d) + d /\ q * d \in Nat /\ p * d \in Nat
  BY <1>1, <1>2
<1>6. QED
  BY <1>1, <1>2, <1>4, <1>5

\* How many words n rows take.
LEMMA WordsAre ==
  /\ \A n \in Nat : words(n) \in Nat
  /\ \A m, n \in Nat : m <= n => words(m) <= words(n)
  /\ \A n \in Nat, r \in Nat : r < n => r \div WordBits < words(n)
  /\ words(0) = 0
<1> DEFINE d == WordBits
<1>1. d \in Nat \ {0}
  BY Widths
<1>2. \A n \in Nat : n + (d - 1) \in Nat /\ words(n) = (n + (d - 1)) \div d
  BY <1>1 DEF words, Ceil
<1> HIDE DEF d
<1>3. ASSUME NEW n \in Nat PROVE words(n) \in Nat
  <2>1. n + (d - 1) \in Nat
    BY <1>2
  <2>2. (n + (d - 1)) \div d \in Nat
    BY <1>1, <2>1, Remainder
  <2>3. QED
    BY <1>2, <2>2
<1>4. ASSUME NEW m \in Nat, NEW n \in Nat, m <= n PROVE words(m) <= words(n)
  <2>1. m + (d - 1) \in Nat /\ n + (d - 1) \in Nat /\ m + (d - 1) <= n + (d - 1)
    BY <1>1, <1>4
  <2>2. (m + (d - 1)) \div d <= (n + (d - 1)) \div d
    BY <1>1, <2>1, QuotientGrows
  <2>3. QED
    BY <1>2, <2>2
<1>5. ASSUME NEW n \in Nat, NEW r \in Nat, r < n PROVE r \div d < words(n)
  <2>1. r + d \in Nat /\ r + d <= n + (d - 1) /\ n + (d - 1) \in Nat
    BY <1>1, <1>5
  <2>2. (r + d) \div d <= words(n)
    BY <1>1, <1>2, <2>1, QuotientGrows
  <2>3. r \div d \in Nat /\ r % d \in 0..(d - 1) /\ r = ((r \div d) * d) + (r % d)
    BY <1>1, Remainder
  <2>4. (r + d) \div d = (r \div d) + 1
    <3> DEFINE q == r \div d
               s == r % d
    <3>1. q \in Nat /\ s \in 0..(d - 1) /\ r = (q * d) + s
      BY <2>3
    <3> HIDE DEF q, s
    <3>2. (q + 1) * d = (q * d) + d /\ q * d \in Nat
      BY <1>1, <3>1
    <3>3. r + d = ((q + 1) * d) + s /\ q + 1 \in Nat
      BY <1>1, <3>1, <3>2
    <3>4. (r + d) \div d = q + 1
      BY <1>1, <3>1, <3>3, RemainderOf
    <3>5. QED
      BY <3>4 DEF q
  <2>5. QED
    BY <1>3, <2>2, <2>3, <2>4
<1>6. words(0) = 0
  <2>1. d - 1 \in 0..(d - 1) /\ 0 \in Nat /\ 0 + (d - 1) = (0 * d) + (d - 1)
    BY <1>1
  <2>2. ((0 * d) + (d - 1)) \div d = 0
    BY <1>1, <2>1, RemainderOf
  <2>3. QED
    BY <1>2, <2>1, <2>2
<1>7. QED
  BY <1>3, <1>4, <1>5, <1>6 DEF d

\* Where a row is.
LEMMA PlaceOf ==
  ASSUME NEW r \in Nat
  PROVE  /\ r \div WordBits \in Nat /\ r % WordBits \in 0..(WordBits - 1)
         /\ ((r \div WordBits) * WordBits) + (r % WordBits) = r
  BY Widths, Remainder

\* The word and the bit of a row that is given by them.
LEMMA RowAtPlace ==
  ASSUME NEW w \in Nat, NEW b \in 0..(WordBits - 1)
  PROVE  /\ (w * WordBits) + b \in Nat
         /\ ((w * WordBits) + b) \div WordBits = w /\ ((w * WordBits) + b) % WordBits = b
<1>1. (w * WordBits) + b \in Nat
  BY Widths
<1>2. QED
  BY <1>1, Widths, RemainderOf

\* A word has the bits of the rows.
LEMMA WordHas ==
  ASSUME NEW A \in SUBSET Nat, NEW w \in Nat
  PROVE  /\ Word(A, w) \in SUBSET (0..(WordBits - 1))
         /\ \A b \in 0..(WordBits - 1) : b \in Word(A, w) <=> (w * WordBits) + b \in A
<1>1. Word(A, w) \in SUBSET (0..(WordBits - 1))
  BY PlaceOf DEF Word
<1>2. ASSUME NEW b \in 0..(WordBits - 1), b \in Word(A, w) PROVE (w * WordBits) + b \in A
  <2>1. PICK r \in A : r \div WordBits = w /\ b = r % WordBits
    BY <1>2 DEF Word
  <2>2. QED
    BY <2>1, PlaceOf
<1>3. ASSUME NEW b \in 0..(WordBits - 1), (w * WordBits) + b \in A PROVE b \in Word(A, w)
  BY <1>3, RowAtPlace DEF Word
<1>4. QED
  BY <1>1, <1>2, <1>3

\* The word of a union is the union of the words.
LEMMA WordOfUnion ==
  ASSUME NEW A, NEW B, NEW w
  PROVE  Word(A \cup B, w) = Word(A, w) \cup Word(B, w)
  BY DEF Word

\* A bitmap that is tall enough holds the rows.
LEMMA RowsOfBitmap ==
  ASSUME NEW A \in SUBSET Nat, NEW height \in Nat, \A r \in A : r \div WordBits < height
  PROVE  BitmapRows(Bitmap(A, height)) = A
<1> DEFINE bm == Bitmap(A, height)
<1>1. DOMAIN bm = 1..height /\ \A w \in 1..height : bm[w] = Word(A, w - 1) /\ w - 1 \in Nat
  BY DEF Bitmap
<1> HIDE DEF bm
<1>2. BitmapRows(bm) = UNION {{(w - 1) * WordBits + b : b \in bm[w]} : w \in 1..height}
  BY <1>1 DEF BitmapRows
<1>3. ASSUME NEW r \in A PROVE r \in BitmapRows(bm)
  <2> DEFINE w == (r \div WordBits) + 1
             b == r % WordBits
  <2>1. w \in 1..height /\ w - 1 = r \div WordBits
    BY PlaceOf
  <2>2. b \in Word(A, w - 1)
    BY <2>1 DEF Word
  <2>3. r = (w - 1) * WordBits + b
    BY <2>1, PlaceOf
  <2> HIDE DEF w, b
  <2>4. b \in bm[w]
    BY <1>1, <2>1, <2>2
  <2>5. r \in {(w - 1) * WordBits + a : a \in bm[w]}
    BY <2>3, <2>4
  <2>6. QED
    BY <1>2, <2>1, <2>5
<1>4. ASSUME NEW r \in BitmapRows(bm) PROVE r \in A
  <2>1. PICK w \in 1..height : \E b \in bm[w] : r = (w - 1) * WordBits + b
    BY <1>2
  <2>5. PICK b \in bm[w] : r = (w - 1) * WordBits + b
    BY <2>1
  <2>2. b \in Word(A, w - 1) /\ w - 1 \in Nat
    BY <1>1, <2>5
  <2>3. b \in 0..(WordBits - 1)
    BY <2>2, WordHas
  <2>4. QED
    BY <2>2, <2>3, <2>5, WordHas
<1>5. QED
  BY <1>3, <1>4 DEF bm

\* More rows in a grown bitmap.
LEMMA BitmapGrows ==
  ASSUME NEW A \in SUBSET Nat, NEW B \in SUBSET Nat, NEW low \in Nat, NEW height \in Nat, low <= height,
         \A r \in A : r \div WordBits < low
  PROVE  LET grown == Resized(Bitmap(A, low), height)
         IN  Merged(grown, Bitmap(B, Len(grown))) = Bitmap(A \cup B, height)
<1> DEFINE bm == Bitmap(A, low)
           grown == Resized(bm, height)
<1>1. bm = [w \in 1..low |-> Word(A, w - 1)]
  BY DEF Bitmap
<1>2. Len(bm) = low /\ \A w \in 1..low : bm[w] = Word(A, w - 1)
  BY <1>1
<1> HIDE DEF bm
<1>3. (IF height > Len(bm) THEN height ELSE Len(bm)) = height
  BY <1>2
<1>4. grown = [w \in 1..height |-> IF w <= Len(bm) THEN bm[w] ELSE {}]
  BY <1>3 DEF Resized
<1>5. \A w \in 1..height : grown[w] = Word(A, w - 1)
  <2>1. SUFFICES ASSUME NEW w \in 1..height PROVE grown[w] = Word(A, w - 1)
    OBVIOUS
  <2>2. CASE w <= low
    BY <1>2, <1>4, <2>2
  <2>3. CASE ~(w <= low)
    <3>1. ASSUME NEW r \in A PROVE r \div WordBits # w - 1
      <4>1. r \div WordBits < low /\ r \div WordBits \in Nat
        BY PlaceOf
      <4>2. QED
        BY <2>3, <4>1
    <3>2. Word(A, w - 1) = {}
      BY <3>1 DEF Word
    <3>3. QED
      BY <1>2, <1>4, <2>3, <3>2
  <2>4. QED
    BY <2>2, <2>3
<1>6. Len(grown) = height /\ DOMAIN grown = 1..height
  BY <1>4
<1> HIDE DEF grown
<1>7. Merged(grown, Bitmap(B, height)) = [w \in 1..height |-> grown[w] \cup Bitmap(B, height)[w]]
  BY <1>6 DEF Merged
<1>8. \A w \in 1..height : grown[w] \cup Bitmap(B, height)[w] = Word(A \cup B, w - 1)
  BY <1>5, WordOfUnion DEF Bitmap
<1>9. Merged(grown, Bitmap(B, height)) = [w \in 1..height |-> Word(A \cup B, w - 1)]
  BY <1>7, <1>8
<1>10. QED
  BY <1>6, <1>9 DEF Bitmap, bm, grown

(***************************************************************************)
(* The index                                                               *)
(***************************************************************************)

\* Two ascending lists, all of the first before the second.
LEMMA AscendedJoin ==
  ASSUME NEW A \in SUBSET Nat, IsFiniteSet(A), NEW B \in SUBSET Nat, IsFiniteSet(B),
         \A a \in A, b \in B : a < b
  PROVE  Ascended(A \cup B) = Ascended(A) \o Ascended(B)
<1> DEFINE m == Cardinality(A)
           n == Cardinality(B)
           a == Ascended(A)
           b == Ascended(B)
           s == a \o b
<1>1. /\ a \in [1..m -> A] /\ a \in Seq(A) /\ m \in Nat /\ Len(a) = m
      /\ \A x \in A : \E k \in 1..m : a[k] = x
      /\ \A j, k \in 1..m : j < k => a[j] < a[k]
  <2>1. A \in SUBSET Int
    OBVIOUS
  <2>2. QED
    BY <2>1, AscendedLists DEF Ascending
<1>2. /\ b \in [1..n -> B] /\ b \in Seq(B) /\ n \in Nat /\ Len(b) = n
      /\ \A x \in B : \E k \in 1..n : b[k] = x
      /\ \A j, k \in 1..n : j < k => b[j] < b[k]
  <2>1. B \in SUBSET Int
    OBVIOUS
  <2>2. QED
    BY <2>1, AscendedLists DEF Ascending
<1> HIDE DEF a, b, m, n
<1>3. /\ s \in Seq(A \cup B) /\ Len(s) = m + n
      /\ \A i \in 1..(m + n) : s[i] = IF i <= m THEN a[i] ELSE b[i - m]
  <2>1. a \in Seq(A \cup B) /\ b \in Seq(A \cup B)
    BY <1>1, <1>2
  <2> DEFINE S == A \cup B
  <2>2. a \in Seq(S) /\ b \in Seq(S)
    BY <2>1
  <2> HIDE DEF S
  <2>3. /\ a \o b \in Seq(S) /\ Len(a \o b) = Len(a) + Len(b)
        /\ \A i \in 1..(Len(a) + Len(b)) : (a \o b)[i] = IF i <= Len(a) THEN a[i] ELSE b[i - Len(a)]
    BY <2>2, ConcatFacts
  <2>4. QED
    BY <1>1, <1>2, <2>3 DEF S
<1> HIDE DEF s
<1>4. s \in [1..(m + n) -> A \cup B] /\ m + n \in Nat
  BY <1>1, <1>2, <1>3
<1>5. \A x \in A \cup B : \E k \in 1..(m + n) : s[k] = x
  <2>1. \A k \in 1..m : k \in 1..(m + n) /\ s[k] = a[k]
    BY <1>1, <1>2, <1>3
  <2>2. \A k \in 1..n : m + k \in 1..(m + n) /\ s[m + k] = b[k]
    BY <1>1, <1>2, <1>3
  <2>3. ASSUME NEW x \in A PROVE \E k \in 1..(m + n) : s[k] = x
    BY <1>1, <2>1
  <2>4. ASSUME NEW x \in B PROVE \E k \in 1..(m + n) : s[k] = x
    BY <1>2, <2>2
  <2>5. QED
    BY <2>3, <2>4
<1>6. ASSUME NEW j \in 1..(m + n), NEW k \in 1..(m + n), j < k PROVE s[j] < s[k]
  <2>1. CASE k <= m
    <3>1. j \in 1..m /\ k \in 1..m /\ j <= m
      BY <1>1, <1>2, <1>6, <2>1
    <3>2. QED
      BY <1>1, <1>3, <1>6, <2>1, <3>1
  <2>2. CASE ~(k <= m) /\ j <= m
    <3>1. j \in 1..m /\ k - m \in 1..n
      BY <1>1, <1>2, <2>2
    <3>2. a[j] \in A /\ b[k - m] \in B
      BY <1>1, <1>2, <3>1
    <3>3. QED
      BY <1>3, <2>2, <3>2
  <2>3. CASE ~(k <= m) /\ ~(j <= m)
    <3>1. j - m \in 1..n /\ k - m \in 1..n /\ j - m < k - m
      BY <1>1, <1>2, <1>6, <2>3
    <3>2. QED
      BY <1>2, <1>3, <2>3, <3>1
  <2>4. QED
    BY <2>1, <2>2, <2>3
<1>7. Ascending(s, m + n)
  BY <1>6 DEF Ascending
<1>8. A \cup B \in SUBSET Int
  OBVIOUS
<1>9. Ascended(A \cup B) = s
  BY <1>4, <1>5, <1>7, <1>8, AscendedIs
<1>10. QED
  BY <1>9 DEF s, a, b

\* A list of rows holds them.
LEMMA AscendedHolds ==
  ASSUME NEW A \in SUBSET Nat, IsFiniteSet(A)
  PROVE  ToSet(Ascended(A)) = A
<1> DEFINE n == Cardinality(A)
           a == Ascended(A)
<1>1. a \in [1..n -> A] /\ n \in Nat /\ \A x \in A : \E k \in 1..n : a[k] = x
  <2>1. A \in SUBSET Int
    OBVIOUS
  <2>2. QED
    BY <2>1, AscendedLists
<1> HIDE DEF a, n
<1>2. ToSet(a) = A
  BY <1>1, ToSetOf, ZenonT(30)
<1>3. QED
  BY <1>2 DEF a

\* The rows of a list of terms that have some bit, and those that are odd.
LEMMA RowSets ==
  ASSUME NEW list \in Seq(Monomials)
  PROVE  /\ Len(list) \in Nat
         /\ \A c : /\ RowsWith(list, c) \in SUBSET (0..(Len(list) - 1)) /\ RowsWith(list, c) \in SUBSET Nat
                   /\ IsFiniteSet(RowsWith(list, c))
                   /\ \A r \in RowsWith(list, c) : r \div WordBits < words(Len(list))
         /\ OddRows(list, 0) = {r \in 0..(Len(list) - 1) : Odd(Cardinality(list[r + 1]))}
         /\ OddRows(list, 0) \in SUBSET Nat
         /\ \A r \in OddRows(list, 0) : r \div WordBits < words(Len(list))
<1> DEFINE n == Len(list)
<1>1. n \in Nat /\ IsFiniteSet(0..(n - 1)) /\ DOMAIN list = 1..n
  BY FS_Interval
<1> HIDE DEF n
<1>2. \A r \in 0..(n - 1) : r \in Nat /\ r < n /\ r \div WordBits < words(n)
  BY <1>1, WordsAre
<1>3. ASSUME NEW c
      PROVE  /\ RowsWith(list, c) \in SUBSET (0..(n - 1)) /\ RowsWith(list, c) \in SUBSET Nat
             /\ IsFiniteSet(RowsWith(list, c))
             /\ \A r \in RowsWith(list, c) : r \div WordBits < words(n)
  <2>1. RowsWith(list, c) \in SUBSET (0..(n - 1))
    BY DEF RowsWith, n
  <2>2. QED
    BY <1>1, <1>2, <2>1, FS_Subset
<1>4. OddRows(list, 0) = {r \in 0..(n - 1) : Odd(Cardinality(list[r + 1]))}
  <2>1. OddRows(list, 0) = {0 + k - 1 : k \in {x \in 1..n : Odd(Cardinality(list[x]))}}
    BY <1>1 DEF OddRows
  <2>2. \A k \in 1..n : 0 + k - 1 \in 0..(n - 1) /\ (0 + k - 1) + 1 = k
    BY <1>1
  <2>3. \A r \in 0..(n - 1) : r + 1 \in 1..n /\ 0 + (r + 1) - 1 = r
    BY <1>1
  <2>4. QED
    BY <2>1, <2>2, <2>3
<1>5. QED
  BY <1>1, <1>2, <1>3, <1>4 DEF n

\* What new terms add to them.
LEMMA RowsAdded ==
  ASSUME NEW list \in Seq(Monomials), NEW new \in Seq(Monomials)
  PROVE  LET added(c) == {(Len(list) + k) - 1 : k \in {n \in DOMAIN new : c \in new[n]}}
         IN  /\ \A c : /\ RowsWith(list \o new, c) = RowsWith(list, c) \cup added(c)
                       /\ added(c) \in SUBSET Nat /\ IsFiniteSet(added(c))
                       /\ \A a \in RowsWith(list, c), b \in added(c) : a < b
             /\ OddRows(list \o new, 0) = OddRows(list, 0) \cup OddRows(new, Len(list))
             /\ OddRows(new, Len(list)) \in SUBSET Nat
<1> DEFINE m == Len(list)
           n == Len(new)
           all == list \o new
           added(c) == {(m + k) - 1 : k \in {x \in DOMAIN new : c \in new[x]}}
<1>1. /\ m \in Nat /\ n \in Nat /\ Len(all) = m + n /\ DOMAIN new = 1..n /\ all \in Seq(Monomials)
      /\ \A i \in 1..(m + n) : all[i] = IF i <= m THEN list[i] ELSE new[i - m]
  BY ConcatFacts
<1>2. \A c : RowsWith(list, c) = {i \in 0..(m - 1) : c \in list[i + 1]}
  BY DEF RowsWith
<1>3. \A c : RowsWith(all, c) = {i \in 0..((m + n) - 1) : c \in all[i + 1]}
  BY <1>1 DEF RowsWith
<1>4. OddRows(list, 0) = {r \in 0..(m - 1) : Odd(Cardinality(list[r + 1]))}
  BY RowSets
<1>5. OddRows(all, 0) = {r \in 0..((m + n) - 1) : Odd(Cardinality(all[r + 1]))}
  BY <1>1, RowSets
<1>6. OddRows(new, m) = {(m + k) - 1 : k \in {x \in 1..n : Odd(Cardinality(new[x]))}}
  <2>1. \A k \in 1..n : m + k - 1 = (m + k) - 1
    BY <1>1
  <2>2. QED
    BY <1>1, <2>1 DEF OddRows
<1> HIDE DEF m, n, all
<1>7. \A i \in 0..(m - 1) : i \in 0..((m + n) - 1) /\ all[i + 1] = list[i + 1]
  BY <1>1
<1>8. \A k \in 1..n : (m + k) - 1 \in 0..((m + n) - 1) /\ all[((m + k) - 1) + 1] = new[k] /\ m <= (m + k) - 1
  BY <1>1
<1>9. \A i \in 0..((m + n) - 1) : i \in 0..(m - 1) \/ \E k \in 1..n : i = (m + k) - 1
  <2>1. SUFFICES ASSUME NEW i \in 0..((m + n) - 1), ~(i \in 0..(m - 1)) PROVE \E k \in 1..n : i = (m + k) - 1
    OBVIOUS
  <2>2. (i - m) + 1 \in 1..n /\ i = (m + ((i - m) + 1)) - 1
    BY <1>1, <2>1
  <2>3. QED
    BY <2>2
<1>10. ASSUME NEW c
       PROVE  /\ RowsWith(all, c) = RowsWith(list, c) \cup added(c)
              /\ added(c) \in SUBSET Nat /\ IsFiniteSet(added(c))
              /\ \A a \in RowsWith(list, c), b \in added(c) : a < b
  <2>1. added(c) = {(m + k) - 1 : k \in {x \in 1..n : c \in new[x]}}
    BY <1>1
  <2> HIDE DEF added
  <2>2. RowsWith(all, c) = RowsWith(list, c) \cup added(c)
    <3>1. RowsWith(all, c) = {i \in 0..((m + n) - 1) : c \in all[i + 1]}
      BY <1>3
    <3>2. RowsWith(list, c) = {i \in 0..(m - 1) : c \in list[i + 1]}
      BY <1>2
    <3>3. QED
      BY <1>7, <1>8, <1>9, <2>1, <3>1, <3>2, SMTT(30)
  <2>3. added(c) \in SUBSET (0..((m + n) - 1)) /\ \A b \in added(c) : m <= b
    BY <1>8, <2>1
  <2>4. IsFiniteSet(0..((m + n) - 1)) /\ \A x \in 0..((m + n) - 1) : x \in Nat
    BY <1>1, FS_Interval
  <2>5. \A a \in RowsWith(list, c) : a \in Nat /\ a < m
    BY <1>1, <1>2
  <2>6. ASSUME NEW a \in RowsWith(list, c), NEW b \in added(c) PROVE a < b
    <3>1. a \in Nat /\ a < m /\ b \in Nat /\ m <= b /\ m \in Nat
      BY <1>1, <2>3, <2>4, <2>5
    <3>2. QED
      BY <3>1
  <2>7. QED
    BY <2>2, <2>3, <2>4, <2>6, FS_Subset
<1>11. OddRows(all, 0) = OddRows(list, 0) \cup OddRows(new, m)
  BY <1>4, <1>5, <1>6, <1>7, <1>8, <1>9
<1>12. OddRows(new, m) \in SUBSET Nat
  BY <1>1, <1>6, <1>8
<1>13. QED
  BY <1>10, <1>11, <1>12 DEF m, all

\* A filled column holds the rows that have its bit, in the tier it is in or is promoted to.
LEMMA FilledColumn ==
  ASSUME NEW list \in Seq(Monomials), NEW new \in Seq(Monomials), NEW c, NEW col, NEW low \in Nat,
         \/ /\ col = [dense |-> TRUE, words |-> Bitmap(RowsWith(list, c), low), set_rows |-> <<>>]
            /\ low <= words(Len(list \o new)) /\ \A r \in RowsWith(list, c) : r \div WordBits < low
         \/ col = [dense |-> FALSE, words |-> <<>>, set_rows |-> Ascended(RowsWith(list, c))]
  PROVE  ColumnOf(list \o new, fill_column(col, new, Len(list), c), c)
<1> DEFINE A == RowsWith(list, c)
           B == {(Len(list) + k) - 1 : k \in {x \in DOMAIN new : c \in new[x]}}
           all == list \o new
           height == words(Len(all))
           hits == Touching(new, Len(list), c)
           out == fill_column(col, new, Len(list), c)
<1>1. /\ A \in SUBSET Nat /\ IsFiniteSet(A) /\ B \in SUBSET Nat /\ IsFiniteSet(B)
      /\ \A a \in A, b \in B : a < b
      /\ RowsWith(all, c) = A \cup B
  BY RowsAdded, RowSets
<1>2. Len(all) = Len(list) + Len(new) /\ Len(all) \in Nat /\ height \in Nat
  BY ConcatFacts, WordsAre
<1>3. hits = Ascended(B)
  BY DEF Touching
<1>4. ToSet(hits) = B
  BY <1>1, <1>3, AscendedHolds
<1> DEFINE grown == Resized(col.words, height)
           longer == [col EXCEPT !.set_rows = @ \o hits]
<1>5. out = IF col.dense THEN [col EXCEPT !.words = Merged(grown, Bitmap(ToSet(hits), Len(grown)))]
            ELSE IF IsDenseEnough(Len(longer.set_rows), Len(list) + Len(new))
                 THEN promote_to_dense(longer, Len(list) + Len(new))
            ELSE longer
  BY <1>2 DEF fill_column
<1> HIDE DEF A, B, all, height, hits, out, grown
<1>6. CASE /\ col = [dense |-> TRUE, words |-> Bitmap(A, low), set_rows |-> <<>>]
           /\ low <= height /\ \A r \in A : r \div WordBits < low
  <2>1. col.dense = TRUE /\ col.words = Bitmap(A, low)
    BY <1>6
  <2>2. Merged(grown, Bitmap(B, Len(grown))) = Bitmap(A \cup B, height)
    BY <1>1, <1>2, <1>6, <2>1, BitmapGrows DEF grown
  <2>3. out = [col EXCEPT !.words = Bitmap(A \cup B, height)]
    BY <1>4, <1>5, <2>1, <2>2
  <2>4. out = [dense |-> TRUE, words |-> Bitmap(A \cup B, height), set_rows |-> <<>>]
    BY <1>6, <2>3
  <2>5. QED
    BY <1>1, <2>4 DEF ColumnOf, out, all, height
<1>7. CASE col = [dense |-> FALSE, words |-> <<>>, set_rows |-> Ascended(A)]
  <2>1. longer = [dense |-> FALSE, words |-> <<>>, set_rows |-> Ascended(A) \o hits]
    <3>1. col.set_rows = Ascended(A)
      BY <1>7
    <3>2. longer = [col EXCEPT !.set_rows = Ascended(A) \o hits]
      BY <3>1
    <3> DEFINE more == Ascended(A) \o hits
               first == Ascended(A)
    <3>3. longer = [col EXCEPT !.set_rows = more] /\ col = [dense |-> FALSE, words |-> <<>>, set_rows |-> first]
      BY <1>7, <3>2
    <3> HIDE DEF more, longer, first
    <3>4. longer = [dense |-> FALSE, words |-> <<>>, set_rows |-> more]
      BY <3>3
    <3>5. QED
      BY <3>4 DEF more
  <2>2. Ascended(A) \o hits = Ascended(A \cup B)
    BY <1>1, <1>3, AscendedJoin
  <2>3. longer = [dense |-> FALSE, words |-> <<>>, set_rows |-> Ascended(A \cup B)]
    BY <2>1, <2>2
  <2> HIDE DEF longer
  <2>4. out = longer \/ out = promote_to_dense(longer, Len(all))
    BY <1>2, <1>5, <1>7
  <2>5. ToSet(longer.set_rows) = A \cup B
    <3>1. A \cup B \in SUBSET Nat /\ IsFiniteSet(A \cup B)
      BY <1>1, FS_Union
    <3>2. ToSet(Ascended(A \cup B)) = A \cup B
      BY <3>1, AscendedHolds
    <3>3. QED
      BY <2>3, <3>2
  <2>6. promote_to_dense(longer, Len(all)) = [dense |-> TRUE, words |-> Bitmap(A \cup B, height), set_rows |-> <<>>]
    BY <2>5 DEF promote_to_dense, height
  <2>7. CASE out = longer
    BY <1>1, <2>3, <2>7 DEF ColumnOf, out, all, height
  <2>8. CASE out = promote_to_dense(longer, Len(all))
    BY <1>1, <2>6, <2>8 DEF ColumnOf, out, all, height
  <2>9. QED
    BY <2>4, <2>7, <2>8
<1>8. QED
  BY <1>6, <1>7 DEF A, all, height

\* The two forms of a column in an index that is right.
LEMMA IndexedColumn ==
  ASSUME NEW ix, NEW list, Indexes(ix, list), NEW c \in Bits
  PROVE  /\ ColumnOf(list, ix.cols[c], c)
         /\ \/ ix.cols[c] = [dense |-> TRUE, words |-> Bitmap(RowsWith(list, c), words(Len(list))), set_rows |-> <<>>]
            \/ ix.cols[c] = [dense |-> FALSE, words |-> <<>>, set_rows |-> Ascended(RowsWith(list, c))]
  BY DEF Indexes, ColumnOf

\* append_rows indexes the longer list.
LEMMA AppendIndexes ==
  ASSUME NEW list \in Seq(Monomials), NEW new \in Seq(Monomials), NEW ix, Indexes(ix, list)
  PROVE  Indexes(append_rows(ix, new, Len(list)), list \o new)
<1> DEFINE m == Len(list)
           all == list \o new
           out == append_rows(ix, new, m)
<1>1. Len(all) = m + Len(new) /\ m \in Nat /\ Len(all) \in Nat /\ m <= Len(all)
  BY ConcatFacts
<1>2. /\ out = [cols |-> out.cols, row_count |-> m + Len(new), row_parity |-> out.row_parity]
      /\ out.cols = [c \in Bits |-> fill_column(ix.cols[c], new, m, c)]
      /\ out.row_parity = ExtendedParity(ix.row_parity, new, m)
  BY DEF append_rows
<1>3. words(m) \in Nat /\ words(Len(all)) \in Nat /\ words(m) <= words(Len(all))
  BY <1>1, WordsAre
<1>4. \A c \in Bits : ColumnOf(all, out.cols[c], c)
  <2>1. SUFFICES ASSUME NEW c \in Bits PROVE ColumnOf(all, out.cols[c], c)
    OBVIOUS
  <2>2. \/ ix.cols[c] = [dense |-> TRUE, words |-> Bitmap(RowsWith(list, c), words(m)), set_rows |-> <<>>]
        \/ ix.cols[c] = [dense |-> FALSE, words |-> <<>>, set_rows |-> Ascended(RowsWith(list, c))]
    BY IndexedColumn
  <2>3. \A r \in RowsWith(list, c) : r \div WordBits < words(m)
    BY RowSets
  <2>4. ColumnOf(all, fill_column(ix.cols[c], new, m, c), c)
    BY <1>3, <2>2, <2>3, FilledColumn
  <2>5. QED
    BY <1>2, <2>4
<1>5. out.row_parity # NotBuilt => out.row_parity = Bitmap(OddRows(all, 0), words(Len(all)))
  <2>1. CASE ix.row_parity = NotBuilt
    BY <1>2, <2>1 DEF ExtendedParity
  <2>2. CASE ix.row_parity # NotBuilt
    <3> DEFINE A == OddRows(list, 0)
               B == OddRows(new, m)
               grown == Resized(ix.row_parity, words(Len(all)))
    <3>1. ix.row_parity = Bitmap(A, words(m))
      BY <2>2 DEF Indexes
    <3>2. out.row_parity = Merged(grown, Bitmap(B, Len(grown)))
      BY <1>1, <1>2, <2>2 DEF ExtendedParity
    <3>3. A \in SUBSET Nat /\ B \in SUBSET Nat /\ A \cup B = OddRows(all, 0) /\ \A r \in A : r \div WordBits < words(m)
      BY RowSets, RowsAdded
    <3> HIDE DEF A, B, all
    <3>4. Merged(grown, Bitmap(B, Len(grown))) = Bitmap(A \cup B, words(Len(all)))
      BY <1>3, <3>1, <3>3, BitmapGrows
    <3>5. QED
      BY <3>2, <3>3, <3>4
  <2>3. QED
    BY <2>1, <2>2
<1> HIDE DEF out, all
<1>6. out.cols = [c \in Bits |-> out.cols[c]]
  BY <1>2
<1>7. Indexes(out, all)
  BY <1>1, <1>2, <1>4, <1>5, <1>6 DEF Indexes
<1>8. QED
  BY <1>7 DEF out, all

\* rebuild indexes any list.
LEMMA RebuildIndexes ==
  ASSUME NEW all \in Seq(Monomials)
  PROVE  Indexes(rebuild(all), all)
<1> DEFINE n == Len(all)
           count(c) == Cardinality({k \in DOMAIN all : c \in all[k]})
           tier(c) == IF n > 0 /\ IsDenseEnough(count(c), n)
                      THEN [SparseColumn EXCEPT !.dense = TRUE, !.words = Bitmap({}, words(n))]
                      ELSE SparseColumn
           filled(c) == IF n = 0 THEN SparseColumn ELSE fill_column(tier(c), all, 0, c)
           out == rebuild(all)
<1>1. /\ out = [cols |-> out.cols, row_count |-> n, row_parity |-> NotBuilt]
      /\ out.cols = [c \in Bits |-> filled(c)] /\ out.row_parity = NotBuilt
  BY DEF rebuild
<1>2. /\ n \in Nat /\ <<>> \in Seq(Monomials) /\ Len(<<>>) = 0 /\ <<>> \o all = all
      /\ words(n) \in Nat
  BY WordsAre
<1>3. \A c : RowsWith(<<>>, c) = {}
  BY <1>2 DEF RowsWith
<1>4. Ascended({}) = <<>>
  <2>1. IsFiniteSet({}) /\ Cardinality({}) = 0 /\ {} \in SUBSET Int
    BY FS_EmptySet
  <2>2. Ascended({}) \in Seq({}) /\ Len(Ascended({})) = 0
    BY <2>1, AscendedLists
  <2>3. QED
    BY <2>2
<1>5. ASSUME NEW c \in Bits PROVE ColumnOf(all, out.cols[c], c)
  <2>1. CASE n = 0
    <3>1. out.cols[c] = [dense |-> FALSE, words |-> <<>>, set_rows |-> <<>>]
      BY <1>1, <2>1 DEF SparseColumn
    <3>2. RowsWith(all, c) = {}
      BY <2>1 DEF RowsWith
    <3>3. Ascended(RowsWith(all, c)) = <<>>
      BY <1>4, <3>2
    <3>4. QED
      BY <3>1, <3>3 DEF ColumnOf
  <2>2. CASE n # 0
    <3>1. out.cols[c] = fill_column(tier(c), all, Len(<<>>), c)
      BY <1>1, <1>2, <2>2
    <3>2. \/ tier(c) = [dense |-> TRUE, words |-> Bitmap({}, words(n)), set_rows |-> <<>>]
          \/ tier(c) = [dense |-> FALSE, words |-> <<>>, set_rows |-> <<>>]
      BY DEF SparseColumn
    <3> HIDE DEF tier
    <3> DEFINE col == tier(c)
    <3>3. \/ /\ col = [dense |-> TRUE, words |-> Bitmap(RowsWith(<<>>, c), words(n)), set_rows |-> <<>>]
             /\ words(n) <= words(Len(<<>> \o all)) /\ \A r \in RowsWith(<<>>, c) : r \div WordBits < words(n)
          \/ col = [dense |-> FALSE, words |-> <<>>, set_rows |-> Ascended(RowsWith(<<>>, c))]
      <4>1. RowsWith(<<>>, c) = {} /\ Ascended(RowsWith(<<>>, c)) = <<>>
        BY <1>3, <1>4
      <4>2. words(n) <= words(Len(<<>> \o all))
        BY <1>2
      <4>3. QED
        BY <3>2, <4>1, <4>2
    <3> HIDE DEF col
    <3>4. ColumnOf(<<>> \o all, fill_column(col, all, Len(<<>>), c), c)
      BY <1>2, <3>3, FilledColumn
    <3>5. QED
      BY <1>2, <3>1, <3>4 DEF col
  <2>3. QED
    BY <2>1, <2>2
<1> HIDE DEF out, filled
<1>6. out.cols = [c \in Bits |-> out.cols[c]]
  BY <1>1
<1>7. QED
  BY <1>1, <1>5, <1>6 DEF Indexes, out

\* A column read back.
LEMMA ColumnRead ==
  ASSUME NEW list \in Seq(Monomials), NEW ix, Indexes(ix, list), NEW c \in Bits
  PROVE  ColumnRows(ix, c) = RowsWith(list, c)
<1> DEFINE A == RowsWith(list, c)
<1>1. /\ A \in SUBSET Nat /\ IsFiniteSet(A) /\ words(Len(list)) \in Nat
      /\ \A r \in A : r \div WordBits < words(Len(list))
  BY RowSets, WordsAre
<1>2. ToSet(Ascended(A)) = A
  BY <1>1, AscendedHolds
<1>3. BitmapRows(Bitmap(A, words(Len(list)))) = A
  BY <1>1, RowsOfBitmap
<1> HIDE DEF A
<1>4. \/ ix.cols[c] = [dense |-> TRUE, words |-> Bitmap(A, words(Len(list))), set_rows |-> <<>>]
      \/ ix.cols[c] = [dense |-> FALSE, words |-> <<>>, set_rows |-> Ascended(A)]
  BY IndexedColumn DEF A
<1>5. QED
  BY <1>2, <1>3, <1>4 DEF ColumnRows, A

\* The parities built on first use.
LEMMA ParityIndexes ==
  ASSUME NEW list \in Seq(Monomials), NEW ix, Indexes(ix, list)
  PROVE  /\ Indexes(WithParity(ix), list) /\ WithParity(ix).cols = ix.cols
         /\ WithParity(ix).row_parity = Bitmap(OddRows(list, 0), words(Len(list)))
<1> DEFINE n == Len(list)
           par == Bitmap(OddRows(list, 0), words(n))
<1>1. /\ ix = [cols |-> ix.cols, row_count |-> n, row_parity |-> ix.row_parity]
      /\ ix.cols = [c \in Bits |-> ix.cols[c]] /\ \A c \in Bits : ColumnOf(list, ix.cols[c], c)
      /\ ix.row_parity # NotBuilt => ix.row_parity = par
  BY DEF Indexes
<1>2. n \in Nat /\ \A i \in 1..n : list[i] \in SUBSET Bits
  BY DEF Monomials
<1>3. RowParity(ix) = par
  <2>1. \A r \in 0..(n - 1) : {c \in Bits : r \in ColumnRows(ix, c)} = list[r + 1]
    <3>1. SUFFICES ASSUME NEW r \in 0..(n - 1) PROVE {c \in Bits : r \in ColumnRows(ix, c)} = list[r + 1]
      OBVIOUS
    <3>2. \A c \in Bits : r \in ColumnRows(ix, c) <=> c \in list[r + 1]
      BY ColumnRead DEF RowsWith
    <3>3. list[r + 1] \in SUBSET Bits
      BY <1>2
    <3>4. QED
      BY <3>2, <3>3
  <2>2. {r \in 0..(n - 1) : Odd(Cardinality({c \in Bits : r \in ColumnRows(ix, c)}))} = OddRows(list, 0)
    BY <2>1, RowSets
  <2>3. ix.row_count = n
    BY <1>1
  <2>4. QED
    BY <2>2, <2>3 DEF RowParity
<1> HIDE DEF par
<1>4. CASE ix.row_parity # NotBuilt
  BY <1>1, <1>4 DEF WithParity, par
<1>5. CASE ix.row_parity = NotBuilt /\ n = 0
  <2>1. WithParity(ix) = ix
    BY <1>1, <1>5 DEF WithParity
  <2>2. par = <<>>
    BY <1>5, WordsAre DEF par, Bitmap
  <2>3. QED
    BY <1>5, <2>1, <2>2 DEF NotBuilt, par
<1>6. CASE ix.row_parity = NotBuilt /\ n # 0
  <2>1. WithParity(ix) = [ix EXCEPT !.row_parity = par]
    BY <1>1, <1>3, <1>6 DEF WithParity
  <2>2. WithParity(ix) = [cols |-> ix.cols, row_count |-> n, row_parity |-> par]
    BY <1>1, <2>1
  <2>3. QED
    BY <1>1, <2>2 DEF Indexes, par
<1>7. QED
  BY <1>4, <1>5, <1>6

(***************************************************************************)
(* The vectors                                                             *)
(***************************************************************************)

\* A sequence over a part of a set is one over the set.
LEMMA SubSequence ==
  ASSUME NEW T, NEW S \in SUBSET T, NEW s \in Seq(S)
  PROVE  s \in Seq(T) /\ \A k \in DOMAIN s : s[k] \in S
<1>1. Len(s) \in Nat /\ s \in [1..Len(s) -> S] /\ DOMAIN s = 1..Len(s)
  OBVIOUS
<1>2. s \in [1..Len(s) -> T]
  BY <1>1
<1>3. QED
  BY <1>1, <1>2

\* Paired rows are finitely many numbers below the end.
LEMMA PairedRowsAre ==
  ASSUME NEW list \in Seq(Monomials), NEW n \in 0..Len(list)
  PROVE  /\ PairedRows(list, n) \in SUBSET (0..(n - 1)) /\ PairedRows(list, n) \in SUBSET Nat
         /\ IsFiniteSet(PairedRows(list, n)) /\ n \in Nat
<1>1. n \in Nat /\ IsFiniteSet(0..(n - 1)) /\ \A i \in 0..(n - 1) : i \in Nat
  BY FS_Interval
<1>2. PairedRows(list, n) \in SUBSET (0..(n - 1))
  BY DEF PairedRows
<1>3. QED
  BY <1>1, <1>2, FS_Subset

\* What is scored: the paired rows of a prefix, each once.
LEMMA ScoreFacts ==
  ASSUME NEW list \in Seq(Monomials), NEW score, Scores(list, score)
  PROVE  LET n == Cardinality(PairedRows(list, score.upto))
         IN  /\ n \in Nat /\ DOMAIN score.rows = 1..n /\ DOMAIN score.vals = 1..n
             /\ \A k \in 1..n : score.rows[k] \in PairedRows(list, score.upto)
             /\ \A i \in PairedRows(list, score.upto) : \E k \in 1..n : score.rows[k] = i
             /\ \A j, k \in 1..n : score.rows[j] = score.rows[k] => j = k
             /\ \A k \in 1..n : score.vals[k] = state_phase(setup.basis, list[score.rows[k] + 1],
                                                            initial_state_mask(setup.initial_state))
<1> DEFINE S == PairedRows(list, score.upto)
           n == Cardinality(S)
<1>1. S \in SUBSET Int /\ IsFiniteSet(S)
  BY PairedRowsAre DEF Scores
<1>2. score.rows = Ascended(S)
  BY DEF Scores
<1> HIDE DEF S
<1>3. /\ score.rows \in [1..n -> S] /\ n \in Nat
      /\ \A i \in S : \E k \in 1..n : score.rows[k] = i
      /\ \A j, k \in 1..n : score.rows[j] = score.rows[k] => j = k
  BY <1>1, <1>2, AscendedLists
<1> HIDE DEF n
<1>4. score.vals = [k \in 1..n |-> state_phase(setup.basis, list[score.rows[k] + 1],
                                                initial_state_mask(setup.initial_state))]
  BY <1>3 DEF Scores
<1>5. QED
  BY <1>3, <1>4 DEF n, S

\* score_new_state_rows_: the paired rows of all the rows.
LEMMA ScoreGrows ==
  ASSUME RowsInv, NEW old, Scores(Terms, old)
  PROVE  Scores(Terms, ScoredFrom(old)) /\ ScoredFrom(old).upto = Size
<1> DEFINE u == old.upto
           A == PairedRows(Terms, u)
           B == {i \in u .. Size - 1 : is_paired(row(i))}
           found == Ascended(B)
           phase(i) == state_phase(setup.basis, Terms[i + 1], initial_state_mask(setup.initial_state))
           out == ScoredFrom(old)
<1>1. Terms \in Seq(Monomials) /\ Len(Terms) = Size /\ Size \in Nat /\ u \in 0..Size /\ u \in Nat
  BY RowFacts DEF Scores
<1>2. \A i \in u..(Size - 1) : i \in 0..(Size - 1) /\ i \in Nat /\ row(i) = Terms[i + 1]
  BY <1>1, RowFacts
<1>3. A \in SUBSET Nat /\ IsFiniteSet(A) /\ A \in SUBSET (0..(u - 1))
  BY <1>1, PairedRowsAre
<1>4. B \in SUBSET Nat /\ IsFiniteSet(B) /\ B \in SUBSET (u..(Size - 1))
  <2>1. B \in SUBSET (u..(Size - 1)) /\ IsFiniteSet(u..(Size - 1))
    <3>1. u \in Int /\ Size - 1 \in Int
      BY <1>1
    <3>2. IsFiniteSet(u..(Size - 1))
      BY ONLY <3>1, FS_Interval
    <3>3. QED
      BY <3>2
  <2>2. QED
    BY <1>2, <2>1, FS_Subset
<1>5. PairedRows(Terms, Size) = A \cup B
  <2>1. \A i \in 0..(Size - 1) : i \in 0..(u - 1) \/ i \in u..(Size - 1)
    BY <1>1
  <2>2. \A i \in 0..(u - 1) : i \in 0..(Size - 1)
    BY <1>1
  <2>3. QED
    BY <1>2, <2>1, <2>2 DEF PairedRows
<1>6. \A a \in A, b \in B : a < b
  <2>1. \A a \in 0..(u - 1), b \in u..(Size - 1) : a < b
    BY <1>1
  <2>2. QED
    BY <1>3, <1>4, <2>1
<1>7. found = fully_paired_rows_from(u)
  BY DEF fully_paired_rows_from
<1>8. out = [rows |-> old.rows \o found,
             vals |-> old.vals \o [k \in DOMAIN found |-> state_phase(setup.basis, row(found[k]),
                                                            initial_state_mask(setup.initial_state))],
             upto |-> Size]
  BY <1>7 DEF ScoredFrom
<1>9. old.rows = Ascended(A) /\ old.vals = [k \in DOMAIN old.rows |-> phase(old.rows[k])]
  BY DEF Scores
<1> HIDE DEF A, B, out
<1>10. old.rows \o found = Ascended(A \cup B)
  BY <1>3, <1>4, <1>6, <1>9, AscendedJoin
<1>11. /\ old.rows \in Seq(Nat) /\ found \in Seq(Nat) /\ \A k \in DOMAIN found : found[k] \in B
  <2>1. A \in SUBSET Int /\ B \in SUBSET Int
    BY <1>3, <1>4
  <2>2. Ascended(A) \in Seq(A) /\ Ascended(B) \in Seq(B)
    BY <1>3, <1>4, <2>1, AscendedLists
  <2> DEFINE a == Ascended(A)
             b == Ascended(B)
  <2>3. a \in Seq(Nat) /\ b \in Seq(Nat) /\ \A k \in DOMAIN b : b[k] \in B
    <3>1. a \in Seq(A) /\ b \in Seq(B)
      BY <2>2
    <3> HIDE DEF a, b
    <3>2. QED
      BY <1>3, <1>4, <3>1, SubSequence
  <2>4. QED
    BY <1>9, <2>3
<1>12. \A k \in DOMAIN found : row(found[k]) = Terms[found[k] + 1]
  BY <1>2, <1>4, <1>11
<1> DEFINE more == [k \in DOMAIN found |-> phase(found[k])]
           V == {phase(i) : i \in Nat}
<1>13. [k \in DOMAIN found |-> state_phase(setup.basis, row(found[k]), initial_state_mask(setup.initial_state))] = more
  BY <1>12
<1>14. old.vals \o more = [k \in DOMAIN (old.rows \o found) |-> phase((old.rows \o found)[k])]
  <2> DEFINE a == old.rows
             b == found
  <2>1. \A i \in Nat : phase(i) \in V
    OBVIOUS
  <2>2. a \in Seq(Nat) /\ b \in Seq(Nat) /\ old.vals = [k \in DOMAIN a |-> phase(a[k])] /\ more = [k \in DOMAIN b |-> phase(b[k])]
    BY <1>9, <1>11
  <2> HIDE DEF a, b, phase, V, found, more
  <2>3. /\ DOMAIN (a \o b) = 1..(Len(a) + Len(b)) /\ DOMAIN a = 1..Len(a) /\ DOMAIN b = 1..Len(b)
        /\ Len(a) \in Nat /\ Len(b) \in Nat
        /\ \A i \in 1..(Len(a) + Len(b)) : (a \o b)[i] = IF i <= Len(a) THEN a[i] ELSE b[i - Len(a)]
    BY <2>2, ConcatFacts
  <2>4. old.vals \in Seq(V) /\ Len(old.vals) = Len(a)
    BY <2>1, <2>2, <2>3
  <2>5. more \in Seq(V) /\ Len(more) = Len(b)
    BY <2>1, <2>2, <2>3
  <2>6. /\ old.vals \o more \in Seq(V) /\ DOMAIN (old.vals \o more) = 1..(Len(a) + Len(b))
        /\ \A i \in 1..(Len(a) + Len(b)) : (old.vals \o more)[i] = IF i <= Len(a) THEN old.vals[i] ELSE more[i - Len(a)]
    <3> DEFINE v == old.vals
    <3>1. v \in Seq(V) /\ more \in Seq(V)
      BY <2>4, <2>5
    <3> HIDE DEF v
    <3>2. /\ v \o more \in Seq(V) /\ DOMAIN (v \o more) = 1..(Len(v) + Len(more))
          /\ \A i \in 1..(Len(v) + Len(more)) : (v \o more)[i] = IF i <= Len(v) THEN v[i] ELSE more[i - Len(v)]
      BY <3>1, ConcatFacts
    <3>3. Len(v) = Len(a) /\ Len(more) = Len(b)
      BY <2>4, <2>5 DEF v
    <3>4. QED
      BY <3>2, <3>3 DEF v
  <2>7. \A i \in 1..(Len(a) + Len(b)) : (old.vals \o more)[i] = phase((a \o b)[i])
    <3>1. SUFFICES ASSUME NEW i \in 1..(Len(a) + Len(b)) PROVE (old.vals \o more)[i] = phase((a \o b)[i])
      OBVIOUS
    <3>2. CASE i <= Len(a)
      <4>1. i \in 1..Len(a)
        BY <2>3, <3>2
      <4>2. QED
        BY <2>2, <2>3, <2>6, <3>2, <4>1
    <3>3. CASE ~(i <= Len(a))
      <4>1. i - Len(a) \in 1..Len(b)
        BY <2>3, <3>3
      <4>2. QED
        BY <2>2, <2>3, <2>6, <3>3, <4>1
    <3>4. QED
      BY <3>2, <3>3
  <2>8. old.vals \o more = [k \in 1..(Len(a) + Len(b)) |-> (old.vals \o more)[k]]
    BY <2>6
  <2>9. old.vals \o more = [k \in 1..(Len(a) + Len(b)) |-> phase((a \o b)[k])]
    BY <2>7, <2>8
  <2>10. QED
    BY <2>3, <2>9 DEF a, b
<1> DEFINE rs == old.rows \o found
           vs == old.vals \o more
<1>15. out = [rows |-> rs, vals |-> vs, upto |-> Size]
  BY <1>8, <1>13
<1>16. rs = Ascended(PairedRows(Terms, Size)) /\ vs = [k \in DOMAIN rs |-> phase(rs[k])]
  BY <1>5, <1>10, <1>14
<1> HIDE DEF rs, vs, found, more
<1>17. out.rows = rs /\ out.vals = vs /\ out.upto = Size
  BY <1>15
<1>18. Scores(Terms, out)
  BY <1>1, <1>15, <1>16, <1>17 DEF Scores
<1>19. QED
  BY <1>17, <1>18 DEF out

\* A score of no row is right.
LEMMA NothingScores ==
  ASSUME RowsInv
  PROVE  Scores(Terms, NothingScored)
<1>1. PairedRows(Terms, 0) = {}
  BY DEF PairedRows
<1>2. Ascended({}) = <<>>
  <2>1. IsFiniteSet({}) /\ Cardinality({}) = 0 /\ {} \in SUBSET Int
    BY FS_EmptySet
  <2>2. Ascended({}) \in Seq({}) /\ Len(Ascended({})) = 0
    BY <2>1, AscendedLists
  <2>3. QED
    BY <2>2
<1>3. 0 \in 0..Len(Terms)
  BY RowFacts
<1> DEFINE score == NothingScored
<1>4. score = [rows |-> <<>>, vals |-> <<>>, upto |-> 0]
  BY DEF NothingScored
<1> HIDE DEF score
<1>5. /\ score = [rows |-> score.rows, vals |-> score.vals, upto |-> score.upto]
      /\ score.upto = 0 /\ score.rows = <<>> /\ score.vals = <<>>
  BY <1>4
<1>6. score.rows = Ascended(PairedRows(Terms, score.upto))
  BY <1>1, <1>2, <1>5
<1>7. score.vals = [k \in DOMAIN score.rows |->
                      state_phase(setup.basis, Terms[score.rows[k] + 1], initial_state_mask(setup.initial_state))]
  BY <1>5
<1>8. QED
  BY <1>3, <1>5, <1>6, <1>7 DEF Scores, score

\* Scores of the rows stay when rows are added.
LEMMA ScoresStay ==
  ASSUME NEW list \in Seq(Monomials), NEW new \in Seq(Monomials), NEW score, Scores(list, score)
  PROVE  Scores(list \o new, score)
<1> DEFINE all == list \o new
<1>1. /\ Len(list) \in Nat /\ Len(all) = Len(list) + Len(new) /\ Len(new) \in Nat
      /\ \A i \in 1..Len(list) : all[i] = list[i]
  BY ConcatFacts
<1> HIDE DEF all
<1>2. score.upto \in 0..Len(list) /\ score.upto \in 0..Len(all)
  BY <1>1 DEF Scores
<1>3. \A i \in 0..(score.upto - 1) : i + 1 \in 1..Len(list) /\ all[i + 1] = list[i + 1]
  BY <1>1, <1>2
<1>4. PairedRows(all, score.upto) = PairedRows(list, score.upto)
  BY <1>3 DEF PairedRows
<1>5. \A k \in DOMAIN score.rows : all[score.rows[k] + 1] = list[score.rows[k] + 1]
  <2>1. \A k \in DOMAIN score.rows : score.rows[k] \in PairedRows(list, score.upto)
    BY ScoreFacts
  <2>2. QED
    BY <1>3, <2>1 DEF PairedRows
<1>6. QED
  BY <1>2, <1>4, <1>5 DEF Scores, all

\* A vector of values, which may be shorter than the rows.
Vector(v, n) == v = [i \in 1..Len(v) |-> v[i]] /\ Len(v) \in 0..n

\* A vector that is not longer than the list.
LEMMA VectorOf ==
  ASSUME NEW n \in Nat, NEW f, f = [i \in 1..n |-> f[i]]
  PROVE  Vector(f, n) /\ Len(f) = n
<1>1. Len(f) = n
  OBVIOUS
<1>2. QED
  BY <1>1 DEF Vector

\* The parts of the invariant of the vectors.
LEMMA CachesFacts ==
  ASSUME RowsInv, CachesInv
  PROVE  /\ setup \in Setups /\ setup.schrodinger \in BOOLEAN
         /\ Vector(coeffs, Size) /\ Len(coeffs) \in Nat /\ Len(coeffs) <= Size
         /\ Scores(Terms, scored) /\ scored.upto \in 0..Size /\ scored.upto \in Nat
         /\ Vector(dense, scored.upto) /\ Len(dense) \in Nat /\ Len(dense) <= scored.upto /\ Len(dense) <= Size
<1>1. Len(Terms) = Size /\ Size \in Nat
  BY RowFacts
<1>2. setup \in Setups /\ Vector(coeffs, Size) /\ Scores(Terms, scored) /\ Vector(dense, scored.upto)
  BY DEF CachesInv, Vector
<1>3. setup.schrodinger \in BOOLEAN
  BY <1>2, StoreAssumption
<1>4. scored.upto \in 0..Size
  BY <1>1, <1>2 DEF Scores
<1>5. QED
  BY <1>1, <1>2, <1>3, <1>4 DEF Vector

\* The terms that have a row have one index in it.
LEMMA RowsOfIs ==
  ASSUME RowsInv, NEW M \in Monomials
  PROVE  /\ \A i \in 1..Size : Terms[i] = M => RowsOf(M) = {i - 1} /\ \A j \in 1..Size : Terms[j] = M => j = i
         /\ RowsOf(M) = {} <=> M \notin ToSet(Terms)
<1>1. Size \in Nat /\ DOMAIN Terms = 1..Size /\ \A i, j \in 1..Size : Terms[i] = Terms[j] => i = j
  BY RowFacts
<1>2. \A i \in 1..Size : i - 1 \in 0..(Size - 1) /\ (i - 1) + 1 = i
  BY <1>1
<1>3. \A r \in 0..(Size - 1) : r + 1 \in 1..Size /\ (r + 1) - 1 = r
  BY <1>1
<1>4. ASSUME NEW i \in 1..Size, Terms[i] = M
      PROVE  RowsOf(M) = {i - 1} /\ \A j \in 1..Size : Terms[j] = M => j = i
  <2>1. i - 1 \in RowsOf(M)
    BY <1>2, <1>4 DEF RowsOf
  <2>2. \A r \in RowsOf(M) : r = i - 1
    BY <1>1, <1>3, <1>4 DEF RowsOf
  <2>3. QED
    BY <1>1, <1>4, <2>1, <2>2
<1>5. RowsOf(M) = {} <=> M \notin ToSet(Terms)
  BY <1>1, <1>2, <1>3 DEF RowsOf, ToSet
<1>6. QED
  BY <1>4, <1>5

\* find, for a term in row i.
LEMMA FindIs ==
  ASSUME RowsInv, TableInv, NEW M \in Monomials
  PROVE  /\ find(M) = kNotFound <=> M \notin ToSet(Terms)
         /\ \A i \in 1..Size : find(M) = i - 1 <=> Terms[i] = M
<1>1. \A i \in 1..Size : i - 1 \in 0..(Size - 1) /\ (i - 1) + 1 = i /\ i - 1 # kNotFound
  BY RowFacts
<1>2. \A r \in RowsOf(M) : r \in 0..(Size - 1) /\ r # kNotFound /\ Terms[r + 1] = M
  BY RowFacts DEF RowsOf
<1>3. find(M) = kNotFound <=> RowsOf(M) = {}
  BY <1>2, Finds
<1>4. ASSUME NEW i \in 1..Size, find(M) = i - 1 PROVE Terms[i] = M
  <2>1. PICK r \in RowsOf(M) : TRUE
    BY <1>1, <1>3, <1>4
  <2>2. find(M) = r
    BY Finds
  <2>3. QED
    BY <1>1, <1>2, <1>4, <2>2
<1>5. ASSUME NEW i \in 1..Size, Terms[i] = M PROVE find(M) = i - 1
  <2>1. i - 1 \in RowsOf(M)
    BY <1>1, <1>5 DEF RowsOf
  <2>2. QED
    BY <2>1, Finds
<1>6. QED
  BY <1>3, <1>4, <1>5, RowsOfIs

\* get_operator: a value for every row, given late or held already.
LEMMA OperatorFacts ==
  ASSUME RowsInv, TableInv, CachesInv
  PROVE  /\ get_operator = [i \in 1..Size |-> get_operator[i]]
         /\ \A i \in 1..Size : get_operator[i] = IF Terms[i] \in DOMAIN pending THEN pending[Terms[i]]
                                                 ELSE IF i <= Len(coeffs) THEN coeffs[i] ELSE 0
         /\ StillPending = [M \in DOMAIN StillPending |-> pending[M]]
         /\ DOMAIN StillPending = DOMAIN pending \ ToSet(Terms)
<1>1. /\ Size \in Nat /\ DOMAIN Terms = 1..Size /\ \A i \in 1..Size : Terms[i] \in Monomials
      /\ Vector(coeffs, Size) /\ DOMAIN pending \subseteq Monomials
      /\ pending = [M \in DOMAIN pending |-> pending[M]]
      /\ \A i \in 1..Len(coeffs) : Terms[i] \notin DOMAIN pending
  BY RowFacts, CachesFacts DEF CachesInv
<1>2. Landed = DOMAIN pending \cap ToSet(Terms)
  BY <1>1, FindIs DEF Landed
<1>3. CASE Len(coeffs) = Size
  <2>1. get_operator = coeffs /\ StillPending = pending
    BY <1>3 DEF get_operator, StillPending
  <2>2. DOMAIN pending \cap ToSet(Terms) = {}
    BY <1>1, <1>3 DEF ToSet
  <2>3. \A i \in 1..Size : Terms[i] \notin DOMAIN pending /\ i <= Len(coeffs)
    BY <1>1, <1>3
  <2>4. coeffs = [i \in 1..Size |-> coeffs[i]]
    BY <1>1, <1>3 DEF Vector
  <2>5. QED
    BY <1>1, <2>1, <2>2, <2>3, <2>4
<1>4. CASE Len(coeffs) # Size
  <2>1. get_operator = [i \in 1 .. Size |->
          IF \E M \in Landed : find(M) = i - 1
          THEN pending[CHOOSE M \in Landed : find(M) = i - 1]
          ELSE IF i <= Len(coeffs) THEN coeffs[i] ELSE 0]
    BY <1>4 DEF get_operator
  <2>2. StillPending = [M \in DOMAIN pending \ Landed |-> pending[M]]
    BY <1>4 DEF StillPending
  <2>3. ASSUME NEW i \in 1..Size
        PROVE  get_operator[i] = IF Terms[i] \in DOMAIN pending THEN pending[Terms[i]]
                                 ELSE IF i <= Len(coeffs) THEN coeffs[i] ELSE 0
    <3>1. Landed \in SUBSET Monomials
      BY <1>1, <1>2
    <3>2. \A M \in Landed : find(M) = i - 1 <=> Terms[i] = M
      BY <3>1, FindIs
    <3>3. CASE Terms[i] \in DOMAIN pending
      <4>1. Terms[i] \in Landed
        BY <1>1, <1>2, <3>3 DEF ToSet
      <4>2. (CHOOSE M \in Landed : find(M) = i - 1) = Terms[i]
        BY <3>2, <4>1
      <4>3. \E M \in Landed : find(M) = i - 1
        BY <3>2, <4>1
      <4>4. QED
        BY <2>1, <3>3, <4>2, <4>3
    <3>4. CASE Terms[i] \notin DOMAIN pending
      <4>1. ~(\E M \in Landed : find(M) = i - 1)
        BY <1>2, <3>2, <3>4
      <4>2. QED
        BY <2>1, <3>4, <4>1
    <3>5. QED
      BY <3>3, <3>4
  <2>4. get_operator = [i \in 1..Size |-> get_operator[i]]
    BY <2>1
  <2>5. DOMAIN StillPending = DOMAIN pending \ ToSet(Terms) /\ StillPending = [M \in DOMAIN StillPending |-> pending[M]]
    BY <1>2, <2>2
  <2>6. QED
    BY <2>3, <2>4, <2>5
<1>5. QED
  BY <1>3, <1>4

\* The value of a term in the initial state.
Born(M) == IF is_paired(M) THEN state_phase(setup.basis, M, initial_state_mask(setup.initial_state)) ELSE 0

\* Scattered scores: rows from the first on have the value of their term.
LEMMA ScatteredIs ==
  ASSUME RowsInv, NEW score, Scores(Terms, score), score.upto = Size, NEW out, NEW first \in Nat, Len(out) = first
  PROVE  /\ Scattered(score, first, out) = [i \in 1..Size |-> Scattered(score, first, out)[i]]
         /\ \A i \in 1..Size : Scattered(score, first, out)[i] = IF i <= first THEN out[i] ELSE Born(Terms[i])
<1> DEFINE res == Scattered(score, first, out)
           n == Cardinality(PairedRows(Terms, Size))
<1>1. res = [i \in 1 .. Size |->
               IF \E k \in DOMAIN score.rows : score.rows[k] = i - 1 /\ i > first
               THEN score.vals[CHOOSE k \in DOMAIN score.rows : score.rows[k] = i - 1]
               ELSE IF i <= Len(out) THEN out[i] ELSE 0]
  BY DEF Scattered
<1>2. /\ n \in Nat /\ DOMAIN score.rows = 1..n
      /\ \A k \in 1..n : score.rows[k] \in PairedRows(Terms, Size)
      /\ \A i \in PairedRows(Terms, Size) : \E k \in 1..n : score.rows[k] = i
      /\ \A j, k \in 1..n : score.rows[j] = score.rows[k] => j = k
      /\ \A k \in 1..n : score.vals[k] = state_phase(setup.basis, Terms[score.rows[k] + 1],
                                                     initial_state_mask(setup.initial_state))
  <2>1. Terms \in Seq(Monomials) /\ score.upto = Size
    BY RowFacts
  <2> DEFINE u == score.upto
             c == Cardinality(PairedRows(Terms, u))
  <2>2. /\ c \in Nat /\ DOMAIN score.rows = 1..c
        /\ \A k \in 1..c : score.rows[k] \in PairedRows(Terms, u)
        /\ \A i \in PairedRows(Terms, u) : \E k \in 1..c : score.rows[k] = i
        /\ \A j, k \in 1..c : score.rows[j] = score.rows[k] => j = k
        /\ \A k \in 1..c : score.vals[k] = state_phase(setup.basis, Terms[score.rows[k] + 1],
                                                       initial_state_mask(setup.initial_state))
    BY <2>1, ScoreFacts
  <2>3. u = Size /\ c = n
    BY <2>1
  <2> HIDE DEF u, c, n
  <2>4. QED
    BY <2>2, <2>3
<1>3. \A i \in 1..Size : i - 1 \in PairedRows(Terms, Size) <=> is_paired(Terms[i])
  <2>1. \A i \in 1..Size : i - 1 \in 0..(Size - 1) /\ (i - 1) + 1 = i
    BY RowFacts
  <2>2. QED
    BY <2>1 DEF PairedRows
<1> HIDE DEF res, n
<1>4. ASSUME NEW i \in 1..Size PROVE res[i] = IF i <= first THEN out[i] ELSE Born(Terms[i])
  <2>1. i > first <=> ~(i <= first)
    BY RowFacts
  <2>2. CASE i <= first
    BY <1>1, <2>1, <2>2
  <2>3. CASE ~(i <= first) /\ is_paired(Terms[i])
    <3>1. PICK k \in 1..n : score.rows[k] = i - 1
      BY <1>2, <1>3, <2>3
    <3>2. (CHOOSE j \in DOMAIN score.rows : score.rows[j] = i - 1) = k
      BY <1>2, <3>1
    <3>3. res[i] = score.vals[k]
      BY <1>1, <1>2, <2>1, <2>3, <3>1, <3>2
    <3>4. (i - 1) + 1 = i
      BY RowFacts
    <3>5. QED
      BY <1>2, <2>3, <3>1, <3>3, <3>4 DEF Born
  <2>4. CASE ~(i <= first) /\ ~is_paired(Terms[i])
    <3>1. \A k \in DOMAIN score.rows : score.rows[k] # i - 1
      BY <1>2, <1>3, <2>4
    <3>2. QED
      BY <1>1, <2>4, <3>1 DEF Born
  <2>5. QED
    BY <2>2, <2>3, <2>4
<1>5. res = [i \in 1..Size |-> res[i]]
  BY <1>1
<1>6. QED
  BY <1>4, <1>5 DEF res

\* state_coeffs, extended to all rows.
LEMMA StateFacts ==
  ASSUME RowsInv, CachesInv
  PROVE  /\ dense_state = [i \in 1..Size |-> dense_state[i]]
         /\ \A i \in 1..Size : dense_state[i] = IF i <= Len(dense) THEN dense[i] ELSE Born(Terms[i])
         /\ Scores(Terms, score_new_state_rows_) /\ score_new_state_rows_.upto = Size
<1>1. Size \in Nat /\ Vector(dense, scored.upto) /\ Scores(Terms, scored) /\ Len(dense) \in Nat
  BY RowFacts, CachesFacts
<1>2. Scores(Terms, score_new_state_rows_) /\ score_new_state_rows_.upto = Size
  BY <1>1, ScoreGrows DEF score_new_state_rows_
<1>3. CASE Len(dense) = Size
  <2>1. dense_state = dense /\ dense = [i \in 1..Size |-> dense[i]]
    BY <1>1, <1>3 DEF dense_state, Vector
  <2>2. QED
    BY <1>2, <1>3, <2>1
<1>4. CASE Len(dense) # Size
  <2> DEFINE score == score_new_state_rows_
  <2>1. dense_state = Scattered(score, Len(dense), dense)
    BY <1>4 DEF dense_state
  <2>2. Scores(Terms, score) /\ score.upto = Size
    BY <1>2
  <2> HIDE DEF score
  <2>3. /\ Scattered(score, Len(dense), dense) = [i \in 1..Size |-> Scattered(score, Len(dense), dense)[i]]
        /\ \A i \in 1..Size : Scattered(score, Len(dense), dense)[i]
                                 = IF i <= Len(dense) THEN dense[i] ELSE Born(Terms[i])
    BY <1>1, <2>2, ScatteredIs
  <2>4. QED
    BY <1>2, <2>1, <2>3
<1>5. QED
  BY <1>3, <1>4

(***************************************************************************)
(* Index and vectors through the operations                                *)
(***************************************************************************)

\* The invariant of the vectors, about the next state.
LEMMA CachesPrimed ==
  ASSUME setup' = setup, setup \in Setups, Scores(Terms', scored'), Vector(coeffs', Size'),
         pending' = [M \in DOMAIN pending' |-> pending'[M]], DOMAIN pending' \subseteq Monomials,
         \A i \in 1..Len(coeffs') : Terms'[i] \notin DOMAIN pending',
         ~setup.schrodinger => DOMAIN pending' = {} /\ dense' = <<>>,
         Vector(dense', scored'.upto)
  PROVE  CachesInv'
<1>1. Scores(Terms, scored)'
  BY DEF Scores
<1>2. QED
  BY <1>1 DEF CachesInv, Vector

\* What get_operator leaves.
LEMMA ExtendedOperator ==
  ASSUME RowsInv, TableInv, CachesInv, Terms' = Terms, Size' = Size, ExtendOperator
  PROVE  /\ Vector(coeffs', Size') /\ Len(coeffs') = Size
         /\ \A i \in 1..Size : coeffs'[i] = IF Terms[i] \in DOMAIN pending THEN pending[Terms[i]]
                                            ELSE IF i <= Len(coeffs) THEN coeffs[i] ELSE 0
         /\ pending' = [M \in DOMAIN pending' |-> pending[M]]
         /\ DOMAIN pending' = DOMAIN pending \ ToSet(Terms)
         /\ \A i \in 1..Len(coeffs') : Terms'[i] \notin DOMAIN pending'
<1>1. coeffs' = get_operator /\ pending' = StillPending
  BY DEF ExtendOperator
<1>2. /\ coeffs' = [i \in 1..Size |-> coeffs'[i]]
      /\ \A i \in 1..Size : coeffs'[i] = IF Terms[i] \in DOMAIN pending THEN pending[Terms[i]]
                                         ELSE IF i <= Len(coeffs) THEN coeffs[i] ELSE 0
      /\ pending' = [M \in DOMAIN pending' |-> pending[M]]
      /\ DOMAIN pending' = DOMAIN pending \ ToSet(Terms)
  BY <1>1, OperatorFacts
<1>3. Size \in Nat /\ DOMAIN Terms = 1..Size
  BY RowFacts
<1>4. Vector(coeffs', Size') /\ Len(coeffs') = Size
  BY <1>2, <1>3, VectorOf
<1>5. \A i \in 1..Size : Terms[i] \notin DOMAIN pending'
  BY <1>2, <1>3 DEF ToSet
<1>6. QED
  BY <1>2, <1>4, <1>5

\* What dense_state leaves.
LEMMA ExtendedState ==
  ASSUME RowsInv, CachesInv, NEW d, d = dense_state
  PROVE  /\ Vector(d, Size) /\ Len(d) = Size
         /\ \A i \in 1..Size : d[i] = IF i <= Len(dense) THEN dense[i] ELSE Born(Terms[i])
<1>1. d = [i \in 1..Size |-> d[i]] /\ \A i \in 1..Size : d[i] = IF i <= Len(dense) THEN dense[i] ELSE Born(Terms[i])
  BY StateFacts
<1>2. QED
  BY <1>1, RowFacts, VectorOf

\* The vectors of a new store are right.
LEMMA InitCaches ==
  ASSUME Init
  PROVE  CachesInv
<1>1. RowsInv /\ TableInv /\ Terms = SeedOrder(setup) /\ setup \in Setups
  BY InitRows
<1> DEFINE seeds == SeedOrder(setup)
           given == {setup.initial_operator[i].term : i \in DOMAIN setup.initial_operator}
           user == [M \in given |-> SeedAmplitude([setup EXCEPT !.schrodinger = FALSE], M)]
<1>2. /\ coeffs = [i \in DOMAIN seeds |-> IF seeds[i] \in given THEN user[seeds[i]] ELSE 0]
      /\ pending = [M \in given \ ToSet(seeds) |-> user[M]]
      /\ scored = ScoredFrom(NothingScored)
      /\ dense = IF setup.schrodinger THEN Scattered(scored, 0, <<>>) ELSE <<>>
  BY DEF Init
<1>3. Size \in Nat /\ DOMAIN seeds = 1..Size /\ Len(Terms) = Size
  BY <1>1, RowFacts
<1>4. given \subseteq Monomials
  <2>1. [i \in DOMAIN setup.initial_operator |-> setup.initial_operator[i].term] \in Seq(Monomials)
    BY <1>1, StoreAssumption
  <2>2. QED
    BY <2>1
<1>5. ~setup.schrodinger => given \subseteq ToSet(seeds)
  BY <1>1, SeedsAre DEF SeedTerms
<1> HIDE DEF seeds, given, user
<1>6. coeffs = [i \in 1..Len(coeffs) |-> coeffs[i]] /\ Len(coeffs) \in 0..Size
  <2>1. coeffs = [i \in 1..Size |-> coeffs[i]]
    BY <1>2, <1>3
  <2>2. QED
    BY <1>3, <2>1, VectorOf DEF Vector
<1>7. Scores(Terms, scored) /\ scored.upto = Size
  BY <1>1, <1>2, NothingScores, ScoreGrows
<1>8. dense = [i \in 1..Len(dense) |-> dense[i]] /\ Len(dense) \in 0..Size
  <2>1. CASE setup.schrodinger
    <3>1. Len(<<>>) = 0 /\ 0 \in Nat
      OBVIOUS
    <3>2. dense = [i \in 1..Size |-> dense[i]]
      BY <1>1, <1>2, <1>7, <2>1, <3>1, ScatteredIs
    <3>3. QED
      BY <1>3, <3>2, VectorOf DEF Vector
  <2>2. CASE ~setup.schrodinger
    BY <1>2, <1>3, <2>2
  <2>3. QED
    BY <2>1, <2>2
<1>9. \A i \in 1..Len(coeffs) : Terms[i] \notin DOMAIN pending
  BY <1>1, <1>2, <1>3, <1>6 DEF ToSet, seeds
<1>10. pending = [M \in DOMAIN pending |-> pending[M]] /\ DOMAIN pending \subseteq Monomials
  BY <1>2, <1>4
<1>11. ~setup.schrodinger => DOMAIN pending = {} /\ dense = <<>>
  BY <1>2, <1>5
<1>12. QED
  BY <1>1, <1>6, <1>7, <1>8, <1>9, <1>10, <1>11 DEF CachesInv

\* Every operation keeps the vectors right.
LEMMA CachesStep ==
  ASSUME RowsInv, TableInv, CachesInv, [Next]_vars
  PROVE  CachesInv'
<1>0. /\ Terms \in Seq(Monomials) /\ Len(Terms) = Size /\ Size \in Nat /\ DOMAIN Terms = 1..Size
      /\ setup \in Setups /\ setup.schrodinger \in BOOLEAN
      /\ Vector(coeffs, Size) /\ Len(coeffs) \in Nat /\ Len(coeffs) <= Size
      /\ Scores(Terms, scored) /\ scored.upto \in 0..Size
      /\ Vector(dense, scored.upto) /\ Vector(dense, Size)
      /\ pending = [M \in DOMAIN pending |-> pending[M]] /\ DOMAIN pending \subseteq Monomials
      /\ \A i \in 1..Len(coeffs) : Terms[i] \notin DOMAIN pending
      /\ ~setup.schrodinger => DOMAIN pending = {} /\ dense = <<>>
  BY RowFacts, CachesFacts DEF CachesInv, Vector
<1>1. ASSUME UNCHANGED <<setup, rows, overflow, coeffs, pending, scored, dense>> PROVE CachesInv'
  <2>1. Terms' = Terms /\ Size' = Size
    BY <1>1, SameRows
  <2>2. QED
    BY <1>0, <1>1, <2>1, CachesPrimed
<1>2. ASSUME NEW batch \in Batches, InsertAbsent(batch) PROVE CachesInv'
  <2>1. UNCHANGED <<setup, coeffs, pending, scored, dense>>
    BY <1>2 DEF InsertAbsent
  <2>2. PICK misses \in Seq(Monomials) : Terms' = Terms \o misses /\ Size' = Size + Len(misses)
    BY <1>2, Growth
  <2>3. /\ Len(misses) \in Nat /\ \A i \in 1..Size : Terms'[i] = Terms[i]
    BY <1>0, <2>2, ConcatFacts
  <2>4. Scores(Terms', scored')
    BY <1>0, <2>1, <2>2, ScoresStay
  <2>5. Vector(coeffs', Size') /\ Vector(dense', scored'.upto)
    BY <1>0, <2>1, <2>2, <2>3 DEF Vector
  <2>6. \A i \in 1..Len(coeffs') : Terms'[i] \notin DOMAIN pending'
    <3>1. \A i \in 1..Len(coeffs) : i \in 1..Size
      BY <1>0
    <3>2. QED
      BY <1>0, <2>1, <2>3, <3>1
  <2>7. QED
    BY <1>0, <2>1, <2>4, <2>5, <2>6, CachesPrimed
<1>3. CASE current_picture_coeffs_
  <2>1. UNCHANGED <<setup, rows, overflow>>
    BY <1>3 DEF current_picture_coeffs_
  <2>2. Terms' = Terms /\ Size' = Size
    BY <2>1, SameRows
  <2>3. CASE setup.schrodinger
    <3>1. scored' = score_new_state_rows_ /\ dense' = dense_state /\ UNCHANGED <<coeffs, pending>>
      BY <1>3, <2>3 DEF current_picture_coeffs_
    <3>2. Scores(Terms', scored') /\ scored'.upto = Size
      BY <2>2, <3>1, StateFacts
    <3>3. Vector(dense', scored'.upto)
      BY <3>1, <3>2, ExtendedState
    <3>4. QED
      BY <1>0, <2>1, <2>2, <2>3, <3>1, <3>2, <3>3, CachesPrimed
  <2>4. CASE ~setup.schrodinger
    <3>1. ExtendOperator /\ UNCHANGED <<scored, dense>>
      BY <1>3, <2>4 DEF current_picture_coeffs_
    <3>2. /\ Vector(coeffs', Size') /\ pending' = [M \in DOMAIN pending' |-> pending[M]]
          /\ DOMAIN pending' = DOMAIN pending \ ToSet(Terms)
          /\ \A i \in 1..Len(coeffs') : Terms'[i] \notin DOMAIN pending'
      BY <2>2, <3>1, ExtendedOperator
    <3>3. DOMAIN pending' = {} /\ pending' = [M \in DOMAIN pending' |-> pending'[M]]
      BY <1>0, <2>4, <3>2
    <3>4. QED
      BY <1>0, <2>1, <2>2, <2>4, <3>1, <3>2, <3>3, CachesPrimed
  <2>5. QED
    BY <2>3, <2>4
<1>4. CASE initialize_operator_caches_
  <2>1. /\ UNCHANGED <<setup, rows, overflow>> /\ ExtendOperator /\ scored' = score_new_state_rows_
        /\ dense' = IF setup.schrodinger THEN dense_state ELSE dense
    BY <1>4 DEF initialize_operator_caches_
  <2>2. Terms' = Terms /\ Size' = Size
    BY <2>1, SameRows
  <2>3. /\ Vector(coeffs', Size') /\ pending' = [M \in DOMAIN pending' |-> pending[M]]
        /\ DOMAIN pending' = DOMAIN pending \ ToSet(Terms)
        /\ \A i \in 1..Len(coeffs') : Terms'[i] \notin DOMAIN pending'
    BY <2>1, <2>2, ExtendedOperator
  <2>4. Scores(Terms', scored') /\ scored'.upto = Size
    BY <2>1, <2>2, StateFacts
  <2>5. Vector(dense', scored'.upto) /\ (~setup.schrodinger => dense' = <<>>)
    BY <1>0, <2>1, <2>4, ExtendedState
  <2>6. DOMAIN pending' \subseteq Monomials /\ pending' = [M \in DOMAIN pending' |-> pending'[M]]
    BY <1>0, <2>3
  <2>7. ~setup.schrodinger => DOMAIN pending' = {}
    BY <1>0, <2>3
  <2>8. QED
    BY <1>0, <2>1, <2>2, <2>3, <2>4, <2>5, <2>6, <2>7, CachesPrimed
<1>5. CASE Contract
  <2> DEFINE drifted(v) == [i \in 1 .. Size |-> v[i] + Drift]
  <2>1. UNCHANGED <<setup, rows, overflow>>
    BY <1>5 DEF Contract
  <2>2. Terms' = Terms /\ Size' = Size
    BY <2>1, SameRows
  <2>3. \A v : Vector(drifted(v), Size) /\ Len(drifted(v)) = Size
    BY <1>0 DEF Vector
  <2>4. CASE setup.schrodinger
    <3>1. scored' = score_new_state_rows_ /\ dense' = drifted(dense_state) /\ UNCHANGED <<coeffs, pending>>
      BY <1>5, <2>4 DEF Contract
    <3>2. Scores(Terms', scored') /\ scored'.upto = Size
      BY <2>2, <3>1, StateFacts
    <3> HIDE DEF drifted
    <3>3. Vector(dense', scored'.upto)
      BY <2>3, <3>1, <3>2
    <3>4. QED
      BY <1>0, <2>1, <2>2, <2>4, <3>1, <3>2, <3>3, CachesPrimed
  <2>5. CASE ~setup.schrodinger
    <3>1. coeffs' = drifted(get_operator) /\ pending' = StillPending /\ UNCHANGED <<scored, dense>>
      BY <1>5, <2>5 DEF Contract
    <3>2. /\ pending' = [M \in DOMAIN pending' |-> pending[M]]
          /\ DOMAIN pending' = DOMAIN pending \ ToSet(Terms)
      BY <3>1, OperatorFacts
    <3>3. DOMAIN pending' = {} /\ pending' = [M \in DOMAIN pending' |-> pending'[M]]
      BY <1>0, <2>5, <3>2
    <3> HIDE DEF drifted
    <3>4. Vector(coeffs', Size')
      BY <2>2, <2>3, <3>1
    <3>5. QED
      BY <1>0, <2>1, <2>2, <2>5, <3>1, <3>3, <3>4, CachesPrimed
  <2>6. QED
    BY <2>4, <2>5
<1>6. ASSUME NEW dict \in Dicts, update_initial_operator(dict) PROVE CachesInv'
  <2> DEFINE known == {M \in DOMAIN dict : find(M) # kNotFound}
             waits == IF setup.schrodinger THEN DOMAIN dict \ known ELSE DOMAIN dict \cap DOMAIN pending
  <2>1. /\ UNCHANGED <<setup, rows, overflow, scored, dense>>
        /\ pending' = [M \in waits |-> dict[M]]
        /\ coeffs' = [i \in 1 .. Size |->
                        IF \E M \in known \ waits : find(M) = i - 1
                        THEN dict[CHOOSE M \in known : find(M) = i - 1] ELSE 0]
    BY <1>6 DEF update_initial_operator
  <2>2. Terms' = Terms /\ Size' = Size
    BY <2>1, SameRows
  <2>3. DOMAIN dict \subseteq Monomials
    BY StoreAssumption
  <2>4. Vector(coeffs', Size) /\ Len(coeffs') = Size
    BY <1>0, <2>1 DEF Vector
  <2>5. \A i \in 1..Size : Terms[i] \notin waits
    <3>1. CASE setup.schrodinger
      <4>1. \A i \in 1..Size : Terms[i] \in ToSet(Terms)
        BY <1>0 DEF ToSet
      <4>2. \A M \in waits : M \in Monomials /\ find(M) = kNotFound
        BY <2>3, <3>1
      <4>3. QED
        BY <4>1, <4>2, FindIs
    <3>2. CASE ~setup.schrodinger
      BY <1>0, <3>2
    <3>3. QED
      BY <3>1, <3>2
  <2>6. waits \subseteq Monomials /\ (~setup.schrodinger => waits = {})
    BY <1>0, <2>3
  <2> HIDE DEF waits
  <2>7. DOMAIN pending' = waits /\ pending' = [M \in DOMAIN pending' |-> pending'[M]]
    BY <2>1
  <2>8. QED
    BY <1>0, <2>1, <2>2, <2>4, <2>5, <2>6, <2>7, CachesPrimed
<1>7. ASSUME NEW G \in Generators, Scan(G) PROVE CachesInv'
  BY <1>1, <1>7 DEF Scan
<1>8. CASE Copy
  BY <1>1, <1>8 DEF Copy
<1>9. CASE UNCHANGED vars
  BY <1>1, <1>9 DEF vars
<1>10. QED
  BY <1>2, <1>3, <1>4, <1>5, <1>6, <1>7, <1>8, <1>9 DEF Next

\* The index of a new store is that of its rows.
LEMMA InitIndex ==
  ASSUME Init
  PROVE  IndexInv
<1>1. RowsInv /\ Terms = SeedOrder(setup)
  BY InitRows
<1>2. index = rebuild(SeedOrder(setup)) /\ scratch = ZeroBlock
  BY DEF Init
<1>3. QED
  BY <1>1, <1>2, RowFacts, RebuildIndexes DEF IndexInv

\* Every operation keeps the index that of the rows.
LEMMA IndexStep ==
  ASSUME RowsInv, TableInv, IndexInv, [Next]_vars
  PROVE  IndexInv'
<1>0. Indexes(index, Terms) /\ scratch = ZeroBlock /\ Terms \in Seq(Monomials) /\ Len(Terms) = Size
  BY RowFacts DEF IndexInv
<1>1. ASSUME UNCHANGED <<rows, overflow, index, scratch>> PROVE IndexInv'
  <2>1. Terms' = Terms
    BY <1>1, SameRows
  <2>2. QED
    BY <1>0, <1>1, <2>1 DEF IndexInv
<1>2. ASSUME NEW batch \in Batches, InsertAbsent(batch) PROVE IndexInv'
  <2>1. UNCHANGED scratch
    BY <1>2 DEF InsertAbsent
  <2>2. PICK misses \in Seq(Monomials) : Terms' = Terms \o misses /\ index' = append_rows(index, misses, Size)
    BY <1>2, Growth
  <2>3. Indexes(index', Terms')
    BY <1>0, <2>2, AppendIndexes
  <2>4. QED
    BY <1>0, <2>1, <2>3 DEF IndexInv
<1>3. ASSUME NEW G \in Generators, Scan(G) PROVE IndexInv'
  <2>1. /\ UNCHANGED <<rows, overflow>>
        /\ index' = index \/ index' = WithParity(index)
        /\ scratch' = scratch \/ scratch' = ZeroBlock
    BY <1>3 DEF Scan, Wipe
  <2>2. Terms' = Terms
    BY <2>1, SameRows
  <2>3. Indexes(index', Terms)
    BY <1>0, <2>1, ParityIndexes
  <2>4. QED
    BY <1>0, <2>1, <2>2, <2>3 DEF IndexInv
<1>4. CASE current_picture_coeffs_
  BY <1>1, <1>4 DEF current_picture_coeffs_
<1>5. CASE initialize_operator_caches_
  BY <1>1, <1>5 DEF initialize_operator_caches_
<1>6. CASE Contract
  BY <1>1, <1>6 DEF Contract
<1>7. ASSUME NEW dict \in Dicts, update_initial_operator(dict) PROVE IndexInv'
  BY <1>1, <1>7 DEF update_initial_operator
<1>8. CASE Copy
  BY <1>1, <1>8 DEF Copy
<1>9. CASE UNCHANGED vars
  BY <1>1, <1>9 DEF vars
<1>10. QED
  BY <1>2, <1>3, <1>4, <1>5, <1>6, <1>7, <1>8, <1>9 DEF Next

\* Every structure of the store has its shape.
THEOREM StoreShapes == Spec => []StoreTypeOK
<1>1. Init => StoreTypeOK
  BY InitRows, InitCaches, InitIndex DEF StoreTypeOK
<1>2. StoreTypeOK /\ [Next]_vars => StoreTypeOK'
  BY RowsAndTableStep, CachesStep, IndexStep DEF StoreTypeOK
<1>3. QED
  BY <1>1, <1>2, PTL DEF Spec

(***************************************************************************)
(* The promise of the store                                                *)
(***************************************************************************)

\* What a setup is.
LEMMA SetupIs ==
  ASSUME NEW s \in Setups
  PROVE  /\ s \in [basis : Bases, schrodinger : BOOLEAN, max_pairs : Nat, initial_state : SUBSET ModeIds,
                   initial_operator : Seq([term : Monomials, coeff : Int])]
         /\ IsInjective([i \in DOMAIN s.initial_operator |-> s.initial_operator[i].term])
  BY StoreAssumption

\* The promise counts as the store does.
LEMMA PromisedCardinality == \A S : Promise!Cardinality(S) = Cardinality(S)
  BY DEF Promise!Cardinality, Cardinality

\* The seeds of the promise are those of the store.
LEMMA PromisedSeeds == Promise!SeedOrder(setup) = SeedOrder(setup)
<1>1. Promise!Monomials = Monomials
  BY DEF Promise!Monomials, Promise!Bits, Monomials, Bits
<1>2. \A M : Promise!is_paired(M) <=> is_paired(M)
  BY DEF Promise!is_paired, is_paired, Promise!ModeIds, ModeIds, Promise!has_even, has_even, Promise!has_odd, has_odd
<1>3. Promise!SeedTerms(setup) = SeedTerms(setup)
  BY <1>1, <1>2, PromisedCardinality DEF Promise!SeedTerms, SeedTerms
<1>4. \A A, B : Promise!PairedBefore(A, B) <=> PairedBefore(A, B)
  BY PromisedCardinality DEF Promise!PairedBefore, PairedBefore, Promise!ModeIds, ModeIds, Promise!has_even, has_even
<1>5. \A S : Promise!PairedOrder(S) = PairedOrder(S)
  BY <1>4 DEF Promise!PairedOrder, PairedOrder
<1>6. \A S, R : Promise!InOrder(S, R) = InOrder(S, R)
  BY DEF Promise!InOrder, InOrder, Promise!Cardinality, Cardinality
<1>7. QED
  BY <1>3, <1>5, <1>6 DEF Promise!SeedOrder, SeedOrder

\* So is the value in the initial state.
LEMMA PromisedPhase ==
  ASSUME NEW basis, NEW M, NEW mask
  PROVE  Promise!state_phase(basis, M, mask) = state_phase(basis, M, mask)
<1>1. \A n : Promise!Odd(n) <=> Odd(n)
  BY DEF Promise!Odd, Odd
<1>2. \A n : Promise!Sign(n) = Sign(n)
  BY DEF Promise!Sign, Sign
<1>3. Promise!majorana_state_phase(M, mask) = majorana_state_phase(M, mask)
  BY PromisedCardinality DEF Promise!majorana_state_phase, majorana_state_phase, Promise!Odd, Odd, Promise!Sign, Sign
<1>4. Promise!pauli_state_phase(M, mask) = pauli_state_phase(M, mask)
  BY PromisedCardinality DEF Promise!pauli_state_phase, pauli_state_phase, Promise!Odd, Odd, Promise!Sign, Sign
<1>5. QED
  BY <1>3, <1>4 DEF Promise!state_phase, state_phase

\* The promise and the store agree on the amplitude of a term as constructed.
LEMMA PromisedBorn ==
  ASSUME setup \in Setups, NEW M
  PROVE  /\ Promise!BornAmplitude([setup EXCEPT !.schrodinger = TRUE], M) = Born(M)
         /\ BornAmplitude([setup EXCEPT !.schrodinger = TRUE], M) = Born(M)
<1> DEFINE s == [setup EXCEPT !.schrodinger = TRUE]
<1>1. s.schrodinger = TRUE /\ s.basis = setup.basis /\ s.initial_state = setup.initial_state
  BY SetupIs
<1> HIDE DEF s
<1>2. BornAmplitude(s, M) = Born(M)
  BY <1>1 DEF BornAmplitude, Born
<1>3. Promise!is_paired(M) <=> is_paired(M)
  BY DEF Promise!is_paired, is_paired, Promise!ModeIds, ModeIds, Promise!has_even, has_even, Promise!has_odd, has_odd
<1>4. \A occupied : Promise!initial_state_mask(occupied) = initial_state_mask(occupied)
  BY DEF Promise!initial_state_mask, initial_state_mask
<1>5. Promise!BornAmplitude(s, M) = BornAmplitude(s, M)
  BY <1>3, <1>4, PromisedPhase DEF Promise!BornAmplitude, BornAmplitude
<1>6. QED
  BY <1>2, <1>5 DEF s

\* In the Heisenberg picture a monomial that the user did not give has no coefficient.
LEMMA PromisedCoefficients ==
  ASSUME setup \in Setups, NEW M
  PROVE  LET s == [setup EXCEPT !.schrodinger = FALSE]
         IN  /\ Promise!SeedAmplitude(s, M) = SeedAmplitude(s, M)
             /\ (\A i \in DOMAIN setup.initial_operator : setup.initial_operator[i].term # M) => SeedAmplitude(s, M) = 0
<1> DEFINE s == [setup EXCEPT !.schrodinger = FALSE]
<1>1. s.schrodinger = FALSE /\ s.initial_operator = setup.initial_operator
  BY SetupIs
<1> HIDE DEF s
<1>2. BornAmplitude(s, M) = 0 /\ Promise!BornAmplitude(s, M) = 0
  BY <1>1 DEF BornAmplitude, Promise!BornAmplitude
<1>3. Promise!SeedAmplitude(s, M) = SeedAmplitude(s, M)
  BY <1>2 DEF Promise!SeedAmplitude, SeedAmplitude
<1>4. ASSUME \A i \in DOMAIN setup.initial_operator : setup.initial_operator[i].term # M PROVE SeedAmplitude(s, M) = 0
  BY <1>1, <1>2, <1>4 DEF SeedAmplitude
<1>5. QED
  BY <1>3, <1>4 DEF s

\* The value of every monomial, as a function of the list and of the vectors.
OpOf(list, v, waiting) ==
  [M \in Monomials |->
     ValueAt(v, {i \in 1..Len(v) : list[i] = M}, IF M \in DOMAIN waiting THEN waiting[M] ELSE 0)]

StateOf(list, v, score, born) ==
  [M \in Monomials |->
     ValueAt(v, {i \in 1..Len(v) : list[i] = M},
             IF \A i \in 1..score.upto : list[i] # M THEN born[M]
             ELSE ValueAt(score.vals, {k \in DOMAIN score.rows : list[score.rows[k] + 1] = M}, 0))]

BornOf(s) == [M \in Monomials |-> BornAmplitude([s EXCEPT !.schrodinger = TRUE], M)]

\* The two refinement mappings, now and in the next state, as functions of list and vectors.
LEMMA AbsAre ==
  /\ AbsOp = OpOf(Terms, coeffs, pending) /\ AbsOp' = OpOf(Terms', coeffs', pending')
  /\ AbsState = StateOf(Terms, dense, scored, BornOf(setup))
  /\ AbsState' = StateOf(Terms', dense', scored', BornOf(setup'))
<1>1. AbsOp = OpOf(Terms, coeffs, pending) /\ AbsOp' = OpOf(Terms', coeffs', pending')
  BY DEF AbsOp, OpOf
<1>2. AbsState = StateOf(Terms, dense, scored, BornOf(setup))
  BY DEF AbsState, StateOf, BornOf
<1>3. AbsState' = StateOf(Terms', dense', scored', BornOf(setup'))
  BY DEF AbsState, StateOf, BornOf
<1>4. QED
  BY <1>1, <1>2, <1>3

\* A value that is in the vector.
LEMMA ValueThere == ASSUME NEW v, NEW i, NEW otherwise PROVE ValueAt(v, {i}, otherwise) = v[i]
<1>1. (CHOOSE j \in {i} : TRUE) = i
  OBVIOUS
<1>2. QED
  BY <1>1 DEF ValueAt

\* A value that is not in the vector.
LEMMA ValueElsewhere == ASSUME NEW v, NEW otherwise PROVE ValueAt(v, {}, otherwise) = otherwise
  BY DEF ValueAt

\* A term that has an entry in the vector, and one that has none.
LEMMA OpAt ==
  ASSUME NEW list, NEW n \in Nat, \A i, j \in 1..n : list[i] = list[j] => i = j,
         NEW v, Len(v) \in Nat, Len(v) <= n, NEW waiting, NEW M \in Monomials
  PROVE  /\ \A i \in 1..Len(v) : list[i] = M => OpOf(list, v, waiting)[M] = v[i]
         /\ (\A i \in 1..Len(v) : list[i] # M)
              => OpOf(list, v, waiting)[M] = IF M \in DOMAIN waiting THEN waiting[M] ELSE 0
<1> DEFINE at == {i \in 1..Len(v) : list[i] = M}
           otherwise == IF M \in DOMAIN waiting THEN waiting[M] ELSE 0
<1>1. OpOf(list, v, waiting)[M] = ValueAt(v, at, otherwise)
  BY DEF OpOf
<1>2. ASSUME NEW i \in 1..Len(v), list[i] = M PROVE at = {i}
  BY <1>2
<1>3. ASSUME \A i \in 1..Len(v) : list[i] # M PROVE at = {}
  BY <1>3
<1> HIDE DEF at, otherwise
<1>4. ASSUME NEW i \in 1..Len(v), list[i] = M PROVE OpOf(list, v, waiting)[M] = v[i]
  BY <1>1, <1>2, <1>4, ValueThere
<1>5. ASSUME \A i \in 1..Len(v) : list[i] # M PROVE OpOf(list, v, waiting)[M] = otherwise
  BY <1>1, <1>3, <1>5, ValueElsewhere
<1>6. QED
  BY <1>4, <1>5 DEF otherwise

\* The coefficients, term by term.
LEMMA OpIs ==
  ASSUME NEW list, NEW n \in Nat, DOMAIN list = 1..n, \A i \in 1..n : list[i] \in Monomials,
         \A i, j \in 1..n : list[i] = list[j] => i = j,
         NEW v, Len(v) \in Nat, Len(v) <= n,
         NEW waiting, \A i \in 1..Len(v) : list[i] \notin DOMAIN waiting
  PROVE  /\ OpOf(list, v, waiting) = [M \in Monomials |-> OpOf(list, v, waiting)[M]]
         /\ \A i \in 1..n : OpOf(list, v, waiting)[list[i]] = IF list[i] \in DOMAIN waiting THEN waiting[list[i]]
                                                              ELSE IF i <= Len(v) THEN v[i] ELSE 0
         /\ \A M \in Monomials \ ToSet(list) :
              OpOf(list, v, waiting)[M] = IF M \in DOMAIN waiting THEN waiting[M] ELSE 0
<1> DEFINE op == OpOf(list, v, waiting)
<1>1. op = [M \in Monomials |-> op[M]]
  BY DEF OpOf
<1>2. \A M \in Monomials :
        /\ \A i \in 1..Len(v) : list[i] = M => op[M] = v[i]
        /\ (\A i \in 1..Len(v) : list[i] # M) => op[M] = IF M \in DOMAIN waiting THEN waiting[M] ELSE 0
  BY OpAt
<1> HIDE DEF op
<1>3. ASSUME NEW i \in 1..n
      PROVE  op[list[i]] = IF list[i] \in DOMAIN waiting THEN waiting[list[i]] ELSE IF i <= Len(v) THEN v[i] ELSE 0
  <2>1. CASE i <= Len(v)
    <3>1. i \in 1..Len(v)
      BY <2>1
    <3>2. QED
      BY <1>2, <2>1, <3>1
  <2>2. CASE ~(i <= Len(v))
    <3>1. \A j \in 1..Len(v) : j \in 1..n /\ j # i
      BY <2>2
    <3>2. \A j \in 1..Len(v) : list[j] # list[i]
      BY <3>1
    <3>3. QED
      BY <1>2, <2>2, <3>2
  <2>3. QED
    BY <2>1, <2>2
<1>4. ASSUME NEW M \in Monomials \ ToSet(list) PROVE op[M] = IF M \in DOMAIN waiting THEN waiting[M] ELSE 0
  <2>1. \A i \in 1..Len(v) : i \in DOMAIN list
    OBVIOUS
  <2>2. \A i \in 1..Len(v) : list[i] # M
    BY <2>1 DEF ToSet
  <2>3. QED
    BY <1>2, <2>2
<1>5. QED
  BY <1>1, <1>3, <1>4 DEF op

\* The values in the state: those of the vector, and otherwise those at the start.
LEMMA StateIs ==
  ASSUME NEW list \in Seq(Monomials), \A i, j \in 1..Len(list) : list[i] = list[j] => i = j,
         setup \in Setups, NEW score, Scores(list, score), NEW v, Len(v) \in Nat, Len(v) <= score.upto
  PROVE  LET st == StateOf(list, v, score, BornOf(setup))
         IN  /\ st = [M \in Monomials |-> st[M]]
             /\ \A i \in 1..Len(v) : st[list[i]] = v[i]
             /\ \A M \in Monomials : (\A i \in 1..Len(v) : list[i] # M) => st[M] = Born(M)
<1> DEFINE st == StateOf(list, v, score, BornOf(setup))
<1>1. Len(list) \in Nat /\ score.upto \in 0..Len(list) /\ score.upto \in Nat /\ \A i \in 1..Len(list) : list[i] \in Monomials
  BY DEF Scores
<1>2. st = [M \in Monomials |-> st[M]]
  BY DEF StateOf
<1>3. ASSUME NEW i \in 1..Len(v) PROVE st[list[i]] = v[i]
  <2> DEFINE at == {j \in 1..Len(v) : list[j] = list[i]}
  <2>1. i \in 1..Len(list) /\ \A j \in 1..Len(v) : j \in 1..Len(list)
    BY <1>1
  <2>2. at = {i}
    BY <2>1
  <2>3. list[i] \in Monomials
    BY <1>1, <2>1
  <2> HIDE DEF at
  <2>4. \E otherwise : st[list[i]] = ValueAt(v, at, otherwise)
    BY <2>3 DEF StateOf, at
  <2>5. QED
    BY <2>2, <2>4, ValueThere
<1>4. ASSUME NEW M \in Monomials, \A i \in 1..Len(v) : list[i] # M PROVE st[M] = Born(M)
  <2> DEFINE at == {j \in 1..Len(v) : list[j] = M}
             here == {k \in DOMAIN score.rows : list[score.rows[k] + 1] = M}
             there == IF \A i \in 1..score.upto : list[i] # M THEN BornOf(setup)[M] ELSE ValueAt(score.vals, here, 0)
  <2>1. at = {}
    BY <1>4
  <2>2. st[M] = ValueAt(v, at, there)
    BY DEF StateOf
  <2>3. st[M] = there
    <3> HIDE DEF at, there
    <3>1. QED
      BY <2>1, <2>2, ValueElsewhere
  <2>4. CASE \A i \in 1..score.upto : list[i] # M
    BY <2>3, <2>4, PromisedBorn DEF BornOf
  <2>5. CASE ~(\A i \in 1..score.upto : list[i] # M)
    <3>1. PICK i \in 1..score.upto : list[i] = M
      BY <2>5
    <3>2. i \in 1..Len(list) /\ i - 1 \in 0..(score.upto - 1) /\ (i - 1) + 1 = i
      BY <1>1
    <3>3. there = ValueAt(score.vals, here, 0)
      BY <2>5
    <3> DEFINE c == Cardinality(PairedRows(list, score.upto))
    <3>4. /\ DOMAIN score.rows = 1..c
          /\ \A k \in 1..c : score.rows[k] \in PairedRows(list, score.upto)
          /\ \A r \in PairedRows(list, score.upto) : \E k \in 1..c : score.rows[k] = r
          /\ \A j, k \in 1..c : score.rows[j] = score.rows[k] => j = k
          /\ \A k \in 1..c : score.vals[k] = state_phase(setup.basis, list[score.rows[k] + 1],
                                                         initial_state_mask(setup.initial_state))
      BY ScoreFacts
    <3> HIDE DEF c, there
    <3>5. \A r \in PairedRows(list, score.upto) : r + 1 \in 1..Len(list) /\ is_paired(list[r + 1]) /\ (r + 1) - 1 = r
      BY <1>1 DEF PairedRows
    <3>6. CASE is_paired(M)
      <4>1. i - 1 \in PairedRows(list, score.upto)
        BY <3>1, <3>2, <3>6 DEF PairedRows
      <4>2. PICK k \in 1..c : score.rows[k] = i - 1
        BY <3>4, <4>1
      <4>3. ASSUME NEW j \in 1..c, list[score.rows[j] + 1] = M PROVE j = k
        <5>1. score.rows[j] \in PairedRows(list, score.upto)
          BY <3>4
        <5>2. score.rows[j] + 1 = i
          BY <3>1, <3>2, <3>5, <4>3, <5>1
        <5>3. score.rows[j] = i - 1
          BY <3>5, <5>1, <5>2
        <5>4. QED
          BY <3>4, <4>2, <5>3
      <4>4. here = {k}
        BY <3>1, <3>2, <3>4, <4>2, <4>3, SMTT(30)
      <4> HIDE DEF here
      <4>5. st[M] = score.vals[k]
        BY <2>3, <3>3, <4>4, ValueThere
      <4>6. QED
        BY <3>1, <3>2, <3>4, <3>6, <4>2, <4>5 DEF Born
    <3>7. CASE ~is_paired(M)
      <4>1. here = {}
        BY <3>4, <3>5, <3>7
      <4> HIDE DEF here
      <4>2. st[M] = 0
        BY <2>3, <3>3, <4>1, ValueElsewhere
      <4>3. QED
        BY <3>7, <4>2 DEF Born
    <3>8. QED
      BY <3>6, <3>7
  <2>6. QED
    BY <2>4, <2>5
<1>5. QED
  BY <1>2, <1>3, <1>4

\* Every monomial is a term of some row or none.
LEMMA TermsCover == ASSUME RowsInv PROVE \A M : M \in ToSet(Terms) <=> \E i \in 1..Size : Terms[i] = M
<1>1. DOMAIN Terms = 1..Size
  BY RowFacts
<1>2. QED
  BY <1>1 DEF ToSet

\* The values that the store holds, however short its vectors are.
LEMMA OpNow ==
  ASSUME RowsInv, TableInv, CachesInv
  PROVE  /\ AbsOp = [M \in Monomials |-> AbsOp[M]]
         /\ \A i \in 1..Size : AbsOp[Terms[i]] = IF Terms[i] \in DOMAIN pending THEN pending[Terms[i]]
                                                 ELSE IF i <= Len(coeffs) THEN coeffs[i] ELSE 0
         /\ \A i \in 1..Size : AbsOp[Terms[i]] = get_operator[i]
         /\ \A M \in Monomials \ ToSet(Terms) : AbsOp[M] = IF M \in DOMAIN pending THEN pending[M] ELSE 0
<1>1. /\ AbsOp = [M \in Monomials |-> AbsOp[M]]
      /\ \A i \in 1..Size : AbsOp[Terms[i]] = IF Terms[i] \in DOMAIN pending THEN pending[Terms[i]]
                                              ELSE IF i <= Len(coeffs) THEN coeffs[i] ELSE 0
      /\ \A M \in Monomials \ ToSet(Terms) : AbsOp[M] = IF M \in DOMAIN pending THEN pending[M] ELSE 0
  <2> DEFINE list == Terms
             n == Size
  <2>1. /\ n \in Nat /\ DOMAIN list = 1..n /\ \A i \in 1..n : list[i] \in Monomials
        /\ \A i, j \in 1..n : list[i] = list[j] => i = j
    BY RowFacts
  <2>2. Len(coeffs) \in Nat /\ Len(coeffs) <= n
    BY CachesFacts
  <2>3. \A i \in 1..Len(coeffs) : list[i] \notin DOMAIN pending
    BY DEF CachesInv
  <2>4. AbsOp = OpOf(list, coeffs, pending)
    BY AbsAre
  <2> HIDE DEF list, n
  <2>5. /\ AbsOp = [M \in Monomials |-> AbsOp[M]]
        /\ \A i \in 1..n : AbsOp[list[i]] = IF list[i] \in DOMAIN pending THEN pending[list[i]]
                                            ELSE IF i <= Len(coeffs) THEN coeffs[i] ELSE 0
        /\ \A M \in Monomials \ ToSet(list) : AbsOp[M] = IF M \in DOMAIN pending THEN pending[M] ELSE 0
    BY <2>1, <2>2, <2>3, <2>4, OpIs
  <2>6. QED
    BY <2>5 DEF list, n
<1>2. \A i \in 1..Size : AbsOp[Terms[i]] = get_operator[i]
  BY <1>1, OperatorFacts
<1>3. QED
  BY <1>1, <1>2

\* The values of the state: in the vector, as dense_state would extend it, and the rest as constructed.
LEMMA StateNow ==
  ASSUME RowsInv, CachesInv
  PROVE  /\ AbsState = [M \in Monomials |-> AbsState[M]]
         /\ \A i \in 1..Size : AbsState[Terms[i]] = IF i <= Len(dense) THEN dense[i] ELSE Born(Terms[i])
         /\ \A i \in 1..Size : AbsState[Terms[i]] = dense_state[i]
         /\ \A M \in Monomials \ ToSet(Terms) : AbsState[M] = Born(M)
<1>0. /\ Terms \in Seq(Monomials) /\ Len(Terms) = Size /\ Size \in Nat /\ DOMAIN Terms = 1..Size
      /\ \A i, j \in 1..Len(Terms) : Terms[i] = Terms[j] => i = j
      /\ \A i \in 1..Size : Terms[i] \in Monomials
  BY RowFacts
<1>1. setup \in Setups /\ Scores(Terms, scored) /\ Len(dense) \in Nat /\ Len(dense) <= scored.upto /\ Len(dense) <= Size
  BY CachesFacts
<1>2. /\ AbsState = [M \in Monomials |-> AbsState[M]]
      /\ \A i \in 1..Len(dense) : AbsState[Terms[i]] = dense[i]
      /\ \A M \in Monomials : (\A i \in 1..Len(dense) : Terms[i] # M) => AbsState[M] = Born(M)
  BY <1>0, <1>1, AbsAre, StateIs
<1>3. ASSUME NEW i \in 1..Size PROVE AbsState[Terms[i]] = IF i <= Len(dense) THEN dense[i] ELSE Born(Terms[i])
  <2>1. CASE i <= Len(dense)
    <3>1. i \in 1..Len(dense)
      BY <1>1, <2>1
    <3>2. QED
      BY <1>2, <2>1, <3>1
  <2>2. CASE ~(i <= Len(dense))
    <3>1. \A j \in 1..Len(dense) : j \in 1..Len(Terms) /\ j # i
      BY <1>0, <1>1, <2>2
    <3>2. \A j \in 1..Len(dense) : Terms[j] # Terms[i]
      BY <1>0, <3>1
    <3>3. QED
      BY <1>0, <1>2, <2>2, <3>2
  <2>3. QED
    BY <2>1, <2>2
<1>4. \A M \in Monomials \ ToSet(Terms) : AbsState[M] = Born(M)
  <2>1. \A i \in 1..Len(dense) : i \in DOMAIN Terms
    BY <1>0, <1>1
  <2>2. \A M \in Monomials \ ToSet(Terms), i \in 1..Len(dense) : Terms[i] # M
    BY <2>1 DEF ToSet
  <2>3. QED
    BY <1>2, <2>2
<1>5. QED
  BY <1>2, <1>3, <1>4, StateFacts

\* The values after a step that adds no term.
LEMMA OpLater ==
  ASSUME RowsInv, CachesInv', Terms' = Terms, Size' = Size
  PROVE  /\ AbsOp' = [M \in Monomials |-> AbsOp'[M]]
         /\ \A i \in 1..Size : AbsOp'[Terms[i]] = IF Terms[i] \in DOMAIN pending' THEN pending'[Terms[i]]
                                                  ELSE IF i <= Len(coeffs') THEN coeffs'[i] ELSE 0
         /\ \A M \in Monomials \ ToSet(Terms) : AbsOp'[M] = IF M \in DOMAIN pending' THEN pending'[M] ELSE 0
<1> DEFINE list == Terms
           n == Size
<1>1. /\ n \in Nat /\ DOMAIN list = 1..n /\ \A i \in 1..n : list[i] \in Monomials
      /\ \A i, j \in 1..n : list[i] = list[j] => i = j
  BY RowFacts
<1>2. Len(coeffs') \in 0..n /\ \A i \in 1..Len(coeffs') : list[i] \notin DOMAIN pending'
  BY DEF CachesInv
<1>3. AbsOp' = OpOf(list, coeffs', pending')
  BY AbsAre
<1> DEFINE v == coeffs'
           waiting == pending'
           op == AbsOp'
<1> HIDE DEF list, n, v, waiting, op
<1>4. Len(v) \in Nat /\ Len(v) <= n /\ \A i \in 1..Len(v) : list[i] \notin DOMAIN waiting
  BY <1>1, <1>2 DEF v, waiting
<1>5. op = OpOf(list, v, waiting)
  BY <1>3 DEF op, v, waiting
<1>6. /\ op = [M \in Monomials |-> op[M]]
      /\ \A i \in 1..n : op[list[i]] = IF list[i] \in DOMAIN waiting THEN waiting[list[i]]
                                       ELSE IF i <= Len(v) THEN v[i] ELSE 0
      /\ \A M \in Monomials \ ToSet(list) : op[M] = IF M \in DOMAIN waiting THEN waiting[M] ELSE 0
  BY <1>1, <1>4, <1>5, OpIs
<1>7. QED
  BY <1>6 DEF list, n, v, waiting, op

\* The values of the state after a step that keeps the terms.
LEMMA StateLater ==
  ASSUME RowsInv, CachesInv', Terms' = Terms, Size' = Size, setup' = setup
  PROVE  /\ AbsState' = [M \in Monomials |-> AbsState'[M]]
         /\ \A i \in 1..Len(dense') : AbsState'[Terms[i]] = dense'[i]
         /\ \A M \in Monomials : (\A i \in 1..Len(dense') : Terms[i] # M) => AbsState'[M] = Born(M)
         /\ Len(dense') \in Nat /\ Len(dense') <= Size
<1>1. /\ Terms \in Seq(Monomials) /\ Len(Terms) = Size /\ Size \in Nat
      /\ \A i, j \in 1..Len(Terms) : Terms[i] = Terms[j] => i = j
  BY RowFacts
<1>2. setup \in Setups /\ Scores(Terms, scored)' /\ Len(dense') \in 0..scored'.upto
  BY DEF CachesInv
<1>3. Scores(Terms, scored')
  BY <1>2 DEF Scores
<1>4. scored'.upto \in 0..Size
  BY <1>1, <1>3 DEF Scores
<1>5. Len(dense') \in Nat /\ Len(dense') <= scored'.upto /\ Len(dense') <= Size
  BY <1>1, <1>2, <1>4
<1>6. AbsState' = StateOf(Terms, dense', scored', BornOf(setup))
  BY AbsAre
<1> DEFINE list == Terms
           v == dense'
           score == scored'
           st == AbsState'
<1> HIDE DEF list, v, score, st
<1>7. /\ list \in Seq(Monomials) /\ (\A i, j \in 1..Len(list) : list[i] = list[j] => i = j) /\ Scores(list, score)
      /\ Len(v) \in Nat /\ Len(v) <= score.upto /\ st = StateOf(list, v, score, BornOf(setup))
  BY <1>1, <1>3, <1>5, <1>6 DEF list, v, score, st
<1>8. /\ st = [M \in Monomials |-> st[M]]
      /\ \A i \in 1..Len(v) : st[list[i]] = v[i]
      /\ \A M \in Monomials : (\A i \in 1..Len(v) : list[i] # M) => st[M] = Born(M)
  BY <1>2, <1>7, StateIs
<1>9. QED
  BY <1>5, <1>8 DEF list, v, st

\* A step that adds no term leaves the values alone when it extends the vectors with them.
LEMMA OpStays ==
  ASSUME RowsInv, TableInv, CachesInv, CachesInv', Terms' = Terms, Size' = Size, ExtendOperator
  PROVE  AbsOp' = AbsOp
<1>1. /\ Len(coeffs') = Size
      /\ \A i \in 1..Size : coeffs'[i] = IF Terms[i] \in DOMAIN pending THEN pending[Terms[i]]
                                         ELSE IF i <= Len(coeffs) THEN coeffs[i] ELSE 0
      /\ pending' = [M \in DOMAIN pending' |-> pending[M]]
      /\ DOMAIN pending' = DOMAIN pending \ ToSet(Terms)
  BY ExtendedOperator
<1>2. DOMAIN Terms = 1..Size /\ Size \in Nat
  BY RowFacts
<1>3. \A i \in 1..Size : Terms[i] \notin DOMAIN pending' /\ i <= Len(coeffs')
  BY <1>1, <1>2 DEF ToSet
<1>4. \A i \in 1..Size : AbsOp'[Terms[i]] = AbsOp[Terms[i]]
  BY <1>1, <1>3, OpNow, OpLater
<1>5. \A M \in Monomials \ ToSet(Terms) : AbsOp'[M] = AbsOp[M]
  BY <1>1, OpNow, OpLater
<1>6. AbsOp = [M \in Monomials |-> AbsOp[M]] /\ AbsOp' = [M \in Monomials |-> AbsOp'[M]]
  BY OpNow, OpLater
<1>7. \A M \in Monomials : AbsOp'[M] = AbsOp[M]
  BY <1>4, <1>5, TermsCover
<1>8. QED
  BY <1>6, <1>7

\* Extending the vector of the state changes no value.
LEMMA StateStays ==
  ASSUME RowsInv, CachesInv, CachesInv', Terms' = Terms, Size' = Size, setup' = setup,
         dense' = dense \/ dense' = dense_state
  PROVE  AbsState' = AbsState
<1>1. DOMAIN Terms = 1..Size /\ Size \in Nat /\ (\A i, j \in 1..Size : Terms[i] = Terms[j] => i = j)
      /\ \A i \in 1..Size : Terms[i] \in Monomials
  BY RowFacts
<1>2. ASSUME NEW i \in 1..Size PROVE AbsState'[Terms[i]] = AbsState[Terms[i]]
  <2>1. CASE i <= Len(dense')
    <3>1. AbsState'[Terms[i]] = dense'[i]
      BY <1>1, <2>1, StateLater
    <3>2. CASE dense' = dense
      BY <2>1, <3>1, <3>2, StateNow
    <3>3. CASE dense' = dense_state
      BY <3>1, <3>3, StateNow
    <3>4. QED
      BY <3>2, <3>3
  <2>2. CASE ~(i <= Len(dense'))
    <3>1. \A j \in 1..Len(dense') : j \in 1..Size /\ j # i
      BY <1>1, <2>2, StateLater
    <3>2. \A j \in 1..Len(dense') : Terms[j] # Terms[i]
      BY <1>1, <3>1
    <3>3. AbsState'[Terms[i]] = Born(Terms[i])
      BY <1>1, <3>2, StateLater
    <3>4. Len(dense') = Size \/ dense' = dense
      <4>1. dense_state = [k \in 1..Size |-> dense_state[k]]
        BY StateFacts
      <4>2. Len(dense_state) = Size
        BY <1>1, <4>1, VectorOf
      <4>3. QED
        BY <4>2
    <3>5. dense' = dense
      BY <1>1, <2>2, <3>4
    <3>6. QED
      BY <2>2, <3>3, <3>5, StateNow
  <2>3. QED
    BY <2>1, <2>2
<1>3. \A M \in Monomials \ ToSet(Terms) : AbsState'[M] = AbsState[M]
  <2>1. \A i \in 1..Len(dense') : i \in DOMAIN Terms
    BY <1>1, StateLater
  <2>2. \A M \in Monomials \ ToSet(Terms), i \in 1..Len(dense') : Terms[i] # M
    BY <2>1 DEF ToSet
  <2>3. QED
    BY <2>2, StateNow, StateLater
<1>4. AbsState = [M \in Monomials |-> AbsState[M]] /\ AbsState' = [M \in Monomials |-> AbsState'[M]]
  BY StateNow, StateLater
<1>5. \A M \in Monomials : AbsState'[M] = AbsState[M]
  BY <1>2, <1>3, TermsCover
<1>6. QED
  BY <1>4, <1>5

\* The promise is about the same monomials.
LEMMA PromisedMonomials == Promise!Monomials = Monomials
  BY DEF Promise!Monomials, Promise!Bits, Monomials, Bits

\* The promise reads and compares sequences alike.
LEMMA PromisedSets ==
  /\ \A s : Promise!ToSet(s) = ToSet(s)
  /\ \A s, t : Promise!IsPrefix(s, t) <=> Len(s) <= Len(t) /\ SubSeq(s, 1, Len(s)) = SubSeq(t, 1, Len(s))
<1>1. \A s : Promise!ToSet(s) = ToSet(s)
  BY DEF Promise!ToSet, ToSet
<1>2. \A s, t : Promise!IsPrefix(s, t) <=> Len(s) <= Len(t) /\ SubSeq(s, 1, Len(s)) = SubSeq(t, 1, Len(s))
  BY DEF Promise!IsPrefix
<1>3. QED
  BY <1>1, <1>2

\* The constructor gives every term its value.
LEMMA InitPromised ==
  ASSUME Init
  PROVE  Promise!Init
<1>1. RowsInv /\ TableInv /\ CachesInv /\ Terms = SeedOrder(setup) /\ setup \in Setups
  BY InitRows, InitCaches
<1> DEFINE seeds == SeedOrder(setup)
           given == {setup.initial_operator[i].term : i \in DOMAIN setup.initial_operator}
           amplitude(M) == SeedAmplitude([setup EXCEPT !.schrodinger = FALSE], M)
           user == [M \in given |-> amplitude(M)]
<1>2. /\ coeffs = [i \in DOMAIN seeds |-> IF seeds[i] \in given THEN user[seeds[i]] ELSE 0]
      /\ pending = [M \in given \ ToSet(seeds) |-> user[M]]
      /\ scored = ScoredFrom(NothingScored)
      /\ dense = IF setup.schrodinger THEN Scattered(scored, 0, <<>>) ELSE <<>>
  BY DEF Init
<1>3. Size \in Nat /\ DOMAIN seeds = 1..Size /\ Terms = seeds
  BY <1>1, RowFacts
<1>4. \A M : M \notin given => amplitude(M) = 0
  BY <1>1, PromisedCoefficients
<1> HIDE DEF amplitude, given
<1>5. \A M \in given : user[M] = amplitude(M)
  OBVIOUS
<1> HIDE DEF seeds, user
<1>6. AbsOp = [M \in Monomials |-> amplitude(M)]
  <2>1. ASSUME NEW i \in 1..Size PROVE AbsOp[Terms[i]] = amplitude(Terms[i])
    <3>1. Terms[i] \in ToSet(seeds)
      BY <1>3 DEF ToSet
    <3>2. Terms[i] \notin DOMAIN pending
      BY <1>2, <3>1
    <3>3. coeffs = [k \in 1..Size |-> coeffs[k]]
      BY <1>2, <1>3
    <3>4. i <= Len(coeffs)
      BY <1>3, <3>3, VectorOf
    <3>5. AbsOp[Terms[i]] = coeffs[i]
      BY <1>1, <3>2, <3>4, OpNow
    <3>6. QED
      BY <1>2, <1>3, <1>4, <1>5, <3>5
  <2>2. ASSUME NEW M \in Monomials \ ToSet(Terms) PROVE AbsOp[M] = amplitude(M)
    <3>1. AbsOp[M] = IF M \in DOMAIN pending THEN pending[M] ELSE 0
      BY <1>1, OpNow
    <3>2. QED
      BY <1>2, <1>3, <1>4, <1>5, <3>1
  <2> DEFINE f == [M \in Monomials |-> amplitude(M)]
  <2>3. \A M \in Monomials : f[M] = amplitude(M)
    OBVIOUS
  <2>4. \A i \in 1..Size : Terms[i] \in Monomials
    BY <1>1, RowFacts
  <2> HIDE DEF f
  <2>5. \A M \in Monomials : AbsOp[M] = f[M]
    <3>1. \A i \in 1..Size : AbsOp[Terms[i]] = f[Terms[i]]
      BY <2>1, <2>3, <2>4
    <3>2. \A M \in Monomials \ ToSet(Terms) : AbsOp[M] = f[M]
      BY <2>2, <2>3
    <3>3. QED
      BY <1>1, <3>1, <3>2, TermsCover
  <2>6. AbsOp = [M \in Monomials |-> AbsOp[M]]
    BY <1>1, OpNow
  <2>7. QED
    BY <2>5, <2>6 DEF f
<1>7. AbsState = [M \in Monomials |-> Born(M)]
  <2>1. ASSUME NEW i \in 1..Size PROVE AbsState[Terms[i]] = Born(Terms[i])
    <3>1. AbsState[Terms[i]] = IF i <= Len(dense) THEN dense[i] ELSE Born(Terms[i])
      BY <1>1, StateNow
    <3>2. CASE setup.schrodinger
      <4>1. Len(<<>>) = 0 /\ 0 \in Nat /\ ~(i <= 0)
        BY <1>3
      <4>2. Scores(Terms, scored) /\ scored.upto = Size
        BY <1>1, <1>2, NothingScores, ScoreGrows
      <4>3. dense[i] = Born(Terms[i])
        BY <1>1, <1>2, <3>2, <4>1, <4>2, ScatteredIs
      <4>4. QED
        BY <3>1, <4>3
    <3>3. CASE ~setup.schrodinger
      <4>1. dense = <<>> /\ Len(<<>>) = 0 /\ ~(i <= 0)
        BY <1>2, <1>3, <3>3
      <4>2. QED
        BY <3>1, <4>1
    <3>4. QED
      BY <3>2, <3>3
  <2>2. \A M \in Monomials \ ToSet(Terms) : AbsState[M] = Born(M)
    BY <1>1, StateNow
  <2> DEFINE f == [M \in Monomials |-> Born(M)]
  <2>3. \A M \in Monomials : f[M] = Born(M)
    OBVIOUS
  <2>4. \A i \in 1..Size : Terms[i] \in Monomials
    BY <1>1, RowFacts
  <2> HIDE DEF f
  <2>5. \A M \in Monomials : AbsState[M] = f[M]
    <3>1. \A i \in 1..Size : AbsState[Terms[i]] = f[Terms[i]]
      BY <2>1, <2>3, <2>4
    <3>2. \A M \in Monomials \ ToSet(Terms) : AbsState[M] = f[M]
      BY <2>2, <2>3
    <3>3. QED
      BY <1>1, <3>1, <3>2, TermsCover
  <2>6. AbsState = [M \in Monomials |-> AbsState[M]]
    BY <1>1, StateNow
  <2>7. QED
    BY <2>5, <2>6 DEF f
<1>8. Terms = Promise!SeedOrder(setup)
  BY <1>1, PromisedSeeds
<1>9. [M \in Monomials |-> amplitude(M)]
        = [M \in Promise!Monomials |-> Promise!SeedAmplitude([setup EXCEPT !.schrodinger = FALSE], M)]
  <2>1. \A M \in Monomials : amplitude(M) = Promise!SeedAmplitude([setup EXCEPT !.schrodinger = FALSE], M)
    BY <1>1, PromisedCoefficients DEF amplitude
  <2>2. QED
    BY <2>1, PromisedMonomials
<1>10. [M \in Monomials |-> Born(M)]
         = [M \in Promise!Monomials |-> Promise!BornAmplitude([setup EXCEPT !.schrodinger = TRUE], M)]
  <2>1. \A M \in Monomials : Born(M) = Promise!BornAmplitude([setup EXCEPT !.schrodinger = TRUE], M)
    BY <1>1, PromisedBorn
  <2>2. QED
    BY <2>1, PromisedMonomials
<1>11. QED
  BY <1>1, <1>6, <1>7, <1>8, <1>9, <1>10 DEF Promise!Init

\* Distinct members are as many as their positions.
LEMMA InjectiveCount ==
  ASSUME NEW S, NEW list \in Seq(S), IsInjective(list)
  PROVE  Cardinality(ToSet(list)) = Len(list)
<1>1. Len(list) \in Nat /\ DOMAIN list = 1..Len(list)
  OBVIOUS
<1>2. IsFiniteSet(1..Len(list)) /\ Cardinality(1..Len(list)) = Len(list)
  BY <1>1, FS_Interval
<1>3. list \in Bijection(1..Len(list), ToSet(list))
  BY <1>1 DEF Bijection, Injection, Surjection, IsInjective, ToSet
<1>4. ExistsBijection(1..Len(list), ToSet(list))
  BY <1>3 DEF ExistsBijection
<1>5. QED
  BY <1>2, <1>4, FS_Bijection
\* A step that touches no row, no vector and no score changes nothing that is promised.
LEMMA Untouched ==
  ASSUME Terms' = Terms
  PROVE  /\ UNCHANGED <<coeffs, pending>> => AbsOp' = AbsOp
         /\ UNCHANGED <<setup, scored, dense>> => AbsState' = AbsState
  BY AbsAre

\* New rows: the vectors stay, and so do the values of the terms, with an entry or without.
LEMMA GrowPromised ==
  ASSUME RowsInv, TableInv, CachesInv, NEW batch \in Batches, InsertAbsent(batch), CachesInv'
  PROVE  Promise!Grow
<1>1. UNCHANGED <<setup, coeffs, pending, scored, dense>>
  BY DEF InsertAbsent
<1>2. PICK misses \in Seq(Monomials) : Terms' = Terms \o misses /\ Size' = Size + Len(misses) /\ RowsInv'
  BY Growth
<1>3. /\ Terms \in Seq(Monomials) /\ Len(Terms) = Size /\ Size \in Nat /\ DOMAIN Terms = 1..Size
      /\ \A i \in 1..Size : Terms[i] \in Monomials
      /\ \A i, j \in 1..Size : Terms[i] = Terms[j] => i = j
  BY RowFacts
<1>4. Terms' \in Seq(Monomials) /\ IsInjective(Terms')
  BY <1>2 DEF RowsInv
<1>5. Len(Terms') \in Nat /\ Len(Terms) <= Len(Terms') /\ \A i \in 1..Size : Terms'[i] = Terms[i]
  BY <1>2, <1>3, ConcatFacts
<1>6. Promise!IsPrefix(Terms, Terms')
  <2>1. SubSeq(Terms, 1, Len(Terms)) = SubSeq(Terms', 1, Len(Terms))
    <3> DEFINE a == Terms
               b == Terms'
    <3>1. a \in Seq(Monomials) /\ b \in Seq(Monomials) /\ Len(a) <= Len(b) /\ \A i \in 1..Len(a) : b[i] = a[i]
      BY <1>3, <1>4, <1>5
    <3> HIDE DEF a, b
    <3>2. SubSeq(a, 1, Len(a)) = [i \in 1..Len(a) |-> a[i]] /\ SubSeq(b, 1, Len(a)) = [i \in 1..Len(a) |-> b[i]]
      BY <3>1
    <3>3. QED
      BY <3>1, <3>2 DEF a, b
  <2>2. QED
    BY <1>5, <2>1, PromisedSets
<1>7. Promise!Cardinality(Promise!ToSet(Terms')) = Len(Terms')
  <2>1. Cardinality(ToSet(Terms')) = Len(Terms')
    BY <1>4, InjectiveCount
  <2>2. QED
    BY <2>1, PromisedSets, PromisedCardinality
<1>8. Len(coeffs) \in Nat /\ Len(coeffs) <= Size /\ Len(dense) \in Nat /\ Len(dense) <= scored.upto /\ scored.upto \in Nat
      /\ scored.upto <= Size
  BY <1>3, CachesFacts
<1>9. AbsOp' = AbsOp
  <2>1. \A M : {i \in 1..Len(coeffs) : Terms'[i] = M} = {i \in 1..Len(coeffs) : Terms[i] = M}
    BY <1>3, <1>5, <1>8
  <2>2. OpOf(Terms', coeffs, pending) = OpOf(Terms, coeffs, pending)
    BY <2>1 DEF OpOf
  <2>3. QED
    BY <1>1, <2>2, AbsAre
<1>10. AbsState' = AbsState
  <2>1. \A i \in 1..Len(dense) : i \in 1..Size
    BY <1>3, <1>8
  <2>2. \A i \in 1..scored.upto : i \in 1..Size
    BY <1>3, <1>8
  <2>3. \A M : {i \in 1..Len(dense) : Terms'[i] = M} = {i \in 1..Len(dense) : Terms[i] = M}
    BY <1>5, <2>1
  <2>4. \A M : (\A i \in 1..scored.upto : Terms'[i] # M) <=> (\A i \in 1..scored.upto : Terms[i] # M)
    BY <1>5, <2>2
  <2>5. \A k \in DOMAIN scored.rows : scored.rows[k] + 1 \in 1..Size
    <3>1. \A r \in PairedRows(Terms, scored.upto) : r + 1 \in 1..Size
      BY <1>3, <1>8 DEF PairedRows
    <3>2. \A k \in DOMAIN scored.rows : scored.rows[k] \in PairedRows(Terms, scored.upto)
      BY <1>3, CachesFacts, ScoreFacts, SMTT(30)
    <3>3. QED
      BY <3>1, <3>2
  <2>6. \A M : {k \in DOMAIN scored.rows : Terms'[scored.rows[k] + 1] = M}
                 = {k \in DOMAIN scored.rows : Terms[scored.rows[k] + 1] = M}
    BY <1>5, <2>5
  <2>7. StateOf(Terms', dense, scored, BornOf(setup)) = StateOf(Terms, dense, scored, BornOf(setup))
    <3> DEFINE at(list, M) == {i \in 1..Len(dense) : list[i] = M}
               late(list, M) == \A i \in 1..scored.upto : list[i] # M
               here(list, M) == {k \in DOMAIN scored.rows : list[scored.rows[k] + 1] = M}
               value(list, M) == ValueAt(dense, at(list, M), IF late(list, M) THEN BornOf(setup)[M]
                                                             ELSE ValueAt(scored.vals, here(list, M), 0))
    <3>1. \A M : at(Terms', M) = at(Terms, M) /\ (late(Terms', M) <=> late(Terms, M)) /\ here(Terms', M) = here(Terms, M)
      BY <2>3, <2>4, <2>6
    <3> HIDE DEF at, late, here
    <3>2. \A M : value(Terms', M) = value(Terms, M)
      BY <3>1
    <3> HIDE DEF value
    <3>3. [M \in Monomials |-> value(Terms', M)] = [M \in Monomials |-> value(Terms, M)]
      BY <3>2
    <3>4. QED
      BY <3>3 DEF StateOf, value, at, late, here
  <2>8. QED
    BY <1>1, <2>7, AbsAre
<1>11. QED
  BY <1>1, <1>6, <1>7, <1>9, <1>10 DEF Promise!Grow

\* A contraction reaches the value of every term and of no other monomial.
LEMMA ContractPromised ==
  ASSUME RowsInv, TableInv, CachesInv, Contract, CachesInv'
  PROVE  Promise!Contract
<1> DEFINE drifted(v) == [i \in 1 .. Size |-> v[i] + Drift]
           known == ToSet(Terms)
           after(v) == [M \in Monomials |-> IF M \in known THEN v[M] + Drift ELSE v[M]]
<1>1. UNCHANGED <<setup, rows, overflow>>
  BY DEF Contract
<1>2. Terms' = Terms /\ Size' = Size
  BY <1>1, SameRows
<1>3. /\ Size \in Nat /\ DOMAIN Terms = 1..Size /\ \A i \in 1..Size : Terms[i] \in Monomials /\ Terms[i] \in known
      /\ \A M : M \in known <=> \E i \in 1..Size : Terms[i] = M
  BY RowFacts, TermsCover
<1>4. \A v : Promise!Drifted(v) = after(v)
  BY PromisedMonomials, PromisedSets DEF Promise!Drifted
<1>5. \A v : Len(drifted(v)) = Size /\ \A i \in 1..Size : drifted(v)[i] = v[i] + Drift
  BY <1>3
<1> HIDE DEF known
<1>6. CASE setup.schrodinger
  <2>1. dense' = drifted(dense_state) /\ UNCHANGED <<coeffs, pending>>
    BY <1>6 DEF Contract
  <2> HIDE DEF drifted
  <2>2. AbsOp' = AbsOp
    BY <1>2, <2>1, Untouched
  <2>3. Len(dense') = Size /\ \A i \in 1..Size : dense'[i] = dense_state[i] + Drift
    BY <1>5, <2>1
  <2>4. \A i \in 1..Size : AbsState'[Terms[i]] = AbsState[Terms[i]] + Drift
    BY <1>1, <1>2, <2>3, StateNow, StateLater
  <2>5. \A M \in Monomials \ known : AbsState'[M] = AbsState[M]
    BY <1>1, <1>2, <1>3, <2>3, StateNow, StateLater DEF known
  <2>6. AbsState' = [M \in Monomials |-> AbsState'[M]]
    BY <1>1, <1>2, StateLater
  <2>7. \A M \in Monomials : AbsState'[M] = IF M \in known THEN AbsState[M] + Drift ELSE AbsState[M]
    BY <1>3, <2>4, <2>5
  <2>8. AbsState' = after(AbsState)
    BY <2>6, <2>7
  <2>9. QED
    BY <1>1, <1>2, <1>4, <1>6, <2>2, <2>8 DEF Promise!Contract
<1>7. CASE ~setup.schrodinger
  <2>1. coeffs' = drifted(get_operator) /\ pending' = StillPending /\ UNCHANGED <<scored, dense>>
    BY <1>7 DEF Contract
  <2> HIDE DEF drifted
  <2>2. AbsState' = AbsState
    BY <1>1, <1>2, <2>1, Untouched
  <2>3. Len(coeffs') = Size /\ \A i \in 1..Size : coeffs'[i] = get_operator[i] + Drift
    BY <1>5, <2>1
  <2>4. DOMAIN pending' = {} /\ DOMAIN pending = {}
    <3>1. DOMAIN pending = {}
      BY <1>7 DEF CachesInv
    <3>2. QED
      BY <2>1, <3>1, OperatorFacts
  <2>5. \A i \in 1..Size : AbsOp'[Terms[i]] = AbsOp[Terms[i]] + Drift
    <3>1. \A i \in 1..Size : AbsOp'[Terms[i]] = coeffs'[i]
      BY <1>2, <1>3, <2>3, <2>4, OpLater
    <3>2. QED
      BY <2>3, <3>1, OpNow
  <2>6. \A M \in Monomials \ known : AbsOp'[M] = AbsOp[M]
    BY <1>2, <2>4, OpNow, OpLater DEF known
  <2>7. AbsOp' = [M \in Monomials |-> AbsOp'[M]]
    BY <1>2, OpLater
  <2>8. \A M \in Monomials : AbsOp'[M] = IF M \in known THEN AbsOp[M] + Drift ELSE AbsOp[M]
    BY <1>3, <2>5, <2>6
  <2>9. AbsOp' = after(AbsOp)
    BY <2>7, <2>8
  <2>10. QED
    BY <1>1, <1>2, <1>4, <1>7, <2>2, <2>9 DEF Promise!Contract
<1>8. QED
  BY <1>6, <1>7

\* A re-weighting replaces every coefficient, of rows and of terms still without one.
LEMMA ReweighPromised ==
  ASSUME RowsInv, TableInv, CachesInv, NEW dict \in Dicts, update_initial_operator(dict), CachesInv'
  PROVE  Promise!Reweigh
<1> DEFINE known == {M \in DOMAIN dict : find(M) # kNotFound}
           waits == IF setup.schrodinger THEN DOMAIN dict \ known ELSE DOMAIN dict \cap DOMAIN pending
           given == [M \in Monomials |-> IF M \in DOMAIN dict THEN dict[M] ELSE 0]
<1>1. /\ UNCHANGED <<setup, rows, overflow, scored, dense>>
      /\ setup.schrodinger \/ DOMAIN dict \subseteq known \cup DOMAIN pending
      /\ pending' = [M \in waits |-> dict[M]]
      /\ coeffs' = [i \in 1 .. Size |->
                      IF \E M \in known \ waits : find(M) = i - 1
                      THEN dict[CHOOSE M \in known : find(M) = i - 1] ELSE 0]
  BY DEF update_initial_operator
<1>2. Terms' = Terms /\ Size' = Size
  BY <1>1, SameRows
<1>3. DOMAIN dict \subseteq Monomials
  BY StoreAssumption
<1>4. known = DOMAIN dict \cap ToSet(Terms)
  BY <1>3, FindIs
<1>5. ~setup.schrodinger => DOMAIN pending = {}
  BY DEF CachesInv
<1>6. waits = DOMAIN dict \ ToSet(Terms)
  BY <1>1, <1>4, <1>5
<1>7. setup.schrodinger \/ DOMAIN dict \subseteq ToSet(Terms)
  BY <1>1, <1>4, <1>5
<1>8. /\ Size \in Nat /\ \A i \in 1..Size : Terms[i] \in Monomials
      /\ \A M : M \in ToSet(Terms) <=> \E i \in 1..Size : Terms[i] = M
  BY RowFacts, TermsCover
<1> HIDE DEF known, waits
<1>9. ASSUME NEW i \in 1..Size PROVE coeffs'[i] = IF Terms[i] \in DOMAIN dict THEN dict[Terms[i]] ELSE 0
  <2>1. \A M \in known : find(M) = i - 1 <=> Terms[i] = M
    BY <1>3, <1>4, FindIs
  <2>2. known \ waits = known
    BY <1>4, <1>6
  <2>3. CASE Terms[i] \in DOMAIN dict
    <3>1. Terms[i] \in known
      BY <1>4, <1>8, <2>3
    <3>2. (CHOOSE M \in known : find(M) = i - 1) = Terms[i]
      BY <2>1, <3>1
    <3>3. \E M \in known \ waits : find(M) = i - 1
      BY <2>1, <2>2, <3>1
    <3>4. QED
      BY <1>1, <2>3, <3>2, <3>3
  <2>4. CASE Terms[i] \notin DOMAIN dict
    <3>1. ~(\E M \in known \ waits : find(M) = i - 1)
      BY <1>4, <2>1, <2>2, <2>4
    <3>2. QED
      BY <1>1, <2>4, <3>1
  <2>5. QED
    BY <2>3, <2>4
<1>10. DOMAIN pending' = waits /\ \A M \in waits : pending'[M] = dict[M]
  BY <1>1
<1>11. Len(coeffs') = Size
  BY <1>1, <1>8
<1>12. \A i \in 1..Size : AbsOp'[Terms[i]] = IF Terms[i] \in DOMAIN dict THEN dict[Terms[i]] ELSE 0
  <2>1. \A i \in 1..Size : Terms[i] \notin DOMAIN pending' /\ i <= Len(coeffs')
    BY <1>6, <1>8, <1>10, <1>11
  <2>2. QED
    BY <1>2, <1>9, <2>1, OpLater
<1>13. \A M \in Monomials \ ToSet(Terms) : AbsOp'[M] = IF M \in DOMAIN dict THEN dict[M] ELSE 0
  BY <1>2, <1>6, <1>10, OpLater
<1>14. AbsOp' = given
  <2>1. \A M \in Monomials : AbsOp'[M] = IF M \in DOMAIN dict THEN dict[M] ELSE 0
    BY <1>8, <1>12, <1>13
  <2>2. AbsOp' = [M \in Monomials |-> AbsOp'[M]]
    BY <1>2, OpLater
  <2>3. QED
    BY <2>1, <2>2
<1>15. Promise!Given(dict) = given
  BY PromisedMonomials DEF Promise!Given
<1>16. AbsState' = AbsState
  BY <1>1, <1>2, Untouched
<1>17. setup.schrodinger \/ DOMAIN dict \subseteq Promise!ToSet(Terms)
  BY <1>7, PromisedSets
<1>18. QED
  BY <1>1, <1>2, <1>14, <1>15, <1>16, <1>17 DEF Promise!Reweigh

\* Every step of the store is one of the promise, or leaves it as it was.
LEMMA StepPromised ==
  ASSUME StoreTypeOK, [Next]_vars, StoreTypeOK'
  PROVE  [Promise!Next]_(Promise!storeVars)
<1>1. RowsInv /\ TableInv /\ CachesInv /\ CachesInv'
  BY DEF StoreTypeOK
<1>2. ASSUME setup' = setup, Terms' = Terms, AbsOp' = AbsOp, AbsState' = AbsState
      PROVE  UNCHANGED Promise!storeVars
  BY <1>2 DEF Promise!storeVars
<1>3. ASSUME UNCHANGED <<setup, rows, overflow, coeffs, pending, scored, dense>> PROVE UNCHANGED Promise!storeVars
  <2>1. Terms' = Terms
    BY <1>1, <1>3, SameRows
  <2>2. QED
    BY <1>2, <1>3, <2>1, Untouched
<1>4. ASSUME NEW batch \in Batches, InsertAbsent(batch) PROVE Promise!Grow
  BY <1>1, <1>4, GrowPromised
<1>5. CASE current_picture_coeffs_
  <2>1. UNCHANGED <<setup, rows, overflow>>
    BY <1>5 DEF current_picture_coeffs_
  <2>2. Terms' = Terms /\ Size' = Size
    BY <1>1, <2>1, SameRows
  <2>3. CASE setup.schrodinger
    <3>1. dense' = dense_state /\ UNCHANGED <<coeffs, pending>>
      BY <1>5, <2>3 DEF current_picture_coeffs_
    <3>2. AbsState' = AbsState
      BY <1>1, <2>1, <2>2, <3>1, StateStays
    <3>3. AbsOp' = AbsOp
      BY <2>2, <3>1, Untouched
    <3>4. QED
      BY <1>2, <2>1, <2>2, <3>2, <3>3
  <2>4. CASE ~setup.schrodinger
    <3>1. ExtendOperator /\ UNCHANGED <<scored, dense>>
      BY <1>5, <2>4 DEF current_picture_coeffs_
    <3>2. AbsOp' = AbsOp
      BY <1>1, <2>2, <3>1, OpStays
    <3>3. AbsState' = AbsState
      BY <2>1, <2>2, <3>1, Untouched
    <3>4. QED
      BY <1>2, <2>1, <2>2, <3>2, <3>3
  <2>5. QED
    BY <2>3, <2>4
<1>6. CASE initialize_operator_caches_
  <2>1. UNCHANGED <<setup, rows, overflow>> /\ ExtendOperator /\ (dense' = dense \/ dense' = dense_state)
    BY <1>6 DEF initialize_operator_caches_
  <2>2. Terms' = Terms /\ Size' = Size
    BY <1>1, <2>1, SameRows
  <2>3. AbsOp' = AbsOp
    BY <1>1, <2>1, <2>2, OpStays
  <2>4. AbsState' = AbsState
    BY <1>1, <2>1, <2>2, StateStays
  <2>5. QED
    BY <1>2, <2>1, <2>2, <2>3, <2>4
<1>7. CASE Contract
  BY <1>1, <1>7, ContractPromised DEF Promise!Next
<1>8. ASSUME NEW dict \in Dicts, update_initial_operator(dict) PROVE Promise!Reweigh
  BY <1>1, <1>8, ReweighPromised
<1>9. ASSUME NEW G \in Generators, Scan(G) PROVE UNCHANGED Promise!storeVars
  BY <1>3, <1>9 DEF Scan
<1>10. CASE Copy
  BY <1>3, <1>10 DEF Copy
<1>11. CASE UNCHANGED vars
  BY <1>3, <1>11 DEF vars
<1>12. QED
  BY <1>4, <1>5, <1>6, <1>7, <1>8, <1>9, <1>10, <1>11 DEF Next, Promise!Next

\* The store with its tables and its vectors, extended late, keeps the promise of the list of
\* terms with two values each: growth, extension, scans and copies lose and change no value.
THEOREM StoreImplementsTermStore == Spec => ImplementsTermStore
<1>1. Init => Promise!Init
  BY InitPromised
<1>2. StoreTypeOK /\ [Next]_vars /\ StoreTypeOK' => [Promise!Next]_(Promise!storeVars)
  BY StepPromised
<1>3. Spec => []StoreTypeOK
  BY StoreShapes
<1>4. QED
  BY <1>1, <1>2, <1>3, PTL DEF Spec, ImplementsTermStore, Promise!Spec

(***************************************************************************)
(* Anticommutation is a parity of bits                                     *)
(***************************************************************************)

\* A sum is odd if one of two numbers is.
LEMMA OddSum == ASSUME NEW a \in Int, NEW b \in Int PROVE Odd(a + b) <=> (Odd(a) /\ ~Odd(b)) \/ (~Odd(a) /\ Odd(b))
  BY DEF Odd

\* A number is odd or twice another one.
LEMMA OddHalves ==
  ASSUME NEW a \in Int
  PROVE  /\ Odd(a) => \E k \in Int : a = 2 * k + 1
         /\ ~Odd(a) => \E k \in Int : a = 2 * k
<1>1. a % 2 = 1 => \E k \in Int : a = 2 * k + 1
  OBVIOUS
<1>2. a % 2 # 1 => \E k \in Int : a = 2 * k
  OBVIOUS
<1>3. QED
  BY <1>1, <1>2 DEF Odd

\* Doubles are even.
LEMMA OddOrEven == ASSUME NEW k \in Int PROVE ~Odd(2 * k) /\ Odd(2 * k + 1)
  BY DEF Odd

\* Twice a number, times another one, is twice their product.
LEMMA Doubled == ASSUME NEW j \in Int, NEW k \in Int PROVE (2 * j) * k = 2 * (j * k) /\ j * (2 * k) = 2 * (j * k) /\ j * k \in Int
  OBVIOUS

\* A product is odd if both numbers are.
LEMMA OddProduct == ASSUME NEW a \in Int, NEW b \in Int PROVE Odd(a * b) <=> Odd(a) /\ Odd(b)
<1>1. CASE ~Odd(a)
  <2>1. PICK k \in Int : a = 2 * k
    BY <1>1, OddHalves
  <2>2. a * b = 2 * (k * b) /\ k * b \in Int
    BY <2>1, Doubled
  <2>3. QED
    BY <1>1, <2>2, OddOrEven
<1>2. CASE ~Odd(b)
  <2>1. PICK k \in Int : b = 2 * k
    BY <1>2, OddHalves
  <2>2. a * b = 2 * (a * k) /\ a * k \in Int
    BY <2>1, Doubled
  <2>3. QED
    BY <1>2, <2>2, OddOrEven
<1>3. CASE Odd(a) /\ Odd(b)
  <2>1. PICK j \in Int : a = 2 * j + 1
    BY <1>3, OddHalves
  <2>2. PICK k \in Int : b = 2 * k + 1
    BY <1>3, OddHalves
  <2>3. a * b = (2 * j) * b + b
    BY <2>1
  <2>4. (2 * j) * b = 2 * (j * b) /\ j * b \in Int
    BY Doubled
  <2>5. a * b = 2 * (j * b + k) + 1 /\ j * b + k \in Int
    BY <2>2, <2>3, <2>4
  <2>6. QED
    BY <1>3, <2>5, OddOrEven
<1>4. QED
  BY <1>1, <1>2, <1>3

\* Parity survives a remainder by four.
LEMMA OddQuarter == ASSUME NEW a \in Int PROVE Odd(a % 4) <=> Odd(a)
  BY DEF Odd

\* The number of pairs of n things, without the division.
LEMMA ChooseTwo == ASSUME NEW n \in Nat PROVE n_choose_2(n) \in Int /\ 2 * n_choose_2(n) = n * (n - 1)
<1> DEFINE p == n * (n - 1)
<1>1. p \in Int
  OBVIOUS
<1>2. ~Odd(p)
  <2>1. ~Odd(n) \/ ~Odd(n - 1)
    BY DEF Odd
  <2>2. n \in Int /\ n - 1 \in Int
    OBVIOUS
  <2>3. Odd(n * (n - 1)) <=> Odd(n) /\ Odd(n - 1)
    BY <2>2, OddProduct
  <2>4. QED
    BY <2>1, <2>3
<1>3. n_choose_2(n) = p \div 2
  BY DEF n_choose_2
<1> HIDE DEF p
<1>4. PICK k \in Int : p = 2 * k
  BY <1>1, <1>2, OddHalves
<1>5. p \div 2 = k
  BY <1>4
<1>6. QED
  BY <1>3, <1>4, <1>5 DEF p

\* The size of a finite set is a number.
LEMMA FiniteCount == ASSUME NEW S, IsFiniteSet(S) PROVE Cardinality(S) \in Nat
  BY FS_CardinalityType

\* What a symmetric difference counts.
LEMMA SymDiffCount ==
  ASSUME NEW A, NEW B, IsFiniteSet(A), IsFiniteSet(B)
  PROVE  /\ IsFiniteSet(SymDiff(A, B)) /\ Cardinality(A \cap B) \in Nat
         /\ Cardinality(SymDiff(A, B)) = (Cardinality(A) + Cardinality(B)) - 2 * Cardinality(A \cap B)
<1> DEFINE d == A \ B
           e == B \ A
           c == A \cap B
<1>1. IsFiniteSet(d) /\ Cardinality(d) = Cardinality(A) - Cardinality(c)
  BY FS_Difference
<1>2. IsFiniteSet(e) /\ Cardinality(e) = Cardinality(B) - Cardinality(c)
  <2>1. B \cap A = c
    OBVIOUS
  <2>2. QED
    BY <2>1, FS_Difference
<1>3. d \cap e = {} /\ SymDiff(A, B) = d \cup e
  BY DEF SymDiff
<1>4. IsFiniteSet(c)
  BY FS_Subset
<1> HIDE DEF c, d, e
<1>5. IsFiniteSet(d \cup e) /\ Cardinality(d \cup e) = Cardinality(d) + Cardinality(e) - Cardinality(d \cap e)
  BY <1>1, <1>2, FS_Union
<1>6. Cardinality(d \cap e) = 0
  BY <1>3, FS_EmptySet
<1>7. Cardinality(A) \in Nat /\ Cardinality(B) \in Nat /\ Cardinality(c) \in Nat
  BY <1>4, FS_CardinalityType
<1>8. Cardinality(d \cup e) = (Cardinality(A) + Cardinality(B)) - 2 * Cardinality(c)
  BY <1>1, <1>2, <1>5, <1>6, <1>7
<1>9. QED
  BY <1>3, <1>5, <1>7, <1>8 DEF c

\* Parities of sets add up in their symmetric difference.
LEMMA OddSymDiff ==
  ASSUME NEW A, NEW B, IsFiniteSet(A), IsFiniteSet(B)
  PROVE  Odd(Cardinality(SymDiff(A, B))) <=> Odd(Cardinality(A) + Cardinality(B))
<1> DEFINE a == Cardinality(A)
           b == Cardinality(B)
           o == Cardinality(A \cap B)
<1>1. a \in Nat /\ b \in Nat /\ o \in Nat /\ Cardinality(SymDiff(A, B)) = (a + b) - 2 * o
  BY SymDiffCount, FS_CardinalityType
<1> HIDE DEF a, b, o
<1>2. Odd((a + b) - 2 * o) <=> Odd(a + b)
  BY <1>1 DEF Odd
<1>3. QED
  BY <1>1, <1>2 DEF a, b

\* The signs of the reversals: what multiplying by a term of g letters, o of them shared, adds.
LEMMA ChosenPairs ==
  ASSUME NEW m \in Nat, NEW g \in Nat, NEW o \in Nat, NEW p \in Nat, p = (m + g) - 2 * o
  PROVE  LET x == n_choose_2(m) + n_choose_2(g) - n_choose_2(p)
         IN  x \in Int /\ (Odd(x) <=> Odd(m * g + o))
<1> DEFINE a == n_choose_2(m)
           b == n_choose_2(g)
           c == n_choose_2(p)
           s == m + g
           mg == m * g
           os == o * s
           oo == o * o
           pp == p * p
           ss == s * s
<1>1. a \in Int /\ b \in Int /\ c \in Int /\ 2 * a = m * m - m /\ 2 * b = g * g - g /\ 2 * c = pp - p
  <2>1. \A n \in Nat : n_choose_2(n) \in Int /\ 2 * n_choose_2(n) = n * (n - 1)
    BY ChooseTwo
  <2>2. \A n \in Nat : n * (n - 1) = n * n - n
    OBVIOUS
  <2>3. QED
    BY <2>1, <2>2
<1>2. ss = m * m + 2 * mg + g * g
  OBVIOUS
<1>3. pp = ss - 4 * os + 4 * oo
  <2>1. p = s - 2 * o /\ s \in Int
    OBVIOUS
  <2> HIDE DEF s
  <2>2. (s - 2 * o) * (s - 2 * o) = s * s - 4 * (o * s) + 4 * (o * o)
    BY <2>1
  <2>3. QED
    BY <2>1, <2>2
<1>4. mg \in Int /\ os \in Int /\ oo \in Int /\ pp \in Int /\ ss \in Int /\ m * m \in Int /\ g * g \in Int
  OBVIOUS
<1> DEFINE mm == m * m
           gg == g * g
<1>5. 2 * a = mm - m /\ 2 * b = gg - g /\ ss = mm + 2 * mg + gg /\ mm \in Int /\ gg \in Int /\ p = (m + g) - 2 * o
  BY <1>1, <1>2, <1>4
<1> HIDE DEF a, b, c, s, mg, os, oo, pp, ss, mm, gg
<1>6. (a + b) - c = 2 * (2 * 0 + os - oo - mg) + (mg - o)
  BY <1>1, <1>3, <1>4, <1>5
<1>7. Odd((a + b) - c) <=> Odd(mg + o)
  <2> DEFINE k == os - oo - mg
  <2>1. k \in Int
    BY <1>4
  <2>2. (a + b) - c = 2 * k + (mg - o)
    BY <1>4, <1>6
  <2> HIDE DEF k
  <2>3. Odd(2 * k + (mg - o)) <=> Odd(mg + o)
    BY <1>4, <2>1 DEF Odd
  <2>4. QED
    BY <2>2, <2>3
<1>8. QED
  BY <1>1, <1>7 DEF a, b, c, mg

\* In the Majorana basis: an odd overlap, and with an odd generator the length of the term counts too.
LEMMA MajoranaAnticommutes ==
  ASSUME NEW M \in Monomials, NEW G \in Monomials
  PROVE  Anticommute("majorana", M, G)
           <=> Odd(Cardinality(M \cap G) + IF Odd(Cardinality(G)) THEN Cardinality(M) ELSE 0)
<1> DEFINE m == Cardinality(M)
           g == Cardinality(G)
           o == Cardinality(M \cap G)
           p == Cardinality(Times(M, G))
           swaps == Cardinality({mg \in M \X G : mg[1] < mg[2]})
           x == n_choose_2(m) + n_choose_2(g) - n_choose_2(p)
<1>1. IsFiniteSet(M) /\ IsFiniteSet(G) /\ m \in Nat /\ g \in Nat
  BY MonomialsAreFinite
<1>2. o \in Nat /\ p = (m + g) - 2 * o
  BY <1>1, SymDiffCount DEF Times
<1>3. p \in Nat
  BY <1>1, SymDiffCount, FS_CardinalityType DEF Times
<1>4. swaps \in Nat
  <2>1. IsFiniteSet(M \X G)
    BY <1>1, FS_Product
  <2>2. QED
    BY <2>1, FS_Subset, FS_CardinalityType
<1>5. Anticommute("majorana", M, G) <=> Odd((2 * swaps + n_choose_2(m) + n_choose_2(g) - n_choose_2(p)) % 4)
  BY DEF Anticommute, Power, MajoranaPower
<1> HIDE DEF m, g, o, p, swaps
<1>6. x \in Int /\ (Odd(x) <=> Odd(m * g + o))
  BY <1>1, <1>2, <1>3, ChosenPairs
<1>7. 2 * swaps + n_choose_2(m) + n_choose_2(g) - n_choose_2(p) = 2 * swaps + x
  BY <1>1, <1>3, <1>4, ChooseTwo
<1> HIDE DEF x
<1>8. Odd((2 * swaps + x) % 4) <=> Odd(x)
  BY <1>4, <1>6 DEF Odd
<1>9. Odd(m * g + o) <=> Odd(o + IF Odd(g) THEN m ELSE 0)
  <2>0. m \in Int /\ g \in Int /\ o \in Int
    BY <1>1, <1>2
  <2>1. m * g \in Int /\ (Odd(m * g) <=> Odd(m) /\ Odd(g))
    <3>1. m * g \in Int
      BY ONLY <2>0
    <3>2. Odd(m * g) <=> Odd(m) /\ Odd(g)
      BY ONLY <2>0, OddProduct, Zenon
    <3>3. QED
      BY <3>1, <3>2
  <2>2. Odd(m * g + o) <=> (Odd(m * g) /\ ~Odd(o)) \/ (~Odd(m * g) /\ Odd(o))
    BY ONLY <2>0, <2>1, OddSum
  <2>3. CASE Odd(g)
    <3>1. Odd(o + m) <=> (Odd(o) /\ ~Odd(m)) \/ (~Odd(o) /\ Odd(m))
      BY ONLY <2>0, OddSum
    <3>2. QED
      BY <2>1, <2>2, <2>3, <3>1
  <2>4. CASE ~Odd(g)
    <3>1. o + 0 = o
      BY <1>2
    <3>2. QED
      BY <2>1, <2>2, <2>4, <3>1
  <2>5. QED
    BY <2>3, <2>4
<1>10. QED
  BY <1>5, <1>6, <1>7, <1>8, <1>9 DEF m, g, o

\* Letters anticommute when they are two different ones of X, Y and Z.
LEMMA LettersAnticommute ==
  ASSUME NEW P, NEW G, NEW q
  PROVE  LET there == <<Letter(P, q), Letter(G, q)>> \in Cyclic
             back == <<Letter(G, q), Letter(P, q)>> \in Cyclic
             crossed == has_even(P, q) /\ has_odd(G, q)
             straight == has_odd(P, q) /\ has_even(G, q)
         IN  ~(there /\ back) /\ (there \/ back <=> (crossed /\ ~straight) \/ (~crossed /\ straight))
<1> DEFINE ep == has_even(P, q)
           op == has_odd(P, q)
           eg == has_even(G, q)
           og == has_odd(G, q)
           p == Letter(P, q)
           g == Letter(G, q)
<1>1. /\ p = "Z" <=> ep /\ op
      /\ p = "Y" <=> ep /\ ~op
      /\ p = "X" <=> ~ep /\ op
      /\ p = "I" <=> ~ep /\ ~op
      /\ p \in {"X", "Y", "Z", "I"}
  <2>1. CASE ep /\ op
    BY <2>1 DEF Letter
  <2>2. CASE ep /\ ~op
    BY <2>2 DEF Letter
  <2>3. CASE ~ep /\ op
    BY <2>3 DEF Letter
  <2>4. CASE ~ep /\ ~op
    BY <2>4 DEF Letter
  <2>5. QED
    BY <2>1, <2>2, <2>3, <2>4
<1>2. /\ g = "Z" <=> eg /\ og
      /\ g = "Y" <=> eg /\ ~og
      /\ g = "X" <=> ~eg /\ og
      /\ g = "I" <=> ~eg /\ ~og
      /\ g \in {"X", "Y", "Z", "I"}
  <2>1. CASE eg /\ og
    BY <2>1 DEF Letter
  <2>2. CASE eg /\ ~og
    BY <2>2 DEF Letter
  <2>3. CASE ~eg /\ og
    BY <2>3 DEF Letter
  <2>4. CASE ~eg /\ ~og
    BY <2>4 DEF Letter
  <2>5. QED
    BY <2>1, <2>2, <2>3, <2>4
<1> HIDE DEF ep, op, eg, og, p, g
<1>3. <<p, g>> \in Cyclic <=> (p = "X" /\ g = "Y") \/ (p = "Y" /\ g = "Z") \/ (p = "Z" /\ g = "X")
  BY DEF Cyclic
<1>4. <<g, p>> \in Cyclic <=> (g = "X" /\ p = "Y") \/ (g = "Y" /\ p = "Z") \/ (g = "Z" /\ p = "X")
  BY DEF Cyclic
<1>5. ~(<<p, g>> \in Cyclic /\ <<g, p>> \in Cyclic)
  BY <1>1, <1>2, <1>3, <1>4
<1>6. (<<p, g>> \in Cyclic \/ <<g, p>> \in Cyclic) <=> ((ep /\ og) /\ ~(op /\ eg)) \/ (~(ep /\ og) /\ (op /\ eg))
  BY <1>1, <1>2, <1>3, <1>4
<1>7. QED
  BY <1>5, <1>6 DEF ep, op, eg, og, p, g

\* The bits of a mode.
LEMMA ModeBits ==
  /\ \A q \in ModeIds : 2 * q \in Bits /\ 2 * q + 1 \in Bits /\ q \in Int
  /\ \A b \in Bits : \E q \in ModeIds : b = 2 * q \/ b = 2 * q + 1
  /\ IsFiniteSet(ModeIds)
<1>1. Modes \in Nat
  BY ModesAssumption
<1>2. \A q \in ModeIds : 2 * q \in Bits /\ 2 * q + 1 \in Bits /\ q \in Int
  BY <1>1 DEF ModeIds, Bits
<1>3. ASSUME NEW b \in Bits PROVE \E q \in ModeIds : b = 2 * q \/ b = 2 * q + 1
  <2>1. b \in Int /\ 0 <= b /\ b <= 2 * Modes - 1
    BY <1>1, <1>3 DEF Bits
  <2>2. PICK q \in Int : b = 2 * q \/ b = 2 * q + 1
    BY <2>1, OddHalves
  <2>3. 0 <= q /\ q <= Modes - 1
    BY <1>1, <2>1, <2>2
  <2>4. q \in ModeIds
    BY <1>1, <2>3 DEF ModeIds
  <2>5. QED
    BY <2>2, <2>4
<1>4. IsFiniteSet(ModeIds)
  BY <1>1, FS_Interval DEF ModeIds
<1>5. QED
  BY <1>2, <1>3, <1>4

\* Swapping the bits of a mode.
LEMMA Swapped ==
  ASSUME NEW G \in Monomials
  PROVE  /\ pair_swap(G) \subseteq Bits
         /\ \A q \in ModeIds : 2 * q \in pair_swap(G) <=> has_odd(G, q)
         /\ \A q \in ModeIds : 2 * q + 1 \in pair_swap(G) <=> has_even(G, q)
<1>1. \A q \in Int : ~Odd(2 * q) /\ Odd(2 * q + 1) /\ (2 * q + 1) - 1 = 2 * q
  BY OddOrEven
<1>2. G \subseteq Bits
  BY DEF Monomials
<1>3. \A b \in G : \E q \in ModeIds : /\ b = 2 * q \/ b = 2 * q + 1
                                      /\ (IF Odd(b) THEN b - 1 ELSE b + 1) = IF b = 2 * q THEN 2 * q + 1 ELSE 2 * q
  <2>1. ASSUME NEW b \in G PROVE \E q \in ModeIds : /\ b = 2 * q \/ b = 2 * q + 1
                                      /\ (IF Odd(b) THEN b - 1 ELSE b + 1) = IF b = 2 * q THEN 2 * q + 1 ELSE 2 * q
    <3>1. PICK q \in ModeIds : b = 2 * q \/ b = 2 * q + 1
      BY <1>2, ModeBits
    <3>2. q \in Int /\ 2 * q # 2 * q + 1
      BY ModeBits
    <3>3. QED
      BY <1>1, <3>1, <3>2
  <2>2. QED
    BY <2>1
<1>4. ASSUME NEW q \in ModeIds PROVE 2 * q \in pair_swap(G) <=> has_odd(G, q)
  <2>1. ASSUME 2 * q \in pair_swap(G) PROVE has_odd(G, q)
    <3>1. PICK b \in G : 2 * q = IF Odd(b) THEN b - 1 ELSE b + 1
      BY <2>1 DEF pair_swap
    <3>2. PICK r \in ModeIds : /\ b = 2 * r \/ b = 2 * r + 1
                               /\ (IF Odd(b) THEN b - 1 ELSE b + 1) = IF b = 2 * r THEN 2 * r + 1 ELSE 2 * r
      BY <1>3
    <3>3. q \in Int /\ r \in Int
      BY ModeBits
    <3>4. b = 2 * q + 1
      BY <3>1, <3>2, <3>3
    <3>5. QED
      BY <3>4 DEF has_odd
  <2>2. ASSUME has_odd(G, q) PROVE 2 * q \in pair_swap(G)
    <3>1. 2 * q + 1 \in G /\ Odd(2 * q + 1) /\ (2 * q + 1) - 1 = 2 * q
      BY <1>1, <2>2, ModeBits DEF has_odd
    <3>2. QED
      BY <3>1 DEF pair_swap
  <2>3. QED
    BY <2>1, <2>2
<1>5. ASSUME NEW q \in ModeIds PROVE 2 * q + 1 \in pair_swap(G) <=> has_even(G, q)
  <2>1. ASSUME 2 * q + 1 \in pair_swap(G) PROVE has_even(G, q)
    <3>1. PICK b \in G : 2 * q + 1 = IF Odd(b) THEN b - 1 ELSE b + 1
      BY <2>1 DEF pair_swap
    <3>2. PICK r \in ModeIds : /\ b = 2 * r \/ b = 2 * r + 1
                               /\ (IF Odd(b) THEN b - 1 ELSE b + 1) = IF b = 2 * r THEN 2 * r + 1 ELSE 2 * r
      BY <1>3
    <3>3. q \in Int /\ r \in Int
      BY ModeBits
    <3>4. b = 2 * q
      BY <3>1, <3>2, <3>3
    <3>5. QED
      BY <3>4 DEF has_even
  <2>2. ASSUME has_even(G, q) PROVE 2 * q + 1 \in pair_swap(G)
    <3>1. 2 * q \in G /\ ~Odd(2 * q)
      BY <1>1, <2>2, ModeBits DEF has_even
    <3>2. QED
      BY <3>1 DEF pair_swap
  <2>3. QED
    BY <2>1, <2>2
<1>6. pair_swap(G) \subseteq Bits
  BY <1>3, ModeBits DEF pair_swap
<1>7. QED
  BY <1>4, <1>5, <1>6

\* Sets in bijection.
LEMMA SameCount ==
  ASSUME NEW A, NEW B, IsFiniteSet(A), NEW f \in [A -> B],
         \A x, y \in A : f[x] = f[y] => x = y, \A y \in B : \E x \in A : f[x] = y
  PROVE  IsFiniteSet(B) /\ Cardinality(B) = Cardinality(A)
<1>1. f \in Bijection(A, B)
  BY DEF Bijection, Injection, Surjection, IsInjective
<1>2. ExistsBijection(A, B)
  BY <1>1 DEF ExistsBijection
<1>3. QED
  BY <1>2, FS_Bijection

\* In the Pauli basis: an odd overlap with the swapped generator.
LEMMA PauliAnticommutes ==
  ASSUME NEW P \in Monomials, NEW G \in Monomials
  PROVE  Anticommute("pauli", P, G) <=> Odd(Cardinality(P \cap pair_swap(G)))
<1> DEFINE there(q) == <<Letter(P, q), Letter(G, q)>> \in Cyclic
           back(q) == <<Letter(G, q), Letter(P, q)>> \in Cyclic
           X == {q \in ModeIds : there(q)}
           Y == {q \in ModeIds : back(q)}
           U == {q \in ModeIds : has_even(P, q) /\ has_odd(G, q)}
           V == {q \in ModeIds : has_odd(P, q) /\ has_even(G, q)}
           E == {2 * q : q \in U}
           O == {2 * q + 1 : q \in V}
<1>1. X \in SUBSET ModeIds /\ Y \in SUBSET ModeIds /\ U \in SUBSET ModeIds /\ V \in SUBSET ModeIds
  OBVIOUS
<1>2. \A S \in SUBSET ModeIds : IsFiniteSet(S) /\ Cardinality(S) \in Nat
  BY ModeBits, FS_Subset, FS_CardinalityType
<1>3. Anticommute("pauli", P, G) <=> Odd((Cardinality(X) + 3 * Cardinality(Y)) % 4)
  BY DEF Anticommute, Power, PauliPower
<1>4. X \cap Y = {} /\ X \cup Y = SymDiff(U, V)
  <2>1. \A q \in ModeIds : /\ ~(there(q) /\ back(q))
                           /\ there(q) \/ back(q) <=> \/ (has_even(P, q) /\ has_odd(G, q)) /\ ~(has_odd(P, q) /\ has_even(G, q))
                                                      \/ ~(has_even(P, q) /\ has_odd(G, q)) /\ (has_odd(P, q) /\ has_even(G, q))
    BY LettersAnticommute
  <2> HIDE DEF there, back
  <2>2. X \cap Y = {}
    BY <2>1
  <2>3. \A q : q \in X \cup Y <=> q \in SymDiff(U, V)
    BY <2>1 DEF SymDiff
  <2>4. QED
    BY <2>2, <2>3
<1>5. P \cap pair_swap(G) = E \cup O
  <2>1. P \subseteq Bits /\ \A b \in Bits : \E q \in ModeIds : b = 2 * q \/ b = 2 * q + 1
    BY ModeBits DEF Monomials
  <2>2. \A b \in P \cap pair_swap(G) : b \in E \cup O
    <3>1. ASSUME NEW b \in P \cap pair_swap(G) PROVE b \in E \cup O
      <4>1. PICK q \in ModeIds : b = 2 * q \/ b = 2 * q + 1
        BY <2>1
      <4>2. CASE b = 2 * q
        BY <4>2, Swapped DEF has_even
      <4>3. CASE b = 2 * q + 1
        BY <4>3, Swapped DEF has_odd
      <4>4. QED
        BY <4>1, <4>2, <4>3
    <3>2. QED
      BY <3>1
  <2>3. \A q \in U : 2 * q \in P \cap pair_swap(G)
    BY Swapped DEF has_even
  <2>4. \A q \in V : 2 * q + 1 \in P \cap pair_swap(G)
    BY Swapped DEF has_odd
  <2>5. QED
    BY <2>2, <2>3, <2>4
<1>6. IsFiniteSet(E) /\ Cardinality(E) = Cardinality(U)
  <2> DEFINE f == [q \in U |-> 2 * q]
  <2>1. IsFiniteSet(U) /\ f \in [U -> E] /\ (\A y \in E : \E x \in U : f[x] = y) /\ \A x \in U : x \in Int /\ f[x] = 2 * x
    BY <1>1, <1>2, ModeBits
  <2> HIDE DEF U, E, f
  <2>2. \A x, y \in U : f[x] = f[y] => x = y
    BY <2>1
  <2>3. QED
    BY <2>1, <2>2, SameCount
<1>7. IsFiniteSet(O) /\ Cardinality(O) = Cardinality(V)
  <2> DEFINE f == [q \in V |-> 2 * q + 1]
  <2>1. IsFiniteSet(V) /\ f \in [V -> O] /\ (\A y \in O : \E x \in V : f[x] = y) /\ \A x \in V : x \in Int /\ f[x] = 2 * x + 1
    BY <1>1, <1>2, ModeBits
  <2> HIDE DEF V, O, f
  <2>2. \A x, y \in V : f[x] = f[y] => x = y
    BY <2>1
  <2>3. QED
    BY <2>1, <2>2, SameCount
<1>8. E \cap O = {}
  <2>1. \A q \in U, r \in V : q \in Int /\ r \in Int
    BY <1>1, ModeBits
  <2>2. \A q \in U, r \in V : 2 * q # 2 * r + 1
    BY <2>1
  <2>3. QED
    BY <2>2
<1>9. IsFiniteSet(X) /\ IsFiniteSet(Y) /\ Cardinality(X) \in Nat /\ Cardinality(Y) \in Nat
      /\ IsFiniteSet(U) /\ IsFiniteSet(V) /\ Cardinality(U) \in Nat /\ Cardinality(V) \in Nat
  BY <1>1, <1>2
<1> HIDE DEF there, back, X, Y, U, V, E, O
<1>10. Cardinality(E \cup O) = Cardinality(U) + Cardinality(V)
  <2>1. Cardinality(E \cup O) = Cardinality(E) + Cardinality(O) - Cardinality(E \cap O) /\ Cardinality(E \cap O) = 0
    BY <1>6, <1>7, <1>8, FS_Union, FS_EmptySet
  <2>2. QED
    BY <1>6, <1>7, <1>9, <2>1
<1>11. Cardinality(X \cup Y) = Cardinality(X) + Cardinality(Y)
  <2>1. Cardinality(X \cup Y) = Cardinality(X) + Cardinality(Y) - Cardinality(X \cap Y) /\ Cardinality(X \cap Y) = 0
    BY <1>4, <1>9, FS_Union, FS_EmptySet
  <2>2. QED
    BY <1>9, <2>1
<1>12. Odd(Cardinality(X \cup Y)) <=> Odd(Cardinality(U) + Cardinality(V))
  BY <1>4, <1>9, OddSymDiff
<1>13. Odd((Cardinality(X) + 3 * Cardinality(Y)) % 4) <=> Odd(Cardinality(X) + Cardinality(Y))
  <2> DEFINE x == Cardinality(X)
             y == Cardinality(Y)
  <2>1. x \in Nat /\ y \in Nat
    BY <1>9
  <2> HIDE DEF x, y
  <2>2. Odd((x + 3 * y) % 4) <=> Odd(x + y)
    BY <2>1 DEF Odd
  <2>3. QED
    BY <2>2 DEF x, y
<1>14. QED
  BY <1>3, <1>5, <1>10, <1>11, <1>12, <1>13

\* The parity that the engine folds is that of the product of the letters: a term anticommutes with a
\* generator iff an odd number of its bits is in the fold generator, in the Majorana basis with an
\* odd generator corrected by the length of the term (fold_generator and fold_needs_odd_correction
\* of Algebra.h).
THEOREM FoldIsAnticommutation ==
  ASSUME NEW basis \in Bases, NEW M \in Monomials, NEW G \in Monomials
  PROVE  Anticommute(basis, M, G) <=> anticommutes(basis, M, G)
<1>1. CASE basis = "majorana"
  <2>1. Anticommute(basis, M, G) <=> Odd(Cardinality(M \cap G) + IF Odd(Cardinality(G)) THEN Cardinality(M) ELSE 0)
    BY <1>1, MajoranaAnticommutes
  <2>2. fold_generator(basis, G) = G /\ (fold_needs_odd_correction(basis, G) <=> Odd(Cardinality(G)))
    BY <1>1 DEF fold_generator, fold_needs_odd_correction
  <2>3. QED
    BY <2>1, <2>2 DEF anticommutes
<1>2. CASE basis = "pauli"
  <2>1. Anticommute(basis, M, G) <=> Odd(Cardinality(M \cap pair_swap(G)))
    BY <1>2, PauliAnticommutes
  <2>2. fold_generator(basis, G) = pair_swap(G) /\ ~fold_needs_odd_correction(basis, G)
    BY <1>2 DEF fold_generator, fold_needs_odd_correction
  <2>3. IsFiniteSet(M \cap pair_swap(G))
    BY MonomialsAreFinite, FS_Subset
  <2>4. Cardinality(M \cap pair_swap(G)) + 0 = Cardinality(M \cap pair_swap(G))
    BY <2>3, FS_CardinalityType
  <2>5. QED
    BY <2>1, <2>2, <2>4 DEF anticommutes
<1>3. QED
  BY <1>1, <1>2 DEF Bases

(***************************************************************************)
(* Folds                                                                   *)
(***************************************************************************)

\* Which bits of a word are rows below n.
LEMMA FoldMask ==
  ASSUME NEW n \in Nat, NEW w \in Nat, w < words(n), NEW b \in 0..(WordBits - 1)
  PROVE  w * WordBits + b < n <=> (w = words(n) - 1 => b \in last_mask(n))
<1> DEFINE d == WordBits
           q == n \div d
           s == n % d
<1>1. d \in Nat \ {0} /\ b \in 0..(d - 1)
  BY Widths
<1>2. q \in Nat /\ s \in 0..(d - 1) /\ n = (q * d) + s
  BY <1>1, Remainder
<1>3. words(n) = (n + (d - 1)) \div d /\ last_mask(n) = IF s = 0 THEN 0..(d - 1) ELSE 0..(s - 1)
  <2>1. words(n) = (n + d - 1) \div d
    BY DEF words, Ceil
  <2>2. n + d - 1 = n + (d - 1)
    BY <1>1
  <2>3. QED
    BY <2>1, <2>2 DEF last_mask
<1> HIDE DEF d, q, s
<1>4. ASSUME NEW v \in Nat, v < q PROVE v * d + b < n
  <2>1. (v + 1) * d <= q * d
    BY <1>1, <1>2, <1>4, ProductGrows
  <2>2. (v + 1) * d = (v * d) + d /\ v * d \in Nat /\ q * d \in Nat
    BY <1>1, <1>2
  <2>3. QED
    BY <1>1, <1>2, <2>1, <2>2
<1>5. CASE s = 0
  <2>1. n + (d - 1) = (q * d) + (d - 1)
    BY <1>1, <1>2, <1>5
  <2>2. words(n) = q
    <3>1. d - 1 \in 0..(d - 1)
      BY <1>1
    <3>2. ((q * d) + (d - 1)) \div d = q
      BY <1>1, <1>2, <3>1, RemainderOf
    <3>3. QED
      BY <1>3, <2>1, <3>2
  <2>3. w * d + b < n
    BY <1>4, <2>2
  <2>4. b \in last_mask(n)
    BY <1>1, <1>3, <1>5
  <2>5. QED
    BY <2>3, <2>4 DEF d
<1>6. CASE s # 0
  <2>1. n + (d - 1) = ((q + 1) * d) + (s - 1) /\ s - 1 \in 0..(d - 1) /\ q + 1 \in Nat
    <3>1. (q + 1) * d = (q * d) + d /\ q * d \in Nat
      BY <1>1, <1>2
    <3>2. QED
      BY <1>1, <1>2, <1>6, <3>1
  <2>2. words(n) = q + 1
    <3>1. (((q + 1) * d) + (s - 1)) \div d = q + 1
      BY <1>1, <2>1, RemainderOf
    <3>2. QED
      BY <1>3, <2>1, <3>1
  <2>3. last_mask(n) = 0..(s - 1)
    BY <1>3, <1>6
  <2>4. CASE w = q
    <3>1. w * d \in Nat /\ w * d = q * d
      BY <1>1, <2>4
    <3>2. w * d + b < n <=> b < s
      BY <1>1, <1>2, <3>1
    <3>3. b < s <=> b \in 0..(s - 1)
      BY <1>1, <1>2
    <3>4. w = words(n) - 1
      BY <1>2, <2>2, <2>4
    <3>5. QED
      BY <2>3, <3>2, <3>3, <3>4 DEF d
  <2>5. CASE w # q
    <3>1. w < q
      BY <1>2, <2>2, <2>5
    <3>2. w * d + b < n
      BY <1>4, <3>1
    <3>3. w # words(n) - 1
      BY <1>2, <2>2, <2>5
    <3>4. QED
      BY <3>2, <3>3 DEF d
  <2>6. QED
    BY <2>4, <2>5
<1>7. QED
  BY <1>5, <1>6

\* Words of a set of rows, masked to the first n rows, are its rows below n.
LEMMA FoldedAre ==
  ASSUME NEW A \in SUBSET Nat, NEW ix, ix.row_count \in Nat, NEW n \in 0..ix.row_count,
         NEW word, \A w \in Nat : w < words(ix.row_count) => word[w] = Word(A, w)
  PROVE  FoldedRows([w \in 0..(mask_words(ix, n) - 1) |-> Masked(word[w], w, ix, n)]) = {r \in A : r < n}
<1>1. n \in Nat /\ n <= ix.row_count /\ words(n) \in Nat /\ words(n) <= words(ix.row_count) /\ words(ix.row_count) \in Nat
  BY WordsAre
<1>2. mask_words(ix, n) = words(n)
  BY <1>1 DEF mask_words
<1> DEFINE folded == [w \in 0..(words(n) - 1) |-> Masked(word[w], w, ix, n)]
<1>3. ASSUME NEW w \in 0..(words(n) - 1)
      PROVE  /\ w \in Nat /\ w < words(n)
             /\ \A b : b \in folded[w] <=> b \in 0..(WordBits - 1) /\ w * WordBits + b \in A /\ w * WordBits + b < n
  <2>1. w \in Nat /\ w < words(n) /\ w < words(ix.row_count)
    BY <1>1
  <2>2. folded[w] = IF w = words(n) - 1 THEN Word(A, w) \cap last_mask(n) ELSE Word(A, w)
    BY <1>2, <2>1 DEF Masked
  <2>3. Word(A, w) \in SUBSET (0..(WordBits - 1))
        /\ \A b \in 0..(WordBits - 1) : b \in Word(A, w) <=> w * WordBits + b \in A
    BY <2>1, WordHas
  <2>4. \A b \in 0..(WordBits - 1) : w * WordBits + b < n <=> (w = words(n) - 1 => b \in last_mask(n))
    BY <1>1, <2>1, FoldMask
  <2> HIDE DEF folded
  <2>5. QED
    BY <2>1, <2>2, <2>3, <2>4
<1>4. FoldedRows(folded) = UNION {{w * WordBits + b : b \in folded[w]} : w \in 0..(words(n) - 1)}
  BY DEF FoldedRows
<1> HIDE DEF folded
<1>5. ASSUME NEW r \in FoldedRows(folded) PROVE r \in A /\ r < n
  <2>1. PICK w \in 0..(words(n) - 1) : r \in {w * WordBits + b : b \in folded[w]}
    BY <1>4
  <2>2. PICK b \in folded[w] : r = w * WordBits + b
    BY <2>1
  <2>3. QED
    BY <1>3, <2>2
<1>6. ASSUME NEW r \in A, r < n PROVE r \in FoldedRows(folded)
  <2> DEFINE w == r \div WordBits
             b == r % WordBits
  <2>1. r \in Nat /\ w \in Nat /\ b \in 0..(WordBits - 1) /\ w * WordBits + b = r
    BY PlaceOf
  <2>2. w < words(n)
    BY <1>1, <1>6, <2>1, WordsAre
  <2> HIDE DEF w, b
  <2>3. w \in 0..(words(n) - 1)
    BY <1>1, <2>1, <2>2
  <2>4. b \in folded[w]
    BY <1>3, <1>6, <2>1, <2>3
  <2>5. r \in {w * WordBits + a : a \in folded[w]}
    BY <2>1, <2>4
  <2>6. QED
    BY <1>4, <2>3, <2>5
<1>7. QED
  BY <1>2, <1>5, <1>6 DEF folded

\* A word of a column, dense or not.
LEMMA ColumnWordIs ==
  ASSUME NEW list \in Seq(Monomials), NEW ix, Indexes(ix, list), NEW c \in Bits,
         NEW w \in Nat, w < words(Len(list))
  PROVE  ColumnWord(ix, c, w) = Word(RowsWith(list, c), w)
<1> DEFINE A == RowsWith(list, c)
           height == words(Len(list))
<1>1. A \in SUBSET Nat /\ IsFiniteSet(A) /\ height \in Nat
  BY RowSets, WordsAre
<1>2. ToSet(Ascended(A)) = A
  BY <1>1, AscendedHolds
<1>3. Bitmap(A, height)[w + 1] = Word(A, w)
  <2>1. w + 1 \in 1..height /\ (w + 1) - 1 = w
    BY <1>1
  <2> HIDE DEF height, A
  <2>2. QED
    BY <2>1 DEF Bitmap
<1>4. \/ ix.cols[c] = [dense |-> TRUE, words |-> Bitmap(A, height), set_rows |-> <<>>]
      \/ ix.cols[c] = [dense |-> FALSE, words |-> <<>>, set_rows |-> Ascended(A)]
  BY IndexedColumn
<1> HIDE DEF A, height
<1>5. QED
  BY <1>2, <1>3, <1>4 DEF ColumnWord, A

\* The bits of a generator's columns.
LEMMA GeneratorBits == ASSUME setup.basis \in Bases, NEW G \in Monomials PROVE GeneratorColumns(G) \subseteq Bits
  BY Swapped DEF GeneratorColumns, fold_generator, Monomials, Bases

\* The rows that anticommute with a generator.
Anticommuting(list, G) == {r \in 0..(Len(list) - 1) : Anticommute(setup.basis, list[r + 1], G)}

ColumnsWord(ix, G, w) == Xor([c \in GeneratorColumns(G) |-> ColumnWord(ix, c, w)])

FullWord(ix, G, w) ==
  IF NeedsParity(G) THEN SymDiff(ColumnsWord(ix, G, w), ix.row_parity[w + 1]) ELSE ColumnsWord(ix, G, w)

\* The XOR of the columns has the rows with an odd number of the generator's bits.
LEMMA ColumnsWordIs ==
  ASSUME NEW list \in Seq(Monomials), NEW ix, Indexes(ix, list), setup.basis \in Bases, NEW G \in Monomials,
         NEW w \in Nat, w < words(Len(list))
  PROVE  /\ ColumnsWord(ix, G, w) \in SUBSET (0..(WordBits - 1))
         /\ \A b \in 0..(WordBits - 1) :
              b \in ColumnsWord(ix, G, w)
                <=> /\ w * WordBits + b < Len(list)
                    /\ Odd(Cardinality(list[w * WordBits + b + 1] \cap GeneratorColumns(G)))
<1> DEFINE C == GeneratorColumns(G)
           family == [c \in C |-> ColumnWord(ix, c, w)]
<1>1. C \subseteq Bits /\ Len(list) \in Nat /\ \A i \in 1..Len(list) : list[i] \in SUBSET Bits
  BY GeneratorBits DEF Monomials
<1> HIDE DEF C
<1>2. ColumnsWord(ix, G, w) = {b \in 0..(WordBits - 1) : Odd(Cardinality({c \in C : b \in family[c]}))}
  BY DEF ColumnsWord, Xor, C
<1>3. ASSUME NEW b \in 0..(WordBits - 1)
      PROVE  b \in ColumnsWord(ix, G, w) <=> /\ w * WordBits + b < Len(list)
                                             /\ Odd(Cardinality(list[w * WordBits + b + 1] \cap C))
  <2> DEFINE r == w * WordBits + b
  <2>1. r \in Nat /\ r + 1 \in Nat
    BY RowAtPlace
  <2>2. \A c \in C : b \in family[c] <=> r \in RowsWith(list, c)
    <3>1. ASSUME NEW c \in C PROVE b \in family[c] <=> r \in RowsWith(list, c)
      <4>1. family[c] = Word(RowsWith(list, c), w)
        BY <1>1, ColumnWordIs
      <4>2. RowsWith(list, c) \in SUBSET Nat
        BY RowSets
      <4>3. QED
        BY <4>1, <4>2, WordHas
    <3>2. QED
      BY <3>1
  <2> HIDE DEF family, r
  <2>3. CASE r < Len(list)
    <3>1. r \in 0..(Len(list) - 1) /\ r + 1 \in 1..Len(list)
      BY <1>1, <2>1, <2>3
    <3>2. {c \in C : b \in family[c]} = list[r + 1] \cap C
      BY <2>2, <3>1 DEF RowsWith
    <3>3. QED
      BY <1>2, <2>3, <3>2 DEF r
  <2>4. CASE ~(r < Len(list))
    <3>1. \A c : r \notin RowsWith(list, c)
      BY <1>1, <2>1, <2>4 DEF RowsWith
    <3>2. {c \in C : b \in family[c]} = {}
      BY <2>2, <3>1
    <3>3. ~Odd(Cardinality({}))
      BY FS_EmptySet DEF Odd
    <3>4. QED
      BY <1>2, <2>4, <3>2, <3>3 DEF r
  <2>5. QED
    BY <2>3, <2>4
<1>4. QED
  BY <1>2, <1>3 DEF C

\* A word of all columns and, where it is needed, the parity: the rows of that word that anticommute.
LEMMA FullWordIs ==
  ASSUME NEW list \in Seq(Monomials), NEW ix, Indexes(ix, list), setup.basis \in Bases, NEW G \in Monomials,
         NeedsParity(G) => ix.row_parity = Bitmap(OddRows(list, 0), words(Len(list))),
         NEW w \in Nat, w < words(Len(list))
  PROVE  FullWord(ix, G, w) = Word(Anticommuting(list, G), w)
<1> DEFINE A == Anticommuting(list, G)
           C == GeneratorColumns(G)
           N == Len(list)
           cw == ColumnsWord(ix, G, w)
           odd == ix.row_parity[w + 1]
<1>1. A \in SUBSET Nat /\ N \in Nat /\ \A i \in 1..N : list[i] \in Monomials
  BY DEF Anticommuting
<1>2. Word(A, w) \in SUBSET (0..(WordBits - 1)) /\ \A b \in 0..(WordBits - 1) : b \in Word(A, w) <=> w * WordBits + b \in A
  BY <1>1, WordHas
<1>3. /\ cw \in SUBSET (0..(WordBits - 1))
      /\ \A b \in 0..(WordBits - 1) : b \in cw <=> w * WordBits + b < N /\ Odd(Cardinality(list[w * WordBits + b + 1] \cap C))
  BY ColumnsWordIs
<1>4. ASSUME NeedsParity(G)
      PROVE  /\ odd \in SUBSET (0..(WordBits - 1))
             /\ \A b \in 0..(WordBits - 1) : b \in odd <=> w * WordBits + b < N /\ Odd(Cardinality(list[w * WordBits + b + 1]))
  <2>1. w + 1 \in 1..words(N) /\ (w + 1) - 1 = w
    BY <1>1, WordsAre
  <2>2. odd = Word(OddRows(list, 0), w)
    BY <1>4, <2>1 DEF Bitmap
  <2>3. OddRows(list, 0) \in SUBSET Nat /\ OddRows(list, 0) = {r \in 0..(N - 1) : Odd(Cardinality(list[r + 1]))}
    BY RowSets
  <2>4. \A b \in 0..(WordBits - 1) : w * WordBits + b \in OddRows(list, 0)
                                       <=> w * WordBits + b < N /\ Odd(Cardinality(list[w * WordBits + b + 1]))
    <3>1. \A b \in 0..(WordBits - 1) : w * WordBits + b \in Nat
      BY RowAtPlace
    <3>2. \A r \in Nat : r \in 0..(N - 1) <=> r < N
      BY <1>1
    <3>3. QED
      BY <2>3, <3>1, <3>2
  <2> DEFINE B == OddRows(list, 0)
  <2>5. B \in SUBSET Nat
    BY <2>3
  <2> HIDE DEF B
  <2>6. /\ Word(B, w) \in SUBSET (0..(WordBits - 1))
        /\ \A b \in 0..(WordBits - 1) : b \in Word(B, w) <=> w * WordBits + b \in B
    BY <2>5, WordHas
  <2> HIDE DEF odd
  <2>7. QED
    BY <2>2, <2>4, <2>6 DEF B
<1>5. \A M \in Monomials : Anticommute(setup.basis, M, G)
                             <=> Odd(Cardinality(M \cap C) + IF NeedsParity(G) THEN Cardinality(M) ELSE 0)
  <2>1. \A M \in Monomials : Anticommute(setup.basis, M, G) <=> anticommutes(setup.basis, M, G)
    BY FoldIsAnticommutation
  <2>2. QED
    BY <2>1 DEF anticommutes, NeedsParity, GeneratorColumns
<1>6. \A M \in Monomials : Cardinality(M) \in Nat /\ Cardinality(M \cap C) \in Nat
  BY MonomialsAreFinite, FS_Subset, FS_CardinalityType
<1>7. FullWord(ix, G, w) = IF NeedsParity(G) THEN (cw \ odd) \cup (odd \ cw) ELSE cw
  BY DEF FullWord, SymDiff
<1>8. \A r \in Nat : r \in A <=> r < N /\ Anticommute(setup.basis, list[r + 1], G)
  <2>1. \A r \in Nat : r \in 0..(N - 1) <=> r < N
    BY <1>1
  <2>2. QED
    BY <2>1 DEF Anticommuting
<1> HIDE DEF A, C, N, cw, odd
<1>9. ASSUME NEW b \in 0..(WordBits - 1) PROVE b \in FullWord(ix, G, w) <=> b \in Word(A, w)
  <2> DEFINE r == w * WordBits + b
             M == list[r + 1]
  <2>1. r \in Nat
    BY RowAtPlace
  <2> HIDE DEF r
  <2>2. b \in Word(A, w) <=> r < N /\ Anticommute(setup.basis, M, G)
    BY <1>2, <1>8, <2>1 DEF r
  <2>3. b \in cw <=> r < N /\ Odd(Cardinality(M \cap C))
    BY <1>3 DEF r
  <2>4. NeedsParity(G) => (b \in odd <=> r < N /\ Odd(Cardinality(M)))
    BY <1>4 DEF r
  <2>5. CASE ~(r < N)
    BY <1>7, <2>2, <2>3, <2>4, <2>5
  <2>6. CASE r < N
    <3>1. M \in Monomials
      <4>1. r + 1 \in 1..N
        BY <1>1, <2>1, <2>6
      <4>2. QED
        BY <1>1, <4>1
    <3> HIDE DEF M
    <3> DEFINE c == Cardinality(M \cap C)
               m == Cardinality(M)
    <3>2. c \in Int /\ m \in Int
      BY <1>6, <3>1
    <3>3. Anticommute(setup.basis, M, G) <=> Odd(c + IF NeedsParity(G) THEN m ELSE 0)
      BY <1>5, <3>1
    <3>4. b \in cw <=> Odd(c)
      BY <2>3, <2>6
    <3>5. NeedsParity(G) => (b \in odd <=> Odd(m))
      BY <2>4, <2>6
    <3>6. b \in Word(A, w) <=> Odd(c + IF NeedsParity(G) THEN m ELSE 0)
      BY <2>2, <2>6, <3>3
    <3> HIDE DEF c, m
    <3>7. CASE NeedsParity(G)
      <4>1. Odd(c + m) <=> (Odd(c) /\ ~Odd(m)) \/ (~Odd(c) /\ Odd(m))
        BY <3>2, OddSum
      <4>2. QED
        BY <1>7, <3>4, <3>5, <3>6, <3>7, <4>1
    <3>8. CASE ~NeedsParity(G)
      <4>1. c + 0 = c
        BY <3>2
      <4>2. QED
        BY <1>7, <3>4, <3>6, <3>8, <4>1
    <3>9. QED
      BY <3>7, <3>8
  <2>7. QED
    BY <2>5, <2>6
<1>10. FullWord(ix, G, w) \in SUBSET (0..(WordBits - 1))
  BY <1>3, <1>4, <1>7
<1>11. QED
  BY <1>2, <1>9, <1>10 DEF A

\* A word of for_each_fold_word: whichever kernel its block takes, it is the fold of the columns.
LEMMA BlockWordIs ==
  ASSUME NEW list \in Seq(Monomials), NEW ix, Indexes(ix, list), setup.basis \in Bases, NEW G \in Monomials,
         NEW n \in 0..Len(list), NEW w \in Nat, w < mask_words(ix, n), w < words(Len(list))
  PROVE  LET bb == (w \div BlockWords) * BlockWords
             ws == Block(ix, n, bb)
         IN  (IF by_postings(ix, G, ws)
              THEN IF w \in Touched(ix, G, ws) THEN PostedWord(ix, G, w, bb, ZeroBlock) ELSE {}
              ELSE IF NeedsParity(G) THEN SymDiff(ColumnsWord(ix, G, w), ix.row_parity[w + 1])
                                     ELSE ColumnsWord(ix, G, w))
               = FullWord(ix, G, w)
<1> DEFINE bb == (w \div BlockWords) * BlockWords
           ws == Block(ix, n, bb)
           C == GeneratorColumns(G)
<1>1. w - bb \in 0..(BlockWords - 1) /\ bb \in Nat /\ bb <= w /\ w < bb + BlockWords
  <2>1. BlockWords \in Nat \ {0}
    BY Widths
  <2>2. w \div BlockWords \in Nat /\ w % BlockWords \in 0..(BlockWords - 1)
        /\ w = ((w \div BlockWords) * BlockWords) + (w % BlockWords)
    BY <2>1, Remainder
  <2>3. bb \in Nat /\ w = bb + (w % BlockWords)
    BY <2>1, <2>2
  <2> HIDE DEF bb
  <2>4. QED
    BY <2>1, <2>2, <2>3
<1>2. w \in ws
  <2>1. mask_words(ix, n) \in Nat
    <3>1. ix.row_count = Len(list) /\ Len(list) \in Nat /\ n \in Nat
      BY DEF Indexes
    <3>2. QED
      BY <3>1, WordsAre DEF mask_words
  <2> HIDE DEF bb
  <2>2. QED
    BY <1>1, <2>1 DEF Block
<1> HIDE DEF bb, ws
<1>3. CASE ~by_postings(ix, G, ws)
  BY <1>3 DEF FullWord, ws, bb
<1>4. CASE by_postings(ix, G, ws)
  <2>1. ~NeedsParity(G) /\ \A c \in C : ~ix.cols[c].dense
    BY <1>4 DEF by_postings
  <2>2. FullWord(ix, G, w) = ColumnsWord(ix, G, w)
    BY <2>1 DEF FullWord
  <2>3. PostedWord(ix, G, w, bb, ZeroBlock) = ColumnsWord(ix, G, w)
    <3>1. ZeroBlock[w - bb] = {}
      BY <1>1 DEF ZeroBlock
    <3>2. PostedWord(ix, G, w, bb, ZeroBlock) = SymDiff({}, ColumnsWord(ix, G, w))
      BY <3>1 DEF PostedWord, ColumnsWord
    <3>3. QED
      BY <3>2 DEF SymDiff
  <2>4. ASSUME w \notin Touched(ix, G, ws) PROVE ColumnsWord(ix, G, w) = {}
    <3>1. C \subseteq Bits
      BY GeneratorBits
    <3>2. ASSUME NEW c \in C PROVE ColumnWord(ix, c, w) = {}
      <4> DEFINE A == RowsWith(list, c)
      <4>1. A \in SUBSET Nat /\ IsFiniteSet(A) /\ A \in SUBSET (0..(Len(list) - 1))
        BY RowSets
      <4>2. ColumnWord(ix, c, w) = Word(A, w)
        BY <3>1, ColumnWordIs
      <4>3. ToSet(ix.cols[c].set_rows) = A
        <5>1. ix.cols[c] = [dense |-> FALSE, words |-> <<>>, set_rows |-> Ascended(A)]
          <6>1. \/ ix.cols[c] = [dense |-> TRUE, words |-> Bitmap(A, words(Len(list))), set_rows |-> <<>>]
                \/ ix.cols[c] = [dense |-> FALSE, words |-> <<>>, set_rows |-> Ascended(A)]
            BY <3>1, IndexedColumn
          <6> HIDE DEF A
          <6>2. QED
            BY <2>1, <6>1
        <5>2. ToSet(Ascended(A)) = A
          BY <4>1, AscendedHolds
        <5>3. QED
          BY <5>1, <5>2
      <4> HIDE DEF A
      <4>4. ASSUME NEW r \in A, r \div WordBits = w PROVE FALSE
        <5>1. ix.row_count = Len(list)
          BY DEF Indexes
        <5>2. <<c, r>> \in Postings(ix, G, ws)
          BY <1>2, <4>1, <4>3, <4>4, <5>1 DEF Postings, C
        <5>3. w \in Touched(ix, G, ws)
          BY <4>4, <5>2 DEF Touched
        <5>4. QED
          BY <2>4, <5>3
      <4>5. Word(A, w) = {}
        BY <4>4 DEF Word
      <4>6. QED
        BY <4>2, <4>5
    <3>3. \A b : {c \in C : b \in [d \in C |-> ColumnWord(ix, d, w)][c]} = {}
      BY <3>2
    <3>4. ~Odd(Cardinality({}))
      BY FS_EmptySet DEF Odd
    <3>5. ColumnsWord(ix, G, w)
            = {b \in 0..(WordBits - 1) : Odd(Cardinality({c \in C : b \in [d \in C |-> ColumnWord(ix, d, w)][c]}))}
      BY DEF ColumnsWord, Xor, C
    <3>6. QED
      BY <3>3, <3>4, <3>5
  <2>5. QED
    BY <1>4, <2>2, <2>3, <2>4 DEF ws, bb
<1>5. QED
  BY <1>3, <1>4

\* Both folds of an index that is in shape.
LEMMA FoldsAre ==
  ASSUME NEW list \in Seq(Monomials), NEW ix, Indexes(ix, list), setup.basis \in Bases, NEW G \in Monomials,
         NeedsParity(G) => ix.row_parity = Bitmap(OddRows(list, 0), words(Len(list))), NEW n \in 0..Len(list)
  PROVE  LET expected == {r \in 0..(n - 1) : Anticommute(setup.basis, list[r + 1], G)}
         IN  /\ FoldedRows(FoldWords(ix, G, n, ZeroBlock)) = expected
             /\ FoldedRows(FoldCache(ix, G, n)) = expected
<1> DEFINE A == Anticommuting(list, G)
           N == Len(list)
           word == [w \in 0..(words(N) - 1) |-> FullWord(ix, G, w)]
           folded == [w \in 0..(mask_words(ix, n) - 1) |-> Masked(word[w], w, ix, n)]
<1>1. N \in Nat /\ n \in Nat /\ n <= N /\ ix.row_count = N /\ words(N) \in Nat /\ words(n) \in Nat /\ words(n) <= words(N)
  BY WordsAre DEF Indexes
<1>2. mask_words(ix, n) = words(n)
  BY <1>1 DEF mask_words
<1>3. A \in SUBSET Nat
  BY DEF Anticommuting
<1>4. \A w \in Nat : w < words(N) => FullWord(ix, G, w) = Word(A, w)
  BY FullWordIs
<1>5. \A w \in Nat : w < words(N) => word[w] = FullWord(ix, G, w)
  BY <1>1
<1>6. {r \in A : r < n} = {r \in 0..(n - 1) : Anticommute(setup.basis, list[r + 1], G)}
  <2>1. \A r \in Nat : r \in 0..(n - 1) <=> r < n
    BY <1>1
  <2>2. \A r \in Nat : r \in 0..(N - 1) <=> r < N
    BY <1>1
  <2>3. \A r \in Nat : r < n => r < N
    BY <1>1
  <2>4. 0..(n - 1) \in SUBSET Nat
    OBVIOUS
  <2>5. QED
    BY <1>3, <2>1, <2>2, <2>3, <2>4 DEF Anticommuting
<1> HIDE DEF A, word
<1>7. FoldedRows(folded) = {r \in A : r < n}
  <2>1. \A w \in Nat : w < words(ix.row_count) => word[w] = Word(A, w)
    BY <1>1, <1>4, <1>5
  <2>2. ix.row_count \in Nat /\ n \in 0..ix.row_count
    BY <1>1
  <2> HIDE DEF N
  <2>3. QED
    BY <1>3, <2>1, <2>2, FoldedAre
<1>8. ASSUME NEW w \in 0..(mask_words(ix, n) - 1) PROVE w \in Nat /\ w < mask_words(ix, n) /\ w < words(N) /\ word[w] = FullWord(ix, G, w)
  BY <1>1, <1>2, <1>5
<1>9. FoldCache(ix, G, n) = folded
  <2>1. FoldCache(ix, G, n) = [w \in 0..(mask_words(ix, n) - 1) |-> Masked(FullWord(ix, G, w), w, ix, n)]
    BY DEF FoldCache, FullWord, ColumnsWord
  <2>2. QED
    BY <1>8, <2>1
<1>10. FoldWords(ix, G, n, ZeroBlock) = folded
  <2> DEFINE bb(w) == (w \div BlockWords) * BlockWords
             ws(w) == Block(ix, n, bb(w))
             each(w) == IF by_postings(ix, G, ws(w))
                        THEN IF w \in Touched(ix, G, ws(w)) THEN PostedWord(ix, G, w, bb(w), ZeroBlock) ELSE {}
                        ELSE IF NeedsParity(G) THEN SymDiff(ColumnsWord(ix, G, w), ix.row_parity[w + 1])
                                               ELSE ColumnsWord(ix, G, w)
  <2>1. FoldWords(ix, G, n, ZeroBlock) = [w \in 0..(mask_words(ix, n) - 1) |-> Masked(each(w), w, ix, n)]
    BY DEF FoldWords, ColumnsWord
  <2>2. \A w \in 0..(mask_words(ix, n) - 1) : each(w) = FullWord(ix, G, w)
    BY <1>8, BlockWordIs
  <2> HIDE DEF each
  <2>3. QED
    BY <1>8, <2>1, <2>2
<1>11. QED
  BY <1>6, <1>7, <1>9, <1>10

\* The fold of a generator's columns is the set of the rows that anticommute with it, in every
\* reachable state: tiers, kernels, masks and an earlier fold that was cut short make no difference.
THEOREM StoreFoldsAnticommute == Spec => []FoldsAnticommute
<1>1. ASSUME StoreTypeOK PROVE FoldsAnticommute
  <2>1. RowsInv /\ CachesInv /\ Indexes(index, Terms) /\ scratch = ZeroBlock
    BY <1>1 DEF StoreTypeOK, IndexInv
  <2>2. /\ Terms \in Seq(Monomials) /\ Len(Terms) = Size /\ Size \in Nat
        /\ \A i \in 0..(Size - 1) : row(i) = Terms[i + 1]
    BY <2>1, RowFacts
  <2>3. setup.basis \in Bases
    BY <2>1, SetupIs DEF CachesInv
  <2>4. ASSUME NEW G \in Generators, NEW n \in 0..Size
        PROVE  LET ready == IF NeedsParity(G) THEN WithParity(index) ELSE index
                   expected == {i \in 0..(n - 1) : Anticommute(setup.basis, row(i), G)}
               IN  /\ FoldedRows(FoldWords(ready, G, n, scratch)) = expected
                   /\ FoldedRows(FoldCache(ready, G, n)) = expected
    <3> DEFINE ready == IF NeedsParity(G) THEN WithParity(index) ELSE index
    <3>1. G \in Monomials
      BY StoreAssumption
    <3>2. Indexes(ready, Terms) /\ (NeedsParity(G) => ready.row_parity = Bitmap(OddRows(Terms, 0), words(Len(Terms))))
      BY <2>1, <2>2, ParityIndexes
    <3>3. {i \in 0..(n - 1) : Anticommute(setup.basis, row(i), G)}
            = {i \in 0..(n - 1) : Anticommute(setup.basis, Terms[i + 1], G)}
      <4>1. \A i \in 0..(n - 1) : i \in 0..(Size - 1)
        BY <2>2
      <4>2. QED
        BY <2>2, <4>1
    <3> HIDE DEF ready
    <3>4. /\ FoldedRows(FoldWords(ready, G, n, ZeroBlock)) = {r \in 0..(n - 1) : Anticommute(setup.basis, Terms[r + 1], G)}
          /\ FoldedRows(FoldCache(ready, G, n)) = {r \in 0..(n - 1) : Anticommute(setup.basis, Terms[r + 1], G)}
      BY <2>2, <2>3, <3>1, <3>2, FoldsAre
    <3>5. QED
      BY <2>1, <3>3, <3>4 DEF ready
  <2>5. QED
    BY <2>4 DEF FoldsAnticommute
<1>2. Spec => []StoreTypeOK
  BY StoreShapes
<1>3. QED
  BY <1>1, <1>2, PTL
=============================================================================
