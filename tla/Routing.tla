------------------------------ MODULE Routing ------------------------------
(***************************************************************************)
(* Which slot of the flat world owns a monomial (detail/mpi/Routing.h) and *)
(* which slots a gate can reach (PeerPlan of detail/mpi/Comm.h).  A world  *)
(* is a record of the number of ranks, of partitions per rank and of the   *)
(* routing mode.                                                           *)
(***************************************************************************)
EXTENDS Algebra

CONSTANTS
  Hash,     \* monomial_hash: any function to the naturals
  Column    \* Column[d]: the bits whose basis vector has binary digit d set (linear_basis)

ASSUME HashAssumption == Hash \in [Monomials -> Nat]
ASSUME ColumnAssumption == \A d \in DOMAIN Column : Column[d] \subseteq Bits

Slots(w) == 0 .. w.ranks * w.parts - 1
flat_world(w) == w.ranks * w.parts
is_linear(w) == w.linear /\ w.ranks > 1
rank_of_slot(w, slot) == slot \div w.parts

\* Routers exist for a power of two of ranks whose digits all have an independent column.
linear_bits(w) == CHOOSE d \in 0 .. w.ranks : 2 ^ d = w.ranks
RankDigits(w) == 0 .. linear_bits(w) - 1

Digits(w, r) == {d \in RankDigits(w) : Odd(r \div 2 ^ d)}
Number(digits) == SumSet({2 ^ d : d \in digits})
XorRank(w, a, b) == Number(SymDiff(Digits(w, a), Digits(w, b)))

linear_low(w, M) == Number({d \in RankDigits(w) : Odd(Cardinality(M \cap Column[d]))})

dest(w, M) ==
  IF ~is_linear(w)
  THEN Hash[M] % flat_world(w)
  ELSE (linear_low(w, M) * w.parts) + (Hash[M] % w.parts)

rank_shift(w, G) == IF is_linear(w) THEN linear_low(w, G) ELSE 0

dest_from_shiftStays(w, M, me, shift) ==
  IF ~is_linear(w) THEN dest(w, M) ELSE (rank_of_slot(w, me) * w.parts) + (Hash[M] % w.parts)

\* The owner of M (+) G, where M belongs to slot me and shift is the gate's rank shift.
dest_from_shift(w, M, me, shift) ==
  IF ~is_linear(w)
  THEN dest(w, M)
  ELSE (XorRank(w, rank_of_slot(w, me), shift) * w.parts) + (Hash[M] % w.parts)

\* PeerPlan::window: the slots of the peer rank when the plan is sparse, all otherwise.
window(w, me, shift) ==
  IF ~is_linear(w)
  THEN Slots(w)
  ELSE {s \in Slots(w) : rank_of_slot(w, s) = XorRank(w, rank_of_slot(w, me), shift)}
=============================================================================
