------------------------------ MODULE Algebra ------------------------------
(***************************************************************************)
(* The two operator algebras of monoprop (src/cpp/monoprop/algebra/) on    *)
(* monomials as sets of bits.  Mode q owns bits 2q and 2q+1.  The formulas *)
(* are those the engine evaluates per term; module Rotation states what    *)
(* they must compute.  All modes are active (logical_num_modes = Modes).   *)
(***************************************************************************)
EXTENDS Integers, FiniteSets, FiniteSetsExt

CONSTANT Modes

ASSUME ModesAssumption == Modes \in Nat \ {0}

ModeIds == 0 .. Modes - 1
Bits == 0 .. 2 * Modes - 1
Monomials == SUBSET Bits

Times(M, G) == SymDiff(M, G)
Odd(n) == n % 2 = 1

Sign(odd) == IF odd THEN -1 ELSE 1

-----------------------------------------------------------------------------
(* AlgebraCommon.h: shapes of a monomial.                                  *)

has_even(M, q) == 2 * q \in M
has_odd(M, q) == 2 * q + 1 \in M

is_paired(M) == \A q \in ModeIds : has_even(M, q) = has_odd(M, q)

cutoff_sums(M) ==
  [xor_sum      |-> Cardinality({q \in ModeIds : has_even(M, q) # has_odd(M, q)}),
   popcount_sum |-> Cardinality(M),
   or_sum       |-> Cardinality({q \in ModeIds : has_even(M, q) \/ has_odd(M, q)})]

length_cutoff(M, k) == LET s == cutoff_sums(M) IN s.xor_sum = 0 \/ s.popcount_sum <= k
support_cutoff(M, k) == LET s == cutoff_sums(M) IN s.xor_sum = 0 \/ s.or_sum <= k

\* Occupied modes are counted from the top: index 2i of the user is bit 2N-1-2i.
initial_state_mask(occupied) == {2 * Modes - 1 - 2 * i : i \in occupied}

-----------------------------------------------------------------------------
(* MajoranaAlgebra.h                                                       *)

n_choose_2(n) == (n * (n - 1)) \div 2

\* W = {c : an odd number of generator bits lies above c}, fixed for a gate.
interleave_phase_mask(G) == {c \in Bits : Odd(Cardinality({g \in G : g > c}))}

hermitian_phase(m, g, overlap) ==
  LET power == (n_choose_2(m) + n_choose_2(g) - n_choose_2(m + g - 2 * overlap) + 3) % 4
  IN  [p \in 0 .. 3 |-> CASE p = 0 -> 1 [] p = 2 -> -1 [] OTHER -> 0][power]

majorana_phase(M, G) ==
  Sign(Odd(Cardinality(M \cap interleave_phase_mask(G))))
    * hermitian_phase(Cardinality(M), Cardinality(G), Cardinality(M \cap G))

majorana_state_phase(M, mask) ==
  Sign(Odd(Cardinality(M \cap mask) + Cardinality(M) \div 2))

-----------------------------------------------------------------------------
(* PauliAlgebra.h: the even bit of a qubit is its z-plane v, the odd bit u. *)

pair_swap(P) == {IF Odd(b) THEN b - 1 ELSE b + 1 : b \in P}

pauli_y_count(P) == Cardinality({q \in ModeIds : has_even(P, q) /\ ~has_odd(P, q)})

\* The exponent of i in P * G, negated at the end because the term is rotated by U^ O U.
pauli_rotation_sign(P, G) ==
  LET xG == {q \in ModeIds : has_even(G, q) # has_odd(G, q)}
      e == pauli_y_count(G) + pauli_y_count(P) - pauli_y_count(Times(P, G))
             + 2 * Cardinality({q \in xG : has_even(P, q)})
  IN  Sign(e % 4 = 1)

pauli_state_phase(P, mask) == Sign(Odd(Cardinality(P \cap mask)))

-----------------------------------------------------------------------------
(* Algebra.h: the choice of an algebra.                                    *)

Bases == {"majorana", "pauli"}

fold_generator(basis, G) == IF basis = "majorana" THEN G ELSE pair_swap(G)
fold_needs_odd_correction(basis, G) == basis = "majorana" /\ Odd(Cardinality(G))

\* Parity of the fold of the inverted index' columns: M anticommutes with the generator.
anticommutes(basis, M, G) ==
  Odd(Cardinality(M \cap fold_generator(basis, G))
        + IF fold_needs_odd_correction(basis, G) THEN Cardinality(M) ELSE 0)

emit_phase(basis, M, G) ==
  IF basis = "majorana" THEN majorana_phase(M, G) ELSE pauli_rotation_sign(M, G)

state_phase(basis, M, mask) ==
  IF basis = "majorana" THEN majorana_state_phase(M, mask) ELSE pauli_state_phase(M, mask)
=============================================================================
