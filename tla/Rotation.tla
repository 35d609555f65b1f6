------------------------------ MODULE Rotation ------------------------------
(***************************************************************************)
(* What the evolution of an operator promises, without slots, rows, passes *)
(* or messages: a gate maps the whole operator at once.  The operator is   *)
(* the set of terms it has (present) and an amplitude for every monomial;  *)
(* a monomial that is not present has the amplitude it would be inserted   *)
(* with.  Phases come from the product of the letters, so that the         *)
(* engine's mask and word formulas are checked against a definition.       *)
(*                                                                         *)
(* A job gives the angle of a gate as the integers cos and sin: all that   *)
(* is used of them is that they are numbers, so that no coefficient ever   *)
(* needs rounding.                                                         *)
(***************************************************************************)
EXTENDS Algebra, Sequences, SequencesExt

-----------------------------------------------------------------------------
(* Products of letters, as powers of i.                                    *)

\* A Hermitian Majorana term is i^(n(n-1)/2) times its modes in descending order.
\* Multiplying by G from the right moves each mode of G past the smaller ones of M.
MajoranaPower(M, G) ==
  LET swaps == Cardinality({mg \in M \X G : mg[1] < mg[2]})
  IN  (2 * swaps + n_choose_2(Cardinality(M)) + n_choose_2(Cardinality(G))
         - n_choose_2(Cardinality(Times(M, G)))) % 4

Letter(P, q) == CASE has_even(P, q) /\ has_odd(P, q) -> "Z"
                  [] has_even(P, q) /\ ~has_odd(P, q) -> "Y"
                  [] ~has_even(P, q) /\ has_odd(P, q) -> "X"
                  [] OTHER -> "I"

\* XY = iZ and its rotations; in the other order -i.
Cyclic == {<<"X", "Y">>, <<"Y", "Z">>, <<"Z", "X">>}

PauliPower(P, G) ==
  LET letters(q) == <<Letter(P, q), Letter(G, q)>>
      swapped(q) == <<Letter(G, q), Letter(P, q)>>
  IN  (Cardinality({q \in ModeIds : letters(q) \in Cyclic})
         + 3 * Cardinality({q \in ModeIds : swapped(q) \in Cyclic})) % 4

\* M and G anticommute iff their product is antihermitian: an odd power of i.
Power(basis, M, G) == IF basis = "majorana" THEN MajoranaPower(M, G) ELSE PauliPower(M, G)
Anticommute(basis, M, G) == Odd(Power(basis, M, G))

\* The sign of the sine term that M sends to M (+) G.
SinePhase(basis, M, G) ==
  IF basis = "majorana" THEN 2 - Power(basis, M, G) ELSE Power(basis, M, G) - 2

-----------------------------------------------------------------------------
(* Limits are sets of at most one number: {} is "not given".               *)

Abs(x) == IF x < 0 THEN -x ELSE x

Passes(job, M) ==
  IF job.cutoff.type = "length" THEN length_cutoff(M, job.cutoff.at)
                                ELSE support_cutoff(M, job.cutoff.at)

\* Only the modes that carry coefficients can compare them.
WithCoefficients(job) == job.mode # "graph"

WithinCap(job, M) == \A k \in job.cap : Cardinality(M) <= k

Emits(job, op, gate, M) ==
  LET size == gate.sin * Abs(op.amp[M])
  IN  /\ M \in op.present
      /\ Anticommute(job.basis, M, gate.gen)
      /\ WithinCap(job, M)
      /\ WithCoefficients(job) => \A t \in job.lower_atol : size > t
      /\ \/ Passes(job, Times(M, gate.gen))
         \/ WithCoefficients(job) /\ \E t \in job.upper_atol : size >= t

\* In the Schroedinger picture the state is rotated, by the opposite angle.
ApplySin(job, gate) == IF job.schrodinger THEN -gate.sin ELSE gate.sin

\* The terms that a gate rotates, and those that it scales: all that anticommute and that it inserts.
Rotated(job, op, gate) ==
  {M \in Monomials : Emits(job, op, gate, M) \/ Emits(job, op, gate, Times(M, gate.gen))}

Scaled(job, op, gate) ==
  (Rotated(job, op, gate) \ op.present)
    \cup {M \in op.present : Anticommute(job.basis, M, gate.gen) /\ WithinCap(job, M)}

Rotate(job, op, gate) ==
  LET partner(M) == Times(M, gate.gen)
      rotated == Rotated(job, op, gate)
      scaled == Scaled(job, op, gate)
  IN  [present |-> op.present \cup rotated,
       amp |-> [M \in Monomials |->
                  (IF M \in scaled THEN gate.cos ELSE 1) * op.amp[M]
                    + IF M \in rotated
                      THEN ApplySin(job, gate) * SinePhase(job.basis, partner(M), gate.gen)
                             * op.amp[partner(M)]
                      ELSE 0]]

-----------------------------------------------------------------------------
(* The operator before the first gate: the user's in the Heisenberg        *)
(* picture, in the Schroedinger picture the diagonal terms of the initial  *)
(* product state, up to max_pairs letters.                                 *)

BornAmplitude(job, M) ==
  IF job.schrodinger /\ is_paired(M)
  THEN state_phase(job.basis, M, initial_state_mask(job.initial_state))
  ELSE 0

SeedTerms(job) ==
  IF job.schrodinger
  THEN {M \in Monomials : is_paired(M) /\ Cardinality(M) <= 2 * job.max_pairs}
  ELSE {job.initial_operator[i].term : i \in DOMAIN job.initial_operator}

\* A set as a sequence, in the order given as a set of pairs: member k has k - 1 before it.
InOrder(set, before) ==
  [k \in 1 .. Cardinality(set) |->
     CHOOSE x \in set : Cardinality({y \in set : <<y, x>> \in before}) = k - 1]

\* for_each_paired_monomial: fewer pairs first, then the pairs of the lower modes.
PairedBefore(A, B) ==
  \/ Cardinality(A) < Cardinality(B)
  \/ /\ Cardinality(A) = Cardinality(B)
     /\ \E q \in ModeIds : /\ has_even(A, q) /\ ~has_even(B, q)
                           /\ \A r \in 0 .. q - 1 : has_even(A, r) = has_even(B, r)

PairedOrder(set) == {pair \in set \X set : PairedBefore(pair[1], pair[2])}

SeedOrder(job) ==
  IF job.schrodinger
  THEN InOrder(SeedTerms(job), PairedOrder(SeedTerms(job)))
  ELSE [i \in DOMAIN job.initial_operator |-> job.initial_operator[i].term]

SeedAmplitude(job, M) ==
  LET given == {i \in DOMAIN job.initial_operator : job.initial_operator[i].term = M}
  IN  IF job.schrodinger \/ given = {}
      THEN BornAmplitude(job, M)
      ELSE job.initial_operator[CHOOSE i \in given : TRUE].coeff

Seed(job) ==
  [present |-> SeedTerms(job), amp |-> [M \in Monomials |-> SeedAmplitude(job, M)]]

\* The operator after each number of gates, in the order the engine applies them.
Course(job) ==
  FoldLeft(LAMBDA ops, gate : Append(ops, Rotate(job, ops[Len(ops)], gate)),
           <<Seed(job)>>, job.gates)
=============================================================================
