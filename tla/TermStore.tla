----------------------------- MODULE TermStore -----------------------------
(***************************************************************************)
(* What the operator store promises to the rest of the engine: a list of   *)
(* distinct terms that only grows, and for every monomial, stored or not,  *)
(* the coefficient the user gave it and its value in the initial state.    *)
(* There are no tables, columns or caches, and nothing is ever late.       *)
(***************************************************************************)
EXTENDS Rotation

CONSTANTS
  Setups,     \* what propagators are constructed with
  Dicts,      \* the operators they are re-weighted with: functions from terms to coefficients
  Drift       \* what a contraction adds to a coefficient, in place of a rotation

VARIABLES setup, terms, op, state

storeVars == <<setup, terms, op, state>>

Given(dict) == [M \in Monomials |-> IF M \in DOMAIN dict THEN dict[M] ELSE 0]

Init ==
  /\ setup \in Setups
  /\ terms = SeedOrder(setup)
  /\ op = [M \in Monomials |-> SeedAmplitude([setup EXCEPT !.schrodinger = FALSE], M)]
  /\ state = [M \in Monomials |-> BornAmplitude([setup EXCEPT !.schrodinger = TRUE], M)]

\* New terms come after the old ones and change no value.
Grow ==
  /\ IsPrefix(terms, terms')
  /\ Cardinality(ToSet(terms')) = Len(terms')
  /\ UNCHANGED <<setup, op, state>>

\* Only the Schroedinger picture takes a term that the operator does not have.
Reweigh ==
  /\ \E dict \in Dicts :
       /\ setup.schrodinger \/ DOMAIN dict \subseteq ToSet(terms)
       /\ op' = Given(dict)
  /\ UNCHANGED <<setup, terms, state>>

Drifted(v) ==
  LET known == ToSet(terms) IN [M \in Monomials |-> IF M \in known THEN v[M] + Drift ELSE v[M]]

\* A contraction changes the vector of the picture, on the terms it has.
Contract ==
  /\ op' = IF setup.schrodinger THEN op ELSE Drifted(op)
  /\ state' = IF setup.schrodinger THEN Drifted(state) ELSE state
  /\ UNCHANGED <<setup, terms>>

Next == Grow \/ Reweigh \/ Contract

Spec == Init /\ [][Next]_storeVars
=============================================================================
