-------------------------- MODULE MCOperatorStore --------------------------
(* Two modes, so fifteen terms and the identity, in at most nine rows: the  *)
(* table is rehashed twice, columns are promoted, a fold has two blocks.   *)
EXTENDS OperatorStore

Setup(basis, schrodinger, operator) ==
  [basis |-> basis, schrodinger |-> schrodinger, initial_operator |-> operator,
   initial_state |-> {0}, max_pairs |-> 1]

Term(M, c) == [term |-> M, coeff |-> c]

MCSetups ==
  {Setup("majorana", FALSE, <<Term({0, 1}, 2), Term({1, 2, 3}, 3)>>),
   Setup("pauli", TRUE, <<Term({0, 1}, 2), Term({0, 2}, 3)>>)}

\* Half of the terms share a hash, and the chains of all start near the end of a table.
MCHash32 == [M \in Monomials |-> IF Cardinality(M) % 2 = 0 THEN 1 ELSE Min(M)]
MCSpread == [h \in 0 .. 3 |-> <<3, 3, 7, 2>>[h + 1]]

\* In the Pauli setup bit 2 stays rare enough for its column to be folded by postings.
MCBatches == {<<{0}, {1}, {3}>>, <<{0, 2}, {1, 3}>>, <<{0, 1}, {1, 2, 3}, {0, 1, 2, 3}, {0, 2, 3}>>}

MCDicts == {{0, 1} :> 5, ({0, 1} :> 7) @@ ({0, 2} :> 11)}
MCGenerators == {{0, 1}, {3}, {0, 2, 3}}
=============================================================================
