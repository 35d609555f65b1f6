------------------------- MODULE MCPropagatorSession -------------------------
(* PropagatorSession on small circuits: one gate, a gate of two terms with a
   second angle, and gates that share an angle out of order. *)
EXTENDS PropagatorSession

CONSTANTS p1, p2

Gate(angle, terms) == [angle |-> angle, terms |-> terms]

MCCircuits == {<<Gate(0, 1)>>, <<Gate(0, 2), Gate(1, 1)>>, <<Gate(1, 1), Gate(0, 1), Gate(1, 1)>>}
MCShort == {<<Gate(0, 1)>>, <<Gate(0, 1), Gate(1, 2)>>}
==============================================================================
