------------------------------ MODULE MCShmComm ------------------------------
(* Model-checking instance of ShmComm.                                       *)
EXTENDS ShmComm

Ps == Parts

\* Nobody sends the same amount to everybody; some blocks are empty.
Skewed   == [s \in Ps |-> [d \in Ps |-> (s + 2 * d) % 3]]
ToFirst  == [s \in Ps |-> [d \in Ps |-> IF d = 0 THEN 2 ELSE 0]]
MCMatrices == {Skewed, ToFirst}

MCPairs == {<<>>} \cup {<<v, w>> : v, w \in Verbs}
==============================================================================
