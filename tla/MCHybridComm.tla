---------------------------- MODULE MCHybridComm ----------------------------
(* Model-checking instances of HybridComm.                                   *)
EXTENDS HybridComm

MatrixOf(f(_, _)) == [s \in World |-> [d \in World |-> f(s, d)]]
Skewed   == MatrixOf(LAMBDA s, d : (s + 2 * d) % 3)
Nothing  == MatrixOf(LAMBDA s, d : 0)
Crossing == MatrixOf(LAMBDA s, d : IF RankOf(s) # RankOf(d) THEN 1 + ((s + d) % 2) ELSE 0)
OneWay   == MatrixOf(LAMBDA s, d : IF RankOf(s) = 0 /\ RankOf(d) = R - 1 THEN 1 ELSE 0)
AtHome   == MatrixOf(LAMBDA s, d : IF RankOf(s) = RankOf(d) /\ s # d THEN 1 ELSE 0)

Shift(n) == [sparse |-> TRUE, shift |-> n]
Call(kind, plan, derive, m) == [kind |-> kind, plan |-> plan, derive |-> derive, m |-> m]
Derived(m) == Call("alltoallv", Dense, TRUE, m)

\* One of every verb, on every route.
Calls == {Call("counts", Dense, FALSE, Skewed), Call("counts", Shift(1), FALSE, Crossing),
          Call("resolve", Dense, FALSE, Skewed), Call("resolve", Shift(1), FALSE, Crossing),
          Call("resolve", Shift(0), FALSE, AtHome),
          Call("alltoallv", Dense, FALSE, Skewed), Call("alltoallv", Shift(1), FALSE, Crossing),
          Derived(Skewed), Derived(OneWay), Derived(Nothing),
          Call("sum", Dense, FALSE, Nothing), Call("inplace", Dense, FALSE, Nothing)}
Uncoverable == {Call("resolve", Shift(0), FALSE, Skewed), Call("counts", Shift(1), FALSE, AtHome),
                Call("alltoallv", Shift(0), FALSE, Crossing),
                Call("counts", Shift(0), FALSE, OneWay), Call("resolve", Shift(0), FALSE, OneWay)}

\* A second call is the same again, or one that uses every buffer of the others.
Seconds(c) == {c, Call("resolve", Shift(1), FALSE, Crossing), Call("inplace", Dense, FALSE, Nothing)}

MCPairs == UNION {{<<c, d>> : d \in Seconds(c)} : c \in Calls}
             \cup {<<c>> : c \in Uncoverable}

\* Jobs that fail: in the middle, in the last verb, and after it.
MCFailures == {<<Call("inplace", Dense, FALSE, Nothing), Call("resolve", Dense, FALSE, Skewed)>>,
               <<Call("resolve", Shift(1), FALSE, Crossing), Derived(Crossing)>>,
               <<Call("counts", Shift(1), FALSE, OneWay), Call("sum", Dense, FALSE, Nothing)>>,
               <<Call("alltoallv", Shift(0), FALSE, Crossing)>>}
MCJobs == MCPairs \cup MCFailures
==============================================================================
