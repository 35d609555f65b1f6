---------------------------- MODULE MCFunctional ----------------------------
(* Jobs on two modes: a sweep over all generators on one slot, and worlds of several slots. *)
EXTENDS Functional

\* Both ranks of a bit pattern matter: every bit moves at least one digit.
MCColumn == [d \in 0 .. 1 |-> IF d = 0 THEN {0, 1, 2} ELSE {0, 2, 3}]
MCHash == [M \in SUBSET (0 .. 2 * Modes - 1) |-> SumSet({b * b + 3 * b + 1 : b \in M})]

Place(ranks, parts, linear) == [ranks |-> ranks, parts |-> parts, linear |-> linear]
One == Place(1, 1, FALSE)

\* cos and sin are the angle of the build; an evaluation of the graph takes its parameter's.
G(gen, cos, sin) == [gen |-> gen, cos |-> cos, sin |-> sin, param |-> 1, gen_coeff |-> 1]
Drive(gates, params, coeffs) ==
  [k \in DOMAIN gates |-> [gates[k] EXCEPT !.param = params[k], !.gen_coeff = coeffs[k]]]
T(term, coeff) == [term |-> term, coeff |-> coeff]
Length(k) == [type |-> "length", at |-> k]
Support(k) == [type |-> "support", at |-> k]

\* Angles with rational cosine and sine, and a quarter turn.
Oblique == [cos |-> <<Fraction(5, 13), 0>>, sin |-> <<Fraction(12, 13), 0>>]
Steep == [cos |-> <<Fraction(-7, 25), 0>>, sin |-> <<Fraction(24, 25), 0>>]
Quarter == [cos |-> <<1, 1>>, sin |-> <<1, 0>>]

Plain ==
  [basis |-> "majorana", schrodinger |-> FALSE, mode |-> "contract",
   cap |-> {}, lower_atol |-> {}, upper_atol |-> {}, cutoff |-> Length(2 * Modes),
   initial_operator |-> <<>>, initial_state |-> {0}, max_pairs |-> Modes,
   world |-> One, gates |-> <<>>, ceiling |-> {},
   ask |-> "contract", pare |-> {}, keys |-> <<>>, core |-> 0,
   params |-> <<Oblique>>]

\* All terms but the identity, and those that hold an odd number of letters.
Everything == <<T({0}, 1), T({1}, 2), T({2}, -3), T({3}, 5), T({0, 1}, 7), T({0, 2}, -11),
                T({0, 3}, 13), T({1, 2}, 17), T({1, 3}, -19), T({2, 3}, 23), T({0, 1, 2}, 29),
                T({0, 1, 3}, 31), T({0, 2, 3}, -37), T({1, 2, 3}, 41), T({0, 1, 2, 3}, 43)>>
Some == <<T({0, 1}, 2), T({1, 2}, -3), T({0, 1, 2, 3}, 5)>>

Sweep(basis, seeds) ==
  [n \in 1 .. 15 |-> [Plain EXCEPT !.basis = basis, !.initial_operator = seeds,
                                   !.gates = <<G(Everything[n].term, 3, 4)>>]]

\* Stamps wrap in the second and the fourth gate; the third is the identity.
Three == <<G({0, 2}, 3, 4), G({1, 2}, 3, 4), G({0, 3}, 3, 4)>>
Four == <<G({0, 2}, 3, 4), G({1, 2}, 0, 5), G({}, 3, 4), G({0, 3}, 3, 4)>>

\* X on the first qubit, then two gates that bring ZZ from it: a term that was no seed.
Ladder == <<G({1}, 3, 4), G({1, 2, 3}, 3, 4), G({0, 2}, 3, 4)>>

On(world) == [Plain EXCEPT !.world = world, !.initial_operator = Some, !.gates = Three]

Graph(j) == [j EXCEPT !.mode = "graph"]
GraphWithCoeffs(j) == [j EXCEPT !.mode = "graph_with_coeffs"]

\* The three modes, both algebras, both pictures, and each limit on emission, on worlds of one to
\* four slots; graphs are contracted.
Spread ==
  LET heisenberg == On(Place(2, 1, TRUE))
      pauli == [On(Place(1, 2, FALSE)) EXCEPT !.basis = "pauli"]
      schrodinger == [On(Place(2, 1, TRUE)) EXCEPT !.schrodinger = TRUE]
  IN  << heisenberg,
         [heisenberg EXCEPT !.gates = Four],
         [heisenberg EXCEPT !.cap = {2}],
         Graph([heisenberg EXCEPT !.gates = Four]),
         GraphWithCoeffs([heisenberg EXCEPT !.lower_atol = {8}]),
         [pauli EXCEPT !.lower_atol = {8}, !.upper_atol = {12}, !.cutoff = Length(2)],
         GraphWithCoeffs([pauli EXCEPT !.upper_atol = {12}, !.cutoff = Support(1)]),
         Graph([pauli EXCEPT !.cutoff = Support(1), !.gates = Four]),
         schrodinger,
         Graph([schrodinger EXCEPT !.basis = "pauli", !.max_pairs = 1, !.gates = Ladder]),
         GraphWithCoeffs([schrodinger EXCEPT !.basis = "pauli", !.max_pairs = 1]),
         On(Place(3, 1, FALSE)),
         GraphWithCoeffs([On(Place(3, 1, FALSE)) EXCEPT !.basis = "pauli",
                                                        !.gates = SubSeq(Three, 1, 2)]),
         [On(Place(2, 2, TRUE)) EXCEPT !.gates = SubSeq(Three, 3, 3)],
         [On(Place(4, 1, TRUE)) EXCEPT !.gates = <<G({1, 3}, 3, 4)>>] >>

\* A slot that meets the ceiling in a pass, or after the last exchange of a gate while the other
\* completes it, and the identity after it.
Ceilings ==
  LET short == Graph([On(Place(1, 2, FALSE)) EXCEPT !.ceiling = {3}])
      crossing(a, b) == [On(Place(1, 2, TRUE)) EXCEPT !.gates = <<G({a}, 3, 4), G({b}, 3, 4)>>,
                                                      !.ceiling = {4}]
  IN  << short,
         [short EXCEPT !.mode = "contract"],
         [short EXCEPT !.ceiling = {4}],
         [short EXCEPT !.gates = Four],
         [short EXCEPT !.world = Place(1, 3, FALSE), !.ceiling = {2}],
         crossing(2, 1),
         Graph(crossing(1, 3)) >>

\* Gates that share a parameter, run backwards, or run at twice the angle.
Tied == Drive(Three, <<1, 2, 1>>, <<1, -1, 2>>)
Pair == <<T({0, 1}, 2), T({1, 2}, -3), T({2, 3}, 4), T({0, 1, 2, 3}, 5), T({0, 2}, 7)>>

\* The last gate fills a row that the first one only scaled, its partner being cut off.
Filled == Drive(<<G({1, 2, 3}, 3, 4), G({1, 2}, 3, 4)>>, <<1, 2>>, <<1, 1>>)

\* What is asked of graphs: at oblique angles and at quarter turns in the last, the middle and the
\* first layer, on full and on pared graphs, with rows that are only scaled (a cutoff), on one to
\* three slots.
Asked ==
  LET heisenberg == Graph([On(Place(2, 1, TRUE)) EXCEPT
                             !.initial_operator = Pair, !.gates = Tied, !.core = 11,
                             !.params = <<Oblique, Steep>>, !.ask = "gradient"])
      alone == [heisenberg EXCEPT !.world = One]
      cut == [heisenberg EXCEPT !.cutoff = Length(2)]
      pauli == [cut EXCEPT !.basis = "pauli", !.world = Place(1, 2, FALSE), !.cutoff = Support(1)]
      schrodinger == [heisenberg EXCEPT !.schrodinger = TRUE]
      quarter(j, params) == [j EXCEPT !.params = params]
  IN  << heisenberg,
         [heisenberg EXCEPT !.pare = {0}],
         [heisenberg EXCEPT !.pare = {0}, !.ask = "energy"],
         [heisenberg EXCEPT !.ask = "terms", !.keys = <<{1, 2}, {}, {0, 2}>>],
         [heisenberg EXCEPT !.ask = "terms", !.keys = <<{1, 2}, {0, 1, 2}>>],
         [alone EXCEPT !.basis = "pauli", !.pare = {-1}],
         quarter(alone, <<Quarter, Oblique>>),
         quarter([alone EXCEPT !.cutoff = Length(2)], <<Oblique, Quarter>>),
         quarter(cut, <<Quarter, Oblique>>),
         quarter(cut, <<Oblique, Quarter>>),
         quarter([cut EXCEPT !.pare = {0}], <<Quarter, Quarter>>),
         pauli,
         [pauli EXCEPT !.pare = {0}, !.gates = Drive(Four, <<2, 1, 2, 1>>, <<1, 1, 1, -1>>)],
         quarter(pauli, <<Quarter, Steep>>),
         schrodinger,
         [schrodinger EXCEPT !.pare = {0}],
         [schrodinger EXCEPT !.basis = "pauli", !.max_pairs = 1, !.ask = "energy", !.pare = {0},
                             !.gates = Drive(Ladder, <<1, 2, 1>>, <<1, 1, -1>>)],
         [schrodinger EXCEPT !.cutoff = Length(2), !.initial_operator = <<T({0, 2}, 7)>>,
                             !.ask = "energy", !.pare = {0}, !.gates = Filled],
         quarter([schrodinger EXCEPT !.max_pairs = 1, !.cutoff = Length(2)], <<Quarter, Steep>>),
         [schrodinger EXCEPT !.ask = "terms", !.keys = <<{0, 1, 2, 3}, {}, {0}>>],
         [heisenberg EXCEPT !.world = Place(3, 1, FALSE), !.gates = SubSeq(Tied, 1, 2)] >>

MCJobs ==
  LET swept == Sweep("majorana", Everything) \o Sweep("pauli", Everything)
                 \o Sweep("majorana", Some) \o Sweep("pauli", Some)
  IN  swept \o Spread \o Ceilings \o Asked

\* A generator of two letters keeps the length of a term: with a cap of 2 nothing here is rotated.
CapJobs ==
  << [Plain EXCEPT !.mode = "graph", !.cap = {2}, !.gates = <<G({1, 2}, 3, 4)>>,
                   !.initial_operator = <<T({0, 1, 3}, 2), T({0, 3}, -3)>>] >>
=============================================================================
