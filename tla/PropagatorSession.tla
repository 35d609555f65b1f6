-------------------------- MODULE PropagatorSession --------------------------
(***************************************************************************)
(* One user's session with a propagator: the calls that build the graph,    *)
(* contract it, re-wire its parameters and re-weight the operator, and the  *)
(* functionals handed out in between.  The Python front end keeps the size  *)
(* of the parameter axis; the engine keeps, on every partition, the layers, *)
(* the operand they are contracted into and the epoch of the operator.      *)
(*                                                                          *)
(* A call runs on all partitions as one job and is joined before it         *)
(* returns, so it is one action; a failing call has the outcomes that the   *)
(* partitions can be left in.  Coefficients are abstracted to the rotations *)
(* applied to them, in order.  A rotation is named <<call, gate, term>>.    *)
(***************************************************************************)
EXTENDS Integers, Sequences, FiniteSets, SequencesExt, FiniteSetsExt

CONSTANTS Parts,      \* the partitions
          FirstPart,  \* first_partition_(), which answers for all of them
          Circuits,   \* circuits: sequences of gates [angle, terms]
          Pared,      \* the choices of pare_threshold: TRUE for a number
          MaxCalls, MaxFails

ASSUME SessionAssumption ==
  /\ FirstPart \in Parts /\ IsFiniteSet(Parts)
  /\ Circuits \subseteq Seq([angle : Nat, terms : Nat \ {0}])
  /\ Pared \subseteq BOOLEAN
  /\ MaxCalls \in Nat /\ MaxFails \in Nat

VARIABLES schrodinger,  \* the picture
          graph,        \* graph_ of each partition, in the order of storage
          operand,      \* the rotations contracted into the coefficients
          absorbed,     \* heisenberg_gates_absorbed_
          epoch,        \* initial_operator_epoch_
          weights,      \* the call whose weights the initial operator has
          nParams,      \* _n_params of the Python front end
          functional,   \* the last functional handed out, or None
          seeding,      \* the values at which the last build contracted its seed
          single,       \* history: the equivalent single circuit of the stored layers
          folded,       \* history: the circuit that was contracted, in circuit order
          mutations,    \* history: the calls documented to invalidate a functional
          calls, fails

engine == <<graph, operand, absorbed, epoch, weights>>
history == <<single, folded, mutations>>
vars == <<schrodinger, engine, nParams, functional, seeding, history, calls, fails>>

None == [layers |-> <<>>]

------------------------------------------------------------------------------
(* Circuits *)

\* Circuit.n_parameters, of a circuit or of anything that has angles.
NParameters(c) == IF c = <<>> THEN 0 ELSE Max({c[g].angle : g \in DOMAIN c}) + 1

\* expand_monomials: one rotation per term, the terms of a gate sharing its angle.
ExpandMonomials(c, call) ==
  FlattenSeq([g \in DOMAIN c |-> [t \in 1..c[g].terms |->
    [of |-> <<call, g, t>>, angle |-> c[g].angle, gate |-> g - 1]]])

\* Circuit.__add__: the angles of the right half follow those of the left.
Concatenate(left, right) ==
  left \o [i \in DOMAIN right |-> [right[i] EXCEPT !.angle = @ + NParameters(left)]]

Rotations(c) == [i \in DOMAIN c |-> c[i].of]

------------------------------------------------------------------------------
(* The graph *)

\* n_gates
NGates(g) == IF g = <<>> THEN 0 ELSE Max({g[l].gate : l \in DOMAIN g}) + 1

\* run_gate_loop_: Heisenberg goes from the last gate to the first.
LoopOrder(rotations) == IF schrodinger THEN rotations ELSE Reverse(rotations)

\* Faulty: each at the end, in both pictures.
AppendAtEnd(g, layers) == g \o layers

\* Layers appended one by one: Schroedinger puts each at the front.
AppendLayers(g, layers) == IF schrodinger THEN Reverse(layers) \o g ELSE g \o layers

\* graph_gate_arrays_: the mapping in optimizer order.
ParameterMapping(g) == [i \in DOMAIN g |-> g[Len(g) + 1 - i].angle]
NumParams(g) == NParameters(g)

\* set_parameter_mapping: per layer in optimizer order, or else per gate.
SetParameterMapping(g, mapping) ==
  [l \in DOMAIN g |-> [g[l] EXCEPT !.angle =
     IF Len(mapping) = Len(g) THEN mapping[Len(g) + 1 - l] ELSE mapping[g[l].gate + 1]]]

\* The layers of a circuit on top of graph g, in circuit order.
NewLayers(g, c) ==
  LET rotations == ExpandMonomials(c, calls + 1)
  IN  [i \in DOMAIN rotations |-> [rotations[i] EXCEPT !.angle = @ + nParams,
                                                      !.gate = @ + NGates(g)]]

\* A gate loop that was left when n layers were appended.
Grown(g, c, n) == AppendLayers(g, SubSeq(LoopOrder(NewLayers(g, c)), 1, n))

------------------------------------------------------------------------------
(* The session *)

Init ==
  /\ schrodinger \in BOOLEAN
  /\ graph = [p \in Parts |-> <<>>] /\ operand = [p \in Parts |-> <<>>]
  /\ absorbed = [p \in Parts |-> FALSE]
  /\ epoch = [p \in Parts |-> 0] /\ weights = [p \in Parts |-> 0]
  /\ nParams = 0 /\ functional = None /\ seeding = {}
  /\ single = <<>> /\ folded = <<>> /\ mutations = 0
  /\ calls = 0 /\ fails = 0

\* After a failure that left the partitions with different numbers of layers,
\* the collectives of the next replay do not pair up: nothing more is modelled.
Call ==
  /\ calls < MaxCalls /\ calls' = calls + 1
  /\ \A p, q \in Parts : Len(graph[p]) = Len(graph[q])
  /\ UNCHANGED schrodinger

Completes == UNCHANGED fails
BreaksOff == fails < MaxFails /\ fails' = fails + 1

\* Faulty: in both pictures.
RotatesAlways(c) == nParams > 0 /\ NParameters(c) > 0

\* Heisenberg puts a later circuit before the earlier ones, on the axis too.
RotatesAxis(c) == ~schrodinger /\ nParams > 0 /\ NParameters(c) > 0

\* The seed parameters as the user gives them, on the axis after the call:
\* value i at position i.
UserSeed(c) == [i \in 1..(nParams + NParameters(c)) |-> i - 1]
Rotate(seed, n) == SubSeq(seed, n + 1, Len(seed)) \o SubSeq(seed, 1, n)

\* Faulty: rotated the other way round.
SeedVectorBackwards(c) == IF RotatesAxis(c) THEN Rotate(UserSeed(c), nParams) ELSE UserSeed(c)

\* build_graph moves the values of the new angles behind the others.
SeedVector(c) == IF RotatesAxis(c) THEN Rotate(UserSeed(c), NParameters(c)) ELSE UserSeed(c)

\* What a seeded build contracts at: the stored layers at a prefix of the seed,
\* the new ones by their own mapping.
SeededAt(g, c) ==
  LET prefix == SubSeq(SeedVector(c), 1, NumParams(g))
      new == NewLayers(g, c)
  IN  {<<g[l].of, prefix[g[l].angle + 1]>> : l \in DOMAIN g}
        \union {<<new[i].of, SeedVector(c)[new[i].angle + 1]>> : i \in DOMAIN new}

\* A seed is given, or is the circuit's own parameters if the graph is empty; one
\* of another length is refused before anything changes.  SeedParametersTooShort
\* is thrown if the stored layers need more values than that.
SeedIsAccepted(c) == Len(UserSeed(c)) >= NumParams(graph[FirstPart])

\* Faulty: the stored layers moved down instead of the new ones.
LoweredAngle(m, new, n) == IF m < new THEN m ELSE m - n

\* The stored layers' angles move up by the new ones, which wrap to the front.
Lifted(m, new, n) == (m + new) % n

Build(c) ==
  /\ Call /\ Completes /\ c # <<>>
  /\ \E seeded \in BOOLEAN :
       /\ seeded => SeedIsAccepted(c)
       /\ seeding' = IF seeded THEN SeededAt(graph[FirstPart], c) ELSE {}
  /\ nParams' = nParams + NParameters(c)
  /\ LET grown == [p \in Parts |-> Grown(graph[p], c, Len(NewLayers(graph[p], c)))]
         old == ParameterMapping(grown[FirstPart])
         rotated == [i \in DOMAIN old |-> Lifted(old[i], NParameters(c), nParams')]
     IN  graph' = IF RotatesAxis(c)
                  THEN [p \in Parts |-> SetParameterMapping(grown[p], rotated)] ELSE grown
  /\ LET own == ExpandMonomials(c, calls + 1)
     IN  single' = IF schrodinger THEN Concatenate(single, own) ELSE Concatenate(own, single)
  /\ mutations' = mutations + 1
  /\ UNCHANGED <<operand, absorbed, epoch, weights, functional, folded>>

\* The gate loop throws in its gate n + 1, which the partitions of "ahead" still
\* complete: a term is inserted after the last exchange of its gate (LayerBuild,
\* where none of the gates that follow is an identity).
GateLoopFails(c, n, ahead) ==
  /\ c # <<>> /\ n < Len(ExpandMonomials(c, calls + 1))
  /\ ahead # Parts

BuildFails(c) ==
  /\ Call /\ BreaksOff
  /\ \E n \in 0..(Len(ExpandMonomials(c, calls + 1)) - 1), ahead \in SUBSET Parts :
       /\ GateLoopFails(c, n, ahead)
       /\ graph' = [p \in Parts |-> Grown(graph[p], c, IF p \in ahead THEN n + 1 ELSE n)]
  /\ seeding' = {} /\ mutations' = mutations + 1
  /\ UNCHANGED <<operand, absorbed, epoch, weights, nParams, functional, single, folded>>

\* Faulty: it is not set.
AbsorbedUnnoticed(p, did) == absorbed[p]

\* heisenberg_gates_absorbed_, which nothing clears.
Absorbed(p, did) == absorbed[p] \/ (~schrodinger /\ did)

\* Rotations contracted at once: the operand is all there is of them.
Contracted(p, c, n) == operand[p] \o SubSeq(LoopOrder(Rotations(ExpandMonomials(c, calls + 1))), 1, n)

Fold(rotations) == folded' = IF schrodinger THEN folded \o rotations ELSE rotations \o folded

\* GraphStateConflict on top of a graph.
Propagate(c) ==
  /\ Call /\ Completes /\ c # <<>>
  /\ \A p \in Parts : graph[p] = <<>>
  /\ operand' = [p \in Parts |-> Contracted(p, c, Len(Rotations(ExpandMonomials(c, calls + 1))))]
  /\ absorbed' = [p \in Parts |-> Absorbed(p, TRUE)]
  /\ Fold(Rotations(ExpandMonomials(c, calls + 1)))
  /\ UNCHANGED <<graph, epoch, weights, nParams, functional, seeding, single, mutations>>

PropagateFails(c) ==
  /\ Call /\ BreaksOff
  /\ \A p \in Parts : graph[p] = <<>>
  /\ \E n \in 0..(Len(ExpandMonomials(c, calls + 1)) - 1), ahead \in SUBSET Parts :
       /\ GateLoopFails(c, n, ahead)
       /\ operand' = [p \in Parts |-> Contracted(p, c, IF p \in ahead THEN n + 1 ELSE n)]
       /\ absorbed' = [p \in Parts |->
             Absorbed(p, p \in ahead /\ n + 1 = Len(ExpandMonomials(c, calls + 1)))]
  /\ UNCHANGED <<graph, epoch, weights, nParams, functional, seeding, history>>

\* slice_graph: the layers in the order in which they are replayed.
Sliced(g) == IF schrodinger THEN Reverse(g) ELSE g
Replayed(p) == operand[p] \o Rotations(Sliced(graph[p]))

\* contract_partially in place, of the whole graph.  Parameters are accepted for
\* an empty graph too, and without any the call returns at once.
Contract(haveParameters) ==
  /\ Call /\ Completes
  /\ graph[FirstPart] # <<>> => haveParameters
  /\ operand' = [p \in Parts |-> Replayed(p)]
  /\ absorbed' = [p \in Parts |-> Absorbed(p, haveParameters)]
  /\ graph' = [p \in Parts |-> <<>>]
  /\ nParams' = NumParams(graph'[FirstPart])
  /\ single' = <<>> /\ Fold(Rotations(single))
  /\ mutations' = mutations + (IF graph[FirstPart] = <<>> THEN 0 ELSE 1)
  /\ seeding' = {}
  /\ UNCHANGED <<epoch, weights, functional>>

\* The layers are cut off before they are replayed, and the replay throws.
ContractFails ==
  /\ Call /\ BreaksOff
  /\ graph[FirstPart] # <<>>
  /\ \E done \in SUBSET Parts :
       /\ done # Parts
       /\ operand' = [p \in Parts |-> IF p \in done THEN Replayed(p) ELSE operand[p]]
       /\ absorbed' = [p \in Parts |-> Absorbed(p, p \in done)]
  /\ graph' = [p \in Parts |-> <<>>]
  /\ seeding' = {} /\ mutations' = mutations + 1
  /\ single' = <<>>
  /\ UNCHANGED <<epoch, weights, nParams, functional, folded>>

\* Mappings that validate_parameter_mapping accepts: all angles of their own, in
\* both orders, two angles in turn, and one for all.
Rewirings(n) == {[i \in 1..n |-> i - 1], [i \in 1..n |-> n - i],
                 [i \in 1..n |-> i % 2], [i \in 1..n |-> 0]}
Contiguous(m) == Range(m) = 0..Max(Range(m))

\* The gate of rotation a was authored before that of b.
Before(a, b) == a[1] < b[1] \/ (a[1] = b[1] /\ a[2] < b[2])

\* The number of gates of the stored circuit that were authored before this one.
Authored(of) ==
  LET gates == {<<single[i].of[1], single[i].of[2]>> : i \in DOMAIN single}
  IN  Cardinality({g \in gates : Before(g, of)})

\* The parameter_mapping setter: per layer, per gate when the length says so.
Rewire(n) ==
  /\ Call /\ Completes
  /\ LET g == graph[FirstPart]
     IN  /\ g # <<>> /\ n \in {Len(g), NGates(g)}
         /\ \E mapping \in {m \in Rewirings(n) : Contiguous(m)} :
              /\ graph' = [p \in Parts |-> SetParameterMapping(graph[p], mapping)]
              /\ nParams' = Max(Range(mapping)) + 1
              /\ single' = [i \in DOMAIN single |-> [single[i] EXCEPT !.angle =
                   IF n = Len(single) THEN mapping[i]
                   ELSE mapping[Authored(single[i].of) + 1]]]
  /\ seeding' = {}
  /\ UNCHANGED <<operand, absorbed, epoch, weights, functional, folded, mutations>>

\* Faulty: once the terms were found.
BumpEpochLate(found) == [p \in Parts |-> IF found THEN epoch[p] + 1 ELSE epoch[p]]

\* apply_initial_operator_ bumps the epoch before it looks at the terms.
BumpEpoch(found) == [p \in Parts |-> epoch[p] + 1]

\* update_initial_operator.  A Heisenberg partition that owns a term it does not
\* find throws and keeps its weights, while the others have no exchange that would
\* stop them; an index out of range is refused by every partition.
Reweight(owner) ==
  /\ Call /\ Completes
  /\ owner # {} => (~schrodinger \/ owner = Parts)
  /\ epoch' = BumpEpoch(owner = {})
  /\ weights' = [p \in Parts |-> IF p \in owner THEN weights[p] ELSE calls + 1]
  /\ mutations' = mutations + 1
  /\ UNCHANGED <<graph, operand, absorbed, nParams, functional, seeding, single, folded>>

\* make_functional_: the graph is shared, or a pared copy of its own.
MakeFunctional(pared) ==
  /\ Call /\ Completes
  /\ functional' = [layers |-> [p \in Parts |-> Len(graph[p])],
                    own |-> pared,
                    epoch |-> epoch, weights |-> weights, mutations |-> mutations]
  /\ UNCHANGED <<engine, nParams, seeding, history>>

Next ==
  \/ \E c \in Circuits : Build(c) \/ BuildFails(c) \/ Propagate(c) \/ PropagateFails(c)
  \/ \E have \in BOOLEAN : Contract(have)
  \/ ContractFails
  \/ \E n \in {Len(graph[FirstPart]), NGates(graph[FirstPart])} : Rewire(n)
  \/ \E owner \in SUBSET Parts : Reweight(owner)
  \/ \E pared \in Pared : MakeFunctional(pared)

Spec == Init /\ [][Next]_vars

------------------------------------------------------------------------------
(* Properties *)

Layers == [of : Seq(Nat), angle : Nat, gate : Nat]

\* The engine's state has its type: a layer's angle and gate are numbers that the
\* arithmetic of the axis and of the gate indices keeps from going negative.
SessionTypeOK ==
  /\ schrodinger \in BOOLEAN
  /\ graph \in [Parts -> Seq(Layers)]
  /\ operand \in [Parts -> Seq(Seq(Nat))]
  /\ folded \in Seq(Seq(Nat))
  /\ absorbed \in [Parts -> BOOLEAN]
  /\ epoch \in [Parts -> 0..MaxCalls] /\ weights \in [Parts -> 0..MaxCalls]
  /\ nParams \in Nat /\ calls \in 0..MaxCalls /\ fails \in 0..MaxFails

\* What was contracted followed by what is stored, in the order of replay, is the
\* one circuit that the calls are documented to add up to: a + b in Schroedinger,
\* read forwards, and b + a in Heisenberg, read backwards.
ReplaysTheCircuit ==
  fails = 0 => \A p \in Parts :
    Replayed(p) = IF schrodinger THEN folded \o Rotations(single)
                                 ELSE Reverse(Rotations(single) \o folded)

\* A graph built in several calls is driven by the same parameters, at the same
\* places of the axis, as one built from the single circuit and re-wired alike.
\* Two of its layers have one gate index exactly if they are terms of one gate of
\* one call, even after a build broke off: otherwise a re-wiring per gate would tie
\* angles that belong to different gates.
AxisMatchesSingleCircuit ==
  /\ fails = 0 =>
       /\ nParams = NParameters(single)
       /\ \A p \in Parts : ParameterMapping(graph[p]) = [i \in DOMAIN single |-> single[i].angle]
  /\ \A p \in Parts : \A k, l \in Range(graph[p]) :
       k.gate = l.gate <=> SubSeq(k.of, 1, 2) = SubSeq(l.of, 1, 2)

\* A build that is informed by coefficients contracts its seed at the point that
\* the user gave: every layer at the value that, on the axis after the call, is at
\* that layer's place.
SeedsAtUsersPoint ==
  fails = 0 /\ seeding # {} =>
    seeding = {<<l.of, l.angle>> : l \in Range(graph[FirstPart])}

\* term_expectation_values answers only while no gate was contracted into a
\* Heisenberg operator, because its replay would leave that gate out.
TermValuesSeeEveryGate ==
  ~schrodinger /\ ~absorbed[FirstPart] => \A p \in Parts : operand[p] = <<>>

\* The same as long as every call ran to its end.
TermValuesSeeCompletedCalls == fails = 0 => TermValuesSeeEveryGate

\* Would the functional answer if it were called now, on every partition?  The
\* pared one compares the layers of its own copy.
Answers ==
  /\ functional # None
  /\ \A p \in Parts :
       /\ functional.epoch[p] = epoch[p]
       /\ functional.own \/ functional.layers[p] = Len(graph[p])

\* A functional that answers has the weights that the operator has: a re-weight,
\* even one that failed on some partitions, invalidates it.
ReweightInvalidates ==
  Answers => \A p \in Parts : functional.weights[p] = weights[p]

\* The documentation's rule for functionals: one that answers was handed out after
\* the last build_graph, contract_partially or update_initial_operator.
FunctionalIsInvalidated == Answers => functional.mutations = mutations

\* The structure of the graph is identical on every partition.
PartitionsAgree == \A p, q \in Parts : graph[p] = graph[q]

------------------------------------------------------------------------------
(* Why the first five hold, as an inductive invariant. *)

\* The equivalent circuit, whose angles are read as they are.
SingleTypeOK ==
  single \in Seq([of : Seq(Nat), angle : {single[i].angle : i \in DOMAIN single}, gate : Nat])

\* Partitions that have as many layers as one another have the same layers: a
\* build that broke off left the rest of them a layer apart.
EqualLengthEqualLayers ==
  \A p, q \in Parts : Len(graph[p]) = Len(graph[q]) => graph[p] = graph[q]

\* What was contracted and what is stored, each in its order.
OrderInv ==
  fails = 0 => \A p \in Parts :
    /\ operand[p] = IF schrodinger THEN folded ELSE Reverse(folded)
    /\ Rotations(graph[p]) = Reverse(Rotations(single))

\* The operator a functional was handed out for is this one, or of an earlier epoch.
EpochInv ==
  /\ \A p \in Parts : epoch[p] <= calls /\ weights[p] <= calls
  /\ functional # None =>
       \A p \in Parts : /\ functional.epoch[p] \in 0..epoch[p]
                        /\ functional.epoch[p] = epoch[p] => functional.weights[p] = weights[p]

\* What is replayed: the order of the rotations, the weights, and who may answer.
ReplayInv ==
  /\ SessionTypeOK /\ SingleTypeOK /\ EqualLengthEqualLayers
  /\ OrderInv /\ EpochInv /\ TermValuesSeeCompletedCalls

\* Gate indices have the order in which the gates were authored, in both pictures
\* and also when a build broke off.
GatesOrdered(g, lastCall) ==
  /\ \A l \in DOMAIN g : g[l].of \in Nat \X Nat \X Nat /\ g[l].of[1] <= lastCall
  /\ \A k, l \in DOMAIN g : g[k].gate < g[l].gate <=> Before(g[k].of, g[l].of)

\* No index is left out, so that a mapping per gate has a use for all its values.
GatesContiguous(g) == \A n \in 0..(NGates(g) - 1) : \E l \in DOMAIN g : g[l].gate = n

\* Where the layers are: gate indices, parameters and seeds.
AxisInv ==
  /\ \A p \in Parts : GatesOrdered(graph[p], calls)
  /\ fails = 0 =>
       /\ nParams = NParameters(single)
       /\ \A p \in Parts :
            /\ ParameterMapping(graph[p]) = [i \in DOMAIN single |-> single[i].angle]
            /\ GatesContiguous(graph[p])
  /\ SeedsAtUsersPoint

\* The invariant of a session: what it replays and on which axis.
SessionInv == ReplayInv /\ AxisInv

=============================================================================
