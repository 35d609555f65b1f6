----------------------------- MODULE Functional -----------------------------
(***************************************************************************)
(* Evaluation of a finished graph (src/cpp/monoprop/Evolution.cpp,         *)
(* MPFunctions.cpp, detail/pare/PareGraph.cpp and make_functional_ of      *)
(* MonomialPropagator.inl): contract_partially, the expectation value, its *)
(* gradient by a forward and a reverse sweep, and the values of terms, on  *)
(* the graph or on a pared copy of it.  Each slot goes through the layers  *)
(* on its own and meets the others in the exchange of a layer and in the   *)
(* reductions.  Module Evaluation says what the answers must be.           *)
(*                                                                         *)
(* A job says what is asked of its graph (ask), at which parameters, from  *)
(* which threshold the graph is pared (none if {}), and which terms are    *)
(* looked up (keys).  Coefficients are those of the Hermitian rows, before *)
(* algebra_decode_coeff gives a term its phase back.                       *)
(***************************************************************************)
EXTENDS LayerBuild, Evaluation

ASSUME AsksAssumption ==
  \A i \in DOMAIN Jobs :
    LET j == Jobs[i] IN
    j.mode # "contract" =>
      /\ j.ask \in {"contract", "energy", "gradient", "terms"}
      /\ \A k \in DOMAIN j.gates :
           j.gates[k].param \in DOMAIN j.params /\ j.gates[k].gen_coeff \in {-1, 1, 2}
      /\ j.pare # {} => j.ask \in {"energy", "gradient"}

VARIABLES
  fun,    \* what each slot knows of the running evaluation
  board   \* what it has put into the reductions, in order

allVars == <<vars, fun, board>>
building == <<id, pc, pass, gate, rows, coef, matched, work, layers>>

\* Evaluated once per job.
Truths == [i \in DOMAIN Jobs |->
             IF Jobs[i].mode = "contract" THEN <<>> ELSE Truth(Jobs[i], Courses[i])]

NotFound == "not found"

Idle ==
  [at |-> "idle", layer |-> 0, vec |-> <<>>, dual |-> <<>>, cos |-> <<>>, record |-> <<>>,
   self |-> <<>>, snap |-> <<>>, A |-> Zero, ep |-> <<Zero, Zero>>, sums |-> 0,
   gradient |-> <<>>, energy |-> Zero, terms |-> <<>>]

-----------------------------------------------------------------------------
(* The view of the layers that an evaluation goes through.                 *)

Count == Len(job.gates)

\* A Schroedinger graph grows at its front, so that a functional meets its last gate first;
\* contract_partially takes the layers from the back.
BuildIndex(l) == IF job.schrodinger /\ job.ask # "contract" THEN Count + 1 - l ELSE l

LayerAt(p, l) == layers[p][BuildIndex(l)]
GateAt(l) == job.gates[BuildIndex(l)]

PhaseForward == 1

\* The state is evolved in the Schroedinger picture, and pushed back for the terms, by the opposite angle.
Phase == IF job.ask = "terms" \/ (job.ask = "contract" /\ job.schrodinger) THEN -1 ELSE 1

\* fill_mapped_params
MappedAngle(l) == LET a == Angle(job, GateAt(l)) IN IF Phase = 1 THEN a ELSE Back(a)

CosIndicesOfAllRows(p, l) == Fold(p, LayerAt(p, l).generator, Len(rows[p]))

\* Without a stored set, the cosine set is recomputed from the generator over the rows of that time.
FullCos(p, l) == Fold(p, LayerAt(p, l).generator, LayerAt(p, l).scaled_count)

CosSet(p, l) == IF fun[p].cos = <<>> THEN FullCos(p, l) ELSE fun[p].cos[l]

Ascended(indices) == SetToSortSeq(indices, <)

RecvIndices(layer, q) ==
  {slot_sin_recv_index(layer.slot[q], k) : k \in DOMAIN layer.slot[q].sin_send}

-----------------------------------------------------------------------------
(* make_functional_ and pare_graph.                                        *)

PassedIgnoresPicture(l) == l .. Count

\* The sweep goes against the evolution of the vector whose zeros are pared; the endpoints of a
\* layer are kept before its cosine is filtered.
Passed(l) == IF job.schrodinger THEN 1 .. l ELSE l .. Count

\* Endpoints receive in every slot; sources are forced only for remote slots.
mark_cross_rank_endpoints_kept(p, l) ==
  UNION {RecvIndices(LayerAt(p, l), q) : q \in S}
    \cup UNION {Range(LayerAt(p, l).slot[q].sin_send) : q \in S \ {p}}

indices_above(v, threshold) == {i \in DOMAIN v : Abs(v[i][1]) > threshold}

pare_graph(p, nonzero) ==
  [l \in 1 .. Count |->
     FullCos(p, l) \cap
       (nonzero \cup UNION {mark_cross_rank_endpoints_kept(p, k) : k \in Passed(l)})]

Amplitudes(p, amplitude) == [i \in DOMAIN rows[p] |-> Whole(amplitude[rows[p][i]])]

\* Which of the two vectors moves through the layers first.
MovesState == Phase = -1

\* The call that builds the graph returns when all partitions of the rank have.
BuildReturned(p) ==
  \A q \in S : rank_of_slot(World, q) = rank_of_slot(World, p) => pc[q] = "done"

make_functional(p) ==
  LET op == Amplitudes(p, [M \in Monomials |-> OperatorAmplitude(job, M)])
      state == Amplitudes(p, [M \in Monomials |-> StateAmplitude(job, M)])
      driving == IF job.schrodinger THEN op ELSE state
  IN  /\ BuildReturned(p) /\ ~Contracts /\ fun[p].at = "idle"
      /\ fun' = [fun EXCEPT ![p] =
           [Idle EXCEPT
              !.at = "forward",
              !.layer = IF job.ask = "terms" THEN Count ELSE 1,
              !.vec = IF MovesState THEN state ELSE op,
              !.dual = IF MovesState THEN op ELSE state,
              !.cos = IF job.pare = {} THEN <<>>
                      ELSE pare_graph(p, UNION {indices_above(driving, t) : t \in job.pare}),
              !.gradient = [k \in DOMAIN job.params |-> Zero]]]
      /\ UNCHANGED <<building, mail, board>>

-----------------------------------------------------------------------------
(* The forward sweep: evolve_step, and the records it leaves.              *)

\* kVanishingCos and kRecordSpreadBits, with cosines of 0 or 53 bits.
WantsCosineSet(l) == MappedAngle(l).cos[2] > 0
WantsRotationsBelow(l) == l > 1 /\ \E k \in l .. Count : MappedAngle(k).cos[2] > 0

RecordedRotations(p, l) ==
  IF WantsRotationsBelow(l) THEN UNION {RecvIndices(LayerAt(p, l - 1), q) : q \in S} ELSE {}

RecordedOnlyRotations(p, l) == RecordedRotations(p, l)

layout_cos_records(p, l) ==
  RecordedRotations(p, l) \cup IF WantsCosineSet(l) THEN CosSet(p, l) ELSE {}

record_pre_layer(p, l) == [i \in layout_cos_records(p, l) |-> fun[p].vec[i]]

StepForward(p) ==
  LET l == fun[p].layer
      layer == LayerAt(p, l)
      cosines == CosSet(p, l)
      angle == MappedAngle(l)
      payload == [q \in S |-> Payload(layer, q, fun[p].vec)]
  IN  /\ fun[p].at = "forward"
      /\ fun' = [fun EXCEPT
           ![p].record = IF job.ask = "gradient" THEN Append(@, record_pre_layer(p, l)) ELSE @,
           ![p].self = payload[p],
           ![p].vec = [i \in DOMAIN @ |->
                         IF i \in cosines THEN FMul(angle.cos, @[i]) ELSE @[i]],
           ![p].at = "forward_wait"]
      /\ PostLegs(p, layer, payload)
      /\ UNCHANGED <<building, board>>

\* evolve_operator goes up the layers, ev_op_gradient down.
IsLastLayer(p) == fun[p].layer = IF job.ask = "terms" THEN 1 ELSE Count
NextLayer(l) == IF job.ask = "terms" THEN l - 1 ELSE l + 1

StepForwardWait(p) ==
  LET l == fun[p].layer
      layer == LayerAt(p, l)
      from == SineSources(p, layer)
      values(q) == IF q = p THEN fun[p].self ELSE Head(mail[q][p])
      sines(q, i) == {k \in DOMAIN layer.slot[q].sin_send :
                        slot_sin_recv_index(layer.slot[q], k) = i}
      sine(q, k) == FMul(MappedAngle(l).sin, FMul(Whole(layer.slot[q].phases[k]), values(q)[k]))
      \* At most one of them is there: each row is the endpoint of one rotation.
      added(i) == FSum(SetToSeq({sine(q, k) : <<q, k>> \in
                    UNION {{q} \X sines(q, i) : q \in Occupied(layer)}}))
  IN  /\ fun[p].at = "forward_wait" /\ Arrived(p, from)
      /\ mail' = Taken(p, from)
      /\ fun' = [fun EXCEPT
           ![p].vec = [i \in DOMAIN @ |-> FAdd(@[i], added(i))],
           ![p].layer = IF IsLastLayer(p) THEN @ ELSE NextLayer(@),
           ![p].at = IF ~IsLastLayer(p) THEN "forward"
                     ELSE IF job.ask = "contract" THEN "answered" ELSE "reduce"]
      /\ UNCHANGED <<building, board>>

-----------------------------------------------------------------------------
(* The reductions.                                                         *)

inner_product(p) == FSum([i \in DOMAIN rows[p] |-> FMul(fun[p].dual[i], fun[p].vec[i])])

\* term_expectation_values: each value, and each flag that says who has it.
GatheredTerms(p) ==
  LET found(M) == find(p, M) # {}
  IN  [k \in DOMAIN job.keys |->
         IF found(job.keys[k]) THEN fun[p].vec[Row(p, job.keys[k])] ELSE Zero]
      \o [k \in DOMAIN job.keys |-> Whole(IF found(job.keys[k]) THEN 1 ELSE 0)]

Contribution(p) ==
  CASE job.ask = "terms" -> GatheredTerms(p)
    [] job.ask # "terms" /\ fun[p].sums = 0 -> <<inner_product(p)>>
    [] OTHER -> fun[p].gradient

PostSum(p) ==
  /\ fun[p].at = "reduce"
  /\ board' = [board EXCEPT ![p] = Append(@, Contribution(p))]
  /\ fun' = [fun EXCEPT ![p].at = "reducing"]
  /\ UNCHANGED <<building, mail>>

TakesPart(p) == \A q \in S : Len(board[q]) > fun[p].sums

\* Summed in the order of the slots.
Summed(round) ==
  [k \in DOMAIN board[0][round] |->
     FSum([n \in 1 .. flat_world(World) |-> board[n - 1][round][k]])]

\* A term that nobody has is refused in the Heisenberg picture, and zero in the other.
TermAnswers(sum) ==
  LET n == Len(job.keys)
      absent == {k \in 1 .. n : sum[n + k] = Zero /\ job.keys[k] # {}}
  IN  IF absent # {} /\ ~job.schrodinger
      THEN NotFound
      ELSE [k \in 1 .. n |-> IF job.keys[k] = {} THEN Whole(1)
                             ELSE IF k \in absent THEN Zero ELSE sum[k]]

\* ev() returns with its only sum, ev_and_grad() has the gradient to compute after it.
TakeSum(p) ==
  LET sum == Summed(fun[p].sums + 1)
      energySum == job.ask # "terms" /\ fun[p].sums = 0
      goesOn == job.ask = "gradient" /\ fun[p].sums = 0
  IN  /\ fun[p].at = "reducing" /\ TakesPart(p)
      /\ fun' = [fun EXCEPT
           ![p].sums = @ + 1,
           ![p].energy = IF energySum THEN FAdd(Whole(job.core), sum[1]) ELSE @,
           ![p].gradient = IF job.ask = "gradient" /\ ~energySum THEN sum ELSE @,
           ![p].terms = IF job.ask = "terms" THEN TermAnswers(sum) ELSE @,
           ![p].at = IF goesOn THEN "reverse" ELSE "answered"]
      /\ UNCHANGED <<building, mail, board>>

-----------------------------------------------------------------------------
(* The reverse sweep: state_operator_derivative_local.                     *)

TrigValues(l) ==
  LET a == Angle(job, GateAt(l))
  IN  [cos |-> a.cos, sin |-> a.sin, sec |-> FInverse(a.cos), g |-> Whole(2 * GateAt(l).gen_coeff)]

\* A rotation's end takes cos times its own value and -sin times its partner's.
Unrotated(trig, phi, own, partner) ==
  FAdd(FMul(own, trig.cos), FMul(FNeg(FMul(trig.sin, Whole(phi))), partner))

\* What a vector becomes where the ends of a slot are written back.
WrittenBack(v, index, value) ==
  [i \in DOMAIN v |-> LET at == {k \in DOMAIN index : index[k] = i}
                      IN  IF at = {} THEN v[i] ELSE value[CHOOSE k \in at : TRUE]]

\* Entry values that the cosine pass would overwrite, for every remote slot, and for the own slot
\* if there is a record.
snapshot_remote_endpoints(p, layer) ==
  [q \in S |->
     LET slot == layer.slot[q]
         sent == IF q = p THEN <<>> ELSE slot.sin_send
         received == [k \in DOMAIN sent |-> slot_sin_recv_index(slot, k)]
     IN  [send_state |-> [k \in DOMAIN sent |-> fun[p].dual[sent[k]]],
          send_op    |-> [k \in DOMAIN sent |-> fun[p].vec[sent[k]]],
          recv_state |-> [k \in DOMAIN sent |-> fun[p].dual[received[k]]],
          recv_op    |-> [k \in DOMAIN sent |-> fun[p].vec[received[k]]]]]

\* The own slot: both ends of a rotation are read before either is written.
apply_self_slot_derivative_paired(p, l, trig, state, op, h_pre) ==
  LET slot == LayerAt(p, l).slot[p]
      ends == DOMAIN slot.sin_send
      pairs == Len(slot.sin_send) \div 2
      other(k) == IF k <= pairs THEN k + pairs ELSE k - pairs
      index == [k \in ends |-> slot_sin_recv_index(slot, k)]
      s == [k \in ends |-> FMul(state[index[k]], trig.sec)]
      h == [k \in ends |-> IF h_pre # <<>> THEN h_pre[k] ELSE FMul(op[index[k]], trig.cos)]
      both(f(_)) == FSum([k \in 1 .. pairs |-> FAdd(f(k), f(k + pairs))])
      cosTerm(k) == FMul(s[k], op[index[k]])
      sinTerm(k) == FMul(FMul(Whole(slot.phases[k]), s[k]), h[other(k)])
      newOp == [k \in ends |-> Unrotated(trig, slot.phases[k], h[k], h[other(k)])]
      newState == [k \in ends |-> Unrotated(trig, slot.phases[k], s[k], s[other(k)])]
  IN  [op |-> WrittenBack(op, index, newOp),
       state |-> WrittenBack(state, index, newState),
       ep |-> <<both(cosTerm), both(sinTerm)>>]

\* Op and state of an end travel side by side.
DerivativePayload(snap, q) ==
  [n \in 1 .. 2 * Len(snap[q].send_op) |->
     LET k == (n + 1) \div 2 IN IF n % 2 = 1 THEN snap[q].send_state[k] ELSE snap[q].send_op[k]]

\* Up to the wait: snapshots, the exchange, the cosine pass around the record, the own slot.
StepBack(p) ==
  LET l == fun[p].layer
      trig == TrigValues(l)
      layer == LayerAt(p, l)
      state == fun[p].dual
      op == fun[p].vec
      record == fun[p].record[l]
      cosines == CosSet(p, l)
      snap == snapshot_remote_endpoints(p, layer)
      self == layer.slot[p]
      h_pre == IF DOMAIN record = {} THEN <<>>
               ELSE [k \in DOMAIN self.sin_send |-> op[slot_sin_recv_index(self, k)]]
      predivided == [i \in DOMAIN op |->
                       IF i \in DOMAIN record THEN FMul(record[i], trig.cos) ELSE op[i]]
      ascending == Ascended(cosines)
      A == FMul(FSum([n \in DOMAIN ascending |->
                        FMul(state[ascending[n]], predivided[ascending[n]])]),
                trig.sec)
      restored == [i \in DOMAIN op |->
                     IF i \in DOMAIN record THEN record[i]
                     ELSE IF i \in cosines THEN FMul(op[i], trig.sec) ELSE op[i]]
      scaled == [i \in DOMAIN state |->
                   IF i \in cosines THEN FMul(state[i], trig.cos) ELSE state[i]]
      local == apply_self_slot_derivative_paired(p, l, trig, scaled, restored, h_pre)
      payload == [q \in S |-> DerivativePayload(snap, q)]
  IN  /\ fun[p].at = "reverse"
      /\ PostLegs(p, layer, payload)
      /\ fun' = [fun EXCEPT ![p].snap = snap, ![p].A = A, ![p].ep = local.ep,
                            ![p].vec = local.op, ![p].dual = local.state,
                            ![p].at = "reverse_wait"]
      /\ UNCHANGED <<building, board>>

\* The ends whose partners are on slot q.
apply_cross_rank_derivative_exchange(p, l, trig, q, acc) ==
  LET slot == LayerAt(p, l).slot[q]
      ends == DOMAIN slot.sin_send
      index == [k \in ends |-> slot_sin_recv_index(slot, k)]
      s_old == fun[p].snap[q].recv_state
      h_old == fun[p].snap[q].recv_op
      s_p(k) == Head(mail[q][p])[2 * k - 1]
      h_p(k) == Head(mail[q][p])[2 * k]
      newOp == [k \in ends |-> Unrotated(trig, slot.phases[k], h_old[k], h_p(k))]
      newState == [k \in ends |-> Unrotated(trig, slot.phases[k], s_old[k], s_p(k))]
      cosTerms == [k \in ends |-> FMul(s_old[k], acc.op[index[k]])]
      sinTerms == [k \in ends |-> FMul(FMul(Whole(slot.phases[k]), s_old[k]), h_p(k))]
  IN  [op |-> WrittenBack(acc.op, index, newOp),
       state |-> WrittenBack(acc.state, index, newState),
       ep |-> <<FSum(<<acc.ep[1]>> \o cosTerms), FSum(<<acc.ep[2]>> \o sinTerms)>>]

\* dE/dtheta = -g (sin (A - cos_terms) - sin_terms)
StepBackWait(p) ==
  LET l == fun[p].layer
      layer == LayerAt(p, l)
      trig == TrigValues(l)
      from == SineSources(p, layer)
      remote == FoldLeft(LAMBDA acc, q : apply_cross_rank_derivative_exchange(p, l, trig, q, acc),
                         [op |-> fun[p].vec, state |-> fun[p].dual, ep |-> <<Zero, Zero>>],
                         Ascended(from))
      cos_terms == FAdd(fun[p].ep[1], remote.ep[1])
      sin_terms == FAdd(fun[p].ep[2], remote.ep[2])
      slope == FMul(FNeg(trig.g),
                    FAdd(FMul(trig.sin, FAdd(fun[p].A, FNeg(cos_terms))), FNeg(sin_terms)))
  IN  /\ fun[p].at = "reverse_wait" /\ Arrived(p, from)
      /\ mail' = Taken(p, from)
      /\ fun' = [fun EXCEPT
           ![p].vec = remote.op, ![p].dual = remote.state, ![p].snap = <<>>,
           ![p].gradient[GateAt(l).param] = FAdd(@, slope),
           ![p].layer = IF l = 1 THEN @ ELSE l - 1,
           ![p].at = IF l = 1 THEN "reduce" ELSE "reverse"]
      /\ UNCHANGED <<building, board>>

-----------------------------------------------------------------------------

FunctionalInit ==
  /\ Init
  /\ fun = [p \in S |-> Idle]
  /\ board = [p \in S |-> <<>>]

FunctionalStep(p) ==
  \/ Step(p) /\ UNCHANGED <<fun, board>>
  \/ make_functional(p)
  \/ StepForward(p) \/ StepForwardWait(p)
  \/ PostSum(p) \/ TakeSum(p)
  \/ StepBack(p) \/ StepBackWait(p)

FunctionalNext == \E p \in S : FunctionalStep(p)

FunctionalSpec == FunctionalInit /\ [][FunctionalNext]_allVars

-----------------------------------------------------------------------------
(* Properties.                                                             *)

Answered(p, ask) == ~Contracts /\ job.ask = ask /\ fun[p].at = "answered"

\* contract_partially: the replay of the stored layers, in which each slot recomputes the cosine set
\* of its time and derives what it receives from what it sends, gives each row the coefficient that
\* it has in the rotated operator, in both pictures and at parameters that the build did not see.
ReplayHoldsItsShare ==
  \A p \in S : Answered(p, "contract") =>
    \A i \in DOMAIN rows[p] : Exactly(fun[p].vec[i], Truths[id].contracted[rows[p][i]])

\* Every slot returns the expectation value of the whole operator, whether the graph is pared at
\* threshold zero or not (PareGraph.cpp:141: the order of the sweep is what makes it exact).
EnergyIsExact ==
  \A p \in S : (~Contracts /\ job.ask \in {"energy", "gradient"} /\ fun[p].sums > 0) =>
    Exactly(fun[p].energy, Truths[id].energy)

\* One reverse sweep, which undoes each layer in place and subtracts what the rotations have put into
\* the cosine sum, gives every slot the derivative by every parameter: with parameters shared by
\* gates, with pared graphs, and with a layer whose cosine vanishes, where the undoing would divide
\* by it (MPFunctions.cpp:47-50, Evolution.cpp:419-446).
GradientIsExact ==
  \A p \in S : Answered(p, "gradient") =>
    \A k \in DOMAIN job.params : Exactly(fun[p].gradient[k], Truths[id].gradient[k])

\* term_expectation_values: the state pushed back through the transposed layers gives each term what
\* the evaluation of that term alone would give; a term that the evolved operator lacks is an error in
\* the Heisenberg picture, on every slot, and zero in the other.
TermValuesAreExact ==
  \A p \in S : Answered(p, "terms") =>
    LET known(M) == M = {} \/ M \in Truths[id].present
    IN  IF job.schrodinger \/ \A M \in Range(job.keys) : known(M)
        THEN \A k \in DOMAIN job.keys : Exactly(fun[p].terms[k], Truths[id].terms[k])
        ELSE fun[p].terms = NotFound

\* A slot whose awaited messages or contributions are there, or that awaits none.
GoesOn(p) ==
  CASE pc[p] # "done" -> CanGoOn(p)
    [] fun[p].at \in {"forward_wait", "reverse_wait"} ->
         Arrived(p, SineSources(p, LayerAt(p, fun[p].layer)))
    [] fun[p].at = "reducing" -> TakesPart(p)
    [] pc[p] = "done" /\ fun[p].at = "idle" -> ~Contracts /\ BuildReturned(p)
    [] OTHER -> fun[p].at # "answered"

BrokenOff == \E p \in S : pc[p] = "thrown"

Finished(p) ==
  \/ pc[p] = "thrown"
  \/ pc[p] = "done" /\ (Contracts \/ BrokenOff \/ fun[p].at = "answered")

EquallyFar(p, q) ==
  /\ pc[p] = "done" /\ pc[q] = "done"
  /\ fun[p].at = fun[q].at /\ fun[p].layer = fun[q].layer
  /\ fun[p].at \in {"idle", "forward", "reduce", "reverse", "answered"}

\* Every send has its receive, although each side decides alone whether there is a leg
\* (Evolution.cpp:285-291, Comm.h:145-160).  Nobody waits for a message that is never sent: no step
\* can be repeated within a gate or a layer, so that it is enough that somebody can go on.
\* Between two slots that are equally far no message is left, to be taken for a later one.  And when
\* a slot throws, all stop, no two of them more than one gate apart (Engine.h:496), gates of the
\* identity aside, which exchange nothing.
JobCompletes ==
  /\ (\A p \in S : Finished(p)) \/ \E p \in S : GoesOn(p)
  /\ (\A p \in S : Finished(p)) =>
       \A p, q \in S : \A k \in (GatesDone(q) + 2) .. GatesDone(p) : job.gates[k].gen = {}
  /\ \A p, q \in S :
       /\ NothingLeft(p, q)
       /\ EquallyFar(p, q) => mail[p][q] = <<>>

\* The terms longer than only_rotate_len_k that no rotation reached keep their coefficient: "apply
\* gates only to terms whose length is at most k" (docs/content/docs/features/cutoff.mdx:57).
CapSparesLongTerms ==
  \A p \in S : Answered(p, "contract") => \A i \in DOMAIN rows[p] :
    \/ \E k \in job.cap : Cardinality(rows[p][i]) <= k
    \/ job.cap = {}
    \/ \E n \in DOMAIN layers[p] : \E q \in S : i \in Range(layers[p][n].slot[q].sin_send)
    \/ fun[p].vec[i] = Whole(SeedAmplitude(job, rows[p][i]))
=============================================================================
