----------------------------- MODULE LayerBuild -----------------------------
(***************************************************************************)
(* The evolution of an operator whose rows are spread over the slots of a  *)
(* flat world: for each gate the scan, the leader and the follower pass    *)
(* with their two exchanges, the insertion of absent partners, and either  *)
(* the sine and cosine terms at once (contract) or a layer of the graph    *)
(* (src/cpp/monoprop/detail/evolution/).  Module Functional evaluates the  *)
(* graph afterwards.                                                       *)
(*                                                                         *)
(* A job is one call of the user on a fresh propagator.  Slots run         *)
(* independently; mail[a][b] is what a has sent to b and b has not taken,  *)
(* in order, as the transports deliver it (ShmComm, HybridComm).  Rows,    *)
(* and with them all indices, count from 1.                                *)
(***************************************************************************)
EXTENDS Rotation, Routing

CONSTANTS
  Jobs,       \* the jobs to run, a sequence of records
  MaxStamp    \* the largest stamp of a matched row (65535 in the code)

ASSUME JobsAssumption ==
  \A i \in DOMAIN Jobs :
    LET j == Jobs[i] IN
    /\ j.basis \in Bases
    /\ j.mode \in {"contract", "graph", "graph_with_coeffs"}
    /\ j.gates # <<>>
    /\ \A k \in DOMAIN j.gates : j.gates[k].gen \in Monomials /\ j.gates[k].sin > 0
    /\ IsInjective([n \in DOMAIN j.initial_operator |-> j.initial_operator[n].term])
    \* kIndexCeiling, where a slot may meet it. Nothing tells other ranks of an exception.
    /\ j.ceiling # {} => j.world.ranks = 1 /\ j.mode # "graph_with_coeffs"
    \* The identity is kept apart from the rows, as core_term_.
    /\ \A n \in DOMAIN j.initial_operator : j.initial_operator[n].term \in Monomials \ {{}}

ASSUME MaxStampAssumption == MaxStamp \in Nat \ {0}

VARIABLES
  id,        \* which job runs
  pc,        \* where a slot is within its gate
  pass,      \* its exchange: leaders first, then followers
  gate,      \* its gate
  rows,      \* the terms it owns, in the order of their insertion
  coef,      \* their coefficients; may be shorter than rows within a gate
  matched,   \* MatchedEpochSet
  work,      \* what it knows about the running gate
  mail,
  layers     \* its part of the graph

vars == <<id, pc, pass, gate, rows, coef, matched, work, mail, layers>>

job == Jobs[id]
World == job.world
S == Slots(World)

Gate(p) == job.gates[gate[p]]
Gen(p) == Gate(p).gen
Contracts == job.mode = "contract"

\* What every job promises after each number of gates, evaluated once.
Courses == [i \in DOMAIN Jobs |-> Course(Jobs[i])]

-----------------------------------------------------------------------------
(* The operator store.                                                     *)

find(p, M) == {i \in DOMAIN rows[p] : rows[p][i] = M}
Row(p, M) == CHOOSE i \in find(p, M) : TRUE

\* get_operator() and dense_state(): rows that were appended get their first coefficient.
ExtendedCoeffs(p, terms) ==
  [i \in DOMAIN terms |->
     IF i <= Len(coef[p]) THEN coef[p][i] ELSE BornAmplitude(job, terms[i])]

\* Refused before anything grows.
check_append_fits(p, n) == \A c \in job.ceiling : n <= c - Len(rows[p])

Ascending(n) == [i \in 1 .. n |-> i]

-----------------------------------------------------------------------------
(* MatchedEpochSet: a stamp per row, all marks cleared by the next stamp.  *)

begin_gateNeverWraps(m, n) ==
  LET old(i) == IF i > Len(m.epoch) THEN 0 ELSE m.epoch[i]
      size == IF n > Len(m.epoch) THEN n ELSE Len(m.epoch)
  IN  [cur |-> m.cur + 1, epoch |-> [i \in 1 .. size |-> old(i)]]

begin_gate(m, n) ==
  LET wraps == m.cur = MaxStamp
      old(i) == IF i > Len(m.epoch) \/ wraps THEN 0 ELSE m.epoch[i]
      size == IF n > Len(m.epoch) THEN n ELSE Len(m.epoch)
  IN  [cur |-> IF wraps THEN 1 ELSE m.cur + 1, epoch |-> [i \in 1 .. size |-> old(i)]]

mark(m, indices) ==
  [m EXCEPT !.epoch = [i \in DOMAIN @ |-> IF i \in indices THEN m.cur ELSE @[i]]]

is_marked(p, i) == matched[p].epoch[i] = matched[p].cur

-----------------------------------------------------------------------------
(* The scan.                                                               *)

is_below_sin(p, i) ==
  WithCoefficients(job) /\ \E t \in job.lower_atol : Gate(p).sin * Abs(coef[p][i]) <= t
is_above_upper(p, i) ==
  WithCoefficients(job) /\ \E t \in job.upper_atol : Gate(p).sin * Abs(coef[p][i]) >= t

\* The fold of the generator's columns over the first n rows.
Fold(p, G, n) == {i \in 1 .. n : anticommutes(job.basis, rows[p][i], G)}

\* Rows that the gate scales; the length cap is applied before anything else.
CosIndices(p) ==
  {i \in Fold(p, Gen(p), Len(rows[p])) : \A k \in job.cap : Cardinality(rows[p][i]) <= k}

rotation_gate(p, i) ==
  /\ i \in CosIndices(p)
  /\ ~is_below_sin(p, i)
  /\ Passes(job, Times(rows[p][i], Gen(p))) \/ is_above_upper(p, i)

\* The cosine is folded into the scan, unless it must be undone where it was not applied or is 0.
fused_scale(p) == Contracts /\ job.cap = {} /\ Gate(p).cos # 0

\* Of a term and its partner, exactly one holds the lowest bit of the generator.
is_follower(p, i) == Min(Gen(p)) \in rows[p][i]

Query(p, i) ==
  [src   |-> i,
   term  |-> Times(rows[p][i], Gen(p)),
   phase |-> emit_phase(job.basis, rows[p][i], Gen(p)),
   val   |-> IF Contracts THEN coef[p][i] ELSE 0]

\* The queries of a pass for slot q, in the order of the rows.
Collected(p, q, followers) ==
  LET shift == rank_shift(World, Gen(p))
      goes(i) == /\ rotation_gate(p, i)
                 /\ is_follower(p, i) = followers
                 /\ dest_from_shift(World, Times(rows[p][i], Gen(p)), p, shift) = q
      chosen == SelectSeq(Ascending(Len(rows[p])), goes)
  IN  [k \in DOMAIN chosen |-> Query(p, chosen[k])]

Nothing == [q \in S |-> <<>>]

NewWork(p) ==
  [leader |-> Nothing, follower |-> Nothing, in |-> Nothing, out |-> Nothing,
   deferred |-> <<>>, cos |-> {}, combined |-> Len(rows[p]), self |-> <<>>]

fused_find_and_collect(p) ==
  /\ pc[p] = "scan" /\ Gen(p) # {}
  /\ matched' = [matched EXCEPT ![p] = begin_gate(@, Len(rows[p]))]
  /\ work' = [work EXCEPT ![p] =
                [NewWork(p) EXCEPT
                   !.leader = [q \in S |-> Collected(p, q, FALSE)],
                   !.follower = [q \in S |-> Collected(p, q, TRUE)],
                   !.cos = IF fused_scale(p) THEN {} ELSE CosIndices(p)]]
  /\ coef' = IF fused_scale(p)
             THEN [coef EXCEPT ![p] =
                     [i \in DOMAIN @ |-> IF i \in CosIndices(p) THEN @[i] * Gate(p).cos ELSE @[i]]]
             ELSE coef
  /\ pass' = [pass EXCEPT ![p] = "leader"]
  /\ pc' = [pc EXCEPT ![p] = "post"]
  /\ UNCHANGED <<id, gate, rows, mail, layers>>

\* An identity generator anticommutes with nothing: no scan and no exchange.
SkipIdentity(p) ==
  /\ pc[p] = "scan" /\ Gen(p) = {}
  /\ matched' = [matched EXCEPT ![p] = begin_gate(@, Len(rows[p]))]
  /\ work' = [work EXCEPT ![p] = NewWork(p)]
  /\ pc' = [pc EXCEPT ![p] = "finish"]
  /\ UNCHANGED <<id, pass, gate, rows, coef, mail, layers>>

-----------------------------------------------------------------------------
(* One pass: LayerBuildEngine::run_exchange.                               *)

peers(p) == window(World, p, rank_shift(World, Gen(p))) \ {p}

Unmarked(p, queries) == SelectSeq(queries, LAMBDA x : ~is_marked(p, x.src))

drop_matchedKeepsAll(p, queries) == queries

\* Followers that a leader has matched must not be resolved again, here or on the wire.
drop_matched(p, queries) == IF pass[p] = "follower" THEN Unmarked(p, queries) ELSE queries

\* The coefficient before the gate, recovered where the scan has scaled it.
Current(p, i) == IF ~Contracts THEN 0
                 ELSE IF fused_scale(p) THEN coef[p][i] \div Gate(p).cos ELSE coef[p][i]

\* Rows that the leader pass found: a follower that need not ask.
Marks(p, indices) ==
  IF pass[p] = "leader" THEN {i \in indices : i <= work[p].combined} ELSE {}

Entry(index, query, value, isNew) ==
  [idx |-> index, phase |-> query.phase, val |-> value, fresh |-> isNew]

AfterPass(p) ==
  IF pass[p] = "leader"
  THEN /\ pass' = [pass EXCEPT ![p] = "follower"]
       /\ pc' = [pc EXCEPT ![p] = "post"]
  ELSE /\ pc' = [pc EXCEPT ![p] = "finish"]
       /\ UNCHANGED pass

\* Queries to oneself are resolved in place; absent partners wait until both passes are over.
PostQueries(p) ==
  LET mine == drop_matched(p, work[p][pass[p]][p])
      hits == SelectSeq(mine, LAMBDA x : find(p, x.term) # {})
      misses == SelectSeq(mine, LAMBDA x : find(p, x.term) = {})
      target(k) == Row(p, hits[k].term)
      sent == [q \in S |-> IF q = p THEN <<>> ELSE drop_matched(p, work[p][pass[p]][q])]
  IN  /\ pc[p] = "post"
      /\ matched' = [matched EXCEPT ![p] = mark(@, Marks(p, {target(k) : k \in DOMAIN hits}))]
      /\ work' = [work EXCEPT
           ![p].in[p] = @ \o [k \in DOMAIN hits |-> Entry(target(k), hits[k], hits[k].val, FALSE)],
           ![p].out[p] = @ \o [k \in DOMAIN hits |->
                                 Entry(hits[k].src, hits[k], Current(p, target(k)), FALSE)],
           ![p].deferred = @ \o misses,
           ![p][pass[p]] = sent]
      /\ IF flat_world(World) = 1
         THEN AfterPass(p) /\ UNCHANGED mail
         ELSE /\ mail' = [mail EXCEPT ![p] =
                            [q \in S |-> IF q \in peers(p) THEN Append(@[q], sent[q]) ELSE @[q]]]
              /\ pc' = [pc EXCEPT ![p] = "resolve"]
              /\ UNCHANGED pass
      /\ UNCHANGED <<id, gate, rows, coef, layers>>

Arrived(p, from) == \A q \in from : mail[q][p] # <<>>

\* mail without the head of every queue from the peers to p.
Taken(p, from) ==
  [a \in S |-> [b \in S |-> IF b = p /\ a \in from THEN Tail(mail[a][b]) ELSE mail[a][b]]]

\* Everything that arrived, by sender and within a sender in its order.
probe_incoming_queries(p) ==
  FoldLeft(LAMBDA seen, n :
             LET q == n - 1 IN
             IF q \in peers(p)
             THEN seen \o [k \in DOMAIN Head(mail[q][p]) |->
                             [from |-> q, query |-> Head(mail[q][p])[k], pos |-> k]]
             ELSE seen,
           <<>>, Ascending(flat_world(World)))

IncomingMisses(p) == SelectSeq(probe_incoming_queries(p), LAMBDA x : find(p, x.query.term) = {})

\* The first coefficient of a row inserted for a peer, before the row has one.
FreshValue(M) == IF Contracts THEN BornAmplitude(job, M) ELSE 0

\* Misses get the next rows in the order of arrival; hits are read before any row is inserted.
ResolveIncoming(p) ==
  LET incoming == probe_incoming_queries(p)
      misses == IncomingMisses(p)
      base == Len(rows[p])
      row(x) == IF find(p, x.query.term) # {}
                THEN Row(p, x.query.term)
                ELSE base + CHOOSE j \in DOMAIN misses : misses[j] = x
      isNew(x) == row(x) > base
      value(x) == IF isNew(x) THEN FreshValue(x.query.term) ELSE Current(p, row(x))
      of(q) == SelectSeq(incoming, LAMBDA x : x.from = q)
      answers(q) == [k \in DOMAIN of(q) |-> value(of(q)[k])]
      taken == Taken(p, peers(p))
  IN  /\ pc[p] = "resolve" /\ Arrived(p, peers(p)) /\ check_append_fits(p, Len(misses))
      /\ work' = [work EXCEPT ![p].in = [q \in S |->
           @[q] \o [k \in DOMAIN of(q) |->
                      LET x == of(q)[k] IN Entry(row(x), x.query, x.query.val, isNew(x))]]]
      /\ matched' = [matched EXCEPT
           ![p] = mark(@, Marks(p, {row(incoming[g]) : g \in DOMAIN incoming}))]
      /\ rows' = [rows EXCEPT ![p] = @ \o [j \in DOMAIN misses |-> misses[j].query.term]]
      /\ mail' = [taken EXCEPT ![p] =
                    [q \in S |-> IF q \in peers(p) THEN Append(@[q], answers(q)) ELSE @[q]]]
      /\ pc' = [pc EXCEPT ![p] = "process"]
      /\ UNCHANGED <<id, pass, gate, coef, layers>>

\* Answers are matched to queries by their position alone.
ProcessResponses(p) ==
  LET sent(q) == work[p][pass[p]][q]
      answer(q) == Head(mail[q][p])
  IN  /\ pc[p] = "process" /\ Arrived(p, peers(p))
      /\ work' = [work EXCEPT ![p].out = [q \in S |->
           IF q \in peers(p)
           THEN @[q] \o [k \in DOMAIN answer(q) |->
                           Entry(sent(q)[k].src, sent(q)[k], answer(q)[k], FALSE)]
           ELSE @[q]]]
      /\ mail' = Taken(p, peers(p))
      /\ AfterPass(p)
      /\ UNCHANGED <<id, gate, rows, coef, matched, layers>>

-----------------------------------------------------------------------------
(* The end of a gate.                                                      *)

RowsAfterMisses(p) == rows[p] \o [k \in DOMAIN work[p].deferred |-> work[p].deferred[k].term]

\* insert_deferred_self_misses, and for a contraction the value of the row read after it was extended.
WithDeferred(p, newCoef) ==
  LET missed == work[p].deferred
      base == Len(rows[p])
      value(k) == IF Contracts /\ job.schrodinger THEN newCoef[base + k] ELSE 0
  IN  [work[p] EXCEPT
         !.in[p] = @ \o [k \in DOMAIN missed |-> Entry(base + k, missed[k], missed[k].val, TRUE)],
         !.out[p] = @ \o [k \in DOMAIN missed |-> Entry(missed[k].src, missed[k], value(k), FALSE)],
         !.deferred = <<>>]

Inserted(p, w) == (w.combined + 1) .. Len(RowsAfterMisses(p))

\* What the entries of one direction add to row i.
SineSum(entries, i, sign) ==
  MapThenSumSet(LAMBDA q :
    MapThenSumSet(LAMBDA k :
      IF entries[q][k].idx = i THEN sign * entries[q][k].phase * entries[q][k].val ELSE 0,
      DOMAIN entries[q]), S)

IsFresh(w, i) == \E q \in S : \E k \in DOMAIN w.in[q] : w.in[q][k].idx = i /\ w.in[q][k].fresh

\* In the fused mode only rows born after the sweep are still to be scaled.
apply_fused_contract(p, newCoef, w) ==
  LET scales(i) == IF fused_scale(p) THEN IsFresh(w, i) ELSE i \in w.cos \cup Inserted(p, w)
      sines(i) == SineSum(w.in, i, 1) + SineSum(w.out, i, -1)
  IN  [i \in DOMAIN newCoef |->
         (IF scales(i) THEN Gate(p).cos ELSE 1) * newCoef[i] + ApplySin(job, Gate(p)) * sines(i)]

\* GraphSink::finalize: per slot the rows to send, incoming ones first, and the signs of what returns.
LayerOf(p, w) ==
  LET indices(entries) == [k \in DOMAIN entries |-> entries[k].idx]
      phases(entries, sign) == [k \in DOMAIN entries |-> sign * entries[k].phase]
  IN  [generator |-> Gen(p),
       scaled_count |-> Len(RowsAfterMisses(p)),
       slot |-> [q \in S |->
                   [sin_send  |-> indices(w.in[q]) \o indices(w.out[q]),
                    in_count  |-> Len(w.in[q]),
                    phases    |-> phases(w.out[q], -1) \o phases(w.in[q], 1)]]]

IsLastGate(p) == gate[p] = Len(job.gates)

NextGate(p, first) ==
  IF IsLastGate(p)
  THEN /\ pc' = [pc EXCEPT ![p] = "done"]
       /\ UNCHANGED gate
  ELSE /\ pc' = [pc EXCEPT ![p] = first]
       /\ gate' = [gate EXCEPT ![p] = @ + 1]

FinishContract(p) ==
  LET extended == ExtendedCoeffs(p, RowsAfterMisses(p))
      w == WithDeferred(p, extended)
  IN  /\ pc[p] = "finish" /\ Contracts /\ check_append_fits(p, Len(work[p].deferred))
      /\ rows' = [rows EXCEPT ![p] = RowsAfterMisses(p)]
      /\ coef' = [coef EXCEPT ![p] = apply_fused_contract(p, extended, w)]
      /\ work' = [work EXCEPT ![p] = w]
      /\ NextGate(p, "scan")
      /\ UNCHANGED <<id, pass, matched, mail, layers>>

\* Built with coefficients, the layer is applied to them at once, with the scan's cosine mask.
FinishLayer(p) ==
  LET w == WithDeferred(p, <<>>)
  IN  /\ pc[p] = "finish" /\ ~Contracts /\ check_append_fits(p, Len(work[p].deferred))
      /\ rows' = [rows EXCEPT ![p] = RowsAfterMisses(p)]
      /\ layers' = [layers EXCEPT ![p] = Append(@, LayerOf(p, w))]
      /\ work' = [work EXCEPT ![p] = [w EXCEPT !.cos = @ \cup Inserted(p, w)]]
      /\ IF job.mode = "graph"
         THEN NextGate(p, "scan") /\ UNCHANGED coef
         ELSE /\ coef' = [coef EXCEPT ![p] = ExtendedCoeffs(p, RowsAfterMisses(p))]
              /\ pc' = [pc EXCEPT ![p] = "sines"]
              /\ UNCHANGED gate
      /\ UNCHANGED <<id, pass, matched, mail>>

Stop(p) ==
  /\ pc' = [pc EXCEPT ![p] = "thrown"]
  /\ UNCHANGED <<id, pass, gate, rows, coef, matched, work, mail, layers>>

\* The ceiling met within a pass, before anything is answered, and after the last exchange.  What was
\* noted of the gate is never used.
ResolveThrows(p) ==
  /\ pc[p] = "resolve" /\ Arrived(p, peers(p)) /\ ~check_append_fits(p, Len(IncomingMisses(p)))
  /\ Stop(p)

FinishThrows(p) ==
  /\ pc[p] = "finish" /\ ~check_append_fits(p, Len(work[p].deferred))
  /\ Stop(p)

\* The barrier of a slot that waits for one that threw is poisoned.
Poisoned(p) ==
  /\ pc[p] \in {"resolve", "process"} /\ ~Arrived(p, peers(p))
  /\ \E q \in S : pc[q] = "thrown"
  /\ Stop(p)

-----------------------------------------------------------------------------
(* Application of a layer: evolve_step.                                    *)

slot_sin_recv_indexUnswapped(s, k) == s.sin_send[k]

\* The receive list is not stored: it is the send list with its two blocks exchanged.
slot_sin_recv_index(s, k) ==
  LET out_count == Len(s.sin_send) - s.in_count
  IN  IF k <= out_count THEN s.sin_send[s.in_count + k] ELSE s.sin_send[k - out_count]

Occupied(layer) == {q \in S : Len(layer.slot[q].sin_send) > 0}

SineTargetsAll(p, layer) == S \ {p}

\* A leg is posted and awaited only where it is occupied.
SineTargets(p, layer) == Occupied(layer) \ {p}

SineSources(p, layer) == Occupied(layer) \ {p}

\* What a layer sends to slot q of the vector v.
Payload(layer, q, v) ==
  [k \in DOMAIN layer.slot[q].sin_send |-> v[layer.slot[q].sin_send[k]]]

PostLegs(p, layer, payload) ==
  mail' = [mail EXCEPT ![p] =
             [q \in S |-> IF q \in SineTargets(p, layer) THEN Append(@[q], payload[q]) ELSE @[q]]]

BuiltLayer(p) == layers[p][gate[p]]

\* While building, the scan's own mask is applied.  What is sent, and the own snapshot, are taken
\* before the cosine.
PostSines(p) ==
  LET payload == [q \in S |-> Payload(BuiltLayer(p), q, coef[p])]
  IN  /\ pc[p] = "sines"
      /\ work' = [work EXCEPT ![p].self = payload[p]]
      /\ PostLegs(p, BuiltLayer(p), payload)
      /\ coef' = [coef EXCEPT ![p] =
           [i \in DOMAIN @ |-> IF i \in work[p].cos THEN Gate(p).cos * @[i] ELSE @[i]]]
      /\ pc' = [pc EXCEPT ![p] = "take"]
      /\ UNCHANGED <<id, pass, gate, rows, matched, layers>>

TakeSines(p) ==
  LET from == SineSources(p, BuiltLayer(p))
      values(q) == IF q = p THEN work[p].self ELSE Head(mail[q][p])
      slot(q) == BuiltLayer(p).slot[q]
      added(i) == MapThenSumSet(LAMBDA q :
                    MapThenSumSet(LAMBDA k :
                      IF slot_sin_recv_index(slot(q), k) = i
                      THEN slot(q).phases[k] * values(q)[k] ELSE 0,
                      DOMAIN slot(q).sin_send), Occupied(BuiltLayer(p)))
  IN  /\ pc[p] = "take" /\ Arrived(p, from)
      /\ coef' = [coef EXCEPT ![p] =
           [i \in DOMAIN @ |-> @[i] + ApplySin(job, Gate(p)) * added(i)]]
      /\ mail' = Taken(p, from)
      /\ NextGate(p, "scan")
      /\ UNCHANGED <<id, pass, rows, matched, work, layers>>

-----------------------------------------------------------------------------
(* Construction of the propagator, and the runs.                           *)

Init ==
  /\ id \in DOMAIN Jobs
  /\ pc = [p \in S |-> "scan"]
  /\ pass = [p \in S |-> "leader"]
  /\ gate = [p \in S |-> 1]
  /\ rows = [p \in S |-> SelectSeq(SeedOrder(job), LAMBDA M : dest(World, M) = p)]
  /\ coef = [p \in S |-> [i \in DOMAIN rows[p] |-> SeedAmplitude(job, rows[p][i])]]
  /\ matched = [p \in S |-> [cur |-> 0, epoch |-> <<>>]]
  /\ work = [p \in S |-> NewWork(p)]
  /\ mail = [p \in S |-> Nothing]
  /\ layers = [p \in S |-> <<>>]

Step(p) ==
  \/ fused_find_and_collect(p)
  \/ SkipIdentity(p)
  \/ PostQueries(p)
  \/ ResolveIncoming(p)
  \/ ProcessResponses(p)
  \/ FinishContract(p)
  \/ FinishLayer(p)
  \/ ResolveThrows(p)
  \/ FinishThrows(p)
  \/ Poisoned(p)
  \/ PostSines(p)
  \/ TakeSines(p)

Next == \E p \in S : Step(p)

Spec == Init /\ [][Next]_vars

-----------------------------------------------------------------------------
(* Properties.                                                             *)

Where == {"scan", "post", "resolve", "process", "finish", "sines", "take", "done", "thrown"}

\* Types, and bounds of every index into the rows: the sources of queries, the endpoints of
\* rotations and layers, and the coefficients never outnumber the rows.
TypeOK ==
  /\ id \in DOMAIN Jobs
  /\ pc \in [S -> Where]
  /\ pass \in [S -> {"leader", "follower"}]
  /\ gate \in [S -> 1 .. Len(job.gates)]
  /\ \A p \in S :
       /\ rows[p] \in Seq(Monomials)
       /\ coef[p] \in Seq(Int) /\ Len(coef[p]) <= Len(rows[p])
       /\ matched[p].cur \in 0 .. MaxStamp
       /\ \A i \in DOMAIN matched[p].epoch : matched[p].epoch[i] \in 0 .. MaxStamp
       /\ work[p].combined <= Len(rows[p])
       /\ \A n \in DOMAIN layers[p] : \A q \in S :
            \A k \in DOMAIN layers[p][n].slot[q].sin_send :
              layers[p][n].slot[q].sin_send[k] \in DOMAIN rows[p]

\* How many gates a slot has completed, when it is between two gates.
GatesDone(p) == IF pc[p] = "done" THEN gate[p] ELSE gate[p] - 1
BetweenGates(p) == pc[p] \in {"scan", "done"}
Promised(p) == Courses[id][GatesDone(p) + 1]

\* A row is held once, on the slot that everybody routes it to.  Between two gates a slot holds
\* exactly the terms of the promised operator that the hash assigns to it: every partner was
\* inserted, once, by its owner (Resolve.h:180-182, Engine.h:473-475), although queries, answers and
\* insertions cross each other.  Where the coefficients are evolved too, they are those of one
\* rotation of the whole operator per gate: no term is scaled or rotated twice, missed, rotated with
\* a stale value or with the wrong sign, whether the cosine was folded into the scan (1/cos recovery)
\* or not.
BuildHoldsItsShare ==
  \A p \in S :
    /\ IsInjective(rows[p])
    /\ \A i \in DOMAIN rows[p] : dest(World, rows[p][i]) = p
    /\ BetweenGates(p) =>
         /\ {rows[p][i] : i \in DOMAIN rows[p]} = {M \in Promised(p).present : dest(World, M) = p}
         /\ WithCoefficients(job) => coef[p] = [i \in DOMAIN rows[p] |-> Promised(p).amp[rows[p][i]]]

\* Each row is the endpoint of at most one rotation of a gate (FusedApply.h:55-57), which is what
\* makes the order of the additions irrelevant.
RotatesEachTermOnce ==
  \A p \in S :
    LET ends == UNION {{<<"in", q, k>> : k \in DOMAIN work[p].in[q]} : q \in S}
                  \cup UNION {{<<"out", q, k>> : k \in DOMAIN work[p].out[q]} : q \in S}
        index(e) == work[p][e[1]][e[2]][e[3]].idx
    IN  \A a, b \in ends : a # b => index(a) # index(b)

\* The layers of two slots pair up although each was recorded by its owner alone: what one sends at
\* place k is the partner of what the other receives there, with the sign of that rotation.
LayersPairUp ==
  \A p, q \in S : \A n \in DOMAIN layers[p] \cap DOMAIN layers[q] :
    LET sent == layers[p][n].slot[q]
        got == layers[q][n].slot[p]
    IN  /\ Len(sent.sin_send) = Len(got.sin_send)
        /\ \A k \in DOMAIN sent.sin_send :
             LET M == rows[p][sent.sin_send[k]]
                 G == layers[p][n].generator
             IN  /\ rows[q][slot_sin_recv_index(got, k)] = Times(M, G)
                 /\ got.phases[k] = SinePhase(job.basis, M, G)

\* A slot whose awaited messages have all been sent, or that awaits none.
CanGoOn(p) ==
  CASE pc[p] \in {"resolve", "process"} -> Arrived(p, peers(p)) \/ \E q \in S : pc[q] = "thrown"
    [] pc[p] = "take" -> Arrived(p, SineSources(p, BuiltLayer(p)))
    [] OTHER -> pc[p] \notin {"done", "thrown"}

\* No message is left between two slots that have completed the same gates.
NothingLeft(p, q) == pc[p] = "scan" /\ pc[q] = "scan" /\ gate[p] = gate[q] => mail[p][q] = <<>>
=============================================================================
