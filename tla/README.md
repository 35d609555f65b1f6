# A TLA+ verification of monoprop

monoprop evolves a quantum operator (a sum of Majorana monomials or Pauli strings
with coefficients) through a parametrised circuit, and evaluates expectation values,
gradients and single terms of the result. The terms of the operator are spread by
a hash over a *flat world* of R MPI ranks with S partition threads each. What makes
the program hard is not the arithmetic but everything around it: threads that meet at
a hand-written barrier, collectives that read each other's memory in place, MPI
exchanges that every rank plans for itself, evolution graphs that a sequence of user
calls grows, contracts and re-wires, and errors that may strike any thread in the
middle of all that. This directory models those parts, checks the models with TLC on
small instances, and proves with TLAPS, for any number of threads, that the barrier
everything stands on, the group of threads that uses it and the in-process collectives
built on it are correct, for any circuits and calls what a session replays and with
which parameters, and for any number of modes, any hash and any sequence of operations that the
store of one slot finds every term, folds what anticommutes and loses no coefficient.

Contents: [1 the system](#1-the-system-and-its-parts) ·
[2 the modules](#2-the-modules-and-the-code-they-model) ·
[3 the runs](#3-what-is-checked) · [4 fairness](#4-fairness) ·
[5 the proofs](#5-what-is-proved) · [6 where code and text disagree](#6-where-the-code-and-its-text-disagree) ·
[7 left out](#7-what-is-not-modelled-and-why) · [8 the plan](#8-the-plan)

Paths below are relative to the repository. `PROJECT.json` lists, for every definition
that models code, the lines it stands for.

## 1 The system and its parts

From the threads up to the user:

| Component | State | Operations | What makes it correct |
|---|---|---|---|
| Partition barrier (`detail/mpi/PartitionBarrier.h`) | `gen_`, `arrived_`, `poisoned_`, all atomics | `sync`, `poison`, `reset` | nobody leaves a round before everyone has entered it; a round fails only if it cannot be completed; every other round ends |
| Partition group (`detail/partition/PartitionGroup.h`) | master threads, `job_gen_`, `done_count_`, `stop_`, `errs_` under a mutex and two condition variables | construct, `run_on_all`, destroy | every master runs each job once; the caller gets the cause of a failure; nothing hangs |
| In-process transport (`detail/mpi/ShmComm.h`) | one slot of pointers per partition | `alltoall_counts`, `alltoallv`, `alltoallv_resolve`, `allreduce_sum`, `allreduce_sum_inplace` | what is delivered, in which order; nobody overwrites or frees memory that a peer reads |
| Hybrid transport (`detail/mpi/HybridComm.h`) | staging buffers, count matrices, plans and slots of a rank, shared by its partitions; MPI messages in flight | the same verbs over two levels | as above, and: the ranks agree on every message; a failure ends or aborts the job |
| Peer plans, pairwise transport (`Comm.h`, `Pairwise.h`) | the plan of a job | post and complete the legs of an exchange, agree on the routes | no message without a receiver, no receiver without a message |
| MPI exchanges (`MPICompat.*`, `Exchange.h`) | buffers owned by a pending exchange, thread-local buffers of the replay | post, overlap, wait | a buffer outlives the operations on it |
| Routing (`Routing.h`) | the hash and the linear routing of a rank | owner of a monomial, peer of a gate | all ranks compute the same owner; a gate's shift is an involution |
| Layer build (`detail/evolution/`) | per gate: scans, matches, queries, answers, misses | the leader and follower passes of one gate | every coefficient is rotated once with its partner; missing partners are inserted once, on their owner |
| Operator store (`detail/operator/`) | packed rows, hash table, inverted index, coefficients and state vector, extended lazily | look up, append, fold, re-weight, contract, copy | every term is found in its one row; a cache never answers for rows it does not have |
| Evolution graph and its encoding (`MPGraph.*`, `detail/graph*/`) | layers with an angle, a gate index and exchange lists | append, slice, re-wire | replays what was built |
| Replay and derivatives (`Evolution.cpp`, `MPFunctions.cpp`) | two vectors, records of the forward sweep, snapshots | contract, energy, gradient, values of terms | the answer is that of the whole operator, on every slot; nobody waits for a message that is not sent |
| Paring (`detail/pare/`) | keep sets | one sweep against the evolution | keeps what the result depends on |
| Propagator session (`MonomialPropagator.*`, `monomial_propagator.py`) | graph, operator, flags, epoch, parameter count, functionals handed out | `build_graph`, `propagate`, `contract_partially`, `parameter_mapping`, `update_initial_operator`, functionals | any sequence of calls equals one call with the concatenated circuit; a stale functional refuses |
| Circuits (`circuit.py`) | gates with angles | concatenate, expand | angles of the halves stay apart |
| Algebra, configuration, topology, Python front ends, bindings | none that changes | pure conversions, OS queries | unit-testable |

How they interact. A user's call runs in the *facade* thread. With S > 1 the facade
owns a `PartitionGroup`: it hands a closure to the S master threads (mutex, condition
variable), and waits. Each master owns one shard of the operator and one copy of the
graph's structure, and runs the same sequence of collectives. With one rank these go
to `ShmComm`, with several to `HybridComm`, in which partition 0 alone calls MPI. Both
transports synchronise through the rank's one `PartitionBarrier`. A master whose job
throws poisons that barrier, so that the others unwind too; in a verb of `HybridComm`
partition 0 calls `MPI_Abort` instead, because its peer ranks cannot be told otherwise.

The hard behaviours, listed line by line under `hazards` in `PROJECT.json`:

* *interleavings*: two rounds of the barrier overlap, because a fast thread enters the
  next round before a slow one has noticed the end of the last; two verbs overlap in the
  same way; critical sections of the group interleave with wakeups that come early,
  spuriously or not at all;
* *memory visibility*: a load of `gen_` may return the previous value, and only the
  release/acquire pairs of the code rule out the wrong outcomes;
* *partial failures*: any thread may throw between or inside verbs, while its peers
  read its buffers, wait in a barrier or sit in MPI; a call of the user may break off
  with part of its gates applied, on some partitions more than on others;
* *distributed agreement without a message*: the ranks derive wire plans each from its
  own counts, and these must pair up;
* *long call sequences*: angles and gate indices are renumbered by every call, in
  opposite directions in the two pictures; tables, columns and vectors of the operator store are
  extended by some calls and lag behind after others;
* *undoing in place*: the gradient goes back through the layers on the same two vectors that
  the forward sweep left, divides by cosines that may vanish, and corrects sums that contain
  too much; paring leaves out rows that must not be missed.

## 2 The modules and the code they model

```
PartitionRounds            what sync() promises (abstract specification)
  ^ implemented by           ^ used by            ^ used by, per rank
PartitionBarrier           ShmComm              HybridComm
  ^ extended by
PartitionGroup             PropagatorSession (one level up: whole user calls)

Algebra  <-- Rotation (what one gate does to a whole operator) <-- Evaluation (what is asked of it)
   ^-------- Routing  (who owns a term)
LayerBuild  extends Rotation and Routing: the same gates, spread over slots
Functional  extends LayerBuild and Evaluation: the evaluations of the graph that it records

TermStore   what the store of one slot promises (abstract specification)
  ^ implemented by
OperatorStore

SequenceLemmas             what the operators on sequences return; induction over the naturals
PartitionRoundsProofs      theorems about PartitionRounds, for the clients of the barrier
PartitionBarrierProofs     theorems about PartitionBarrier
PartitionGroupProofs       theorems about PartitionGroup, on top of those of the barrier
ShmCommProofs              theorems about ShmComm, on top of those of the rounds
HybridCommProofs           theorems about HybridComm: places, types, aborts, barriers; messages, staging, delivery
PropagatorSessionProofs    theorems about PropagatorSession: what is replayed; gate indices, parameters, seeds
OperatorStoreProofs        theorems about OperatorStore: shapes, look-ups, folds, TermStore implemented
MC*                        instances for TLC
```

**PartitionRounds** is the abstract barrier: `Enter`, `Return` (only when every
partition has entered), `Fail` (only if a partition that unwound will never enter),
`Throw`, `Leave` and `NewJob`, with weak fairness of each partition.

**PartitionBarrier** has one action per atomic operation of `sync()`: `LoadGen`,
`Arrive` (the `fetch_add`), `Clear` and `Publish` by the last to arrive, `SpinOut` or
`SpinOn` for the loop's load, `CheckPoison`, and `RereadReturn` or `RereadThrow` for the
second load after a poison was seen; `Poison` is the catch block of the master,
`StopPoison` that of the group's shutdown, and `Reset` is part of starting a job.
The memory model is kept to what matters. `gen_` is taken modulo `GenMod`, as the code's
unsigned is modulo 2^32. `knows` is the set of threads to which the last store of `gen_`
is visible by happens-before; any other thread may load the previous value instead. A
store of `poisoned_` is a release: `poisonKnows` remembers whether its author knew, and
the acquire load hands that on. A stale load of `poisoned_` merely repeats the loop, so
that atomic is read directly, and `arrived_` is a read-modify-write, which always sees
the last value. `len`, `enters`, `returns`, `rounds` and `err` are history.

**PartitionGroup** extends it with the facade and the masters. A critical section of
`m_` is one action, because nothing else can observe its middle; the notifications
that follow it are actions of their own, and a parked thread can be woken for no reason.
`Execute` interleaves the atomic steps of the barrier with all of it. Construction may
fail at any spawned thread (`SpawnFails`) and in its first job (`Collect`), which lead
to the same shutdown as the destructor.

**ShmComm** runs a *script* of verbs per job. `Begin` publishes the caller's pointers in
its slot; every count, block, number or vector element that is read from a peer is an
action, so a peer can move on between any two reads. Memory is what a reader would find
in it: a buffer is tagged with the verb it was filled for, and a read through a slot
whose owner is in another verb, or has unwound, yields garbage and sets `dangling`.
Sums are sequences of their terms, since a floating-point sum depends on their order.

**HybridComm** models R ranks and their MPI traffic. One action is one *window*: the
code of one partition between two `sync()` calls, split where partition 0 blocks in
MPI. `Post`/`Landed`/`Receive` are the pairwise transport, `Collective`/`Everybody` the
collectives; whether MPI buffers a send (`eager`) is arbitrary, so that a run covers the
eager and the rendezvous protocol. Windows are atomic because within one window each
partition writes only its own part of the shared fields, or is alone in writing them;
that no *neighbouring* window interferes, although no verb ends with a barrier, is what
the run checks and the proof of delivery shows. When an agreed plan leaves out traffic of one rank, only that rank's lead notices. The others
may be through with the call by then, without what the plan left out; `DeliversInWorldOrder` excepts exactly that
(`Unrefused`), until the lead has come to its check, which aborts the job.

**PropagatorSession** is one level up: a call of the user is one action, because a job
is joined before the call returns. Its state is the engine's per partition (`graph`,
`operand`, `absorbed`, `epoch`, `weights`), the Python object's (`nParams`) and the
latest functional. A coefficient is abstracted to the rotations applied to it, and an
angle to its place on the parameter axis. The ghost `single` is the circuit that the calls
are documented to add up to, by `Circuit.__add__`, and `folded` the rotations contracted
so far. Failing calls are modelled where they leave something behind: in the gate
loop of a build or a propagate, at any gate and with any set of partitions `ahead` by
the one gate whose last exchange was over, and in the replay of a contraction. Once the
partitions' graphs differ in length the next collectives no longer pair up, and nothing
more is modelled. Circuits have no identity generators, which the code drops.

**Algebra** has the two algebras on monomials as sets of bits, formula by formula as the
engine evaluates them. **Rotation** is the abstract specification of the evolution: `Rotate`
maps a whole operator, without slots, rows, passes or messages, and its signs come from
products of letters (`MajoranaPower`, `PauliPower`), so that the masks and word formulas of
`Algebra` are checked against a definition. `Course` is the operator after every number of gates.
**Routing** is the owner of a term under the hash or the linear routing, the shift of a gate and
the window of slots that it can reach; the hash is any function, the linear basis any family of columns.

**LayerBuild** is the evolution of one job, i.e. of one `propagate`, or of one `build_graph`
with or without coefficients and the replay of its graph, on every slot of a flat world.
A gate is `fused_find_and_collect`; then for the leaders and again for the followers
`PostQueries` (resolves the queries to oneself and sends the others), `ResolveIncoming`
(answers, marks, and inserts what was missing) and `ProcessResponses`; then `FinishContract`
or `FinishLayer`, which insert the own misses and apply the sums or record the layer.
A slot that would pass the ceiling of the term index throws, in a pass (`ResolveThrows`) or after the last
exchange (`FinishThrows`), and those that wait for it find the barrier `Poisoned`; this is modelled on worlds
of one rank, where the whole call then throws. `PostSines` and `TakeSines` are `evolve_step` as `build_graph` with coefficients calls it. Each is
the code of one slot between two exchanges; slots run on their own otherwise, and `mail` delivers
in order per sender, once, which is what `shm` and `hybrid` establish for the transports. Rows,
coefficients, stamps and the layer's lists are those of the code. While building, the cosine and
sine of a gate are two integers: the properties compare polynomials in them, evaluated at one point,
so that no rounding can hide or cause a difference; the division that recovers a scaled
coefficient is exact. Signs of angles matter only through `ApplySin`.

**Functional** goes on where a graph is finished on all partitions of the rank (`BuildReturned`). `make_functional` takes the two vectors and,
if asked, the pared copy of the graph; `StepForward` and `StepForwardWait` are one layer of
`evolve_operator` (or of the transposed replay that gives terms their values) up to and after its
exchange, with the record that the gradient needs; `PostSum` and `TakeSum` are the reductions;
`StepBack` and `StepBackWait` one layer of `state_operator_derivative_local` with its snapshots, its
record, the own slot and the remote ends. A slot knows only its rows, its part of the layers and
its mail; `board` holds what the slots have put into the reductions, in order.
**Evaluation** says what must come out, from `Rotation`'s gates as linear maps on all monomials, with
neither rows nor layers nor a reverse pass: the derivative is the sum over the gates of a
parameter, each replaced by its derivative. Numbers are *m*·ε^*k* with ε = 2^-53 and *m* a residue
modulo the constant `Prime`: angles with rational cosine and sine are exact, a polynomial
identity that fails is seen, and addition keeps the larger magnitude, as doubles do. The cosine of a
quarter turn is ε, as `std::cos` gives it, so that a division by it and a sum that loses everything next
to it are what they are in the program; the reference takes it as 0.

**OperatorStore** is the store of one slot on its own, which in `LayerBuild` is just a
sequence of terms. Rows are packed or spilled; the table is an array of slots with linear probing
and rehashes; a column of the inverted index is a bitmap or a list and is promoted once; a fold
takes blocks by words or by postings, on a scratch that a visitor's exception leaves to `Wipe`;
`coeffs`, `dense`, `scored` and `pending` lag behind until an operation asks for them. The
operations are those of the engine: `InsertAbsent`, `current_picture_coeffs_`,
`initialize_operator_caches_`, `Contract`, `update_initial_operator`, `Scan`, `Copy`, in any
order. **TermStore** is the promise: a list of distinct terms that only grows, and two
values for every monomial, stored or not. `AbsOp` and `AbsState` are the refinement mapping; every cache
operation is a stutter.

How the compositions are tied together: the run `barrier` and the theorem `Refinement`
show that `PartitionBarrier` implements `PartitionRounds`. `ShmComm` extends
`PartitionRounds` and takes its actions as they are, and the property
`UsesPartitionRounds` shows that the barriers of `HybridComm` are such rounds, one per
rank. `DrivesBarrier` shows the other side: the group's `reset` and `poison` come only
when the barrier allows it, i.e. its behaviours are those of `PartitionBarrier!Spec`.

## 3 What is checked

Passing runs. State counts are distinct states.

| Run | Instance | Shows |
|---|---|---|
| `barrier` | 3 threads, up to 3 rounds per job, any number of jobs, `gen_` mod 2 (14 k states) | `NoEarlyReturn`: sync is a barrier. `FailsOnlyDoomedRounds`: no completed round is reported as failed. `IInv`, the invariant of the proofs. `ImplementsRounds`: the atomics implement `PartitionRounds`, its fairness included |
| `group` | 2 masters, `job_gen_` mod 2 (64 k) | `JobRunsOnce`, `ReportsWhatHappened` (a normal return means that every partition ran everything, an exception is the cause and never its echo `ShmCommPoisoned`), `DrivesBarrier`, `RunOnAllReturns`, `StopJoins` |
| `shm` | 3 partitions, every pair of verbs, 2 count matrices, throws anywhere (250 k) | `DeliversInRankOrder` (blocks and sums), `NobodyOverwritesAReader`, `JobEnds` |
| `hybrid` | 2 ranks x 2 partitions, every verb on every route followed by itself and by two others, one throw in four of the jobs (297 k) | `DeliversInWorldOrder`, `RanksAgree` (message lengths, the order of collectives, nothing left in flight), `InputsOutliveReads`, `AbortsOnlyOnFailure`, `EndsOrAborts`, `UsesPartitionRounds` |
| `session` | both pictures, 4 calls of which one may break off, 3 circuits, 2 partitions (375 k) | `ReplaysTheCircuit`, `AxisMatchesSingleCircuit` (and with it that gates keep distinct indices), `SeedsAtUsersPoint`, `TermValuesSeeCompletedCalls`, `ReweightInvalidates` |
| `store` | 2 modes, two setups, tables of 8 and 16 slots, at most 9 rows of which those of 3 letters and more spill, words of 2 bits, blocks of 4 words (7 k) | `StoreTypeOK`, the invariant of the proofs, `FindsEveryRow`, `FoldsAnticommute`, `ImplementsTermStore` |
| `functional` | 2 modes (16 monomials), 103 jobs (17 k); see below | `BuildHoldsItsShare`: what the slots hold after every gate is `Rotation`'s operator. `RotatesEachTermOnce`, `LayersPairUp`. `ReplayHoldsItsShare`, `EnergyIsExact`, `GradientIsExact`, `TermValuesAreExact`: every slot gets `Evaluation`'s answer. `JobCompletes`: no slot waits for ever, no message is left over, and a throw stops all slots within a gate of each other |

The jobs of `functional` are 60 of one gate on one slot (all 15 generators on all 15 terms and on
three, in both algebras), 15 evolutions on 1 to 4 slots (both routings, pictures and algebras,
the three modes, each limit on emission, zero cosines and identities while building; their
graphs are contracted), 7 evolutions of 2 or 3 slots of which one meets the ceiling of the term index (in the
leader or the follower pass, or after the last exchange, in a middle or the last gate or before an
identity), and 21 evaluations on 1 to 3 slots: gradients, energies and values of terms, on full graphs
and on graphs pared from 0 (drops zeros) and from -1 (drops nothing), at oblique angles and at quarter
turns in the last, the middle and the first layer, with gates that share a parameter, run backwards or at
twice the angle, and with rows that are scaled and not rotated.

Each also checks its module's type invariant where the module is run for the first time, and
where a proof needs more than types, the inductive invariant of that proof instead, with the types as its
first part: `IInv`, `GroupInv`, `ShmInv`, `SessionInv`, and `StoreTypeOK` of the store (section 5). What holds in the reachable states
of the instances is what was then proved of all of them.
Runs that end in a violation are those of section 6.

Why the bounds are enough for what they are meant to show:

* *Three threads* give the barrier a last arrival, a thread that is fast enough to be in
  the next round and one that is still in the previous round. That a thread can be at
  most one round behind, for any number of threads, is proved (section 5). `GenMod = 2` is the
  smallest modulus in which a stale `gen_` differs from the latest, and so the hardest:
  with the code's 2^32 fewer values coincide.
* *Pairs of verbs* suffice for interference between verbs: two barriers in each keep
  partitions within one verb of each other (`NobodyOverwritesAReader`), so that a verb
  can only meet the one before it and the one after it. Every ordered pair is run.
* *Vectors* of 3 elements with lines of 1 or 2 make slices that are full, cut short and empty.
* *Matrices* contain blocks of 0, 1 and 2 elements, to oneself, within a rank and across. With two
  ranks a derived plan is one of dense, self and peer; plans of more ranks, where one sends to
  one peer and hears from another, are defined in `HybridComm` but not run.
* *Four calls* reach a build on a build on a contraction, a re-wiring in between and a
  functional across it; circuits have gates of one and of two terms, shared angles and no angles.
* *Two modes* have every overlap of a term and a generator of two letters that the signs can
  tell apart, with and without a partner in the operator. Four slots are two ranks of two
  partitions, or four ranks of which a gate pairs each with one other; three slots are no power of two.
* `Prime = 997` is larger than any integer that an answer could equal by accident and small enough
  for TLC's 32-bit products.
* *The store*: with `MinSlots = 4`, an `IndexCeiling` of 9 and hashes of which half collide and all
  start near the end of the table, a run sees the reserve for the seeds, a rehash, wrapped chains and copies in between; `InlineWidth = 2`,
  `WordBits = 2`, `PromoteDensityInv = 2` and `BlockWords = 4` put both kinds of rows, both tiers and
  both kernels, and a second block, into nine rows. `MaxDrift` bounds the contractions.
* *Three or four gates*: a row inserted in one gate is a source, a target and a wrongly stamped
  row in later ones. `MaxStamp = 2` stands for the code's 65535.
* `MaxSyncs`, `MaxThrows`, `MaxCalls`, `MaxFails` and the scripts are the only bounds on lengths.

`CHECK_DEADLOCK FALSE` stands where a behaviour is one job (`ShmComm`, `HybridComm`, `Functional`) or a
session of at most `MaxCalls` calls, both of which end, and for `OperatorStore`. The barrier and the group are
checked for deadlock.

For every property of a passing run `PROJECT.json` names a plausible bug in the code (a forgotten reset,
a relaxed load, a rehash that comes late, a sweep in the wrong direction), written next to the
definition it would replace, under which TLC finds that property violated.

## 4 Fairness

* `PartitionBarrier`: weak fairness of each thread's next step, since the OS schedules
  all threads, and strong fairness of `SpinOut`, since C++ has a store become visible
  to another thread in finite time: a thread that loads `gen_` again and again does
  not read the old value for ever.
* `PartitionGroup`: the same for masters and for the facade inside a call. Nothing obliges the
  owner to call `run_on_all`, to destroy the group, or a thread to wake spuriously or to fail.
  No strong fairness of the mutex is needed: a critical section is one action, and no
  thread holds it for ever.
* `ShmComm`: weak fairness per partition. `HybridComm`: weak fairness of the whole
  next-state relation; a job has no loops, so it is enough that something happens while
  anything can. MPI is assumed to complete matching operations.
* `LayerBuild` and `Functional` state no fairness and no liveness: no step of a gate or layer can be
  repeated and there are finitely many, so a job completes if it never comes to a state in which all slots
  wait, which is the invariant `JobCompletes`.

## 5 What is proved

Every property below is proved for all values of the constants that meet the module's
assumptions; the column *Run* names the run in which TLC checks it on an instance.

| Module | Theorem | Statement | Run |
|---|---|---|---|
| `PartitionBarrierProofs` | `InductiveInvariant` | `Spec => []IInv` | `barrier` |
| | `TypeCorrect` | `Spec => []TypeOK` | |
| | `BarrierSafety` | `Spec => []NoEarlyReturn` | `barrier` |
| | `PoisonSoundness` | `Spec => []FailsOnlyDoomedRounds` | `barrier` |
| | `Refinement` | `Spec => Rounds!SafeSpec`: every step of the atomics is a step of `PartitionRounds` or a stutter | |
| `PartitionRoundsProofs` | `RoundsInductive` | `SafeSpec => []RoundsInv` | (within `ShmInv`) |
| `PartitionGroupProofs` | `GroupInductive` | `GroupSpec => []GroupInv` | `group` |
| | `EveryJobRunsOnce` | `GroupSpec => []JobRunsOnce` | `group` |
| | `HonestReports` | `GroupSpec => []ReportsWhatHappened` | `group` |
| | `GroupRefinesBarrier` | `GroupSpec => DrivesBarrier`: the group drives its barrier by steps of the barrier's `Spec` | `group` |
| `ShmCommProofs` | `ShmInductive` | `ShmSpec => []ShmInv` | `shm` |
| | `CollectivesDeliver` | `ShmSpec => []DeliversInRankOrder` | `shm` |
| | `ReadersAreSafe` | `ShmSpec => []NobodyOverwritesAReader` | `shm` |
| | `DanglingReadsFail` | `ShmSpec => []` a partition whose verb is over has not read from the memory of one that unwound | (within `ShmInv`) |
| | `CollectivesKeepRounds` | the collectives change the barrier only by steps of `PartitionRounds` | |
| `HybridCommProofs` | `HybridInductive` | `HybridSpec => []HybridInv`, the inductive invariant | |
| | `HybridTypesHold` | `HybridSpec => []HybridTypeOK` | `hybrid` |
| | `ReducedVectorsLive` | `HybridSpec => []InputsOutliveReads` | `hybrid` |
| | `AbortsHaveReasons` | `HybridSpec => []AbortsOnlyOnFailure` | `hybrid` |
| | `DeliveryInductive` | `HybridSpec => []DeliveryInv`, the invariant of messages, staging and results | |
| | `BlocksDelivered` | `HybridSpec => []DeliversInWorldOrder` | `hybrid` |
| | `RanksStayAgreed` | `HybridSpec => []RanksAgree` | `hybrid` |
| | `RanksUseBarriers` | `HybridSpec => UsesPartitionRounds`: every step, until an abort, is a step of each rank's `PartitionRounds` or leaves it alone | `hybrid` |
| `PropagatorSessionProofs` | `ReplayInductive` | `Spec => []ReplayInv` | (within `SessionInv`) |
| | `ReplayOrder` | `Spec => []ReplaysTheCircuit` | `session` |
| | `TermValues` | `Spec => []TermValuesSeeCompletedCalls` | `session` |
| | `FunctionalWeights` | `Spec => []ReweightInvalidates` | `session` |
| | `SessionInductive` | `Spec => []SessionInv` | `session` |
| | `AxisMatches` | `Spec => []AxisMatchesSingleCircuit` | `session` |
| | `Seeds` | `Spec => []SeedsAtUsersPoint` | `session` |
| `OperatorStoreProofs` | `StoreShapes` | `Spec => []StoreTypeOK`, the inductive invariant | `store` |
| | `StoreFindsEveryRow` | `Spec => []FindsEveryRow` | `store` |
| | `StoreFoldsAnticommute` | `Spec => []FoldsAnticommute` | `store` |
| | `StoreImplementsTermStore` | `Spec => ImplementsTermStore`: every operation is one of `TermStore` or a stutter | `store` |
| | `FoldIsAnticommutation` | the parity of `fold_generator` and its correction is `Anticommute`, which is defined by products of letters | |

### The assumptions

`PartsAssumption`: the set of threads is finite and not empty. `GenModAssumption`,
`JobModAssumption`: the moduli of `gen_` and of `job_gen_` are 2 or more (the code's are 2^32). `MaxSyncsAssumption`, `RoundsAssumption`: the bound on the rounds of a job is any natural number.
`ShmPartsAssumption`: the partitions are 0 to N - 1. `ShmBoundsAssumption`: vectors of any length, cut into slices by
lines of any positive length. `MatricesAssumption`: counts are natural numbers. `ScriptsAssumption`: a script is
any sequence of verbs that fits the bound on rounds. `HybridSizes`, `HybridBound`, `HybridScripts`: any positive number of
ranks and partitions, vectors of any length, any sequence of verbs within the bound on rounds, with any counts; a sparse plan is given
only to a power of two of ranks and has a shift below that number, as `require_routable` demands,
and a plan is derived only there, as `routes_pairwise` has it. `SessionAssumption`: finitely many partitions; any set
of circuits whose gates have at least one term (the code rejects empty generators); `MaxCalls` and `MaxFails` are any
natural numbers. `ModesAssumption`: any positive number of modes. `StoreAssumption`: the hash of a term is any natural
number, and so is the place from which a hash is probed, so that all terms may collide; the smallest table is a power of two,
the one of two slots included; the widths of rows, words, blocks and indices are positive numbers; a setup or a
batch lists each term once, as the constructor and the scan guarantee by building them from maps and rows.

### The barrier

The properties are not inductive: `NoEarlyReturn` speaks of history only and would allow a
state in which a thread holds a wrong `g`. `IInv` says what each place in the code may
rely on:

* `OutsideInv`: outside a round a thread without error has left every completed round
  and sees the latest `gen_`. So its `LoadGen` cannot be stale, although the load as such may be.
* `WaitingInv`: a waiting thread either holds the current `gen_` and is counted in the
  running round, or holds the previous one and its round is over. That these two cannot be confused is the
  arithmetic of `Bump` and `Prev` modulo `GenMod`, which needs `GenMod >= 2`, and that
  nobody is two rounds behind, which needs everyone's arrival.
* `LastInv`: there is one last arrival, and all others have arrived by then.
* `CountInv`: `arrived_` is the number of arrivals in the running round, or 0 between
  `Clear` and `Publish`. This is where cardinalities come in (`ArrivalCounting`).
* `OverInv` and `PoisonInv`: a thread that unwound holds back the round after the last
  completed one, and whoever poisons has the last completed round in view. So a thread that sees the poison and
  then reads its old `gen_` again may fail: its round really is incomplete.

There is one lemma per action (`LoadGenIInv`, ... , `StopPoisonIInv`), combined in the
step to `IInv'`; `Refinement` maps places to phases by `PhaseAt` and follows from `IInv` action by action.

### The group

The group's steps either are steps of the barrier or leave it alone (`GroupRefinesBarrier`), so `IInv`
is at hand; but `reset()` and `poison()` need their condition, which is a fact about the group.
`GroupInv` ties the counters under the mutex to the places of the threads. `MasterInv`: a
master has seen the current `job_gen_` exactly if it has run the published job, or none is
published; this survives early and spurious wakeups and the wrap of the counter, because `seen` is never more than
one job behind. `FacadeInv`: `done_count_` is the number of masters that are
through with the job (`Through`), so that the facade collects only when no master is in a job, and may then reset the
barrier, read `errs_` or stop. `ReportsWhatHappened` then rests on the barrier: whoever was failed
by the barrier has a peer that unwound earlier, so among the errors of a job there is one that is not the echo.

### The in-process collectives

`RoundsInv` is all that the collectives take from the barrier: `returns[p] <= enters[q]` for all `p`, `q`, and
that whoever failed has a peer that never entered that round. `ShmInv` adds

* `StageInv`: two rounds per verb, with the reads between them; with `RoundsInv` it follows
  that a partition that reads meets peers only in its own verb, unless they unwound (`ReadersAreSafe`);
* `MemoryInv`: a partition's slot and buffers are those of its current verb until it leaves;
* `ReadInv`: what has been read so far is the prefix of what should be read, *unless* the verb is `Doomed`, i.e. somebody
  unwound before its second barrier. That exception is the essence: reads from freed
  memory do happen (the finding `shm_lifetime`), and they are harmless for what a caller gets because the
  verb cannot return;
* `VecInv`, for the in-place sum, says of every element of every partition's vector whether
  its owner has reduced it, also while the other owners write their own slices; the slices partition
  the vector (`SlicesDisjoint`, `SlicesCover`), for any length, line and number of partitions.

The blocks are concatenated by `FlattenSeq`, a recursive function of the community modules. That block
*i* lies behind the first *i* - 1 is the lemma `FlattenBlocks`, by induction over the number of blocks;
the induction is stated about sets (`SetInduction`: a set that holds 0 and the successors of its members holds all naturals),
which the provers can instantiate, where the library's theorems take an operator.

### The hybrid collectives

Among four barriers per verb, none at its end, and MPI calls in which only the lead can block, what has to be known is *where*
everybody is. `HybridInv` says for each partition (`Place`) that the rounds it has entered are those of the verbs
it has completed (`Done`) and of the windows of its own verb; that it throws only between two verbs or in the last window of one,
unless a peer threw first; and that it is never ahead of its rank's barrier (`InStep`). Two partitions of a rank
whose rounds lie within one verb are then in the same verb (`SameVerb`), and what each has published is of that verb (`Filled`).

* Hence whoever reduces a slice finds every vector of its rank filled for this verb and not yet destroyed
  (`ReducedVectorsLive`): a partition that threw did so before the verb or behind its last barrier, where no slice is read.
* A round fails only because of a partition that threw (`Culprit`), so the poison that reaches a lead in a verb is never
  the first failure, and a refused plan is one whose rows, which are all of this verb, leave the plan (`AbortsHaveReasons`).
* `RanksUseBarriers` follows step by step.
* For the types, that peers are ranks: the exclusive or is built up digit by digit (`LowXor`), and `XorRanks` proves by induction
  over the digits that it is an involution and stays among a power of two of ranks. The last is what
  `require_routable` is for; a derived plan is one that it would let pass (`DerivedIsRoutable`), so that the check that
  `sparse_pairwise` repeats on it (`Pairwise.h:75`) cannot throw.

What the verbs deliver needs an account of every message of the job. `DeliveryInv` adds `WireInv` to `HybridInv`. The
ranks run apart, so everything in it is said relative to the place of a rank's *lead* (`At`): the verb it works at (`Cur`), the
window it has come to (`Stage`; 4 when everything is exchanged) and the call of MPI that it is blocked in.

* `MessagesFit`: the places of two leads determine what is on the way between them. The sender has sent the messages
  of so many verbs (`SentTo`) and the receiver received those of so many (`HadTo`); the channel holds the difference, in
  order, each message with the contents that its verb prescribes (`Flows`), and the receives that are posted have the lengths of
  the messages to come (`Awaiting`). `CallsFit` says the same of the collectives. As no verb ends with a barrier between
  ranks a sender may be verbs ahead, with several messages in one channel; that it has skipped the same verbs as the
  receiver is because both sides decide alike whether they exchange anything (`Sends`).
* That they decide alike is `PeersMutual`: a derived plan covers whoever the rank sends anything to or hears from
  (`DerivedCovers`), so that a message which is not empty is in the plans of both; a sparse plan is symmetric by `XorRanks`; and a dense plan is everybody. A plan
  that excludes traffic of a rank makes its lead refuse the verb (`Refused`), so that nobody waits for its messages unnoticed.
* `SendFits`, `RecvFits`, `LegsFit`: the staging buffers. A layout is a running sum over ranks, destination partitions and
  source partitions. `CellSplit` shows that the block for partition *t* from partition *u* lies where the message has it,
  `CellsApart` that no two blocks overlap, `CellFits` that they lie in the buffer and `GridsAgree` that the layouts on both
  sides describe the same message. A partition has packed once it has ended the second window (`Passed2`): packing by others neither
  moves nor overwrites its blocks, and the lead posts only when all have packed (`PackedPay`).
* `CountsFit`, `PlansFit`, `RedFits`: the counts that have come, the plan in force and the vector that is being
  reduced. Its slices cover it for every length and line (`SlicesCover`), and each is added up from vectors of this verb.
* `ResultsFit`: what a partition has been given by a completed verb.

There is again one lemma per action (`BeginWire`, ... , `FinishWire`). Most actions leave the leads where they are and
are done by `QuietStep`; one of a lead must re-establish the link to every other rank, whose places are arbitrary.
`RanksStayAgreed` then compares two places (`HereAgree`, `HereFits`). At the end of the job all leads are at the same
place, where sent and received are equal (`NothingLeft`).

### The session

`ReplaysTheCircuit` is that contracted and stored rotations together are those of the
equivalent circuit, in the order of the picture. Alone it is not inductive, because a contraction moves a prefix or
a suffix of the graph, and a re-build prepends or appends. `ReplayInv` adds:

* `OrderInv`: the contracted part is `folded`, and the graph is the reverse of `single`, each for itself;
* `EqualLengthEqualLayers`: partitions with graphs of the same length have the same graph. It holds
  also after a build that broke off, when they differ by the layer of one gate, and is why the
  calls that check the lengths only may go on;
* `EpochInv`: weights and epochs advance together, so that an equal epoch means equal weights, also when a re-weight broke off;
* `SingleTypeOK`, the well-formedness of the equivalent circuit.

The lemmas say what the operators of the module do to the rotations of a graph:
concatenation, reversal, cutting off, re-wiring, which changes angles and gates but no rotation, and a gate loop that ends early.

`AxisMatchesSingleCircuit` and `SeedsAtUsersPoint` are about the same layers once more, with the gate index and
the angle that each carries. `SessionInv` is `ReplayInv` and `AxisInv`, whose parts are:

* `GatesOrdered`: gate indices have the order in which the gates were authored (`Before`), in both pictures and also
  after a build that broke off. The gates of a build come behind `NGates` and are of a later call, so the order
  survives it; a contraction only takes layers away, or all of them. Equal indices therefore mean the same gate.
* `GatesContiguous`: as long as no call failed no index is left out. Only then is the index of a layer the number of
  gates authored before it (`Authored`), and a mapping with one entry per gate gives a layer the angle
  that it gives the layer's place in `single`.
* The number of parameters is that of `single`, and the mapping read off the graph is the angles of `single`. In
  the picture in which a build takes its parameters at the front of the axis, the stored angles move up by the width of the new circuit; the code
  does this by a rotation modulo the new number of parameters, and `Wraps` shows that it moves old angles up and
  brings the new ones to the front.
* `SeedsAtUsersPoint` itself. The seed vector is assembled for the axis before that rotation;
  `SeedVectorAt` says that it holds, at each old place, the value of the place to which that one is moved.

### The store

The four properties of `store` rest on one invariant, `StoreTypeOK`, whose four parts are kept one by one.

* `RowsInv`: rows and spill map are those of a list of distinct terms, the spill map has no entry for a row that does not
  spill, and the list is not longer than the ceiling of the index.
* `TableInv`: each row is in the table once, with its hash, and *every slot between the place from which its hash is probed
  and its own is taken*. Without that a term could be in the table and not be found. A table is never full
  (`RoomInTable`, at most 7/10), so that a probe ends. An insertion keeps both since it takes the first
  empty slot of a chain and frees none (`PutKeeps`). A rehash goes through the old slots in their
  order, a reserve and a copy likewise; these are inductions along the slots (`RehashKeeps`, `InsertAllKeeps`),
  stated about sets and closed by `SetInduction`. Then the first slot with the hash whose row has the
  term is that row's, and a hash without a term ends at an empty slot (`Finds`); `Candidate` may be another row with the
  same hash, which is why a batched look-up compares it.
* `IndexInv`: each column is, in one of its two forms, the rows with that bit, and the parity is not built or
  that of all rows. `FoldsAre` adds that a fold by words and one by postings both give, bit by bit, the parity of the
  columns that have the row. `scratch` must be all zero for that between any two folds, which is the reason for
  `Wipe`. What remains is algebra.
* `CachesInv`: each vector is right for a prefix of the rows, and no coefficient waits in `pending` for a row that
  already has an element in `coeffs`, as `get_operator` would never look at it again.

The algebra is `FoldIsAnticommutation`. The engine counts bits that a term has in common with a generator, which for the Pauli
basis it has changed before; `Anticommute` multiplies letters and compares signs. In the Majorana basis the exponents of
the two orders of a product differ by *|M||G| - |M ∩ G|*, which is found by counting pairs (`ChosenPairs`). In the
Pauli basis letters are compared mode by mode (`LettersAnticommute`), and the two bits of a mode change places in
the generator (`Swapped`); that exchanging them does not change how many bits are set is `SameCount`, a bijection between finite sets.

The refinement is by values: the coefficient of a monomial is the element of the vector if its row has one, else
what is pending, else 0 (`OpAt`); its amplitude in the state is the element of `dense`, else what it was at construction
(`StateNow`). Each extension of a vector is then a stutter (`OpStays`, `StateStays`) and each operation changes the values
as `TermStore` says (`GrowPromised`, `ContractPromised`, `ReweighPromised`).

### Only model-checked

* All liveness, and the fairness part of the refinements: `ENABLED` and reasoning about
  fairness are beyond the prover here (`RunOnAllReturns`, `StopJoins`, `JobEnds`, `EndsOrAborts`, `ImplementsRounds` in full).
* Everything about `LayerBuild` and `Functional`. The folds over monomials in `Rotation` and `Evaluation`
  would need algebra (sums in any order) that the provers do not have.

Writing the proofs changed the models in three respects. A few `CASE`s had guards that overlapped, so that
the value rested on which alternative TLC takes first; they are now disjoint. And in `OperatorStore` and the seeds of
`Rotation` the folds that filled tables, spill maps and ordered lists are now recursive functions, or say directly what
they return, because the proofs need their equations. And in `HybridComm` the blocks that are written into a staging
buffer are functions, where they were operators passed to `Overlay`; only `alltoallv` now has its plan derived,
as `derived_wire_plan_` is called nowhere else (`HybridComm.h:248`), and only from a dense plan on a power of two of
ranks, more than one: that is how its only caller asks for it (`Exchange.h:111`, `Routing.h:289-291`).

## 6 Where the code and its text disagree

Each is a run that must end in a violation; `findings` in `PROJECT.json` quotes the lines.

| Run | What happens |
|---|---|
| `shm_lifetime` | In `alltoallv_resolve` a partition whose receive buffer cannot be sized unwinds after the first barrier and takes its send buffer with it, while peers copy from it; `Comm.h` demands that it stay until the second barrier |
| `session_stale` | A functional compares numbers of layers. After a contraction and a build that lead back to its number it answers with the state it was made from, where the documentation promises an error. (A pared functional compares the layers of its own copy, so that builds and contractions never invalidate it at all) |
| `session_absorbed` | `propagate` that breaks off has contracted gates, and `term_expectation_values` does not know |
| `layer_cap` | A graph built with `only_rotate_len_k` is replayed: the layer does not know the cap, and terms longer than it, which no rotation reaches, are scaled by the cosine all the same. `propagate` leaves them alone, as documented |
| `session_partitions` | The last insertion of a gate comes after its last exchange: if it fails on one partition the others are a layer ahead, against the statement that the structure is identical everywhere |

A limit met on the way, which no document contradicts: a `build_graph` that breaks off leaves
layers behind whose parameters `n_parameters` does not count.

## 7 What is not modelled, and why

* Floating-point rounding, and with it coefficients at the very edge of a tolerance. `core_term_`.
* In the layer build: the wire format of queries and the variants on sorted positions (they compute
  the same terms), batching and prefetching, inactive modes (`logical_num_modes < Modes`), changes of basis,
  and throws other than those at the ceiling of the term index. What `PropagatorSession` assumes about
  gate loops that break off, and its two findings rest on, is what `JobCompletes` says of these: slots stop
  in the same gate or one apart (more only across gates of the identity).
* In the evaluations: rounding other than the loss of what is 2^53 times smaller, so that the thresholds
  `kVanishingCos` and `kRecordSpreadBits` are seen with cosines of 0 and 53 bits only; the reuse of
  thread-local scratch by a later call; exceptions inside a replay, and with them the one way in
  which an exchange `Ticket` could be dropped; the order of additions within a fold over rows.
  Functionals and their life are in `PropagatorSession`, not composed with `Functional`: there a
  coefficient is the rotations applied to it, here it is a number.
* In the store: prefetching, memory accounting, `reserve` beyond its effect on the table, and the composition
  with `LayerBuild`, which sees the store as `TermStore` promises it. The packing of signs in the graph encoding.
* The agreement of ranks on routes and seeds, which happens once at construction, and the
  single-partition MPI path, which posts the same legs without windows.
* Widths of integers other than the two counters above: counts are checked against
  `int` by `CheckedCount.h`, and the refusal is one of the throws in `ShmComm` and `HybridComm`.
* In the group: thread pinning, the choice of a transport, the clone constructor (a first
  job with another body). In the session: construction, copies, read-only evaluations,
  truncation settings, contraction of a part of the layers.
* Python front ends, parsing, bindings, CPU topology: stateless conversions or OS queries.

## 8 The plan

In order of weight; the modules above come first because everything else runs on them.

1. **LayerBuild, proved**: `RotatesEachTermOnce` for one pass and then for a gate: of a term and its
   partner exactly one is a follower, and a marked follower is never asked for again.
2. **Routing, proved**: `dest_from_shift` is the owner of the partner, and a gate's window contains its
   owner, for any hash, basis and number of ranks. `Routing` would carry ranks as sets of
   digits for that, because the sums that turn digits into numbers are out of the prover's reach.
3. **More throws in LayerBuild and Functional**: refused counts and memory, on top of transports that fail and
   on several ranks, where the others abort; throws in a replay; exchange tickets.
4. **Routes**: the agreement of ranks at construction, and wire plans of four ranks.
