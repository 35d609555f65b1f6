-------------------------- MODULE PartitionBarrier --------------------------
(***************************************************************************)
(* mpi::PartitionBarrier: the generation barrier that synchronises the     *)
(* partition master threads of one rank, at the granularity of its atomic  *)
(* operations, together with the jobs that drive it: every partition runs  *)
(* a body that calls sync() the same number of times and may throw between *)
(* two calls, upon which its master poisons the barrier.                   *)
(*                                                                         *)
(* gen_ is an unsigned that wraps, so it is kept modulo GenMod.  A load of *)
(* gen_ need not return the latest store: `knows' is the set of partitions *)
(* to which the latest store of gen_ is visible by happens-before, and a   *)
(* partition outside it may still read the previous value.  A release      *)
(* store of poisoned_ publishes whether its author had that store in view, *)
(* which the acquire load of poisoned_ passes on to the reader.  A stale   *)
(* load of poisoned_ only repeats the loop, so poisoned_ is read directly. *)
(***************************************************************************)
EXTENDS Naturals, FiniteSets

CONSTANTS
  Parts,      \* the partitions of one rank (participants_)
  GenMod,     \* the modulus of gen_ (2^32 in the code)
  MaxSyncs    \* bound: the largest number of sync() calls of one job

ASSUME PartsAssumption == IsFiniteSet(Parts) /\ Parts # {}
ASSUME GenModAssumption == GenMod \in Nat /\ GenMod >= 2
ASSUME MaxSyncsAssumption == MaxSyncs \in Nat

VARIABLES
  gen,          \* gen_
  arrived,      \* arrived_
  poisoned,     \* poisoned_
  knows,        \* partitions to which the latest store of gen_ is visible
  poisonKnows,  \* for each store of poisoned_ TRUE: was its author in knows?
  pc,           \* where each partition is
  g,            \* g[p]: the local g of p's sync()
  len,          \* sync() calls in the current job
  enters,       \* history: rounds p arrived at in this job
  returns,      \* history: sync() calls of this job that returned to p
  rounds,       \* history: rounds completed in this job
  err           \* the exception p's body ended with: errs_[p]

barrierVars == <<gen, arrived, poisoned, knows, poisonKnows>>
jobVars == <<len, enters, returns, rounds, err>>
vars == <<barrierVars, pc, g, jobVars>>

Gens == 0..(GenMod - 1)

Bump(x) == IF x = GenMod - 1 THEN 0 ELSE x + 1
Prev(x) == IF x = 0 THEN GenMod - 1 ELSE x - 1

\* The values an acquire load of gen_ by p may return, and who knows the
\* latest store once p has read v.
GenLoads(p) == IF p \in knows THEN {gen} ELSE {gen, Prev(gen)}
KnowsAfter(p, v) == IF v = gen THEN knows \cup {p} ELSE knows

Goto(p, to) == pc' = [pc EXCEPT ![p] = to]

Locations == {"body", "arrive", "clear", "publish", "spin", "check", "reread",
              "unwind", "done"}
InRound == {"clear", "publish", "spin", "check", "reread"}

TypeOK ==
  /\ gen \in Gens
  /\ arrived \in 0..Cardinality(Parts)
  /\ poisoned \in BOOLEAN
  /\ knows \subseteq Parts
  /\ poisonKnows \subseteq BOOLEAN
  /\ pc \in [Parts -> Locations]
  /\ g \in [Parts -> Gens]
  /\ len \in 0..MaxSyncs
  /\ enters \in [Parts -> 0..MaxSyncs]
  /\ returns \in [Parts -> 0..MaxSyncs]
  /\ rounds \in 0..MaxSyncs
  /\ err \in [Parts -> {"none", "own", "poisoned"}]

Init ==
  /\ gen = 0 /\ arrived = 0 /\ poisoned = FALSE
  /\ knows = Parts /\ poisonKnows = {}
  /\ pc = [p \in Parts |-> "done"]
  /\ g = [p \in Parts |-> 0]
  /\ len = 0 /\ rounds = 0
  /\ enters = [p \in Parts |-> 0]
  /\ returns = [p \in Parts |-> 0]
  /\ err = [p \in Parts |-> "none"]

\* Faulty resets: one leaves the count of a failed round behind, the other the
\* poison.
ResetKeepsCount ==
  /\ poisoned' = FALSE /\ knows' = Parts /\ poisonKnows' = {}
  /\ UNCHANGED <<gen, arrived>>

ResetKeepsPoison ==
  /\ arrived' = 0 /\ knows' = Parts
  /\ UNCHANGED <<gen, poisoned, poisonKnows>>

\* reset(), called between jobs by run_on_all, which also clears errs_; gen_
\* stays.  The mutex that hands the job over makes every store visible.
Reset ==
  /\ poisoned' = FALSE
  /\ arrived' = 0
  /\ knows' = Parts
  /\ poisonKnows' = {}
  /\ UNCHANGED gen

StartJob ==
  /\ Reset
  /\ pc' = [p \in Parts |-> "body"]
  /\ len' \in 0..MaxSyncs
  /\ rounds' = 0
  /\ enters' = [p \in Parts |-> 0]
  /\ returns' = [p \in Parts |-> 0]
  /\ err' = [p \in Parts |-> "none"]
  /\ UNCHANGED g

NewJob ==
  /\ \A p \in Parts : pc[p] = "done"
  /\ StartJob

\* sync(): const unsigned g = gen_.load(acquire)
LoadGen(p) ==
  /\ pc[p] = "body" /\ enters[p] < len
  /\ \E v \in GenLoads(p) :
       /\ g' = [g EXCEPT ![p] = v]
       /\ knows' = KnowsAfter(p, v)
  /\ Goto(p, "arrive")
  /\ UNCHANGED <<gen, arrived, poisoned, poisonKnows, jobVars>>

\* arrived_.fetch_add(1) + 1 == participants_
Arrive(p) ==
  /\ pc[p] = "arrive"
  /\ arrived' = arrived + 1
  /\ enters' = [enters EXCEPT ![p] = @ + 1]
  /\ Goto(p, IF arrived + 1 = Cardinality(Parts) THEN "clear" ELSE "spin")
  /\ UNCHANGED <<gen, poisoned, knows, poisonKnows, g, len, returns, rounds, err>>

\* arrived_.store(0), by the last to arrive
Clear(p) ==
  /\ pc[p] = "clear"
  /\ arrived' = 0
  /\ Goto(p, "publish")
  /\ UNCHANGED <<gen, poisoned, knows, poisonKnows, g, jobVars>>

\* gen_.store(g + 1, release); return.  Nobody else has this store in view yet,
\* nor do the poison stores made before it publish it.
Publish(p) ==
  /\ pc[p] = "publish"
  /\ gen' = Bump(g[p])
  /\ knows' = {p}
  /\ poisonKnows' = {FALSE : b \in poisonKnows}
  /\ rounds' = rounds + 1
  /\ returns' = [returns EXCEPT ![p] = @ + 1]
  /\ Goto(p, "body")
  /\ UNCHANGED <<arrived, poisoned, g, len, enters, err>>

\* while (gen_.load(acquire) == g): the loop ends, sync() returns ...
SpinOut(p) ==
  /\ pc[p] = "spin"
  /\ \E v \in GenLoads(p) \ {g[p]} : knows' = KnowsAfter(p, v)
  /\ returns' = [returns EXCEPT ![p] = @ + 1]
  /\ Goto(p, "body")
  /\ UNCHANGED <<gen, arrived, poisoned, poisonKnows, g, len, enters, rounds, err>>

\* ... or goes on to look at poisoned_.
SpinOn(p) ==
  /\ pc[p] = "spin"
  /\ g[p] \in GenLoads(p)
  /\ knows' = KnowsAfter(p, g[p])
  /\ Goto(p, "check")
  /\ UNCHANGED <<gen, arrived, poisoned, poisonKnows, g, jobVars>>

\* A faulty CheckPoison: a relaxed load brings no view of gen_ along.
CheckPoisonRelaxed(p) ==
  /\ pc[p] = "check"
  /\ Goto(p, IF poisoned THEN "reread" ELSE "spin")
  /\ UNCHANGED <<barrierVars, g, jobVars>>

\* poisoned_.load(acquire): TRUE comes from some poisoner's release store and
\* brings that poisoner's view of gen_ along.
CheckPoison(p) ==
  /\ pc[p] = "check"
  /\ \/ /\ ~poisoned
        /\ Goto(p, "spin")
        /\ UNCHANGED knows
     \/ \E published \in poisonKnows :
          /\ Goto(p, "reread")
          /\ knows' = IF published THEN knows \cup {p} ELSE knows
  /\ UNCHANGED <<gen, arrived, poisoned, poisonKnows, g, jobVars>>

\* The second load of gen_: the round may have completed meanwhile.
RereadReturn(p) ==
  /\ pc[p] = "reread"
  /\ \E v \in GenLoads(p) \ {g[p]} : knows' = KnowsAfter(p, v)
  /\ returns' = [returns EXCEPT ![p] = @ + 1]
  /\ Goto(p, "body")
  /\ UNCHANGED <<gen, arrived, poisoned, poisonKnows, g, len, enters, rounds, err>>

RereadThrow(p) ==
  /\ pc[p] = "reread"
  /\ g[p] \in GenLoads(p)
  /\ knows' = KnowsAfter(p, g[p])
  /\ err' = [err EXCEPT ![p] = "poisoned"]
  /\ Goto(p, "unwind")
  /\ UNCHANGED <<gen, arrived, poisoned, poisonKnows, g, len, enters, returns, rounds>>

\* The body throws between two sync() calls.
Throw(p) ==
  /\ pc[p] = "body"
  /\ err' = [err EXCEPT ![p] = "own"]
  /\ Goto(p, "unwind")
  /\ UNCHANGED <<barrierVars, g, len, enters, returns, rounds>>

\* Faulty poisons: a relaxed store, and a catch block that forgets to poison.
PoisonRelaxed(p) ==
  /\ pc[p] = "unwind"
  /\ poisoned' = TRUE
  /\ poisonKnows' = poisonKnows \cup {FALSE}
  /\ Goto(p, "done")
  /\ UNCHANGED <<gen, arrived, knows, g, jobVars>>

PoisonForgotten(p) ==
  /\ pc[p] = "unwind"
  /\ Goto(p, "done")
  /\ UNCHANGED <<barrierVars, g, jobVars>>

\* master_loop_'s catch: poison()
Poison(p) ==
  /\ pc[p] = "unwind"
  /\ poisoned' = TRUE
  /\ poisonKnows' = poisonKnows \cup {(p \in knows)}
  /\ Goto(p, "done")
  /\ UNCHANGED <<gen, arrived, knows, g, jobVars>>

Finish(p) ==
  /\ pc[p] = "body" /\ enters[p] = len
  /\ Goto(p, "done")
  /\ UNCHANGED <<barrierVars, g, jobVars>>

\* stop_and_join_: the facade poisons the barrier, with no master in a job.
StopPoison ==
  /\ \A p \in Parts : pc[p] = "done"
  /\ poisoned' = TRUE
  /\ poisonKnows' = poisonKnows \cup {TRUE}
  /\ UNCHANGED <<gen, arrived, knows, pc, g, jobVars>>

Step(p) ==
  \/ LoadGen(p) \/ Arrive(p) \/ Clear(p) \/ Publish(p)
  \/ SpinOut(p) \/ SpinOn(p) \/ CheckPoison(p) \/ RereadReturn(p) \/ RereadThrow(p)
  \/ Throw(p) \/ Poison(p) \/ Finish(p)

Next == NewJob \/ StopPoison \/ \E p \in Parts : Step(p)

Spec == Init /\ [][Next]_vars

\* Threads are scheduled, and a store of gen_ becomes visible to a spinning
\* thread in finite time (hence strong fairness of leaving the loop).
Fairness == \A p \in Parts : WF_vars(Step(p)) /\ SF_vars(SpinOut(p))

FairSpec == Spec /\ Fairness

------------------------------------------------------------------------------
(***************************************************************************)
(* Properties                                                              *)
(***************************************************************************)

\* sync() is a barrier: whoever returned from its k-th sync() did so after
\* every partition had arrived at its own k-th (PartitionBarrier::sync).
NoEarlyReturn == \A p, q \in Parts : returns[p] <= enters[q]

\* "Throws ShmCommPoisoned only for a round that cannot complete": a partition
\* that failed in its k-th round leaves behind one that unwound before
\* arriving there.
FailsOnlyDoomedRounds ==
  \A p \in Parts : err[p] = "poisoned" =>
    \E q \in Parts : err[q] = "own" /\ enters[q] < enters[p]

\* Why the barrier works, as an inductive invariant.  Outside a round a healthy
\* partition has left every completed round and sees the latest gen_; inside, it
\* waits for the current round (its g is gen_) or has yet to notice that its
\* round completed (its g is one behind).
Waiting == {"spin", "check", "reread"}
ArrivedSet == {p \in Parts : enters[p] = rounds + 1}

OutsideInv(p) ==
  /\ err[p] = "none" /\ p \in knows
  /\ enters[p] = rounds /\ returns[p] = rounds
  /\ pc[p] = "arrive" => g[p] = gen /\ enters[p] < len

LastInv(p) ==
  /\ err[p] = "none" /\ g[p] = gen /\ returns[p] = rounds
  /\ \A q \in Parts : enters[q] = rounds + 1
  /\ \A q \in Parts : pc[q] \in {"clear", "publish"} => q = p

WaitingInv(p) ==
  /\ err[p] = "none" /\ returns[p] + 1 = enters[p]
  /\ \/ enters[p] = rounds + 1 /\ g[p] = gen /\ p \in knows
     \/ enters[p] = rounds /\ g[p] = Prev(gen)
  /\ pc[p] = "reread" => p \in knows /\ poisoned

\* A partition that unwound holds back the round after the last completed one.
OverInv(p) ==
  /\ err[p] = "none" => pc[p] = "done" /\ enters[p] = rounds /\ returns[p] = rounds
  /\ err[p] = "own" => enters[p] = rounds /\ returns[p] = rounds /\ p \in knows
  /\ err[p] = "poisoned" =>
       /\ enters[p] = rounds + 1 /\ returns[p] = rounds /\ p \in knows
       /\ \E q \in Parts : err[q] = "own"

PoisonInv ==
  /\ poisoned <=> TRUE \in poisonKnows
  /\ FALSE \notin poisonKnows
  /\ poisoned => (\E q \in Parts : err[q] = "own") \/ \A p \in Parts : pc[p] = "done"

CountInv ==
  arrived = IF \E p \in Parts : pc[p] = "publish" THEN 0 ELSE Cardinality(ArrivedSet)

IInv ==
  /\ TypeOK /\ CountInv /\ PoisonInv
  /\ \A p \in Parts :
       /\ enters[p] <= len
       /\ pc[p] \in {"body", "arrive"} => OutsideInv(p)
       /\ pc[p] \in {"clear", "publish"} => LastInv(p)
       /\ pc[p] \in Waiting => WaitingInv(p)
       /\ pc[p] \in {"unwind", "done"} => OverInv(p)

\* The barrier as the collectives see it: one round per sync().
PhaseAt(loc) ==
  IF loc \in {"body", "arrive"} THEN "body"
  ELSE IF loc \in InRound THEN "round" ELSE loc
phaseOf == [p \in Parts |-> PhaseAt(pc[p])]

Rounds == INSTANCE PartitionRounds WITH phase <- phaseOf

\* Every behaviour of the barrier, atomics and stale reads included, is one of
\* PartitionRounds, and no partition hangs in a round.
ImplementsRounds == Rounds!Spec

==============================================================================
