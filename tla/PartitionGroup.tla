--------------------------- MODULE PartitionGroup ---------------------------
(***************************************************************************)
(* detail::partition::PartitionGroup: the facade thread that owns one      *)
(* master thread per partition, hands each of them the same job through a  *)
(* mutex and two condition variables, waits for all of them, and reports   *)
(* the exception that caused a failure; its construction, which may fail   *)
(* while threads are being spawned or in the first job, and its            *)
(* destruction.  The jobs run on the barrier of PartitionBarrier, step by  *)
(* step.                                                                   *)
(*                                                                         *)
(* A critical section of m_ is one action.  A thread that waits on a       *)
(* condition variable is "parked" until it is notified, or wakes up        *)
(* spuriously, and evaluates its predicate again.                          *)
(***************************************************************************)
EXTENDS PartitionBarrier

CONSTANT JobMod   \* the modulus of job_gen_ (2^32 in the code)

ASSUME JobModAssumption == JobMod \in Nat /\ JobMod >= 2

VARIABLES
  fpc,        \* where the facade thread is
  built,      \* has the constructor's first job succeeded?
  raised,     \* what the last run_on_all rethrew: "none", "own" or "poisoned"
  mpc,        \* mpc[p]: where master p is in master_loop_
  seen,       \* seen[p]: the local seen of master p
  jobGen,     \* job_gen_
  doneCount,  \* done_count_
  stop,       \* stop_
  ran         \* history: ran[p] counts p's executions of the current job

facadeVars == <<fpc, built, raised>>
groupVars == <<facadeVars, mpc, seen, jobGen, doneCount, stop, ran>>
allVars == <<vars, groupVars>>

GroupTypeOK ==
  /\ TypeOK
  /\ fpc \in {"spawn", "idle", "notify", "wait", "parked", "collect",
              "stopPoison", "stopFlag", "stopNotify", "join", "gone"}
  /\ built \in BOOLEAN
  /\ raised \in {"none", "own", "poisoned"}
  /\ mpc \in [Parts -> {"none", "loop", "parked", "exec", "count", "notify", "exited"}]
  /\ seen \in [Parts -> 0..(JobMod - 1)]
  /\ jobGen \in 0..(JobMod - 1)
  /\ doneCount \in 0..Cardinality(Parts)
  /\ stop \in BOOLEAN
  /\ ran \in [Parts -> 0..2]

GroupInit ==
  /\ Init
  /\ fpc = "spawn" /\ built = FALSE /\ raised = "none"
  /\ mpc = [p \in Parts |-> "none"]
  /\ seen = [p \in Parts |-> 0]
  /\ jobGen = 0 /\ doneCount = 0 /\ stop = FALSE
  /\ ran = [p \in Parts |-> 0]

MasterAt(p, from, to) == mpc[p] = from /\ mpc' = [mpc EXCEPT ![p] = to]
FacadeAt(from, to) == fpc = from /\ fpc' = to

\* cv_start_.notify_all()
NotifyMasters ==
  mpc' = [p \in Parts |-> IF mpc[p] = "parked" THEN "loop" ELSE mpc[p]]

------------------------------------------------------------------------------
(* The facade thread *)

\* start_masters_: the next thread comes up ...
Spawn(p) ==
  /\ fpc = "spawn"
  /\ MasterAt(p, "none", "loop")
  /\ fpc' = IF \E q \in Parts \ {p} : mpc[q] = "none" THEN "spawn" ELSE "idle"
  /\ UNCHANGED <<vars, built, raised, seen, jobGen, doneCount, stop, ran>>

\* ... or std::thread's constructor throws.
SpawnFails ==
  /\ FacadeAt("spawn", "stopPoison")
  /\ UNCHANGED <<vars, built, raised, mpc, seen, jobGen, doneCount, stop, ran>>

\* A faulty Dispatch: the count of the previous job's masters stays.
DispatchKeepsCount ==
  /\ FacadeAt("idle", "notify")
  /\ StartJob
  /\ jobGen' = (jobGen + 1) % JobMod
  /\ ran' = [p \in Parts |-> 0]
  /\ UNCHANGED <<built, raised, mpc, seen, doneCount, stop>>

\* run_on_all: the block under m_ that publishes a job.
Dispatch ==
  /\ FacadeAt("idle", "notify")
  /\ StartJob
  /\ doneCount' = 0
  /\ jobGen' = (jobGen + 1) % JobMod
  /\ ran' = [p \in Parts |-> 0]
  /\ UNCHANGED <<built, raised, mpc, seen, stop>>

NotifyStart ==
  /\ FacadeAt("notify", "wait")
  /\ NotifyMasters
  /\ UNCHANGED <<vars, built, raised, seen, jobGen, doneCount, stop, ran>>

\* Faulty: a wait without a predicate.
AwaitNoPredicate ==
  /\ FacadeAt("wait", "collect")
  /\ UNCHANGED <<vars, built, raised, mpc, seen, jobGen, doneCount, stop, ran>>

\* cv_done_.wait(lk, done_count_ == n_)
AwaitDone ==
  /\ FacadeAt("wait", IF doneCount = Cardinality(Parts) THEN "collect" ELSE "parked")
  /\ UNCHANGED <<vars, built, raised, mpc, seen, jobGen, doneCount, stop, ran>>

\* The scan of errs_: any exception other than ShmCommPoisoned is rethrown,
\* ShmCommPoisoned only when there is no other.  The constructor stops the
\* masters when its first job throws.
Collect ==
  /\ raised' = IF \E p \in Parts : err[p] = "own" THEN "own"
               ELSE IF \E p \in Parts : err[p] = "poisoned" THEN "poisoned" ELSE "none"
  /\ FacadeAt("collect", IF built \/ raised' = "none" THEN "idle" ELSE "stopPoison")
  /\ built' = (built \/ raised' = "none")
  /\ UNCHANGED <<vars, mpc, seen, jobGen, doneCount, stop, ran>>

\* ~PartitionGroup calls stop_and_join_.
Destroy ==
  /\ built
  /\ FacadeAt("idle", "stopPoison")
  /\ UNCHANGED <<vars, built, raised, mpc, seen, jobGen, doneCount, stop, ran>>

\* stop_and_join_: poison, then stop_ under m_, then notify_all, then join.
StopByPoison ==
  /\ FacadeAt("stopPoison", "stopFlag")
  /\ poisoned' = TRUE
  /\ poisonKnows' = poisonKnows \cup {TRUE}
  /\ UNCHANGED <<gen, arrived, knows, pc, g, jobVars>>
  /\ UNCHANGED <<built, raised, mpc, seen, jobGen, doneCount, stop, ran>>

SetStop ==
  /\ FacadeAt("stopFlag", "stopNotify")
  /\ stop' = TRUE
  /\ UNCHANGED <<vars, built, raised, mpc, seen, jobGen, doneCount, ran>>

\* A faulty NotifyStop: stop_ is set, but nobody is told.
NotifyStopForgotten ==
  /\ FacadeAt("stopNotify", "join")
  /\ UNCHANGED <<vars, built, raised, mpc, seen, jobGen, doneCount, stop, ran>>

NotifyStop ==
  /\ FacadeAt("stopNotify", "join")
  /\ NotifyMasters
  /\ UNCHANGED <<vars, built, raised, seen, jobGen, doneCount, stop, ran>>

Join ==
  /\ \A p \in Parts : mpc[p] \in {"none", "exited"}
  /\ FacadeAt("join", "gone")
  /\ UNCHANGED <<vars, built, raised, mpc, seen, jobGen, doneCount, stop, ran>>

------------------------------------------------------------------------------
(* The master threads: master_loop_ *)

\* The locked wait: stop, take the published job, or block.
LoopExit(p) ==
  /\ stop
  /\ MasterAt(p, "loop", "exited")
  /\ UNCHANGED <<vars, facadeVars, seen, jobGen, doneCount, stop, ran>>

\* A faulty LoopTake: the master does not remember the job it took.
LoopTakeForgets(p) ==
  /\ ~stop /\ jobGen # seen[p]
  /\ MasterAt(p, "loop", "exec")
  /\ ran' = [ran EXCEPT ![p] = @ + 1]
  /\ UNCHANGED <<vars, facadeVars, seen, jobGen, doneCount, stop>>

LoopTake(p) ==
  /\ ~stop /\ jobGen # seen[p]
  /\ MasterAt(p, "loop", "exec")
  /\ seen' = [seen EXCEPT ![p] = jobGen]
  /\ ran' = [ran EXCEPT ![p] = @ + 1]
  /\ UNCHANGED <<vars, facadeVars, jobGen, doneCount, stop>>

LoopPark(p) ==
  /\ ~stop /\ jobGen = seen[p]
  /\ MasterAt(p, "loop", "parked")
  /\ UNCHANGED <<vars, facadeVars, seen, jobGen, doneCount, stop, ran>>

\* (*job)(rank), one atomic step of the body, of sync() or of the catch block.
Execute(p) ==
  /\ mpc[p] = "exec"
  /\ Step(p)
  /\ mpc' = IF pc'[p] = "done" THEN [mpc EXCEPT ![p] = "count"] ELSE mpc
  /\ UNCHANGED <<facadeVars, seen, jobGen, doneCount, stop, ran>>

CountDone(p) ==
  /\ MasterAt(p, "count", "notify")
  /\ doneCount' = doneCount + 1
  /\ UNCHANGED <<vars, facadeVars, seen, jobGen, stop, ran>>

\* A faulty NotifyDone: the waiting facade is not woken.
NotifyDoneForgotten(p) ==
  /\ MasterAt(p, "notify", "loop")
  /\ UNCHANGED <<vars, facadeVars, seen, jobGen, doneCount, stop, ran>>

\* cv_done_.notify_one()
NotifyDone(p) ==
  /\ MasterAt(p, "notify", "loop")
  /\ fpc' = IF fpc = "parked" THEN "wait" ELSE fpc
  /\ UNCHANGED <<vars, built, raised, seen, jobGen, doneCount, stop, ran>>

MasterStep(p) ==
  \/ LoopExit(p) \/ LoopTake(p) \/ LoopPark(p)
  \/ Execute(p) \/ CountDone(p) \/ NotifyDone(p)

FacadeStep ==
  \/ \E p \in Parts : Spawn(p)
  \/ NotifyStart \/ AwaitDone \/ Collect
  \/ StopByPoison \/ SetStop \/ NotifyStop \/ Join

\* Condition variables may wake a thread for no reason.
SpuriousWakeup ==
  \/ /\ FacadeAt("parked", "wait")
     /\ UNCHANGED <<vars, built, raised, mpc, seen, jobGen, doneCount, stop, ran>>
  \/ /\ \E p \in Parts : MasterAt(p, "parked", "loop")
     /\ UNCHANGED <<vars, facadeVars, seen, jobGen, doneCount, stop, ran>>

\* The group no longer exists.
Gone == fpc = "gone" /\ UNCHANGED allVars

GroupNext ==
  \/ FacadeStep \/ SpawnFails \/ Dispatch \/ Destroy \/ SpuriousWakeup \/ Gone
  \/ \E p \in Parts : MasterStep(p)

GroupSpec == GroupInit /\ [][GroupNext]_allVars

\* Every thread is scheduled and gets the mutex in the end; nothing obliges the
\* owner to call run_on_all or to destroy the group.
GroupFairness ==
  /\ WF_allVars(FacadeStep)
  /\ \A p \in Parts :
       /\ WF_allVars(MasterStep(p))
       /\ SF_allVars(mpc[p] = "exec" /\ SpinOut(p) /\ UNCHANGED groupVars)

FairGroupSpec == GroupSpec /\ GroupFairness

------------------------------------------------------------------------------
(***************************************************************************)
(* Properties                                                              *)
(***************************************************************************)

\* Every master runs every job exactly once: none takes a job twice, and
\* run_on_all returns only after each of them ran it to its end.
JobRunsOnce ==
  /\ \A p \in Parts : ran[p] <= 1
  /\ fpc = "collect" => \A p \in Parts : ran[p] = 1 /\ pc[p] = "done"

\* run_on_all: "ShmCommPoisoned only ever follows another master's throw", so
\* the facade never sees it; and returning normally means that every partition
\* executed the job completely, every round of it included.
ReportsWhatHappened ==
  /\ raised # "poisoned"
  /\ (fpc = "idle" /\ built /\ raised = "none") =>
       \A p \in Parts : err[p] = "none" /\ returns[p] = len

\* Why the hand-over works, as an inductive invariant.  While a job is published
\* a master has either not seen it, and then its partition has yet to begin it,
\* or has taken it once; done_count_ counts those that are through with it.
\* Outside, no master is in a job and none would take one.
Published == fpc \in {"notify", "wait", "parked"}
Through == {p \in Parts : ran[p] = 1 /\ mpc[p] \notin {"exec", "count"}}

MasterInv(p) ==
  /\ ran[p] <= 1
  /\ mpc[p] = "exec" <=> ran[p] = 1 /\ pc[p] # "done"
  /\ mpc[p] = "count" => ran[p] = 1
  /\ seen[p] = jobGen <=> (Published => ran[p] = 1)
  /\ ran[p] = 0 => pc[p] = IF Published THEN "body" ELSE "done"
  /\ pc[p] = "done" /\ err[p] = "none" => returns[p] = len

FacadeInv ==
  /\ doneCount = Cardinality(Through)
  /\ ~Published => \A p \in Parts : mpc[p] \notin {"exec", "count"}
  /\ fpc = "collect" => Through = Parts
  /\ fpc = "spawn" => ~built
  /\ raised # "poisoned"
  /\ (fpc = "idle" /\ built /\ raised = "none") => \A p \in Parts : err[p] = "none"

GroupInv == IInv /\ GroupTypeOK /\ FacadeInv /\ \A p \in Parts : MasterInv(p)

\* The facade never clears or poisons the transport under a running master:
\* the group drives its barrier as reset() and PartitionBarrier require.
DrivesBarrier == Spec

\* "A throw on one master never hangs the rest": run_on_all always returns, to
\* a live group or to a constructor that fails.
RunOnAllReturns == (fpc = "notify") ~> (fpc \in {"idle", "gone"})

\* stop_and_join_ terminates from wherever it is called: after a failed spawn,
\* a failed first job or any number of jobs.
StopJoins == (fpc = "stopPoison") ~> (fpc = "gone")

==============================================================================
