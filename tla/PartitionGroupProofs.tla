------------------------ MODULE PartitionGroupProofs ------------------------
(***************************************************************************)
(* The hand-over of jobs by PartitionGroup is correct for any number of    *)
(* partitions and any modulus of job_gen_ from 2 up: GroupInv is           *)
(* inductive, every job runs once on every master, run_on_all reports what *)
(* happened, and the group only ever uses the barrier as the barrier's     *)
(* specification allows.                                                   *)
(***************************************************************************)
EXTENDS PartitionGroup, PartitionBarrierProofs

\* The arithmetic of job_gen_: the next job differs from the last.
LEMMA JobArithmetic ==
  ASSUME NEW x \in 0..(JobMod - 1)
  PROVE  (x + 1) % JobMod \in 0..(JobMod - 1) /\ (x + 1) % JobMod # x
<1>1. CASE x + 1 = JobMod
  BY <1>1, JobModAssumption
<1>2. CASE x + 1 < JobMod
  BY <1>2, JobModAssumption
<1>3. QED
  BY <1>1, <1>2, JobModAssumption

\* Counting the masters that are through with the job.
LEMMA ThroughCounting ==
  /\ IsFiniteSet(Through) /\ Cardinality(Through) \in 0..Cardinality(Parts)
  /\ Cardinality(Through) = Cardinality(Parts) => Through = Parts
<1>1. Through \in SUBSET Parts
  BY DEF Through
<1>2. QED
  BY <1>1, FS_Subset, FS_CardinalityType, PartsAssumption

\* done_count_ stays right when no master changes its share of it.
LEMMA ThroughUnchanged ==
  ASSUME ran' = ran,
         \A p \in Parts : mpc'[p] \in {"exec", "count"} <=> mpc[p] \in {"exec", "count"}
  PROVE  Through' = Through
  BY DEF Through

\* A step of one partition's body, sync() or catch block: it moves nobody else,
\* leaves the length of the job alone, and a body that ends without an
\* exception has completed every round.
LEMMA StepIsLocal ==
  ASSUME IInv, NEW p \in Parts, Step(p)
  PROVE  /\ pc[p] # "done" /\ len' = len
         /\ pc'[p] = "done" /\ err'[p] = "none" => returns'[p] = len'
         /\ \A q \in Parts \ {p} :
              pc'[q] = pc[q] /\ err'[q] = err[q] /\ returns'[q] = returns[q]
<1>1. TypeOK /\ (pc[p] = "body" => OutsideInv(p)) /\ (pc[p] = "unwind" => OverInv(p))
  BY DEF IInv
<1>2. CASE LoadGen(p) \/ Arrive(p) \/ Clear(p) \/ Publish(p)
  BY <1>1, <1>2 DEF LoadGen, Arrive, Clear, Publish, Goto, jobVars, TypeOK
<1>3. CASE SpinOut(p) \/ SpinOn(p) \/ CheckPoison(p) \/ RereadReturn(p) \/ RereadThrow(p)
  BY <1>1, <1>3 DEF SpinOut, SpinOn, CheckPoison, RereadReturn, RereadThrow, Goto, jobVars, TypeOK
<1>4. CASE Throw(p) \/ Poison(p)
  BY <1>1, <1>4 DEF Throw, Poison, OverInv, Goto, jobVars, TypeOK
<1>5. CASE Finish(p)
  BY <1>1, <1>5 DEF Finish, OutsideInv, Goto, jobVars, barrierVars, TypeOK
<1>6. QED
  BY <1>2, <1>3, <1>4, <1>5 DEF Step

\* The invariant holds before the first spawn.
LEMMA InitGroupInv == GroupInit => GroupInv
<1> SUFFICES ASSUME GroupInit PROVE GroupInv
  OBVIOUS
<1>1. IInv
  BY InitIInv DEF GroupInit
<1>2. Through = {}
  BY DEF GroupInit, Through
<1>3. Cardinality(Parts) \in Nat /\ Cardinality(Through) = 0
  BY <1>2, FS_EmptySet, FS_CardinalityType, PartsAssumption
<1>4. GroupTypeOK
  <2>1. TypeOK
    BY <1>1 DEF IInv
  <2>2. built \in BOOLEAN /\ stop \in BOOLEAN
    BY DEF GroupInit
  <2>3. QED
    BY <1>3, <2>1, <2>2, JobModAssumption DEF GroupInit, GroupTypeOK
<1>5. QED
  BY <1>1, <1>3, <1>4 DEF GroupInit, Init, GroupInv, FacadeInv, MasterInv, Published

------------------------------------------------------------------------------
(* The facade thread *)

\* A step that leaves the job and everybody's share of it alone: waiting,
\* waking, and the way into and out of the group.
LEMMA JobUntouched ==
  ASSUME GroupInv, GroupTypeOK', UNCHANGED <<vars, built, raised, seen, jobGen, doneCount, ran>>,
         \A p \in Parts : /\ mpc'[p] = "exec" <=> mpc[p] = "exec"
                          /\ mpc'[p] = "count" <=> mpc[p] = "count",
         fpc' = "spawn" => fpc = "spawn",
         fpc' = "idle" => fpc \in {"idle", "spawn"},
         fpc' = "collect" => Through = Parts,
         Published' # Published => fpc' = "collect"
  PROVE  GroupInv'
<1>1. IInv'
  BY NextIInv DEF GroupInv
<1>2. Through' = Through
  BY ThroughUnchanged
<1>3. FacadeInv'
  BY <1>2 DEF GroupInv, FacadeInv, GroupTypeOK, Published, Through, vars, jobVars
<1>4. ASSUME NEW p \in Parts PROVE MasterInv(p)'
  BY <1>4 DEF GroupInv, GroupTypeOK, MasterInv, Published, Through, vars, jobVars
<1>5. QED
  BY <1>1, <1>3, <1>4 DEF GroupInv

\* The barrier's types hold wherever its words stay.
LEMMA TypesUnchanged ==
  ASSUME GroupInv, UNCHANGED vars
  PROVE  TypeOK'
  BY NextIInv DEF GroupInv, IInv

\* A new master has run no job.
LEMMA SpawnGroupInv == ASSUME GroupInv, NEW p \in Parts, Spawn(p) PROVE GroupInv'
<1> USE DEF Spawn, MasterAt
<1>1. fpc' \in {"spawn", "idle"} /\ fpc = "spawn"
  OBVIOUS
<1>2. GroupTypeOK'
  BY <1>1, TypesUnchanged DEF GroupInv, GroupTypeOK
<1>3. QED
  BY <1>1, <1>2, JobUntouched DEF GroupInv, GroupTypeOK, Published

\* notify_all moves the parked masters and nothing else.
LEMMA NotifyMastersKeepsJob ==
  ASSUME GroupTypeOK, NotifyMasters
  PROVE  /\ mpc' \in [Parts -> {"none", "loop", "parked", "exec", "count", "notify", "exited"}]
         /\ \A p \in Parts : /\ mpc'[p] = "exec" <=> mpc[p] = "exec"
                             /\ mpc'[p] = "count" <=> mpc[p] = "count"
  BY DEF GroupTypeOK, NotifyMasters

\* The steps of the facade that leave the barrier alone.
LEMMA FacadeGroupInv ==
  ASSUME GroupInv, NotifyStart \/ AwaitDone \/ SpawnFails \/ Destroy \/ SetStop \/ NotifyStop
                   \/ Join \/ Gone
  PROVE  GroupInv'
<1>1. CASE NotifyStart \/ NotifyStop
  <2>1. GroupTypeOK'
    BY <1>1, TypesUnchanged, NotifyMastersKeepsJob
       DEF GroupInv, GroupTypeOK, NotifyStart, NotifyStop, FacadeAt
  <2>2. QED
    BY <1>1, <2>1, JobUntouched, NotifyMastersKeepsJob
       DEF GroupInv, NotifyStart, NotifyStop, FacadeAt, Published
<1>2. CASE AwaitDone
  <2>1. fpc = "wait" /\ fpc' \in {"collect", "parked"}
    BY <1>2 DEF AwaitDone, FacadeAt
  <2>2. GroupTypeOK'
    BY <1>2, <2>1, TypesUnchanged DEF GroupInv, GroupTypeOK, AwaitDone
  <2>3. fpc' = "collect" => Through = Parts
    BY <1>2, ThroughCounting DEF AwaitDone, FacadeAt, GroupInv, FacadeInv
  <2>4. QED
    BY <1>2, <2>1, <2>2, <2>3, JobUntouched DEF AwaitDone, Published
<1>3. CASE SpawnFails \/ Destroy \/ SetStop \/ Join \/ Gone
  <2>1. GroupTypeOK'
    BY <1>3, TypesUnchanged
       DEF GroupInv, GroupTypeOK, SpawnFails, Destroy, SetStop, Join, Gone, FacadeAt, allVars,
           groupVars, facadeVars
  <2>2. QED
    BY <1>3, <2>1, JobUntouched
       DEF SpawnFails, Destroy, SetStop, Join, Gone, FacadeAt, Published, allVars,
           groupVars, facadeVars
<1>4. QED
  BY <1>1, <1>2, <1>3

\* What the group knows of its masters while it is not in run_on_all.
LEMMA QuietMasters ==
  ASSUME GroupInv, ~Published, NEW p \in Parts
  PROVE  pc[p] = "done" /\ mpc[p] \notin {"exec", "count"} /\ seen[p] = jobGen
  BY DEF GroupInv, GroupTypeOK, FacadeInv, MasterInv

\* Dispatching a job is a reset of the barrier with nobody inside.
LEMMA DispatchGroupInv == ASSUME GroupInv, Dispatch PROVE NewJob /\ GroupInv'
<1> USE DEF Dispatch, FacadeAt
<1>1. NewJob
  BY QuietMasters DEF NewJob, Published
<1>2. IInv'
  BY <1>1, NextIInv DEF GroupInv, Next
<1>3. jobGen' \in 0..(JobMod - 1) /\ jobGen' # jobGen
  BY JobArithmetic DEF GroupInv, GroupTypeOK
<1>4. Cardinality(Through') = 0 /\ Cardinality(Parts) \in Nat
  <2>1. Through' = {}
    BY DEF Through
  <2>2. QED
    BY <2>1, FS_EmptySet, FS_CardinalityType, PartsAssumption
<1>5. GroupTypeOK'
  <2>1. TypeOK'
    BY <1>2 DEF IInv
  <2>2. QED
    BY <1>3, <1>4, <2>1 DEF GroupInv, GroupTypeOK
<1>6. FacadeInv'
  BY <1>4 DEF GroupInv, FacadeInv, Published
<1>7. ASSUME NEW p \in Parts PROVE MasterInv(p)'
  BY <1>3, QuietMasters DEF GroupInv, GroupTypeOK, MasterInv, Published, StartJob
<1>8. QED
  BY <1>1, <1>2, <1>5, <1>6, <1>7 DEF GroupInv

\* An exception of a master's own hides the ShmCommPoisoned it caused.
LEMMA CollectGroupInv == ASSUME GroupInv, Collect PROVE GroupInv'
<1> USE DEF Collect, FacadeAt
<1>1. raised' \in {"none", "own"} /\ (raised' = "none" => \A p \in Parts : err[p] = "none")
  <2>1. ASSUME NEW p \in Parts, err[p] = "poisoned" PROVE \E q \in Parts : err[q] = "own"
    BY <2>1, InvFailsOnlyDoomedRounds DEF GroupInv, FailsOnlyDoomedRounds
  <2>2. QED
    BY <2>1 DEF GroupInv, GroupTypeOK, TypeOK
<1>2. fpc = "collect" /\ fpc' \in {"idle", "stopPoison"} /\ ~Published /\ ~Published'
  BY DEF Published
<1>3. IInv' /\ TypeOK'
  BY TypesUnchanged, NextIInv DEF GroupInv
<1>4. Through' = Through
  BY ThroughUnchanged
<1>5. GroupTypeOK'
  <2>1. built' \in BOOLEAN
    OBVIOUS
  <2>2. QED
    BY <1>1, <1>2, <1>3, <2>1 DEF GroupInv, GroupTypeOK
<1>6. FacadeInv'
  BY <1>1, <1>2, <1>4 DEF GroupInv, FacadeInv, vars, jobVars
<1>7. ASSUME NEW p \in Parts PROVE MasterInv(p)'
  BY <1>2 DEF GroupInv, MasterInv, vars, jobVars
<1>8. QED
  BY <1>3, <1>5, <1>6, <1>7 DEF GroupInv

\* So is the poison of the shutdown.
LEMMA StopByPoisonGroupInv == ASSUME GroupInv, StopByPoison PROVE StopPoison /\ GroupInv'
<1> USE DEF StopByPoison, FacadeAt, jobVars
<1>1. StopPoison
  BY QuietMasters DEF StopPoison, Published
<1>2. IInv'
  BY <1>1, NextIInv DEF GroupInv, Next
<1>3. Through' = Through
  BY ThroughUnchanged
<1>4. GroupTypeOK'
  <2>1. TypeOK'
    BY <1>2 DEF IInv
  <2>2. QED
    BY <2>1 DEF GroupInv, GroupTypeOK
<1>5. FacadeInv'
  BY <1>3 DEF GroupInv, FacadeInv, Published
<1>6. ASSUME NEW p \in Parts PROVE MasterInv(p)'
  BY DEF GroupInv, MasterInv, Published
<1>7. QED
  BY <1>1, <1>2, <1>4, <1>5, <1>6 DEF GroupInv

------------------------------------------------------------------------------
(* The masters *)

\* The steps of a master outside its job.
LEMMA MasterMovesGroupInv ==
  ASSUME GroupInv, NEW p \in Parts, LoopExit(p) \/ LoopPark(p) \/ NotifyDone(p)
  PROVE  GroupInv'
<1> USE DEF LoopExit, LoopPark, NotifyDone, MasterAt, facadeVars
<1>1. fpc' \in {fpc, "wait"} /\ (fpc' # fpc => fpc = "parked")
  OBVIOUS
<1>2. GroupTypeOK'
  BY <1>1, TypesUnchanged DEF GroupInv, GroupTypeOK
<1>3. fpc' = "collect" => Through = Parts
  BY <1>1 DEF GroupInv, FacadeInv
<1>4. QED
  BY <1>1, <1>2, <1>3, JobUntouched DEF GroupInv, GroupTypeOK, Published

\* Waking up for no reason does no harm.
LEMMA SpuriousWakeupGroupInv == ASSUME GroupInv, SpuriousWakeup PROVE GroupInv'
<1> USE DEF SpuriousWakeup, MasterAt, FacadeAt, facadeVars
<1>1. fpc' = fpc \/ (fpc = "parked" /\ fpc' = "wait")
  OBVIOUS
<1>2. GroupTypeOK'
  BY <1>1, TypesUnchanged DEF GroupInv, GroupTypeOK
<1>3. fpc' = "collect" => Through = Parts
  BY <1>1 DEF GroupInv, FacadeInv
<1>4. QED
  BY <1>1, <1>2, <1>3, JobUntouched DEF GroupInv, GroupTypeOK, Published

\* A master that takes a job has run all jobs before it.
LEMMA LoopTakeGroupInv == ASSUME GroupInv, NEW p \in Parts, LoopTake(p) PROVE GroupInv'
<1> USE DEF LoopTake, MasterAt, facadeVars
<1>1. Published /\ ran[p] = 0 /\ pc[p] = "body"
  BY DEF GroupInv, GroupTypeOK, MasterInv
<1>2. IInv' /\ TypeOK'
  BY TypesUnchanged, NextIInv DEF GroupInv
<1>3. GroupTypeOK'
  BY <1>1, <1>2 DEF GroupInv, GroupTypeOK
<1>4. Through' = Through
  BY <1>1 DEF GroupInv, GroupTypeOK, Through
<1>5. FacadeInv'
  BY <1>1, <1>4 DEF GroupInv, FacadeInv, Published, vars, jobVars
<1>6. ASSUME NEW q \in Parts PROVE MasterInv(q)'
  BY <1>1 DEF GroupInv, GroupTypeOK, MasterInv, Published, vars, jobVars
<1>7. QED
  BY <1>2, <1>3, <1>5, <1>6 DEF GroupInv

\* The job itself: steps of the barrier.
LEMMA ExecuteGroupInv == ASSUME GroupInv, NEW p \in Parts, Execute(p) PROVE GroupInv'
<1> USE DEF Execute, facadeVars
<1>1. IInv'
  BY NextIInv DEF GroupInv, Next
<1>2. Published /\ ran[p] = 1 /\ mpc[p] = "exec"
  BY DEF GroupInv, FacadeInv, MasterInv
<1>3. \A q \in Parts : mpc'[q] = IF q = p /\ pc'[p] = "done" THEN "count" ELSE mpc[q]
  BY DEF GroupInv, GroupTypeOK
<1>4. GroupTypeOK'
  <2>1. TypeOK'
    BY <1>1 DEF IInv
  <2>2. QED
    BY <2>1 DEF GroupInv, GroupTypeOK
<1>5. Through' = Through
  BY <1>2, <1>3, ThroughUnchanged
<1>6. FacadeInv'
  BY <1>2, <1>3, <1>5 DEF GroupInv, FacadeInv, Published
<1>7. ASSUME NEW q \in Parts PROVE MasterInv(q)'
  <2>1. MasterInv(q)
    BY DEF GroupInv
  <2>2. CASE q = p
    BY <1>2, <1>3, <2>1, <2>2, StepIsLocal DEF GroupInv, MasterInv, Published
  <2>3. CASE q # p
    BY <1>3, <2>1, <2>3, StepIsLocal DEF GroupInv, MasterInv, Published
  <2>4. QED
    BY <2>2, <2>3
<1>8. QED
  BY <1>1, <1>4, <1>6, <1>7 DEF GroupInv

\* The last master to count is the one that the facade waits for.
LEMMA CountDoneGroupInv == ASSUME GroupInv, NEW p \in Parts, CountDone(p) PROVE GroupInv'
<1> USE DEF CountDone, MasterAt, facadeVars
<1>1. Published /\ ran[p] = 1 /\ pc[p] = "done" /\ p \notin Through
  BY DEF GroupInv, FacadeInv, MasterInv, GroupTypeOK, Through
<1>2. IInv' /\ TypeOK'
  BY TypesUnchanged, NextIInv DEF GroupInv
<1>3. Through' = Through \cup {p}
  BY <1>1 DEF GroupInv, GroupTypeOK, Through
<1>4. doneCount' = Cardinality(Through') /\ doneCount' <= Cardinality(Parts)
  <2>1. Cardinality(Through') = Cardinality(Through) + 1
    BY <1>1, <1>3, ThroughCounting, FS_AddElement
  <2>2. Through' \in SUBSET Parts
    BY <1>3 DEF Through
  <2>3. Cardinality(Through') <= Cardinality(Parts)
    BY <2>2, FS_Subset, PartsAssumption
  <2>4. QED
    BY <2>1, <2>3 DEF GroupInv, FacadeInv
<1>5. GroupTypeOK'
  BY <1>2, <1>4 DEF GroupInv, GroupTypeOK
<1>6. FacadeInv'
  BY <1>1, <1>4 DEF GroupInv, FacadeInv, Published, vars, jobVars
<1>7. ASSUME NEW q \in Parts PROVE MasterInv(q)'
  BY <1>1 DEF GroupInv, GroupTypeOK, MasterInv, Published, vars, jobVars
<1>8. QED
  BY <1>2, <1>5, <1>6, <1>7 DEF GroupInv

------------------------------------------------------------------------------
(***************************************************************************)
(* The theorems                                                            *)
(***************************************************************************)

\* All steps together.
LEMMA NextGroupInv == GroupInv /\ [GroupNext]_allVars => GroupInv'
<1> SUFFICES ASSUME GroupInv, [GroupNext]_allVars PROVE GroupInv'
  OBVIOUS
<1>1. CASE FacadeStep
  BY <1>1, SpawnGroupInv, FacadeGroupInv, CollectGroupInv, StopByPoisonGroupInv DEF FacadeStep
<1>2. CASE SpawnFails \/ Destroy \/ Gone
  BY <1>2, FacadeGroupInv
<1>3. CASE Dispatch \/ SpuriousWakeup
  BY <1>3, DispatchGroupInv, SpuriousWakeupGroupInv
<1>4. ASSUME NEW p \in Parts, MasterStep(p) PROVE GroupInv'
  BY <1>4, MasterMovesGroupInv, LoopTakeGroupInv, ExecuteGroupInv, CountDoneGroupInv DEF MasterStep
<1>5. CASE UNCHANGED allVars
  <2>1. CASE fpc = "gone"
    BY <1>5, <2>1, FacadeGroupInv DEF Gone
  <2>2. GroupTypeOK'
    BY <1>5, TypesUnchanged DEF GroupInv, GroupTypeOK, allVars, groupVars, facadeVars
  <2>3. QED
    BY <1>5, <2>2, JobUntouched
       DEF GroupInv, FacadeInv, Published, allVars, groupVars, facadeVars
<1>6. QED
  BY <1>1, <1>2, <1>3, <1>4, <1>5 DEF GroupNext

\* The bookkeeping of run_on_all and master_loop_ agrees with what the masters
\* really did, under every interleaving, spurious wakeup and failed spawn.
THEOREM GroupInductive == GroupSpec => []GroupInv
  BY InitGroupInv, NextGroupInv, PTL DEF GroupSpec

\* Every master runs every job exactly once, and run_on_all goes on only when
\* all have: for any number of partitions and however often job_gen_ wraps.
THEOREM EveryJobRunsOnce == GroupSpec => []JobRunsOnce
<1>1. GroupInv => JobRunsOnce
  BY DEF GroupInv, FacadeInv, MasterInv, Through, JobRunsOnce
<1>2. QED
  BY <1>1, GroupInductive, PTL

\* The exception run_on_all rethrows is a master's own, and when it rethrows
\* none every partition executed every round of the job.
THEOREM HonestReports == GroupSpec => []ReportsWhatHappened
<1>1. GroupInv => ReportsWhatHappened
  <2> SUFFICES ASSUME GroupInv PROVE ReportsWhatHappened
    OBVIOUS
  <2>1. fpc = "idle" => \A p \in Parts : pc[p] = "done"
    BY QuietMasters DEF Published
  <2>2. QED
    BY <2>1 DEF GroupInv, FacadeInv, MasterInv, ReportsWhatHappened
<1>2. QED
  BY <1>1, GroupInductive, PTL

\* The group uses its barrier within its contract: a new job and the poison of
\* the destructor come only when no master is in a job, so that every theorem
\* about the barrier holds inside the group.
THEOREM GroupRefinesBarrier == GroupSpec => DrivesBarrier
<1>1. GroupInit => Init
  BY DEF GroupInit
<1>2. GroupInv /\ [GroupNext]_allVars => [Next]_vars
  <2> SUFFICES ASSUME GroupInv, [GroupNext]_allVars PROVE Next \/ UNCHANGED vars
    OBVIOUS
  <2>1. CASE FacadeStep \/ SpawnFails \/ Destroy \/ Gone \/ SpuriousWakeup
    BY <2>1, StopByPoisonGroupInv
       DEF FacadeStep, Spawn, NotifyStart, AwaitDone, Collect, SetStop, NotifyStop, Join,
           SpawnFails, Destroy, Gone, SpuriousWakeup, allVars, Next
  <2>2. CASE Dispatch
    BY <2>2, DispatchGroupInv DEF Next
  <2>3. ASSUME NEW p \in Parts, MasterStep(p) PROVE Next \/ UNCHANGED vars
    BY <2>3 DEF MasterStep, LoopExit, LoopTake, LoopPark, Execute, CountDone, NotifyDone, Next
  <2>4. CASE UNCHANGED allVars
    BY <2>4 DEF allVars
  <2>5. QED
    BY <2>1, <2>2, <2>3, <2>4 DEF GroupNext
<1>3. QED
  BY <1>1, <1>2, GroupInductive, PTL DEF GroupSpec, Spec, DrivesBarrier
=============================================================================
