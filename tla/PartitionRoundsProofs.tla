------------------------ MODULE PartitionRoundsProofs ------------------------
(***************************************************************************)
(* The rounds that PartitionBarrier promises keep the partitions of a job  *)
(* within one round of each other: RoundsInv is inductive.  The            *)
(* collectives are proved over these lemmas, not over the barrier's        *)
(* atomics.                                                                *)
(***************************************************************************)
EXTENDS PartitionRounds, TLAPS

\* A partition that has left the job by an exception enters no more rounds, and
\* nobody forgets the exception.
LEMMA UnwoundStays ==
  ASSUME RoundsInv, NEW p \in Parts, Step(p), NEW q \in Parts, err[q] # "none"
  PROVE  err'[q] # "none" /\ enters'[q] = enters[q]
  BY DEF RoundsInv, RoundInv, TypeOK, Step, Enter, Return, Fail, Throw, Leave

\* A step of one partition: it is the only one to move.
LEMMA OthersStay ==
  ASSUME RoundsInv, NEW p \in Parts, Step(p)
  PROVE  /\ len' = len
         /\ \A q \in Parts \ {p} : /\ enters'[q] = enters[q] /\ returns'[q] = returns[q]
                                   /\ err'[q] = err[q] /\ phase'[q] = phase[q]
  BY DEF RoundsInv, TypeOK, Step, Enter, Return, Fail, Throw, Leave

\* A step of a partition keeps the types ...
LEMMA StepTypeOK ==
  ASSUME RoundsInv, NEW p \in Parts, Step(p)
  PROVE  TypeOK'
<1> USE RoundsAssumption DEF RoundsInv, RoundInv, TypeOK, Errors
<1>1. CASE Enter(p)
  BY <1>1 DEF Enter
<1>2. CASE Return(p)
  <2>1. returns[p] + 1 = enters[p]
    BY <1>2 DEF Return
  <2>2. QED
    BY <1>2, <2>1 DEF Return
<1>3. CASE Fail(p) \/ Throw(p) \/ Leave(p)
  BY <1>3 DEF Fail, Throw, Leave
<1>4. QED
  BY <1>1, <1>2, <1>3 DEF Step

\* ... and what is known of each partition.
LEMMA StepRoundInv ==
  ASSUME RoundsInv, NEW p \in Parts, Step(p), NEW q \in Parts
  PROVE  RoundInv(q)'
<1>1. TypeOK /\ RoundInv(q) /\ RoundInv(p)
  BY DEF RoundsInv
<1>2. ASSUME err[q] = "poisoned"
      PROVE  \E r \in Parts : err'[r] # "none" /\ enters'[r] < enters'[q]
  <2>1. PICK r \in Parts : err[r] # "none" /\ enters[r] < enters[q]
    BY <1>1, <1>2 DEF RoundInv
  <2>2. QED
    BY <1>2, <2>1, UnwoundStays
<1>3. CASE q # p
  BY <1>1, <1>2, <1>3, OthersStay DEF RoundInv
<1>4. CASE q = p
  <2>1. CASE Fail(p)
    <3>1. PICK r \in Parts : err[r] # "none" /\ enters[r] < enters[p]
      BY <2>1 DEF Fail
    <3>2. err'[r] # "none" /\ enters'[r] < enters'[p]
      BY <2>1, <3>1, UnwoundStays DEF Fail
    <3>3. QED
      BY <1>1, <1>4, <2>1, <3>2 DEF Fail, RoundInv, TypeOK
  <2>2. CASE Enter(p) \/ Return(p) \/ Throw(p)
    BY <1>1, <1>4, <2>2, RoundsAssumption DEF Enter, Return, Throw, RoundInv, TypeOK
  <2>3. CASE Leave(p)
    BY <1>1, <1>2, <1>4, <2>3 DEF Leave, RoundInv, TypeOK
  <2>4. QED
    BY <2>1, <2>2, <2>3 DEF Step
<1>5. QED
  BY <1>3, <1>4

\* Nobody leaves a round that somebody has yet to enter, whatever partition
\* steps.
LEMMA StepRoundsInv ==
  ASSUME RoundsInv, NEW p \in Parts, Step(p)
  PROVE  RoundsInv'
<1>1. TypeOK' /\ \A q \in Parts : RoundInv(q)'
  BY StepTypeOK, StepRoundInv
<1>2. ASSUME NEW q \in Parts, NEW r \in Parts PROVE returns'[q] <= enters'[r]
  <2>1. returns[q] <= enters[r]
    BY DEF RoundsInv
  <2>2. CASE Return(p)
    <3>1. enters[r] >= enters[p] /\ enters[p] = returns[p] + 1
      BY <2>2 DEF Return, RoundsInv, RoundInv
    <3>2. QED
      BY <2>1, <2>2, <3>1 DEF Return, RoundsInv, TypeOK
  <2>3. CASE Enter(p) \/ Fail(p) \/ Throw(p) \/ Leave(p)
    BY <2>1, <2>3, RoundsAssumption DEF Enter, Fail, Throw, Leave, RoundsInv, TypeOK
  <2>4. QED
    BY <2>2, <2>3 DEF Step
<1>3. QED
  BY <1>1, <1>2 DEF RoundsInv

\* The invariant of the promise: TypeOK, one round at a time, and never a round
\* ahead of a partition that is still to come.
THEOREM RoundsInductive == SafeSpec => []RoundsInv
<1>1. Init => RoundsInv
  BY RoundsAssumption DEF Init, RoundsInv, RoundInv, TypeOK, Errors
<1>2. RoundsInv /\ [Next]_roundVars => RoundsInv'
  <2> SUFFICES ASSUME RoundsInv, [Next]_roundVars PROVE RoundsInv'
    OBVIOUS
  <2>1. CASE NewJob
    BY <2>1, RoundsAssumption DEF NewJob, RoundsInv, RoundInv, TypeOK, Errors
  <2>2. CASE \E p \in Parts : Step(p)
    BY <2>2, StepRoundsInv
  <2>3. CASE UNCHANGED roundVars
    BY <2>3 DEF roundVars, RoundsInv, RoundInv, TypeOK
  <2>4. QED
    BY <2>1, <2>2, <2>3 DEF Next
<1>3. QED
  BY <1>1, <1>2, PTL DEF SafeSpec
=============================================================================
