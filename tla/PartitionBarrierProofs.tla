----------------------- MODULE PartitionBarrierProofs -----------------------
(***************************************************************************)
(* PartitionBarrier is a correct barrier for any number of partitions,     *)
(* any modulus of gen_ from 2 up and any number of rounds: the invariant   *)
(* IInv is inductive, and the safety properties and the refinement of      *)
(* PartitionRounds follow from it.                                         *)
(***************************************************************************)
EXTENDS PartitionBarrier, FiniteSetTheorems, TLAPS

\* The arithmetic of gen_: it stays in range, Prev undoes Bump, and one step
\* always changes the value (this is where GenMod >= 2 matters).
LEMMA GenArithmetic ==
  ASSUME NEW x \in Gens
  PROVE  /\ Bump(x) \in Gens /\ Prev(x) \in Gens
         /\ Prev(Bump(x)) = x /\ Bump(x) # x /\ Prev(x) # x
  BY GenModAssumption DEF Gens, Bump, Prev

\* Counting arrivals: as many arrivals as partitions means everybody arrived.
LEMMA ArrivalCounting ==
  /\ IsFiniteSet(ArrivedSet) /\ Cardinality(ArrivedSet) \in Nat
  /\ Cardinality(Parts) \in Nat
  /\ Cardinality(ArrivedSet) <= Cardinality(Parts)
  /\ Cardinality(ArrivedSet) = Cardinality(Parts) => ArrivedSet = Parts
<1>1. ArrivedSet \in SUBSET Parts
  BY DEF ArrivedSet
<1>2. IsFiniteSet(ArrivedSet)
  BY <1>1, FS_Subset, PartsAssumption
<1>3. QED
  BY <1>1, <1>2, FS_Subset, FS_CardinalityType, PartsAssumption

\* Nothing that leaves the barrier words, the program counters that matter and
\* the arrivals alone can disturb the count of arrivals.
LEMMA CountUnchanged ==
  ASSUME CountInv, arrived' = arrived, enters' = enters, rounds' = rounds,
         \A p \in Parts : pc'[p] = "publish" <=> pc[p] = "publish"
  PROVE  CountInv'
<1>1. ArrivedSet' = ArrivedSet
  BY DEF ArrivedSet
<1>2. QED
  BY <1>1 DEF CountInv

\* The invariant holds before the first round ...
LEMMA InitIInv == Init => IInv
<1> SUFFICES ASSUME Init PROVE IInv
  OBVIOUS
<1>1. 0 \in Gens /\ Cardinality(Parts) \in Nat
  BY GenModAssumption, PartsAssumption, FS_CardinalityType DEF Gens
<1>2. TypeOK
  <2>1. poisoned \in BOOLEAN /\ knows \subseteq Parts /\ poisonKnows \subseteq BOOLEAN
    BY DEF Init
  <2>2. QED
    BY <1>1, <2>1, MaxSyncsAssumption DEF Init, TypeOK, Locations
<1>3. CountInv
  <2>1. ArrivedSet = {}
    BY DEF Init, ArrivedSet
  <2>2. QED
    BY <2>1, FS_EmptySet DEF Init, CountInv
<1>4. QED
  BY <1>2, <1>3, PartsAssumption DEF Init, IInv, PoisonInv, OverInv, Waiting

\* ... and after every step: reset() finds nobody inside.
LEMMA NewJobIInv == ASSUME IInv, NewJob PROVE IInv'
<1>1. Cardinality(Parts) \in Nat
  BY PartsAssumption, FS_CardinalityType
<1>2. TypeOK'
  <2>1. poisoned' \in BOOLEAN /\ knows' \subseteq Parts /\ poisonKnows' \subseteq BOOLEAN
    BY DEF NewJob, StartJob, Reset
  <2>2. QED
    BY <1>1, <2>1, MaxSyncsAssumption DEF IInv, TypeOK, NewJob, StartJob, Reset, Locations
<1>3. CountInv'
  <2>1. ArrivedSet' = {}
    BY DEF NewJob, StartJob, ArrivedSet
  <2>2. QED
    BY <2>1, FS_EmptySet DEF NewJob, StartJob, Reset, CountInv
<1>4. PoisonInv'
  BY DEF NewJob, StartJob, Reset, PoisonInv
<1>5. QED
  BY <1>2, <1>3, <1>4 DEF NewJob, StartJob, Reset, IInv, TypeOK, OutsideInv, Waiting

\* The shutdown poisons a barrier that nobody is in.
LEMMA StopPoisonIInv == ASSUME IInv, StopPoison PROVE IInv'
<1>1. CountInv'
  BY CountUnchanged DEF IInv, StopPoison, jobVars
<1>2. QED
  BY <1>1 DEF IInv, TypeOK, StopPoison, jobVars, PoisonInv, OverInv, OutsideInv,
              LastInv, WaitingInv, Waiting

\* The load of gen_ on entry is not stale.
LEMMA LoadGenIInv == ASSUME IInv, NEW p \in Parts, LoadGen(p) PROVE IInv'
<1>1. GenLoads(p) = {gen} /\ gen \in Gens
  BY DEF IInv, LoadGen, OutsideInv, GenLoads, TypeOK
<1>2. g' = [g EXCEPT ![p] = gen] /\ knows' = knows
  BY <1>1 DEF IInv, LoadGen, OutsideInv, KnowsAfter
<1>3. CountInv'
  BY CountUnchanged DEF IInv, TypeOK, LoadGen, Goto, jobVars
<1>4. TypeOK'
  BY <1>1, <1>2 DEF IInv, TypeOK, LoadGen, Goto, jobVars, Locations
<1>5. PoisonInv'
  BY DEF IInv, TypeOK, LoadGen, Goto, jobVars, PoisonInv
<1>6. QED
  BY <1>2, <1>3, <1>4, <1>5
     DEF IInv, TypeOK, LoadGen, Goto, jobVars, OverInv, OutsideInv, LastInv, WaitingInv,
         Waiting

\* fetch_add: the last to arrive is the one that finds the others counted.
LEMMA ArriveIInv == ASSUME IInv, NEW p \in Parts, Arrive(p) PROVE IInv'
<1> USE DEF Arrive, Goto
<1>1. /\ enters[p] = rounds /\ returns[p] = rounds /\ err[p] = "none"
      /\ p \in knows /\ g[p] = gen /\ enters[p] < len
  BY DEF IInv, OutsideInv
<1>2. \A q \in Parts : pc[q] \notin {"clear", "publish"}
  BY <1>1 DEF IInv, TypeOK, LastInv
<1>3. arrived = Cardinality(ArrivedSet) /\ p \notin ArrivedSet
  BY <1>1, <1>2 DEF IInv, TypeOK, CountInv, ArrivedSet
<1>4. ArrivedSet' = ArrivedSet \cup {p}
  BY <1>1 DEF IInv, TypeOK, ArrivedSet
<1>5. Cardinality(ArrivedSet') = arrived + 1
  BY <1>3, <1>4, ArrivalCounting, FS_AddElement
<1>6. Cardinality(ArrivedSet') <= Cardinality(Parts)
  <2>1. ArrivedSet' \in SUBSET Parts
    BY <1>4 DEF ArrivedSet
  <2>2. QED
    BY <2>1, FS_Subset, PartsAssumption
<1>7. TypeOK'
  BY <1>1, <1>5, <1>6, ArrivalCounting, MaxSyncsAssumption DEF IInv, TypeOK, Locations
<1>8. CountInv'
  BY <1>2, <1>5 DEF IInv, TypeOK, CountInv
<1>9. PoisonInv'
  BY DEF IInv, TypeOK, PoisonInv
<1>10. arrived + 1 = Cardinality(Parts) => \A q \in Parts : enters'[q] = rounds + 1
  <2> SUFFICES ASSUME arrived + 1 = Cardinality(Parts) PROVE ArrivedSet' = Parts
    BY DEF ArrivedSet
  <2>1. ArrivedSet' \in SUBSET Parts
    BY <1>4 DEF ArrivedSet
  <2>2. QED
    BY <2>1, <1>5, FS_Subset, PartsAssumption
<1>11. QED
  BY <1>1, <1>2, <1>7, <1>8, <1>9, <1>10
     DEF IInv, TypeOK, OverInv, OutsideInv, LastInv, WaitingInv, Waiting

\* arrived_ is cleared before anybody can arrive for the next round.
LEMMA ClearIInv == ASSUME IInv, NEW p \in Parts, Clear(p) PROVE IInv'
<1> USE DEF Clear, Goto, jobVars
<1>1. TypeOK'
  BY ArrivalCounting DEF IInv, TypeOK, Locations
<1>2. CountInv'
  BY DEF IInv, TypeOK, CountInv
<1>3. PoisonInv'
  BY DEF IInv, TypeOK, PoisonInv
<1>4. QED
  BY <1>1, <1>2, <1>3 DEF IInv, TypeOK, OverInv, OutsideInv, LastInv, WaitingInv, Waiting

\* The store of gen_ ends the round.
LEMMA PublishIInv == ASSUME IInv, NEW p \in Parts, Publish(p) PROVE IInv'
<1> USE DEF Publish, Goto
<1>1. /\ err[p] = "none" /\ g[p] = gen /\ returns[p] = rounds
      /\ \A q \in Parts : enters[q] = rounds + 1
      /\ \A q \in Parts : pc[q] \in {"clear", "publish"} => q = p
  BY DEF IInv, LastInv
<1>2. \A q \in Parts : err[q] # "own"
  BY <1>1 DEF IInv, TypeOK, OverInv, OutsideInv, LastInv, WaitingInv, Waiting, Locations
<1>3. ~poisoned /\ poisonKnows = {}
  BY <1>2 DEF IInv, TypeOK, PoisonInv
<1>4. \A q \in Parts \ {p} :
        /\ pc[q] \in {"spin", "check"} /\ g[q] = gen
        /\ err[q] = "none" /\ returns[q] = rounds
  BY <1>1, <1>2, <1>3 DEF IInv, TypeOK, OverInv, OutsideInv, LastInv, WaitingInv, Waiting, Locations
<1>5. rounds + 1 \in 0..MaxSyncs
  BY <1>1, MaxSyncsAssumption DEF IInv, TypeOK
<1>6. gen' \in Gens /\ Prev(gen') = gen
  BY <1>1, GenArithmetic DEF IInv, TypeOK
<1>7. TypeOK'
  BY <1>1, <1>3, <1>5, <1>6 DEF IInv, TypeOK, Locations
<1>8. CountInv'
  <2>1. ArrivedSet' = {}
    BY <1>1 DEF IInv, TypeOK, ArrivedSet
  <2>2. \A q \in Parts : pc'[q] # "publish"
    BY <1>4 DEF IInv, TypeOK
  <2>3. arrived = 0
    BY DEF IInv, CountInv
  <2>4. QED
    BY <2>1, <2>2, <2>3, FS_EmptySet DEF CountInv
<1>9. PoisonInv'
  BY <1>3 DEF PoisonInv
<1>10. \A q \in Parts : enters'[q] <= len' /\ returns'[q] + 1 >= enters'[q]
  BY <1>1, <1>4 DEF IInv, TypeOK
<1>11. OutsideInv(p)' /\ pc'[p] = "body"
  BY <1>1, <1>6 DEF IInv, TypeOK, OutsideInv
<1>12. \A q \in Parts \ {p} : WaitingInv(q)' /\ pc'[q] \in {"spin", "check"}
  BY <1>1, <1>4, <1>6 DEF IInv, TypeOK, WaitingInv
<1>13. QED
  BY <1>7, <1>8, <1>9, <1>10, <1>11, <1>12 DEF IInv, Waiting

\* A waiting thread leaves only once its round is over.
LEMMA SpinOutIInv ==
  ASSUME IInv, NEW p \in Parts, SpinOut(p) \/ RereadReturn(p) PROVE IInv'
<1> USE DEF SpinOut, RereadReturn, Goto
<1>1. WaitingInv(p) /\ pc[p] \in Waiting
  BY DEF IInv, Waiting
<1>2. gen \in Gens /\ Prev(gen) # gen /\ enters[p] \in Nat /\ rounds \in Nat
  BY GenArithmetic, MaxSyncsAssumption DEF IInv, TypeOK
<1>3. PICK v \in GenLoads(p) \ {g[p]} : knows' = KnowsAfter(p, v)
  OBVIOUS
<1>4. v = gen /\ enters[p] = rounds
  BY <1>1, <1>2, <1>3 DEF WaitingInv, GenLoads
<1>5. knows' = knows \cup {p}
  BY <1>3, <1>4 DEF KnowsAfter
<1>6. CountInv'
  BY CountUnchanged DEF IInv, TypeOK
<1>7. TypeOK'
  BY <1>1, <1>2, <1>4, <1>5 DEF IInv, TypeOK, WaitingInv, Locations
<1>8. PoisonInv'
  <2>1. ~\A q \in Parts : pc[q] = "done"
    BY <1>1 DEF Waiting
  <2>2. err' = err /\ poisoned' = poisoned /\ poisonKnows' = poisonKnows
    OBVIOUS
  <2>3. QED
    BY <2>1, <2>2 DEF IInv, PoisonInv
<1>9. QED
  BY <1>1, <1>2, <1>4, <1>5, <1>6, <1>7, <1>8
     DEF IInv, TypeOK, OverInv, OutsideInv, LastInv, WaitingInv, Waiting

\* A load that returns the old value changes nothing but the place.
LEMMA SpinOnIInv == ASSUME IInv, NEW p \in Parts, SpinOn(p) PROVE IInv'
<1> USE DEF SpinOn, Goto, jobVars
<1>1. WaitingInv(p)
  BY DEF IInv, Waiting
<1>2. knows' = knows
  BY <1>1, GenArithmetic DEF IInv, TypeOK, WaitingInv, KnowsAfter
<1>3. CountInv'
  BY CountUnchanged DEF IInv, TypeOK
<1>4. TypeOK'
  BY <1>2 DEF IInv, TypeOK, Locations
<1>5. PoisonInv'
  BY DEF IInv, TypeOK, PoisonInv
<1>6. QED
  BY <1>1, <1>2, <1>3, <1>4, <1>5
     DEF IInv, TypeOK, OverInv, OutsideInv, LastInv, WaitingInv, Waiting

\* The acquire load of poisoned_ hands on what its author knew.
LEMMA CheckPoisonIInv == ASSUME IInv, NEW p \in Parts, CheckPoison(p) PROVE IInv'
<1> USE DEF CheckPoison, Goto, jobVars
<1>1. WaitingInv(p)
  BY DEF IInv, Waiting
<1>2. CountInv'
  BY CountUnchanged DEF IInv, TypeOK
<1>3. CASE ~poisoned /\ Goto(p, "spin") /\ UNCHANGED knows
  <2>1. TypeOK'
    BY <1>3 DEF IInv, TypeOK, Locations
  <2>2. PoisonInv'
    BY <1>3 DEF IInv, TypeOK, PoisonInv
  <2>3. QED
    BY <1>1, <1>2, <1>3, <2>1, <2>2
       DEF IInv, TypeOK, OverInv, OutsideInv, LastInv, WaitingInv, Waiting
<1>4. ASSUME NEW published \in poisonKnows,
             Goto(p, "reread"),
             knows' = IF published THEN knows \cup {p} ELSE knows
      PROVE  IInv'
  <2>1. published = TRUE
    BY <1>4 DEF IInv, TypeOK, PoisonInv
  <2>2. poisoned /\ knows' = knows \cup {p}
    BY <1>4, <2>1 DEF IInv, PoisonInv
  <2>3. TypeOK'
    BY <1>4, <2>2 DEF IInv, TypeOK, Locations
  <2>4. PoisonInv'
    BY <1>4 DEF IInv, TypeOK, PoisonInv
  <2>5. QED
    BY <1>1, <1>2, <1>4, <2>2, <2>3, <2>4
       DEF IInv, TypeOK, OverInv, OutsideInv, LastInv, WaitingInv, Waiting
<1>5. QED
  BY <1>3, <1>4

\* A thread that throws is in a round that is not over.
LEMMA RereadThrowIInv == ASSUME IInv, NEW p \in Parts, RereadThrow(p) PROVE IInv'
<1> USE DEF RereadThrow, Goto
<1>1. WaitingInv(p) /\ p \in knows /\ poisoned
  BY DEF IInv, Waiting, WaitingInv
<1>2. g[p] = gen /\ enters[p] = rounds + 1 /\ knows' = knows
  BY <1>1, GenArithmetic DEF IInv, TypeOK, WaitingInv, GenLoads, KnowsAfter
<1>3. PICK q \in Parts : err[q] = "own"
  BY <1>1 DEF IInv, PoisonInv
<1>4. q # p
  BY <1>1, <1>3 DEF WaitingInv
<1>5. CountInv'
  BY CountUnchanged DEF IInv, TypeOK
<1>6. TypeOK'
  BY <1>2 DEF IInv, TypeOK, Locations
<1>7. err'[q] = "own"
  BY <1>3, <1>4 DEF IInv, TypeOK
<1>8. PoisonInv'
  BY <1>7 DEF IInv, TypeOK, PoisonInv
<1>9. returns[p] = rounds
  BY <1>1, <1>2, MaxSyncsAssumption DEF IInv, TypeOK, WaitingInv
<1>10. QED
  BY <1>1, <1>2, <1>5, <1>6, <1>7, <1>8, <1>9
     DEF IInv, TypeOK, OverInv, OutsideInv, LastInv, WaitingInv, Waiting

\* The job may throw outside a round.
LEMMA ThrowIInv == ASSUME IInv, NEW p \in Parts, Throw(p) PROVE IInv'
<1> USE DEF Throw, Goto, barrierVars
<1>1. OutsideInv(p)
  BY DEF IInv
<1>2. CountInv'
  BY CountUnchanged DEF IInv, TypeOK
<1>3. TypeOK'
  BY DEF IInv, TypeOK, Locations
<1>4. err'[p] = "own"
  BY DEF IInv, TypeOK
<1>5. PoisonInv'
  BY <1>4 DEF IInv, TypeOK, PoisonInv
<1>6. QED
  BY <1>1, <1>2, <1>3, <1>4, <1>5
     DEF IInv, TypeOK, OverInv, OutsideInv, LastInv, WaitingInv, Waiting

\* Whoever poisons has left the last completed round.
LEMMA PoisonIInv == ASSUME IInv, NEW p \in Parts, Poison(p) PROVE IInv'
<1> USE DEF Poison, Goto, jobVars
<1>1. OverInv(p) /\ err[p] # "none"
  BY DEF IInv, OverInv
<1>2. p \in knows /\ \E q \in Parts : err[q] = "own"
  BY <1>1 DEF IInv, TypeOK, OverInv
<1>3. poisonKnows' = poisonKnows \cup {TRUE}
  <2>1. (p \in knows) = TRUE
    BY <1>2
  <2>2. poisonKnows' = poisonKnows \cup {(p \in knows)}
    OBVIOUS
  <2>3. {(p \in knows)} = {TRUE}
    BY <2>1, Zenon
  <2>4. QED
    BY <2>2, <2>3, Zenon
<1>4. CountInv'
  BY CountUnchanged DEF IInv, TypeOK
<1>5. TypeOK'
  BY <1>3 DEF IInv, TypeOK, Locations
<1>6. PoisonInv'
  BY <1>2, <1>3 DEF IInv, PoisonInv
<1>7. QED
  BY <1>1, <1>2, <1>4, <1>5, <1>6
     DEF IInv, TypeOK, OverInv, OutsideInv, LastInv, WaitingInv, Waiting

\* A thread ends its job outside a round.
LEMMA FinishIInv == ASSUME IInv, NEW p \in Parts, Finish(p) PROVE IInv'
<1> USE DEF Finish, Goto, jobVars, barrierVars
<1>1. OutsideInv(p)
  BY DEF IInv
<1>2. CountInv'
  BY CountUnchanged DEF IInv, TypeOK
<1>3. TypeOK'
  BY DEF IInv, TypeOK, Locations
<1>4. PoisonInv'
  BY DEF IInv, TypeOK, PoisonInv
<1>5. QED
  BY <1>1, <1>2, <1>3, <1>4
     DEF IInv, TypeOK, OverInv, OutsideInv, LastInv, WaitingInv, Waiting

------------------------------------------------------------------------------
(***************************************************************************)
(* The theorems                                                            *)
(***************************************************************************)

\* IInv is inductive: the composition with the group's masters needs this step
\* by itself.
LEMMA NextIInv == IInv /\ [Next]_vars => IInv'
<1> SUFFICES ASSUME IInv, [Next]_vars PROVE IInv'
  OBVIOUS
<1>1. CASE NewJob
  BY <1>1, NewJobIInv
<1>2. CASE StopPoison
  BY <1>2, StopPoisonIInv
<1>3. ASSUME NEW p \in Parts, Step(p) PROVE IInv'
  BY <1>3, LoadGenIInv, ArriveIInv, ClearIInv, PublishIInv, SpinOutIInv, SpinOnIInv,
     CheckPoisonIInv, RereadThrowIInv, ThrowIInv, PoisonIInv, FinishIInv DEF Step
<1>4. CASE UNCHANGED vars
  <2>1. CountInv'
    BY <1>4, CountUnchanged DEF IInv, vars, barrierVars, jobVars
  <2>2. QED
    BY <1>4, <2>1, ZenonT(60) DEF IInv, TypeOK, PoisonInv, OverInv, OutsideInv, LastInv, WaitingInv,
                      vars, barrierVars, jobVars
<1>5. QED
  BY <1>1, <1>2, <1>3, <1>4 DEF Next

\* IInv is an invariant of the barrier under every interleaving of its atomic
\* operations and every stale load of gen_ (PartitionBarrier::sync).
THEOREM InductiveInvariant == Spec => []IInv
  BY InitIInv, NextIInv, PTL DEF Spec

\* Every barrier word, local and history variable stays in its type.
THEOREM TypeCorrect == Spec => []TypeOK
<1>1. IInv => TypeOK
  BY DEF IInv
<1>2. QED
  BY <1>1, InductiveInvariant, PTL

\* A thread has entered at most one round more than are completed.
LEMMA EntersBounds ==
  ASSUME IInv, NEW p \in Parts
  PROVE  /\ rounds <= enters[p] /\ returns[p] <= rounds
         /\ enters[p] \in Nat /\ returns[p] \in Nat /\ rounds \in Nat
<1>1. enters[p] \in Nat /\ returns[p] \in Nat /\ rounds \in Nat
  BY MaxSyncsAssumption DEF IInv, TypeOK
<1>2. pc[p] \in Locations /\ err[p] \in {"none", "own", "poisoned"}
  BY DEF IInv, TypeOK
<1>3. CASE pc[p] \in {"body", "arrive"}
  BY <1>1, <1>3 DEF IInv, OutsideInv
<1>4. CASE pc[p] \in {"clear", "publish"}
  BY <1>1, <1>4 DEF IInv, LastInv
<1>5. CASE pc[p] \in Waiting
  BY <1>1, <1>5 DEF IInv, WaitingInv
<1>6. CASE pc[p] \in {"unwind", "done"}
  BY <1>1, <1>2, <1>6 DEF IInv, OverInv
<1>7. QED
  BY <1>2, <1>3, <1>4, <1>5, <1>6 DEF Locations, Waiting

\* sync() is a barrier: nobody returns from its k-th call before everybody has
\* arrived at its own k-th, whatever the number of partitions.
THEOREM BarrierSafety == Spec => []NoEarlyReturn
<1>1. IInv => NoEarlyReturn
  BY EntersBounds DEF NoEarlyReturn
<1>2. QED
  BY <1>1, InductiveInvariant, PTL

\* Behind a partition that failed stands one that unwound by itself.
LEMMA InvFailsOnlyDoomedRounds == ASSUME IInv PROVE FailsOnlyDoomedRounds
<1> SUFFICES ASSUME NEW p \in Parts, err[p] = "poisoned"
             PROVE  \E q \in Parts : err[q] = "own" /\ enters[q] < enters[p]
  BY DEF FailsOnlyDoomedRounds
<1>1. OverInv(p)
  BY DEF IInv, TypeOK, OutsideInv, LastInv, WaitingInv, Waiting, Locations
<1>2. PICK q \in Parts : err[q] = "own"
  BY <1>1 DEF OverInv
<1>3. OverInv(q)
  BY <1>2 DEF IInv, TypeOK, OutsideInv, LastInv, WaitingInv, Waiting, Locations
<1>4. enters[q] = rounds /\ enters[p] = rounds + 1
  BY <1>1, <1>2, <1>3 DEF OverInv
<1>5. QED
  BY <1>2, <1>4, EntersBounds

\* ShmCommPoisoned is thrown only for a round that cannot complete: the claim of
\* the comment on PartitionBarrier::sync.
THEOREM PoisonSoundness == Spec => []FailsOnlyDoomedRounds
<1>1. IInv => FailsOnlyDoomedRounds
  BY InvFailsOnlyDoomedRounds
<1>2. QED
  BY <1>1, InductiveInvariant, PTL

\* How a move of one partition shows in the abstract phases.
LEMMA PhaseMove ==
  ASSUME TypeOK, NEW p \in Parts, NEW to \in Locations, Goto(p, to)
  PROVE  /\ phaseOf' = [phaseOf EXCEPT ![p] = PhaseAt(to)]
         /\ PhaseAt(pc[p]) = PhaseAt(to) => phaseOf' = phaseOf
<1>1. pc' = [pc EXCEPT ![p] = to] /\ pc \in [Parts -> Locations]
  BY DEF Goto, TypeOK
<1>2. \A q \in Parts : pc'[q] = IF q = p THEN to ELSE pc[q]
  BY <1>1
<1>3. QED
  BY <1>1, <1>2 DEF phaseOf

\* Each action maps to a step of the rounds or a stutter.
LEMMA StepRefines ==
  ASSUME IInv, NEW p \in Parts, Step(p)
  PROVE  Rounds!Next \/ UNCHANGED Rounds!roundVars
<1>1. TypeOK /\ phaseOf[p] = PhaseAt(pc[p])
  BY DEF IInv, phaseOf
<1>2. CASE LoadGen(p)
  BY <1>1, <1>2, PhaseMove DEF LoadGen, jobVars, Rounds!roundVars, PhaseAt, Locations
<1>3. CASE Arrive(p)
  <2>1. OutsideInv(p)
    BY <1>3 DEF Arrive, IInv
  <2>2. PICK to \in {"clear", "spin"} : Goto(p, to)
    BY <1>3 DEF Arrive
  <2>3. phaseOf' = [phaseOf EXCEPT ![p] = "round"]
    BY <1>1, <2>2, PhaseMove DEF PhaseAt, Locations, InRound
  <2>4. Rounds!Enter(p)
    BY <1>1, <1>3, <2>1, <2>3 DEF Arrive, Rounds!Enter, PhaseAt, OutsideInv
  <2>5. QED
    BY <2>4 DEF Rounds!Next, Rounds!Step
<1>4. CASE Clear(p)
  BY <1>1, <1>4, PhaseMove DEF Clear, jobVars, Rounds!roundVars, PhaseAt, Locations, InRound
<1>5. CASE Publish(p)
  <2>1. LastInv(p)
    BY <1>5 DEF Publish, IInv
  <2>2. \A q \in Parts : enters[q] >= enters[p]
    BY <2>1, EntersBounds DEF LastInv
  <2>3. phaseOf' = [phaseOf EXCEPT ![p] = "body"]
    BY <1>1, <1>5, PhaseMove DEF Publish, PhaseAt, Locations
  <2>4. Rounds!Return(p)
    BY <1>1, <1>5, <2>2, <2>3 DEF Publish, Rounds!Return, PhaseAt, InRound
  <2>5. QED
    BY <2>4 DEF Rounds!Next, Rounds!Step
<1>6. CASE SpinOut(p) \/ RereadReturn(p)
  <2>1. WaitingInv(p) /\ pc[p] \in Waiting /\ \E v \in GenLoads(p) : v # g[p]
    BY <1>6 DEF SpinOut, RereadReturn, IInv, Waiting
  <2>2. enters[p] = rounds
    BY <2>1, GenArithmetic DEF WaitingInv, GenLoads, IInv, TypeOK
  <2>3. \A q \in Parts : enters[q] >= enters[p]
    BY <2>2, EntersBounds
  <2>4. phaseOf' = [phaseOf EXCEPT ![p] = "body"]
    BY <1>1, <1>6, PhaseMove DEF SpinOut, RereadReturn, PhaseAt, Locations
  <2>5. Rounds!Return(p)
    BY <1>1, <1>6, <2>1, <2>3, <2>4
       DEF SpinOut, RereadReturn, Rounds!Return, PhaseAt, InRound, Waiting
  <2>6. QED
    BY <2>5 DEF Rounds!Next, Rounds!Step
<1>7. CASE SpinOn(p)
  BY <1>1, <1>7, PhaseMove DEF SpinOn, jobVars, Rounds!roundVars, PhaseAt, Locations, InRound
<1>8. CASE CheckPoison(p)
  BY <1>1, <1>8, PhaseMove DEF CheckPoison, jobVars, Rounds!roundVars, PhaseAt, Locations, InRound
<1>9. CASE RereadThrow(p)
  <2>1. WaitingInv(p) /\ p \in knows /\ poisoned /\ g[p] \in GenLoads(p)
    BY <1>9 DEF RereadThrow, IInv, Waiting, WaitingInv
  <2>2. enters[p] = rounds + 1
    BY <2>1, GenArithmetic DEF WaitingInv, GenLoads, IInv, TypeOK
  <2>3. PICK q \in Parts : err[q] = "own"
    BY <1>9, <2>1 DEF IInv, PoisonInv, RereadThrow
  <2>4. OverInv(q)
    BY <2>3 DEF IInv, TypeOK, OutsideInv, LastInv, WaitingInv, Waiting, Locations
  <2>5. err[q] # "none" /\ enters[q] < enters[p]
    BY <2>2, <2>3, <2>4, EntersBounds DEF OverInv
  <2>6. phaseOf' = [phaseOf EXCEPT ![p] = "unwind"]
    BY <1>1, <1>9, PhaseMove DEF RereadThrow, PhaseAt, Locations, InRound
  <2>7. Rounds!Fail(p)
    BY <1>1, <1>9, <2>5, <2>6 DEF RereadThrow, Rounds!Fail, PhaseAt, InRound
  <2>8. QED
    BY <2>7 DEF Rounds!Next, Rounds!Step
<1>10. CASE Throw(p)
  <2>1. phaseOf' = [phaseOf EXCEPT ![p] = "unwind"]
    BY <1>1, <1>10, PhaseMove DEF Throw, PhaseAt, Locations, InRound
  <2>2. Rounds!Throw(p)
    BY <1>1, <1>10, <2>1 DEF Throw, Rounds!Throw, PhaseAt
  <2>3. QED
    BY <2>2 DEF Rounds!Next, Rounds!Step
<1>11. CASE Poison(p) \/ Finish(p)
  <2>1. phaseOf' = [phaseOf EXCEPT ![p] = "done"]
    BY <1>1, <1>11, PhaseMove DEF Poison, Finish, PhaseAt, Locations, InRound
  <2>2. Rounds!Leave(p)
    BY <1>1, <1>11, <2>1 DEF Poison, Finish, jobVars, Rounds!Leave, PhaseAt, InRound
  <2>3. QED
    BY <2>2 DEF Rounds!Next, Rounds!Step
<1>12. QED
  BY <1>2, <1>3, <1>4, <1>5, <1>6, <1>7, <1>8, <1>9, <1>10, <1>11 DEF Step

\* The atomics implement the promise: every behaviour of the barrier is one of
\* PartitionRounds, over which the collectives are modelled.
THEOREM Refinement == Spec => Rounds!SafeSpec
<1>1. Init => Rounds!Init
  BY DEF Init, Rounds!Init, phaseOf, PhaseAt, InRound
<1>2. IInv /\ [Next]_vars => [Rounds!Next]_(Rounds!roundVars)
  <2> SUFFICES ASSUME IInv, [Next]_vars
               PROVE  Rounds!Next \/ UNCHANGED Rounds!roundVars
    OBVIOUS
  <2>1. CASE NewJob
    <3>1. phaseOf' = [p \in Parts |-> "body"]
      BY <2>1 DEF NewJob, StartJob, phaseOf, PhaseAt
    <3>2. \A p \in Parts : phaseOf[p] = "done"
      BY <2>1 DEF NewJob, phaseOf, PhaseAt, InRound
    <3>3. Rounds!NewJob
      BY <2>1, <3>1, <3>2 DEF NewJob, StartJob, Rounds!NewJob
    <3>4. QED
      BY <3>3 DEF Rounds!Next
  <2>2. CASE StopPoison
    BY <2>2 DEF StopPoison, jobVars, Rounds!roundVars, phaseOf
  <2>3. CASE \E p \in Parts : Step(p)
    BY <2>3, StepRefines
  <2>4. CASE UNCHANGED vars
    BY <2>4 DEF vars, jobVars, Rounds!roundVars, phaseOf
  <2>5. QED
    BY <2>1, <2>2, <2>3, <2>4 DEF Next
<1>3. QED
  BY <1>1, <1>2, InductiveInvariant, PTL DEF Spec, Rounds!SafeSpec
=============================================================================
