--------------------------- MODULE PartitionRounds ---------------------------
(***************************************************************************)
(* What PartitionBarrier::sync() promises to the partitions of one job,    *)
(* without any of its atomics: a partition leaves its k-th round only      *)
(* after every partition has entered its k-th round, and a round fails     *)
(* (ShmCommPoisoned) only for a partition whose round can no longer be     *)
(* completed, because a partition that unwound will never enter it.        *)
(*                                                                         *)
(* PartitionBarrier implements this specification; ShmComm and HybridComm  *)
(* are written over it.                                                    *)
(***************************************************************************)
EXTENDS Naturals

CONSTANTS
  Parts,      \* the partitions of one rank: one master thread each
  MaxSyncs    \* bound: the largest number of rounds one job performs

ASSUME RoundsAssumption == MaxSyncs \in Nat

VARIABLES
  enters,     \* enters[p]: rounds of this job that p has entered
  returns,    \* returns[p]: rounds of this job that p has left normally
  err,        \* err[p]: "none", "own" (p's body threw) or "poisoned"
  phase,      \* phase[p]: "body", "round", "unwind" or "done"
  len         \* rounds the current job performs, the same on every partition

roundVars == <<enters, returns, err, phase, len>>

Errors == {"none", "own", "poisoned"}

TypeOK ==
  /\ enters \in [Parts -> 0..MaxSyncs]
  /\ returns \in [Parts -> 0..MaxSyncs]
  /\ err \in [Parts -> Errors]
  /\ phase \in [Parts -> {"body", "round", "unwind", "done"}]
  /\ len \in 0..MaxSyncs

Init ==
  /\ enters = [p \in Parts |-> 0]
  /\ returns = [p \in Parts |-> 0]
  /\ err = [p \in Parts |-> "none"]
  /\ phase = [p \in Parts |-> "done"]
  /\ len = 0

\* A new job starts only when every partition has finished the previous one.
NewJob ==
  /\ \A p \in Parts : phase[p] = "done"
  /\ len' \in 0..MaxSyncs
  /\ enters' = [p \in Parts |-> 0]
  /\ returns' = [p \in Parts |-> 0]
  /\ err' = [p \in Parts |-> "none"]
  /\ phase' = [p \in Parts |-> "body"]

Enter(p) ==
  /\ phase[p] = "body" /\ enters[p] < len
  /\ phase' = [phase EXCEPT ![p] = "round"]
  /\ enters' = [enters EXCEPT ![p] = @ + 1]
  /\ UNCHANGED <<returns, err, len>>

Return(p) ==
  /\ phase[p] = "round"
  /\ \A q \in Parts : enters[q] >= enters[p]
  /\ phase' = [phase EXCEPT ![p] = "body"]
  /\ returns' = [returns EXCEPT ![p] = @ + 1]
  /\ UNCHANGED <<enters, err, len>>

Fail(p) ==
  /\ phase[p] = "round"
  /\ \E q \in Parts : err[q] # "none" /\ enters[q] < enters[p]
  /\ phase' = [phase EXCEPT ![p] = "unwind"]
  /\ err' = [err EXCEPT ![p] = "poisoned"]
  /\ UNCHANGED <<enters, returns, len>>

Throw(p) ==
  /\ phase[p] = "body"
  /\ phase' = [phase EXCEPT ![p] = "unwind"]
  /\ err' = [err EXCEPT ![p] = "own"]
  /\ UNCHANGED <<enters, returns, len>>

Leave(p) ==
  /\ \/ phase[p] = "unwind"
     \/ phase[p] = "body" /\ enters[p] = len
  /\ phase' = [phase EXCEPT ![p] = "done"]
  /\ UNCHANGED <<enters, returns, err, len>>

Step(p) == Enter(p) \/ Return(p) \/ Fail(p) \/ Throw(p) \/ Leave(p)

Next == NewJob \/ \E p \in Parts : Step(p)

SafeSpec == Init /\ [][Next]_roundVars

\* Every round that can end does end: no partition hangs in a round.
Spec == SafeSpec /\ \A p \in Parts : WF_roundVars(Step(p))

------------------------------------------------------------------------------
(* What follows for the bookkeeping of a job: the inductive invariant on which
   the collectives rely. *)

\* A partition is in at most one round, and fails one only if another partition
\* unwound before it.
RoundInv(p) ==
  /\ enters[p] <= len
  /\ phase[p] \in {"body", "round"} => err[p] = "none"
  /\ phase[p] = "unwind" => err[p] # "none"
  /\ phase[p] = "done" /\ err[p] = "none" => enters[p] = len
  /\ enters[p] = IF phase[p] = "round" \/ err[p] = "poisoned"
                 THEN returns[p] + 1 ELSE returns[p]
  /\ err[p] = "poisoned" => \E q \in Parts : err[q] # "none" /\ enters[q] < enters[p]

RoundsInv ==
  /\ TypeOK
  /\ \A p \in Parts : RoundInv(p)
  /\ \A p, q \in Parts : returns[p] <= enters[q]

==============================================================================
