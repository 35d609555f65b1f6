------------------------------ MODULE ShmComm ------------------------------
(***************************************************************************)
(* mpi::ShmComm: the collectives of the partitions of one process.  Every  *)
(* partition runs the same sequence of verbs; a verb publishes pointers in *)
(* the caller's slot, passes the first barrier, reads the peers' memory    *)
(* through their slots, and passes the second barrier.  The barrier is     *)
(* PartitionRounds, which PartitionBarrier implements; a behaviour is one  *)
(* job of run_on_all.                                                      *)
(*                                                                         *)
(* Memory is modelled by what a reader would find in it: the counts,       *)
(* displacements and payload that p hands to its k-th verb are those of    *)
(* verb k, they are gone once p moves on to another verb or unwinds, and a *)
(* read finds whatever is there at that moment.  A sum is the sequence of  *)
(* its terms in the order they are added: a floating-point sum depends on  *)
(* that order.                                                             *)
(***************************************************************************)
EXTENDS PartitionRounds, Sequences, FiniteSets, SequencesExt

CONSTANTS
  Matrices,   \* the count matrices verbs may be called with: m[s][d]
  VecLen,     \* elements of an allreduce_sum_inplace vector
  Line,       \* elements of one cache line (kLine)
  Scripts     \* the sequences of verbs a job may perform

N == Cardinality(Parts)

ASSUME ShmPartsAssumption == N \in Nat \ {0} /\ Parts = 0..(N - 1)
ASSUME ShmBoundsAssumption == VecLen \in Nat /\ Line \in Nat \ {0}

VARIABLES
  script,      \* the verbs of the job
  traffic,     \* traffic[k]: the count matrix of its k-th verb
  verb,        \* verb[p]: the number of the verb p is in, or last was in
  stage,       \* where p is in it
  src,         \* the peer, or vector element, p reads next
  mem,         \* mem[p]: the verb p's buffers are filled for, 0 if destroyed
  slot,        \* slot[p][f]: the verb for which p last published field f
  recvCounts,  \* recvCounts[p]: resolved, or for alltoallv given
  got,         \* got[p]: what p has read from its peers, in reading order
  vec,         \* vec[p][e]: element e of the vector p is reducing in place
  dangling     \* history: p read memory its owner had destroyed

job == <<script, traffic>>
caller == <<verb, mem, slot>>
results == <<recvCounts, got, vec, dangling>>
shmVars == <<job, caller, stage, src, results>>
allShmVars == <<roundVars, shmVars>>

\* A faulty resolve: it does not publish its displacements.
PublishesNoDispls == [counts    |-> {"counts"},
                      alltoallv |-> {"ptr", "displs"},
                      resolve   |-> {"ptr", "counts"},
                      sum       |-> {"num"},
                      inplace   |-> {"vec"}]

\* The slot fields each verb publishes.
Publishes == [counts    |-> {"counts"},
              alltoallv |-> {"ptr", "displs"},
              resolve   |-> {"ptr", "displs", "counts"},
              sum       |-> {"num"},
              inplace   |-> {"vec"}]
Verbs == DOMAIN Publishes
Fields == UNION {Publishes[v] : v \in Verbs}

ASSUME MatricesAssumption == Matrices \subseteq [Parts -> [Parts -> Nat]]
ASSUME ScriptsAssumption ==
  \A s \in Scripts : s \in Seq(Verbs) /\ 2 * Len(s) <= MaxSyncs

ShmTypeOK ==
  /\ TypeOK
  /\ script \in Scripts
  /\ traffic \in [1..Len(script) -> Matrices]
  /\ verb \in [Parts -> 0..Len(script)]
  /\ stage \in [Parts -> {"idle", "sync1", "count", "read", "sync2"}]
  /\ src \in [Parts -> 0..(IF N > VecLen THEN N ELSE VecLen)]
  /\ mem \in [Parts -> 0..Len(script)]
  /\ slot \in [Parts -> [Fields -> 0..Len(script)]]
  /\ recvCounts \in [Parts -> [Parts -> Nat]]
  /\ got = [p \in Parts |-> got[p]]
  /\ vec \in [Parts -> [0..(VecLen - 1) -> Seq(Parts \X Nat)]]
  /\ dangling \in [Parts -> BOOLEAN]

Kind(p) == script[verb[p]]
Row(k, s) == traffic[k][s]

\* A sender's flat buffer: the blocks for each destination, one after the other,
\* and the displacement of the block for d in it.
Block(k, s, d) == [i \in 1..Row(k, s)[d] |-> <<s, k, d, i>>]
SendBuffer(k, s) == FlattenSeq([i \in 1..N |-> Block(k, s, i - 1)])
SendDispl(k, s, d) ==
  LET displ[i \in 0..N] == IF i = 0 THEN 0 ELSE displ[i - 1] + Row(k, s)[i - 1]
  IN  displ[d]

FreshVec(p, k) == [e \in 0..(VecLen - 1) |-> <<<<p, k>>>>]

\* Field f of s's slot points into memory that is filled for the verb p is in.
Live(p, s, f) == slot[s][f] = verb[p] /\ mem[s] = verb[p]

\* run_on_all has just started a job.
ShmInit ==
  /\ script \in Scripts
  /\ traffic \in [1..Len(script) -> Matrices]
  /\ len = 2 * Len(script)
  /\ enters = [p \in Parts |-> 0]
  /\ returns = [p \in Parts |-> 0]
  /\ err = [p \in Parts |-> "none"]
  /\ phase = [p \in Parts |-> "body"]
  /\ verb = [p \in Parts |-> 0]
  /\ stage = [p \in Parts |-> "idle"]
  /\ src = [p \in Parts |-> 0]
  /\ mem = [p \in Parts |-> 0]
  /\ slot = [p \in Parts |-> [f \in Fields |-> 0]]
  /\ recvCounts = [p \in Parts |-> [s \in Parts |-> 0]]
  /\ got = [p \in Parts |-> <<>>]
  /\ vec = [p \in Parts |-> FreshVec(p, 0)]
  /\ dangling = [p \in Parts |-> FALSE]

\* The next verb: the caller reuses its buffers and the verb fills its slot.
\* alltoallv is given its receive counts, the transpose of the send counts.
Begin(p) ==
  /\ phase[p] = "body" /\ stage[p] = "idle" /\ verb[p] < Len(script)
  /\ LET k == verb[p] + 1
     IN  /\ verb' = [verb EXCEPT ![p] = k]
         /\ mem' = [mem EXCEPT ![p] = k]
         /\ slot' = [slot EXCEPT ![p] = [f \in Fields |->
                        IF f \in Publishes[script[k]] THEN k ELSE @[f]]]
         /\ recvCounts' = [recvCounts EXCEPT ![p] = [s \in Parts |->
                        IF script[k] = "alltoallv" THEN Row(k, s)[p] ELSE 0]]
         /\ vec' = [vec EXCEPT ![p] = FreshVec(p, k)]
  /\ got' = [got EXCEPT ![p] = <<>>]
  /\ stage' = [stage EXCEPT ![p] = "sync1"]
  /\ UNCHANGED <<roundVars, job, src, dangling>>

EnterSync(p) ==
  /\ stage[p] \in {"sync1", "sync2"}
  /\ Enter(p)
  /\ UNCHANGED shmVars

\* allreduce_sum_inplace gives each partition a slice of whole cache lines.
MinOf(a, b) == IF a < b THEN a ELSE b
SliceSize == LET lines == (VecLen + Line - 1) \div Line
             IN  ((lines + N - 1) \div N) * Line
SliceLo(p) == MinOf(VecLen, p * SliceSize)
\* Faulty: the loop runs up to and with hi, the first element of the next slice.
SliceHiInclusive(p) == MinOf(VecLen, SliceLo(p) + SliceSize + 1)
SliceHi(p) == MinOf(VecLen, SliceLo(p) + SliceSize)

\* The barrier lets p go: after the first it starts to read, after the second
\* the verb is over.
ReturnSync(p) ==
  /\ Return(p)
  /\ stage' = [stage EXCEPT ![p] =
       IF stage[p] = "sync2" THEN "idle"
       ELSE CASE Kind(p) \in {"counts", "resolve"} -> "count"
              [] Kind(p) = "inplace" /\ ~(SliceLo(p) < SliceHi(p)) -> "sync2"
              [] OTHER -> "read"]
  /\ src' = [src EXCEPT ![p] = IF Kind(p) = "inplace" THEN SliceLo(p) ELSE 0]
  /\ UNCHANGED <<job, caller, results>>

\* p looks at s's memory through the fields fs.
Touch(p, s, fs) ==
  dangling' = [dangling EXCEPT ![p] = @ \/ \E f \in fs : ~Live(p, s, f)]

\* The next index up to last, or the stage after that.
Advance(p, last, next) ==
  IF src[p] < last
  THEN src' = [src EXCEPT ![p] = @ + 1] /\ UNCHANGED stage
  ELSE src' = [src EXCEPT ![p] = 0] /\ stage' = [stage EXCEPT ![p] = next]

\* recv_counts[s] = slots_[s].counts[rank]
ReadCount(p) ==
  /\ phase[p] = "body" /\ stage[p] = "count"
  /\ LET s == src[p]
     IN  /\ recvCounts' = [recvCounts EXCEPT ![p][s] =
                              IF Live(p, s, "counts") THEN Row(verb[p], s)[p] ELSE 0]
         /\ Touch(p, s, {"counts"})
  /\ Advance(p, N - 1, IF Kind(p) = "resolve" THEN "read" ELSE "sync2")
  /\ UNCHANGED <<roundVars, job, caller, got, vec>>

\* alltoallv_resolve sizes its receive buffer between the counts and the payload:
\* a count that does not fit an int, or the allocation, throws.
ResizeThrows(p) ==
  /\ stage[p] = "read" /\ src[p] = 0 /\ Kind(p) = "resolve"
  /\ Throw(p)
  /\ UNCHANGED shmVars

\* memcpy of s's block from s's displacement; a source that sends nothing is not
\* looked at.
ReadBlock(p) ==
  /\ phase[p] = "body" /\ stage[p] = "read" /\ Kind(p) \in {"alltoallv", "resolve"}
  /\ LET s == src[p]
         fs == {"ptr", "displs"}
         at == SendDispl(verb[p], s, p)
     IN  IF recvCounts[p][s] = 0 THEN UNCHANGED <<got, dangling>>
         ELSE /\ got' = [got EXCEPT ![p] = @ \o
                   IF \A f \in fs : Live(p, s, f)
                   THEN SubSeq(SendBuffer(verb[p], s), at + 1, at + recvCounts[p][s])
                   ELSE <<"garbage">>]
              /\ Touch(p, s, fs)
  /\ Advance(p, N - 1, "sync2")
  /\ UNCHANGED <<roundVars, job, caller, recvCounts, vec>>

\* A faulty ReadNumber: the verb ends without its second barrier.
ReadNumberNoBarrier(p) ==
  /\ phase[p] = "body" /\ stage[p] = "read" /\ Kind(p) = "sum"
  /\ got' = [got EXCEPT ![p] = Append(@, <<src[p], slot[src[p]]["num"]>>)]
  /\ Advance(p, N - 1, "idle")
  /\ UNCHANGED <<roundVars, job, caller, recvCounts, vec, dangling>>

\* allreduce_sum: acc += slots_[s].f64 (or .u64), a value in the slot itself.
ReadNumber(p) ==
  /\ phase[p] = "body" /\ stage[p] = "read" /\ Kind(p) = "sum"
  /\ got' = [got EXCEPT ![p] = Append(@, <<src[p], slot[src[p]]["num"]>>)]
  /\ Advance(p, N - 1, "sync2")
  /\ UNCHANGED <<roundVars, job, caller, recvCounts, vec, dangling>>

\* One element of p's slice: read from every vector, then written to every one.
ReduceElement(p) ==
  /\ phase[p] = "body" /\ stage[p] = "read" /\ Kind(p) = "inplace"
  /\ LET e == src[p]
         total == FlattenSeq([i \in 1..N |-> vec[i - 1][e]])
     IN  /\ vec' = [s \in Parts |-> [vec[s] EXCEPT ![e] = total]]
         /\ dangling' = [dangling EXCEPT ![p] = @ \/ \E s \in Parts : ~Live(p, s, "vec")]
  /\ Advance(p, SliceHi(p) - 1, "sync2")
  /\ UNCHANGED <<roundVars, job, caller, recvCounts, got>>

\* Between two verbs the partition's own work may throw.
BodyThrows(p) ==
  /\ stage[p] = "idle"
  /\ Throw(p)
  /\ UNCHANGED shmVars

\* A faulty sync() that waits whatever happens to its peers.
SyncNeverFails(p) == FALSE /\ Fail(p) /\ UNCHANGED shmVars

\* sync() throws ShmCommPoisoned.
FailSync(p) == Fail(p) /\ UNCHANGED shmVars

\* The job's frames are gone, at its end or by unwinding, and with them the
\* buffers p handed to the verb (begin_alltoallv owns them).
LeaveJob(p) ==
  /\ stage[p] = "idle" \/ phase[p] = "unwind"
  /\ Leave(p)
  /\ mem' = [mem EXCEPT ![p] = 0]
  /\ UNCHANGED <<job, verb, slot, stage, src, results>>

ShmStep(p) ==
  \/ Begin(p) \/ EnterSync(p) \/ ReturnSync(p) \/ FailSync(p)
  \/ ReadCount(p) \/ ResizeThrows(p) \/ ReadBlock(p) \/ ReadNumber(p)
  \/ ReduceElement(p) \/ BodyThrows(p) \/ LeaveJob(p)

ShmNext == \E p \in Parts : ShmStep(p)

ShmSpec == ShmInit /\ [][ShmNext]_allShmVars

FairShmSpec == ShmSpec /\ \A p \in Parts : WF_allShmVars(ShmStep(p))

------------------------------------------------------------------------------
(***************************************************************************)
(* Properties                                                              *)
(***************************************************************************)

\* p has come back from a verb of one of the kinds, and not yet called the next.
Completed(p, kinds) ==
  stage[p] = "idle" /\ phase[p] # "unwind" /\ verb[p] > 0 /\ Kind(p) \in kinds

\* alltoallv and alltoallv_resolve deliver each source's block of this verb, the
\* blocks contiguous and in ascending order of their sources (ShmComm.h:33-34);
\* alltoall_counts and alltoallv_resolve give the transpose of the send counts.
\* Both reductions add every partition's value of this verb once, in ascending
\* order, and so give every partition the same bits (ShmComm.h:35).
DeliversInRankOrder ==
  LET ascending(k) == [i \in 1..N |-> <<i - 1, k>>]
  IN  \A p \in Parts :
        /\ Completed(p, {"alltoallv", "resolve"}) =>
             got[p] = FlattenSeq([i \in 1..N |-> Block(verb[p], i - 1, p)])
        /\ Completed(p, {"counts", "resolve"}) =>
             recvCounts[p] = [s \in Parts |-> Row(verb[p], s)[p]]
        /\ Completed(p, {"sum"}) => got[p] = ascending(verb[p])
        /\ Completed(p, {"inplace"}) =>
             \A e \in 0..(VecLen - 1) : vec[p][e] = ascending(verb[p])

\* While a partition reads for a verb nobody has moved on to the next one, where
\* it would overwrite its slot and its buffers (ShmComm.h:176-177).
NobodyOverwritesAReader ==
  \A p, q \in Parts :
    phase[q] = "body" /\ stage[q] \in {"count", "read"} => verb[p] <= verb[q]

\* "The send buffer must stay alive and unmodified until the verb's second
\* barrier: peer partitions read it in place" (Comm.h, AlltoallvArgs).
BuffersOutliveReads == \A p \in Parts : ~dangling[p]

------------------------------------------------------------------------------
(* Why the collectives deliver, as an inductive invariant. *)

\* The place in the verb and the rounds of the barrier go together: two rounds to
\* a verb, the reads between them.
StageInv(p) ==
  /\ returns[p] = CASE stage[p] = "idle"  -> 2 * verb[p]
                    [] stage[p] = "sync1" -> 2 * verb[p] - 2
                    [] OTHER              -> 2 * verb[p] - 1
  /\ stage[p] \in {"idle", "count", "read"} => phase[p] # "round" /\ err[p] # "poisoned"
  /\ phase[p] = "done" /\ err[p] = "none" => stage[p] = "idle"
  /\ stage[p] = "count" => Kind(p) \in {"counts", "resolve"} /\ src[p] \in Parts
  /\ stage[p] = "read" =>
       IF Kind(p) = "inplace" THEN src[p] \in SliceLo(p)..(SliceHi(p) - 1)
       ELSE Kind(p) # "counts" /\ src[p] \in Parts

\* A partition's memory is that of its verb until it leaves the job.
MemoryInv(p) ==
  /\ mem[p] = IF phase[p] = "done" THEN 0 ELSE verb[p]
  /\ verb[p] > 0 => \A f \in Publishes[Kind(p)] : slot[p][f] = verb[p]

\* p's verb can no longer complete: somebody unwound before its second barrier.
Doomed(p) == \E q \in Parts : err[q] # "none" /\ enters[q] < 2 * verb[p]

\* The sources whose counts, or whose payload, p has.
CountsDone(p) ==
  IF Kind(p) = "alltoallv" \/ stage[p] \notin {"sync1", "count"} THEN N
  ELSE IF stage[p] = "count" THEN src[p] ELSE 0
SourcesDone(p) ==
  IF stage[p] \in {"sync1", "count"} THEN 0
  ELSE IF stage[p] = "read" THEN src[p] ELSE N

\* What p has read so far is right, unless its verb fails anyway.
ReadInv(p) ==
  /\ Kind(p) \in {"counts", "alltoallv", "resolve"} =>
       \A s \in Parts : s < CountsDone(p) => recvCounts[p][s] = Row(verb[p], s)[p]
  /\ Kind(p) \in {"alltoallv", "resolve"} =>
       got[p] = FlattenSeq([i \in 1..SourcesDone(p) |-> Block(verb[p], i - 1, p)])
  /\ Kind(p) = "sum" => got[p] = [i \in 1..SourcesDone(p) |-> <<i - 1, verb[p]>>]

\* Element e, in o's slice, of the vectors of verb k has been summed up.
Reduced(o, e, k) ==
  \/ verb[o] > k
  \/ verb[o] = k /\ stage[o] \in {"sync2", "idle"}
  \/ verb[o] = k /\ stage[o] = "read" /\ src[o] > e

VecInv(s) ==
  \A o \in Parts : \A e \in SliceLo(o)..(SliceHi(o) - 1) :
    vec[s][e] = IF Reduced(o, e, verb[s]) THEN [i \in 1..N |-> <<i - 1, verb[s]>>]
                ELSE <<<<s, verb[s]>>>>

ShmInv ==
  /\ ShmTypeOK /\ RoundsInv /\ len = 2 * Len(script)
  /\ \A p \in Parts :
       /\ StageInv(p) /\ MemoryInv(p)
       /\ verb[p] > 0 => Doomed(p) \/ ReadInv(p)
       /\ verb[p] > 0 /\ Kind(p) = "inplace" => VecInv(p)
       /\ dangling[p] => Doomed(p)

\* No partition waits for ever in a collective: the job ends on all of them, with
\* or without an exception.
JobEnds == <>(\A p \in Parts : phase[p] = "done")

==============================================================================
