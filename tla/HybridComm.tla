----------------------------- MODULE HybridComm -----------------------------
(***************************************************************************)
(* mpi::HybridComm: the collectives of R MPI ranks with S partitions each, *)
(* a flat world of R * S partitions numbered rank by rank.  Partition 0 of *)
(* a rank, its lead, is the only one that calls MPI; the others meet it at *)
(* the rank's barrier, which is the one of PartitionRounds.  A verb is a   *)
(* sequence of windows separated by sync(); it has no barrier after its    *)
(* last window, so that a partition may start the next verb while another  *)
(* one still reads what the lead left in the shared fields.  An exception  *)
(* that reaches the lead inside a verb is turned into MPI_Abort.           *)
(*                                                                         *)
(* One action is one window of one partition, with the arrival at the      *)
(* barrier that ends it; where the lead blocks in MPI the window is split. *)
(* Unread MPI messages are in `channel', announced receives in `wants'.  A *)
(* behaviour is one job, run by every rank.                                *)
(***************************************************************************)
EXTENDS Integers, Sequences, FiniteSets, SequencesExt, FiniteSetsExt

CONSTANTS
  R,          \* MPI ranks
  S,          \* partitions per rank
  VecLen,     \* elements of an allreduce_sum_inplace vector
  Line,       \* elements of one cache line (kLine)
  Scripts,    \* the sequences of verbs a job may perform
  MaxSyncs,   \* bound: the largest number of sync() calls of one job
  Breakable,  \* bound: the scripts in which a partition's own work throws ...
  MaxThrows   \* ... and the number of partitions in which it does

ASSUME HybridSizes == {R, S, Line} \subseteq Nat \ {0} /\ {VecLen, MaxThrows} \subseteq Nat

Ranks == 0..(R - 1)
World == 0..(R * S - 1)
RankOf(g) == g \div S
LeadOf(r) == r * S
IsLead(g) == g % S = 0
PartsOf(r) == LeadOf(r)..(LeadOf(r) + S - 1)
Global(r, u) == LeadOf(r) + u
Locals == 0..(S - 1)

\* w[0] + ... + w[n - 1]
SumTo(w, n) == LET sum[i \in 0..n] == IF i = 0 THEN 0 ELSE sum[i - 1] + w[i - 1] IN sum[n]

\* sync() calls of each verb; all verbs are [kind, plan, derive, m], m[s][d]
\* being the number of elements that s sends to d.
Syncs == [counts |-> 2, alltoallv |-> 4, resolve |-> 4, sum |-> 2, inplace |-> 4]
Kinds == DOMAIN Syncs
SyncsUpTo(verbs, k) == SumTo([i \in 0..(Len(verbs) - 1) |-> Syncs[verbs[i + 1].kind]], k)
SyncsOf(verbs) == SyncsUpTo(verbs, Len(verbs))

\* Powers of two, and the exclusive or of ranks from their n lowest binary digits;
\* ranks have no more than R digits.
Pow2[n \in 0..R] == IF n = 0 THEN 1 ELSE 2 * Pow2[n - 1]
LowXor[n \in 0..R] == [a \in Nat |-> [b \in Nat |->
  IF n = 0 THEN 0 ELSE 2 * LowXor[n - 1][a \div 2][b \div 2] + ((a + b) % 2)]]
Xor(a, b) == LowXor[R][a][b]

\* PeerPlan; a sparse one is routable only among a power of two of ranks (require_routable).
Dense == [sparse |-> FALSE, shift |-> 0]
Plans == {plan \in [sparse : BOOLEAN, shift : Nat] :
            plan.sparse => plan.shift < R /\ \E e \in 0..R : R = Pow2[e]}
\* Only alltoallv derives a plan for its payload; its caller asks for that with a dense
\* plan, and only if routes_pairwise() says so: never on one rank, or on no power of two.
Verbs == {v \in [kind : Kinds, plan : Plans, derive : BOOLEAN, m : [World -> [World -> Nat]]] :
            v.derive => v.kind = "alltoallv" /\ v.plan = Dense /\ \E e \in 1..R : R = Pow2[e]}

ASSUME HybridScripts == \A verbs \in Scripts : verbs \in Seq(Verbs) /\ SyncsOf(verbs) <= MaxSyncs
ASSUME HybridBound == MaxSyncs \in Nat

Tags == {"count", "payload"}

VARIABLES
  script,     \* the verbs of the job
  eager,      \* does MPI buffer a send, or hold it until it is received?
  enters, returns, err, phase,   \* the ranks' barriers: see PartitionRounds
  verb,       \* verb[p]: the number of the verb p is in, or last was in
  window,     \* window[p]: the window of that verb p runs next, 0 between verbs
  call,       \* call[r]: the MPI operation the lead of r is blocked in
  row,        \* row[p]: the verb p's rows of counts_matrix_ and rows_ are for
  slot,       \* slot[p]: the verb p's slot was last filled for
  mem,        \* mem[p]: the verb p's own buffers are filled for, 0 if destroyed
  peers,      \* peers_, as a set
  wirePlan,   \* wire_plan_
  packOff,    \* packOff[r][u][g]: pack_off_
  sendSeg,    \* sendSeg[r][b]: displacement and count of the message to rank b
  baseRecv,   \* baseRecv[r][g]: base_recv_
  recvSeg,    \* recvSeg[r][a]: the same for the message from rank a
  stageSend, stageRecv,          \* stage_send_ and stage_recv_
  countsRecv, \* countsRecv[r][a][t][su]: counts_recv_
  red,        \* red[r][e]: red_vec_ as the terms summed; red_f64_ at VecLen
  channel,    \* channel[tag][a][b]: messages from rank a that b has not received
  wants,      \* wants[tag][b][a]: length of the message b's receive awaits, or 0
  colls,      \* colls[r]: what r contributed to each collective on parent_
  recvCounts, got,               \* what the verb gives its caller
  dangling,   \* history: somebody read a buffer that was no longer there
  aborted     \* MPI_Abort was called

rounds == <<enters, returns, err, phase>>
plans == <<peers, wirePlan, packOff, sendSeg, baseRecv, recvSeg>>
stages == <<stageSend, stageRecv, countsRecv, red>>
mpi == <<channel, wants, colls>>
caller == <<row, slot, mem>>
results == <<recvCounts, got>>
job == <<script, eager>>
hybridVars == <<job, rounds, verb, window, call, caller, plans, stages, mpi,
                results, dangling, aborted>>

Kind(p) == script[verb[p]].kind
Plan(p) == script[verb[p]].plan
Counts(g) == script[row[g]].m[g]          \* p's row, as it stands
Block(k, g, d) == [i \in 1..script[k].m[g][d] |-> <<k, g, d, i>>]
PeerRanks(plan, r) == IF plan.sparse THEN {Xor(r, plan.shift)} ELSE Ranks
OfRanks(P) == {g \in World : RankOf(g) \in P}

HybridTypeOK ==
  /\ script \in Scripts /\ eager \in BOOLEAN /\ aborted \in BOOLEAN
  /\ enters \in [World -> 0..MaxSyncs] /\ returns \in [World -> 0..MaxSyncs]
  /\ err \in [World -> {"none", "own", "poisoned", "refused"}]
  /\ phase \in [World -> {"body", "round", "unwind", "done"}]
  /\ verb \in [World -> 0..Len(script)] /\ window \in [World -> 0..4]
  /\ call \in [Ranks -> {"none", "counts", "sized", "payload", "reduce"}]
  /\ \A tag \in Tags, a, b \in Ranks :
       a = b => channel[tag][a][b] = <<>> /\ wants[tag][b][a] = 0
  /\ peers \in [Ranks -> SUBSET Ranks] /\ wirePlan \in [Ranks -> Plans]
  /\ dangling \in BOOLEAN

Empty == [g \in World |-> <<>>]
HybridInit ==
  /\ script \in Scripts /\ eager \in BOOLEAN
  /\ enters = [p \in World |-> 0] /\ returns = [p \in World |-> 0]
  /\ err = [p \in World |-> "none"] /\ phase = [p \in World |-> "body"]
  /\ verb = [p \in World |-> 0] /\ window = [p \in World |-> 0]
  /\ call = [r \in Ranks |-> "none"]
  /\ row = [p \in World |-> 0] /\ slot = row /\ mem = row
  /\ peers = [r \in Ranks |-> {}] /\ wirePlan = [r \in Ranks |-> Dense]
  /\ packOff = [r \in Ranks |-> [u \in Locals |-> [g \in World |-> 0]]]
  /\ sendSeg = [r \in Ranks |-> [b \in Ranks |-> [at |-> 0, n |-> 0]]] /\ recvSeg = sendSeg
  /\ baseRecv = [r \in Ranks |-> [g \in World |-> 0]]
  /\ stageSend = [r \in Ranks |-> <<>>] /\ stageRecv = stageSend
  /\ countsRecv = [r \in Ranks |-> [a \in Ranks |->
                     [t \in Locals |-> [su \in Locals |-> 0]]]]
  /\ red = [r \in Ranks |-> [e \in 0..VecLen |-> <<>>]]
  /\ channel = [tag \in Tags |-> [a \in Ranks |-> [b \in Ranks |-> <<>>]]]
  /\ wants = [tag \in Tags |-> [b \in Ranks |-> [a \in Ranks |-> 0]]]
  /\ colls = [r \in Ranks |-> <<>>]
  /\ recvCounts = [p \in World |-> [g \in World |-> 0]] /\ got = [p \in World |-> Empty]
  /\ dangling = FALSE /\ aborted = FALSE

------------------------------------------------------------------------------
(* sync() and the ends of a window *)

\* Arrive at the barrier, with the next window to run after it.
Sync(p) ==
  /\ enters' = [enters EXCEPT ![p] = @ + 1]
  /\ phase' = [phase EXCEPT ![p] = "round"]
  /\ window' = [window EXCEPT ![p] = @ + 1]
  /\ UNCHANGED <<returns, err>>

InWindow(p, kinds, w) ==
  /\ phase[p] = "body" /\ verb[p] > 0 /\ window[p] = w /\ w > 0
  /\ Kind(p) \in kinds

\* A faulty barrier, which lets a partition go when one is still missing.
ReturnSyncEarly(p) ==
  /\ phase[p] = "round"
  /\ Cardinality({q \in PartsOf(RankOf(p)) : enters[q] < enters[p]}) <= 1
  /\ returns' = [returns EXCEPT ![p] = @ + 1]
  /\ phase' = [phase EXCEPT ![p] = "body"]
  /\ UNCHANGED <<job, enters, err, verb, window, call, caller, plans, stages, mpi,
                 results, dangling, aborted>>

ReturnSync(p) ==
  /\ phase[p] = "round"
  /\ \A q \in PartsOf(RankOf(p)) : enters[q] >= enters[p]
  /\ returns' = [returns EXCEPT ![p] = @ + 1]
  /\ phase' = [phase EXCEPT ![p] = "body"]
  /\ UNCHANGED <<job, enters, err, verb, window, call, caller, plans, stages, mpi,
                 results, dangling, aborted>>

\* abort_rank_: MPI_Abort kills every rank.
Abort(p, why) ==
  /\ aborted' = TRUE
  /\ err' = [err EXCEPT ![p] = why]
  /\ UNCHANGED <<job, enters, returns, phase, verb, window, call, caller, plans, stages, mpi,
                 results, dangling>>

Unwind(p, why) ==
  /\ err' = [err EXCEPT ![p] = why]
  /\ phase' = [phase EXCEPT ![p] = "unwind"]
  /\ UNCHANGED <<job, enters, returns, verb, window, call, caller, plans, stages, mpi,
                 results, dangling, aborted>>

\* A faulty verb without guard_partition0_.
ThrowUnguarded(p, why) == Unwind(p, why)

\* guard_partition0_: an exception inside a verb.
ThrowInVerb(p, why) == IF IsLead(p) THEN Abort(p, why) ELSE Unwind(p, why)

\* sync() throws ShmCommPoisoned.
FailSync(p) ==
  /\ phase[p] = "round"
  /\ \E q \in PartsOf(RankOf(p)) : err[q] # "none" /\ enters[q] < enters[p]
  /\ ThrowInVerb(p, "poisoned")

MayThrow == script \in Breakable /\ Cardinality({q \in World : err[q] = "own"}) < MaxThrows

\* A partition's own work throws between two verbs.
BodyThrows(p) ==
  /\ phase[p] = "body" /\ window[p] = 0 /\ MayThrow
  /\ Unwind(p, "own")

\* Faulty: every partition sizes a part of red_vec_ while its peers read the slices.
SizesBufferLate(p) == InWindow(p, {"resolve"}, 4) \/ InWindow(p, {"inplace"}, 2)

\* Sizing a buffer throws: a staging buffer or red_vec_, which the lead sizes alone,
\* or the receive buffer of alltoallv_resolve, which every partition sizes.  The lead
\* of alltoallv_resolve sizes stage_recv_ when the counts have landed.
SizesBuffer(p) ==
  \/ InWindow(p, {"resolve"}, 4)
  \/ IsLead(p) /\ InWindow(p, {"alltoallv", "resolve", "inplace"}, 1)
  \/ IsLead(p) /\ InWindow(p, {"resolve"}, 3) /\ call[RankOf(p)] = "sized"

ResizeThrows(p) ==
  /\ SizesBuffer(p) /\ MayThrow
  /\ ThrowInVerb(p, "own")

LeaveJob(p) ==
  /\ \/ phase[p] = "unwind"
     \/ phase[p] = "body" /\ window[p] = 0 /\ verb[p] = Len(script)
  /\ phase' = [phase EXCEPT ![p] = "done"]
  /\ mem' = [mem EXCEPT ![p] = 0]
  /\ UNCHANGED <<job, enters, returns, err, verb, window, call, row, slot, plans, stages,
                 mpi, results, dangling, aborted>>

------------------------------------------------------------------------------
(* The first window: publish, and reuse the buffers of the previous verb *)

Begin(p) ==
  /\ phase[p] = "body" /\ window[p] = 0 /\ verb[p] < Len(script)
  /\ LET k == verb[p] + 1
         kind == script[k].kind
     IN  /\ verb' = [verb EXCEPT ![p] = k]
         /\ mem' = [mem EXCEPT ![p] = k]
         /\ row' = IF kind \in {"counts", "alltoallv", "resolve"} THEN [row EXCEPT ![p] = k] ELSE row
         /\ slot' = IF kind # "counts" THEN [slot EXCEPT ![p] = k] ELSE slot
         /\ recvCounts' = [recvCounts EXCEPT ![p] = [g \in World |->
                             IF kind = "alltoallv" THEN script[k].m[g][p] ELSE 0]]
  /\ got' = [got EXCEPT ![p] = Empty]
  /\ Sync(p)
  /\ UNCHANGED <<job, call, plans, stages, mpi, dangling, aborted>>

------------------------------------------------------------------------------
(* The windows in which the lead prepares the exchange *)

\* require_plan_covers_traffic_: does the plan reach every rank that the rank's
\* count rows, as they stand, send to?
Reached(r) == {a \in Ranks : \E q \in PartsOf(r), g \in PartsOf(a) : Counts(q)[g] # 0}
\* Faulty checks: none, and one that refuses a rank with nothing to send.
CoversAnything(r, plan) == TRUE
CoversExactly(r, plan) == plan.sparse => Reached(r) = PeerRanks(plan, r)

Covers(r, plan) == plan.sparse => Reached(r) \subseteq PeerRanks(plan, r)

Heard(r) == {a \in Ranks : \E q \in PartsOf(r), g \in PartsOf(a) : script[row[q]].m[g][q] # 0}

\* derived_wire_plan_: the one peer that the rank's rows send to and receive
\* from, every rank if that is not one peer, the rank itself if there is none.
DerivedPlan(r) ==
  LET sides == {Reached(r), Heard(r)} \ {{}}
  IN  IF sides = {} THEN [sparse |-> TRUE, shift |-> 0]
      ELSE IF \E a \in Ranks : sides = {{a}}
           THEN [sparse |-> TRUE, shift |-> Xor(r, CHOOSE a \in Ranks : sides = {{a}})]
           ELSE Dense

Grow(stage, n) == stage \o [i \in 1..(IF n > Len(stage) THEN n - Len(stage) ELSE 0) |-> <<>>]

\* A staging buffer laid out by destination (or source) partition over the
\* ranks P: where the region of g starts, and the segment of each rank.
Start(P, col, g) == SumTo([h \in World |-> IF RankOf(h) \in P THEN col[h] ELSE 0], g)
Segment(P, col) ==
  [b \in Ranks |-> IF b \in P THEN [at |-> Start(P, col, LeadOf(b)),
                                   n |-> SumTo([t \in Locals |-> col[Global(b, t)]], S)]
                              ELSE [at |-> 0, n |-> 0]]

\* size_staging_send_: pack_off_ adds the part of the earlier source partitions.
SizeStagingSend(r, P) ==
  LET earlier(u, g) == SumTo([su \in Locals |-> Counts(Global(r, su))[g]], u)
      col == [g \in World |-> earlier(S, g)]
  IN  /\ packOff' = [packOff EXCEPT ![r] = [u \in Locals |-> [g \in World |->
                       IF RankOf(g) \in P THEN Start(P, col, g) + earlier(u, g) ELSE @[u][g]]]]
      /\ sendSeg' = [sendSeg EXCEPT ![r] = Segment(P, col)]
      /\ stageSend' = [stageSend EXCEPT ![r] = Grow(@, Start(P, col, R * S))]

\* size_staging_recv_, col[h] being what partition h % S of r gets from h's rank.
SizeStagingRecv(r, P, col) ==
  /\ baseRecv' = [baseRecv EXCEPT ![r] = [h \in World |->
                    IF RankOf(h) \in P THEN Start(P, col, h) ELSE @[h]]]
  /\ recvSeg' = [recvSeg EXCEPT ![r] = Segment(P, col)]
  /\ stageRecv' = [stageRecv EXCEPT ![r] = Grow(@, Start(P, col, R * S))]

\* stage with each block d of D written behind position at[d].
Overlay(stage, D, at, block) ==
  [i \in 1..Len(stage) |->
     IF \E d \in D : i - at[d] \in 1..Len(block[d])
     THEN LET d == CHOOSE d \in D : i - at[d] \in 1..Len(block[d]) IN block[d][i - at[d]]
     ELSE stage[i]]

------------------------------------------------------------------------------
(* MPI, as HybridComm and sparse_pairwise use it *)

\* Faulty: the self leg goes through MPI.
PostToSelf(tag, r, P, data, sends, expects) ==
  /\ channel' = [channel EXCEPT ![tag][r] = [b \in Ranks |->
                   IF b \in P /\ sends[b] # 0 THEN Append(@[b], data[b]) ELSE @[b]]]
  /\ wants' = [wants EXCEPT ![tag][r] = [a \in Ranks |-> IF a \in P THEN expects[a] ELSE 0]]

\* sparse_pairwise: receives and sends for the non-empty legs.
Post(tag, r, P, data, sends, expects) ==
  /\ channel' = [channel EXCEPT ![tag][r] = [b \in Ranks |->
                   IF b \in P \ {r} /\ sends[b] # 0 THEN Append(@[b], data[b]) ELSE @[b]]]
  /\ wants' = [wants EXCEPT ![tag][r] = [a \in Ranks |-> IF a \in P \ {r} THEN expects[a] ELSE 0]]

\* MPI_Waitall: every awaited message is there and, if MPI does not buffer, every
\* message sent is being received.
Awaited(tag, r) == {a \in Ranks : wants[tag][r][a] # 0}
Landed(tag, r) ==
  /\ \A a \in Awaited(tag, r) : channel[tag][a][r] # <<>>
  /\ eager \/ \A b \in Ranks : channel[tag][r][b] # <<>> => wants[tag][b][r] # 0

Message(tag, a, r) == Head(channel[tag][a][r])
Receive(tag, r) ==
  /\ channel' = [channel EXCEPT ![tag] = [a \in Ranks |->
                   IF a \in Awaited(tag, r) THEN [channel[tag][a] EXCEPT ![r] = Tail(@)]
                   ELSE channel[tag][a]]]
  /\ wants' = [wants EXCEPT ![tag][r] = [a \in Ranks |-> 0]]

\* A collective on parent_ ends when every rank has called it.
Collective(r, op, data) ==
  colls' = [colls EXCEPT ![r] = Append(@, [op |-> op, data |-> data])]
Everybody(r) == \A b \in Ranks : Len(colls[b]) >= Len(colls[r])
From(a, r) == colls[a][Len(colls[r])].data

------------------------------------------------------------------------------
(* The count round: alltoall_counts and alltoallv_resolve *)

\* pack_count_matrix_: the block for rank b, by its partition t and ours.
CountBlock(r, b) ==
  [t \in Locals |-> [su \in Locals |-> Counts(Global(r, su))[Global(b, t)]]]

PostCounts(p) ==
  /\ InWindow(p, {"counts", "resolve"}, 1) /\ IsLead(p)
  /\ LET r == RankOf(p)
         P == PeerRanks(Plan(p), r)
         whole == [b \in Ranks |-> S * S]
     IN  /\ call[r] = "none" /\ Covers(r, Plan(p))
         /\ peers' = [peers EXCEPT ![r] = P]
         /\ IF Plan(p).sparse
            THEN /\ Post("count", r, P, [b \in Ranks |-> CountBlock(r, b)], whole, whole)
                 /\ countsRecv' = IF r \in P THEN [countsRecv EXCEPT ![r][r] = CountBlock(r, r)]
                                             ELSE countsRecv
                 /\ UNCHANGED colls
            ELSE /\ Collective(r, "alltoall", [b \in Ranks |-> CountBlock(r, b)])
                 /\ UNCHANGED <<channel, wants, countsRecv>>
         /\ call' = [call EXCEPT ![r] = "counts"]
  /\ UNCHANGED <<job, rounds, verb, window, caller, wirePlan, packOff, sendSeg, baseRecv,
                 recvSeg, stageSend, stageRecv, red, results, dangling, aborted>>

\* A faulty wait: the request count is reset, but nobody waited.
LandNoCounts(r) == UNCHANGED <<channel, wants, countsRecv>>

\* wait_count_blocks_
LandCounts(r) ==
  /\ Landed("count", r) /\ Receive("count", r)
  /\ countsRecv' = [countsRecv EXCEPT ![r] = [a \in Ranks |->
                      IF a \in Awaited("count", r) THEN Message("count", a, r) ELSE @[a]]]

\* The end of that window.  MPI_Alltoall blocks in it; the pairwise round of
\* alltoallv_resolve goes on during the packing.
EndCountWindow(p) ==
  /\ InWindow(p, {"counts", "resolve"}, 1) /\ IsLead(p)
  /\ LET r == RankOf(p)
     IN  /\ call[r] = "counts"
         /\ CASE ~Plan(p).sparse ->
                   /\ Everybody(r)
                   /\ countsRecv' = [countsRecv EXCEPT ![r] = [a \in Ranks |-> From(a, r)[r]]]
                   /\ UNCHANGED <<channel, wants>>
              [] Plan(p).sparse /\ Kind(p) = "counts" -> LandCounts(r)
              [] OTHER -> UNCHANGED <<channel, wants, countsRecv>>
         /\ IF Kind(p) = "resolve" THEN SizeStagingSend(r, peers[r])
                                   ELSE UNCHANGED <<packOff, sendSeg, stageSend>>
         /\ call' = [call EXCEPT ![r] = "none"]
  /\ Sync(p)
  /\ UNCHANGED <<job, verb, caller, peers, wirePlan, baseRecv, recvSeg, stageRecv, red, colls,
                 results, dangling, aborted>>

\* An agreed plan that excludes a destination is refused before anything is sent.
RefusePlan(p) ==
  /\ InWindow(p, {"counts", "alltoallv", "resolve"}, 1) /\ IsLead(p)
  /\ call[RankOf(p)] = "none"
  /\ ~script[verb[p]].derive /\ ~Covers(RankOf(p), Plan(p))
  /\ Abort(p, "refused")

------------------------------------------------------------------------------
(* The payload: alltoallv and alltoallv_resolve *)

\* alltoallv, B1 to B2: the receive counts are published with the send counts.
PlanPayload(p) ==
  /\ InWindow(p, {"alltoallv"}, 1) /\ IsLead(p)
  /\ LET r == RankOf(p)
         derive == script[verb[p]].derive
         published == [h \in World |-> LET q == Global(r, h % S)
                       IN  SumTo([su \in Locals |-> script[row[q]].m[Global(RankOf(h), su)][q]], S)]
     IN  /\ derive \/ Covers(r, Plan(p))
         /\ wirePlan' = [wirePlan EXCEPT ![r] = IF derive THEN DerivedPlan(r) ELSE Plan(p)]
         /\ peers' = [peers EXCEPT ![r] = PeerRanks(wirePlan'[r], r)]
         /\ SizeStagingSend(r, peers'[r])
         /\ SizeStagingRecv(r, peers'[r], published)
  /\ Sync(p)
  /\ UNCHANGED <<job, verb, call, caller, countsRecv, red, mpi, results, dangling, aborted>>

\* pack_send_, B2 to B3: every partition copies its blocks into the staging.
PackSend(p) ==
  /\ InWindow(p, {"alltoallv", "resolve"}, 2)
  /\ LET r == RankOf(p)
         blocks == [d \in World |-> SubSeq(Block(slot[p], p, d), 1, Counts(p)[d])]
     IN  stageSend' = [stageSend EXCEPT ![r] =
           Overlay(@, OfRanks(peers[r]), packOff[r][p - LeadOf(r)], blocks)]
  /\ Sync(p)
  /\ UNCHANGED <<job, verb, call, caller, plans, stageRecv, countsRecv, red, mpi, results,
                 dangling, aborted>>

\* alltoallv_resolve, B3 to B4: the counts land and size the receive side.
SizeFromCounts(p) ==
  /\ InWindow(p, {"resolve"}, 3) /\ IsLead(p)
  /\ LET r == RankOf(p)
         blockSum == [h \in World |->
                       SumTo([su \in Locals |-> countsRecv'[r][RankOf(h)][h % S][su]], S)]
     IN  /\ call[r] = "none"
         /\ LandCounts(r)
         /\ SizeStagingRecv(r, peers[r], blockSum)
         /\ call' = [call EXCEPT ![r] = "sized"]
  /\ UNCHANGED <<job, rounds, verb, window, caller, peers, wirePlan, packOff, sendSeg, stageSend,
                 red, colls, results, dangling, aborted>>

\* exchange_payload_: pairwise or one MPI_Alltoallv.
PayloadPlan(p) == IF Kind(p) = "alltoallv" THEN wirePlan[RankOf(p)] ELSE Plan(p)
Pairwise(p) == script[verb[p]].derive \/ PayloadPlan(p).sparse
Outgoing(r) == [b \in Ranks |->
  SubSeq(stageSend[r], sendSeg[r][b].at + 1, sendSeg[r][b].at + sendSeg[r][b].n)]
\* The runs of the ranks A land in the staging, each in the segment of its source.
StageRuns(r, A, runs) == stageRecv' =
  [stageRecv EXCEPT ![r] = Overlay(@, A, [a \in Ranks |-> recvSeg[r][a].at], runs)]

PostPayload(p) ==
  /\ InWindow(p, {"alltoallv", "resolve"}, 3) /\ IsLead(p)
  /\ LET r == RankOf(p)
         P == PeerRanks(PayloadPlan(p), r)
     IN  /\ call[r] = IF Kind(p) = "resolve" THEN "sized" ELSE "none"
         /\ IF Pairwise(p)
            THEN /\ Post("payload", r, P, Outgoing(r),
                         [b \in Ranks |-> sendSeg[r][b].n], [a \in Ranks |-> recvSeg[r][a].n])
                 /\ StageRuns(r, P \cap {r}, Outgoing(r))
                 /\ UNCHANGED colls
            ELSE /\ Collective(r, "alltoallv", Outgoing(r))
                 /\ UNCHANGED <<channel, wants, stageRecv>>
         /\ call' = [call EXCEPT ![r] = "payload"]
  /\ UNCHANGED <<job, rounds, verb, window, caller, plans, stageSend, countsRecv, red,
                 results, dangling, aborted>>

LandPayload(p) ==
  /\ InWindow(p, {"alltoallv", "resolve"}, 3) /\ IsLead(p)
  /\ LET r == RankOf(p)
     IN  /\ call[r] = "payload"
         /\ IF Pairwise(p)
            THEN /\ Landed("payload", r) /\ Receive("payload", r)
                 /\ StageRuns(r, Awaited("payload", r), [a \in Ranks |-> Message("payload", a, r)])
            ELSE /\ Everybody(r)
                 /\ StageRuns(r, Ranks, [a \in Ranks |-> From(a, r)[r]])
                 /\ UNCHANGED <<channel, wants>>
         /\ call' = [call EXCEPT ![r] = "none"]
  /\ Sync(p)
  /\ UNCHANGED <<job, verb, caller, plans, stageSend, countsRecv, red, colls, results,
                 dangling, aborted>>

------------------------------------------------------------------------------
(* The reductions *)

\* The lead adds its partitions' numbers, or has their slices, and joins in.
PostReduce(p) ==
  /\ InWindow(p, {"sum"}, 1) \/ InWindow(p, {"inplace"}, 3)
  /\ IsLead(p)
  /\ LET r == RankOf(p)
         local == [u \in 1..S |-> <<Global(r, u - 1), slot[Global(r, u - 1)]>>]
     IN  /\ call[r] = "none"
         /\ Collective(r, Kind(p), IF Kind(p) = "sum" THEN [e \in {VecLen} |-> local]
                                   ELSE [e \in 0..(VecLen - 1) |-> red[r][e]])
         /\ call' = [call EXCEPT ![r] = "reduce"]
  /\ UNCHANGED <<job, rounds, verb, window, caller, plans, stages, channel, wants, results,
                 dangling, aborted>>

LandReduce(p) ==
  /\ InWindow(p, {"sum"}, 1) \/ InWindow(p, {"inplace"}, 3)
  /\ IsLead(p)
  /\ LET r == RankOf(p)
     IN  /\ call[r] = "reduce" /\ Everybody(r)
         /\ red' = [red EXCEPT ![r] = [e \in DOMAIN @ |->
                      IF e \in DOMAIN From(r, r)
                      THEN FlattenSeq([i \in 1..R |-> From(i - 1, r)[e]]) ELSE @[e]]]
         /\ call' = [call EXCEPT ![r] = "none"]
  /\ Sync(p)
  /\ UNCHANGED <<job, verb, caller, plans, stageSend, stageRecv, countsRecv, mpi, results,
                 dangling, aborted>>

\* allreduce_sum_inplace, B2 to B3: a slice of whole cache lines, read from the
\* vectors of all partitions of the rank.
SliceSize == LET lines == (VecLen + Line - 1) \div Line IN ((lines + S - 1) \div S) * Line

ReduceSlice(p) ==
  /\ InWindow(p, {"inplace"}, 2)
  /\ LET r == RankOf(p)
         lo == (p - LeadOf(r)) * SliceSize
         slice == {e \in 0..(VecLen - 1) : lo <= e /\ e < lo + SliceSize}
     IN  /\ red' = [red EXCEPT ![r] = [e \in DOMAIN @ |->
                      IF e \in slice THEN [u \in 1..S |-> <<Global(r, u - 1), slot[Global(r, u - 1)]>>]
                      ELSE @[e]]]
         /\ dangling' = (dangling \/ (slice # {} /\ \E q \in PartsOf(r) : mem[q] # verb[p]))
  /\ Sync(p)
  /\ UNCHANGED <<job, verb, call, caller, plans, stageSend, stageRecv, countsRecv, mpi, results,
                 aborted>>

------------------------------------------------------------------------------
(* The windows of a partition that is not the lead, and the last ones *)

\* The lead works alone while the others wait; sizing red_vec_ leaves no trace.
Pass(p) ==
  /\ \/ InWindow(p, {"inplace"}, 1)
     \/ ~IsLead(p) /\ (InWindow(p, Kinds, 1) \/ InWindow(p, {"alltoallv", "resolve", "inplace"}, 3))
  /\ Sync(p)
  /\ UNCHANGED <<job, verb, call, caller, plans, stages, mpi, results, dangling, aborted>>

\* The counts for p, as the extraction after the last barrier finds them.
Extracted(p) ==
  LET r == RankOf(p)
  IN  [g \in World |-> IF RankOf(g) \in peers[r]
                       THEN countsRecv[r][RankOf(g)][p - LeadOf(r)][g % S] ELSE 0]

\* scatter_recv_: the run of each source, the runs of a rank one after the other.
Scattered(p, n) ==
  LET r == RankOf(p)
      base(g) == baseRecv[r][LeadOf(RankOf(g)) + p - LeadOf(r)]
      cur(g) == base(g) + SumTo([su \in Locals |-> n[Global(RankOf(g), su)]], g % S)
  IN  [g \in World |-> IF RankOf(g) \in peers[r]
                       THEN SubSeq(stageRecv[r], cur(g) + 1, cur(g) + n[g]) ELSE <<>>]

Finish(p) ==
  /\ InWindow(p, {"counts", "alltoallv", "resolve", "sum", "inplace"}, Syncs[Kind(p)])
  /\ LET n == IF Kind(p) = "alltoallv" THEN recvCounts[p] ELSE Extracted(p)
     IN  CASE Kind(p) = "counts" ->
                recvCounts' = [recvCounts EXCEPT ![p] = n] /\ UNCHANGED got
           [] Kind(p) \in {"alltoallv", "resolve"} ->
                /\ recvCounts' = [recvCounts EXCEPT ![p] = n]
                /\ got' = [got EXCEPT ![p] = Scattered(p, n)]
           [] OTHER ->
                /\ got' = [got EXCEPT ![p] =
                     [e \in IF Kind(p) = "sum" THEN {VecLen} ELSE 0..(VecLen - 1) |-> red[RankOf(p)][e]]]
                /\ UNCHANGED recvCounts
  /\ window' = [window EXCEPT ![p] = 0]
  /\ UNCHANGED <<job, rounds, verb, call, caller, plans, stages, mpi, dangling, aborted>>

HybridStep(p) ==
  \/ Begin(p) \/ ReturnSync(p) \/ FailSync(p) \/ Pass(p) \/ Finish(p)
  \/ PostCounts(p) \/ EndCountWindow(p) \/ RefusePlan(p)
  \/ PlanPayload(p) \/ PackSend(p) \/ SizeFromCounts(p) \/ PostPayload(p) \/ LandPayload(p)
  \/ PostReduce(p) \/ LandReduce(p) \/ ReduceSlice(p)
  \/ BodyThrows(p) \/ ResizeThrows(p) \/ LeaveJob(p)

HybridNext == ~aborted /\ \E p \in World : HybridStep(p)

HybridSpec == HybridInit /\ [][HybridNext]_hybridVars

\* Threads are scheduled and MPI makes progress.  A job has no loops, so that it is
\* enough that something happens as long as anything can.
FairHybridSpec == HybridSpec /\ WF_hybridVars(HybridNext)

------------------------------------------------------------------------------
(***************************************************************************)
(* Properties                                                              *)
(***************************************************************************)

Completed(p, kinds) ==
  window[p] = 0 /\ phase[p] # "unwind" /\ verb[p] > 0 /\ Kind(p) \in kinds

\* The agreed plan of verb k leaves out traffic of rank r, and the lead of r has
\* not come to the check that refuses it.
LeavesOut(k, r) ==
  /\ script[k].kind \in {"counts", "alltoallv", "resolve"}
  /\ ~script[k].derive /\ script[k].plan.sparse
  /\ \E q \in PartsOf(r), g \in World :
       script[k].m[q][g] # 0 /\ RankOf(g) \notin PeerRanks(script[k].plan, r)
Unrefused(k, r) == LeavesOut(k, r) /\ enters[LeadOf(r)] <= SyncsUpTo(script, k - 1) + 1

\* alltoallv and alltoallv_resolve deliver every block of this verb, from every
\* source partition of every rank, whatever plan the ranks agreed on or derived
\* (HybridComm.h:40-44, 508-509, 560-562); alltoall_counts and alltoallv_resolve
\* give the transpose of the send counts.  Only what comes from a rank whose lead is
\* yet to refuse the plan may be missing: the call returns on the ranks that the
\* plan serves before MPI_Abort ends the job.  The reductions add this verb's number
\* of every partition of every rank, once and in ascending order (HybridComm.h:43-44).
DeliversInWorldOrder ==
  \A p \in World :
    /\ Completed(p, {"alltoallv", "resolve"}) =>
         \A g \in World : got[p][g] = Block(verb[p], g, p) \/ Unrefused(verb[p], RankOf(g))
    /\ Completed(p, {"counts", "resolve"}) =>
         \A g \in World : recvCounts[p][g] = script[verb[p]].m[g][p] \/ Unrefused(verb[p], RankOf(g))
    /\ Completed(p, {"sum", "inplace"}) =>
         \A e \in DOMAIN got[p] : got[p][e] = [i \in 1..(R * S) |-> <<i - 1, verb[p]>>]

\* The ranks agree on what they do on parent_: a message has the length that its
\* receiver expects, they call the same collectives in the same order, and when a
\* job has ended on every rank no message is left behind for the next one.
RanksAgree ==
  /\ \A a, b \in Ranks :
       wants["payload"][b][a] # 0 /\ channel["payload"][a][b] # <<>> =>
         Len(Message("payload", a, b)) = wants["payload"][b][a]
  /\ \A a, b \in Ranks : \A i \in DOMAIN colls[a] \cap DOMAIN colls[b] :
       colls[a][i].op = colls[b][i].op
  /\ (\A p \in World : phase[p] = "done" /\ err[p] = "none") =>
       \A tag \in Tags, a, b \in Ranks : channel[tag][a][b] = <<>> /\ wants[tag][b][a] = 0

\* The peers whose vectors are read in place do not move on or unwind before that
\* (HybridComm has no verb that lets them, unlike ShmComm).
InputsOutliveReads == ~dangling

\* MPI_Abort is for a collective that cannot complete: no rank aborts a job in
\* which nothing went wrong (PartitionBarrier.h:46-49, HybridComm.h:180-183).
Uncovered == \E k \in DOMAIN script, r \in Ranks : LeavesOut(k, r)
AbortsOnlyOnFailure == aborted => Uncovered \/ \E p \in World : err[p] = "own"

\* No rank is left waiting in MPI or at its barrier, except by a lead that fails
\* between two verbs (HybridComm.h:180-183, PartitionGroup.h:112-114).
LeadFailedOutside == ~aborted /\ \E r \in Ranks : err[LeadOf(r)] = "own"
EndsOrAborts == <>(aborted \/ LeadFailedOutside \/ \A p \in World : phase[p] = "done")

\* The barrier of each rank is that of PartitionRounds.
Barrier(r) == INSTANCE PartitionRounds WITH
  Parts <- PartsOf(r), MaxSyncs <- MaxSyncs, len <- SyncsOf(script),
  enters <- [p \in PartsOf(r) |-> enters[p]], returns <- [p \in PartsOf(r) |-> returns[p]],
  err <- [p \in PartsOf(r) |-> err[p]], phase <- [p \in PartsOf(r) |-> phase[p]]
UsesPartitionRounds ==
  [][\A r \in Ranks : aborted' \/ Barrier(r)!Next \/ UNCHANGED Barrier(r)!roundVars]_rounds

==============================================================================
