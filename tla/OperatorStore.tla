--------------------------- MODULE OperatorStore ---------------------------
(***************************************************************************)
(* The operator of one slot (src/cpp/monoprop/detail/operator/): packed    *)
(* rows with a spill map and an open-addressing table over them            *)
(* (OperatorIndex), the transposed index in two tiers (InvertedIndex), and *)
(* the vectors that are extended only when somebody asks (MPOperator).     *)
(* One thread owns all of it; what is hard is the long sequence of calls.  *)
(*                                                                         *)
(* Rows, table slots and words count from 0 as in the code; a sequence     *)
(* holds element i at i + 1.  A word is the set of its bits.               *)
(***************************************************************************)
EXTENDS Rotation

CONSTANTS
  Setups, Dicts, Drift,  \* see TermStore
  Hash32,                \* fold_hash: 32 bits of the hash of a monomial
  Spread,                \* spread: where a hash starts to probe
  MinSlots,              \* 16 in the code, a power of two
  InlineWidth,           \* positions a row holds before it spills
  IndexCeiling,          \* 2^32 - 1 in the code
  WordBits,              \* 64
  PromoteDensityInv,     \* 64
  BlockWords,            \* 1024
  Batches,               \* queries that arrive together, sequences of distinct monomials
  Generators,            \* the generators whose columns are folded
  MaxDrift               \* bound on the contractions of a run

ASSUME StoreAssumption ==
  /\ Hash32 \in [Monomials -> Nat]
  /\ \A M \in Monomials : Spread[Hash32[M]] \in Nat
  /\ MinSlots \in Nat /\ \E e \in 1 .. MinSlots : MinSlots = 2 ^ e
  /\ {InlineWidth, IndexCeiling, WordBits, PromoteDensityInv, BlockWords} \subseteq Nat \ {0}
  /\ \A b \in Batches : b \in Seq(Monomials) /\ IsInjective(b)
  /\ Generators \subseteq Monomials
  /\ \A dict \in Dicts : DOMAIN dict \subseteq Monomials
  /\ \A s \in Setups :
       LET term == [i \in DOMAIN s.initial_operator |-> s.initial_operator[i].term]
       IN  /\ s \in [basis : Bases, schrodinger : BOOLEAN, max_pairs : Nat, initial_state : SUBSET ModeIds,
                   initial_operator : Seq([term : Monomials, coeff : Int])]
           /\ term \in Seq(Monomials) /\ IsInjective(term)

VARIABLES
  setup,     \* what the propagator was constructed with
  rows,      \* rows_: a count and positions per row
  overflow,  \* overflow_: the monomials of the spilled rows
  table,     \* table_
  index,     \* inverted_index_
  coeffs,    \* op_coeffs; may be shorter than rows
  pending,   \* init_op_map: coefficients of terms that had no row when they were given
  scored,    \* state_rows_, state_vals_ and state_scored_rows_
  dense,     \* state_coeffs; may be shorter than rows
  scratch,   \* fold_zero_scratch: all zero between uses
  drifts     \* contractions so far

vars == <<setup, rows, overflow, table, index, coeffs, pending, scored, dense, scratch, drifts>>

Size == Len(rows)
Ceil(n, d) == (n + d - 1) \div d

-----------------------------------------------------------------------------
(* Rows.                                                                   *)

Spilled == InlineWidth + 1    \* kOverflowMarker: no count

Ascended(numbers) == InOrder(numbers, {pair \in numbers \X numbers : pair[1] < pair[2]})
Positions(M) == Ascended(M)

\* set_positions, and set: a row, and the spill map after the terms from row base on are set; a stale
\* entry of a row that does not spill is dropped.
PackedRow(pos) ==
  IF Len(pos) > InlineWidth THEN [count |-> Spilled, pos |-> <<>>] ELSE [count |-> Len(pos), pos |-> pos]

SpillMap(spilled, base, terms) ==
  LET here(i) == i \in base .. (base + Len(terms)) - 1
      term(i) == terms[(i - base) + 1]
      kept == {i \in DOMAIN spilled : ~here(i)}
      new == {i \in base .. (base + Len(terms)) - 1 : Cardinality(term(i)) > InlineWidth}
  IN  [i \in kept \cup new |-> IF here(i) THEN term(i) ELSE spilled[i]]

\* row() and for_each_position()
row(i) == IF rows[i + 1].count = Spilled THEN overflow[i] ELSE ToSet(rows[i + 1].pos)

row_eq_key(i, M) ==
  LET r == rows[i + 1] IN
  IF r.count = Spilled THEN overflow[i] = M
  ELSE Cardinality(M) = r.count /\ ToSet(r.pos) \subseteq M

row_eq_positions(i, pos) ==
  IF rows[i + 1].count = Spilled THEN overflow[i] = ToSet(pos) ELSE rows[i + 1].pos = pos

\* An append that would reach the ceiling throws before anything grows.
check_append_fits(base, n) == n <= IndexCeiling - base

-----------------------------------------------------------------------------
(* The table: keyless, linear probing, at most 7/10 full.                  *)

kEmptySlot == IndexCeiling
kNotFound == IndexCeiling + 1

EmptyTable(cap) == [slots |-> [s \in 1 .. cap |-> [idx |-> kEmptySlot, h |-> 0]], count |-> 0]
Capacity(t) == Len(t.slots)
Probe(t, h, n) == ((Spread[h] + n) % Capacity(t)) + 1

\* How many slots a probe for h passes before it meets an empty one.
EntryAt(t, h, n) == t.slots[Probe(t, h, n)]
ChainLength(t, h) ==
  Min({n \in 0 .. Capacity(t) - 1 : EntryAt(t, h, n).idx = kEmptySlot} \cup {Capacity(t)})

PutInChain(t, idx, h) ==
  [slots |-> [t.slots EXCEPT ![Probe(t, h, ChainLength(t, h))] = [idx |-> idx, h |-> h]],
   count |-> t.count + 1]

\* The old slots in their order, each at the end of its new chain.
rehash_to(t, cap) ==
  IF cap <= Capacity(t) THEN t
  ELSE LET moved[s \in 0 .. Capacity(t)] ==
             IF s = 0 THEN EmptyTable(cap)
             ELSE IF t.slots[s].idx = kEmptySlot THEN moved[s - 1]
             ELSE PutInChain(moved[s - 1], t.slots[s].idx, t.slots[s].h)
       IN  moved[Capacity(t)]

rehash_when_full(t) == IF t.count = Capacity(t) THEN rehash_to(t, 2 * Capacity(t)) ELSE t

rehash_if_needed(t) ==
  IF (t.count + 1) * 10 >= Capacity(t) * 7 THEN rehash_to(t, 2 * Capacity(t)) ELSE t

insert_slot(t, idx, h) == PutInChain(rehash_if_needed(t), idx, h)

bit_ceil(n) == Min({2 ^ e : e \in {x \in 0 .. n : 2 ^ x >= n}})
slots_for(n) == bit_ceil(IF MinSlots > (n * 10) \div 7 + 1 THEN MinSlots ELSE (n * 10) \div 7 + 1)
reserve_index(t, n) == rehash_to(t, slots_for(n + 1))

\* The entries of a sequence of slots, in their order.
InsertAll(t, entries) ==
  LET inserted[k \in 0 .. Len(entries)] ==
        IF k = 0 THEN t
        ELSE IF entries[k].idx = kEmptySlot THEN inserted[k - 1]
        ELSE insert_slot(inserted[k - 1], entries[k].idx, entries[k].h)
  IN  inserted[Len(entries)]

bulk_insert_hashed(t, base, hashes) ==
  InsertAll(t, [k \in DOMAIN hashes |-> [idx |-> base + k - 1, h |-> hashes[k]]])

\* The steps of a probe at which a slot has the hash, before the chain ends.
Hits(h) == {n \in 0 .. ChainLength(table, h) - 1 : EntryAt(table, h, n).h = h}

FirstOf(h, hits) == IF hits = {} THEN kNotFound ELSE EntryAt(table, h, Min(hits)).idx

find(M) ==
  LET h == Hash32[M] IN FirstOf(h, {n \in Hits(h) : row_eq_key(EntryAt(table, h, n).idx, M)})

find_positions(h, pos) ==
  FirstOf(h, {n \in Hits(h) : row_eq_positions(EntryAt(table, h, n).idx, pos)})

\* probe_hash_match_: the first slot with the hash, whatever its row.
Candidate(h) == FirstOf(h, Hits(h))

find_batch_positionsTrustsHash(pos) == Candidate(Hash32[ToSet(pos)])

\* One query of find_batch_positions; a collision walks the chain again.
find_batch_positions(pos) ==
  LET h == Hash32[ToSet(pos)]
      cand == Candidate(h)
  IN  IF cand = kNotFound THEN kNotFound
      ELSE IF row_eq_positions(cand, pos) THEN cand ELSE find_positions(h, pos)

find_batch(M) ==
  LET cand == Candidate(Hash32[M])
  IN  IF cand = kNotFound THEN kNotFound ELSE IF row_eq_key(cand, M) THEN cand ELSE find(M)

-----------------------------------------------------------------------------
(* The inverted index: a column per bit, as words or as a list of rows.    *)

words(n) == Ceil(n, WordBits)
Word(set, w) == {r % WordBits : r \in {x \in set : x \div WordBits = w}}
Bitmap(set, height) == [w \in 1 .. height |-> Word(set, w - 1)]
BitmapRows(bitmap) == UNION {{(w - 1) * WordBits + b : b \in bitmap[w]} : w \in DOMAIN bitmap}
Merged(a, b) == [w \in DOMAIN a |-> a[w] \cup b[w]]

\* Grown bitmaps read as zero.
Resized(bitmap, height) ==
  [w \in 1 .. (IF height > Len(bitmap) THEN height ELSE Len(bitmap)) |->
     IF w <= Len(bitmap) THEN bitmap[w] ELSE {}]

SparseColumn == [dense |-> FALSE, words |-> <<>>, set_rows |-> <<>>]

promote_to_dense(col, n) == [dense |-> TRUE, words |-> Bitmap(ToSet(col.set_rows), words(n)), set_rows |-> <<>>]

IsDenseEnough(count, n) == count * PromoteDensityInv >= n

\* The rows base .. base + Len(new) - 1 of new terms that touch bit c, ascending.
Touching(new, base, c) ==
  Ascended({(base + k) - 1 : k \in {n \in DOMAIN new : c \in new[n]}})

fill_column(col, new, base, c) ==
  LET hits == Touching(new, base, c)
      n == base + Len(new)
      grown == Resized(col.words, words(n))
      longer == [col EXCEPT !.set_rows = @ \o hits]
  IN  IF col.dense THEN [col EXCEPT !.words = Merged(grown, Bitmap(ToSet(hits), Len(grown)))]
      ELSE IF IsDenseEnough(Len(longer.set_rows), n) THEN promote_to_dense(longer, n)
      ELSE longer

\* Parities are built on first use; from then on every append extends them.
NotBuilt == <<>>

OddRows(new, base) == {base + k - 1 : k \in {x \in DOMAIN new : Odd(Cardinality(new[x]))}}

ExtendedParity(parity, new, base) ==
  IF parity = NotBuilt THEN NotBuilt
  ELSE LET grown == Resized(parity, words(base + Len(new)))
       IN  Merged(grown, Bitmap(OddRows(new, base), Len(grown)))

append_rows(ix, new, base) ==
  [cols |-> [c \in Bits |-> fill_column(ix.cols[c], new, base, c)],
   row_count |-> base + Len(new),
   row_parity |-> ExtendedParity(ix.row_parity, new, base)]

\* Tiers are chosen from the final counts before the columns are filled.
rebuild(all) ==
  LET n == Len(all)
      count(c) == Cardinality({k \in DOMAIN all : c \in all[k]})
      tier(c) == IF n > 0 /\ IsDenseEnough(count(c), n)
                 THEN [SparseColumn EXCEPT !.dense = TRUE, !.words = Bitmap({}, words(n))]
                 ELSE SparseColumn
      filled(c) == IF n = 0 THEN SparseColumn ELSE fill_column(tier(c), all, 0, c)
  IN  [cols |-> [c \in Bits |-> filled(c)], row_count |-> n, row_parity |-> NotBuilt]

ColumnRows(ix, c) == IF ix.cols[c].dense THEN BitmapRows(ix.cols[c].words) ELSE ToSet(ix.cols[c].set_rows)

\* build_row_parity_: a row is odd iff it is in an odd number of columns.
RowParity(ix) ==
  Bitmap({r \in 0 .. ix.row_count - 1 : Odd(Cardinality({c \in Bits : r \in ColumnRows(ix, c)}))},
         words(ix.row_count))

\* row_parity_words(): an empty index is never asked.
WithParity(ix) ==
  IF ix.row_parity = NotBuilt /\ ix.row_count # 0 THEN [ix EXCEPT !.row_parity = RowParity(ix)] ELSE ix

-----------------------------------------------------------------------------
(* Folds of a generator's columns: anticommutation, one bit per row.       *)

GeneratorColumns(G) == fold_generator(setup.basis, G)
NeedsParity(G) == fold_needs_odd_correction(setup.basis, G)

\* make_fold_mask: how many words cover the first n rows, and the bits of the last one.
mask_words(ix, n) == IF words(n) < words(ix.row_count) THEN words(n) ELSE words(ix.row_count)
last_mask(n) == IF n % WordBits = 0 THEN 0 .. WordBits - 1 ELSE 0 .. (n % WordBits) - 1

Masked(bits, w, ix, n) == IF w = mask_words(ix, n) - 1 THEN bits \cap last_mask(n) ELSE bits

\* XOR of words: the bits that an odd number of them have.
Xor(family) == {b \in 0 .. WordBits - 1 : Odd(Cardinality({x \in DOMAIN family : b \in family[x]}))}

\* What column c holds in word w; a list holds it as postings.
ColumnWord(ix, c, w) ==
  IF ix.cols[c].dense THEN ix.cols[c].words[w + 1] ELSE Word(ToSet(ix.cols[c].set_rows), w)

\* combine_columns_block, over all words at once, as make_fold_cache uses it.
FoldCache(ix, G, n) ==
  [w \in 0 .. mask_words(ix, n) - 1 |->
     LET columns == Xor([c \in GeneratorColumns(G) |-> ColumnWord(ix, c, w)])
     IN  Masked(IF NeedsParity(G) THEN SymDiff(columns, ix.row_parity[w + 1]) ELSE columns, w, ix, n)]

Block(ix, n, bb) == {w \in 0 .. mask_words(ix, n) - 1 : bb <= w /\ w < bb + BlockWords}
Postings(ix, G, ws) ==
  {p \in GeneratorColumns(G) \X (0 .. ix.row_count - 1) :
     p[2] \in ToSet(ix.cols[p[1]].set_rows) /\ p[2] \div WordBits \in ws}
Touched(ix, G, ws) == {p[2] \div WordBits : p \in Postings(ix, G, ws)}

\* At most half a posting per word, no parity and no dense column.
by_postings(ix, G, ws) ==
  /\ \A c \in GeneratorColumns(G) : ~ix.cols[c].dense
  /\ ~NeedsParity(G)
  /\ 2 * Cardinality(Postings(ix, G, ws)) <= Cardinality(ws)

\* The zero block is added to, and only the words that a posting touched are looked at.
PostedWord(ix, G, w, bb, left) ==
  SymDiff(left[w - bb], Xor([c \in GeneratorColumns(G) |-> ColumnWord(ix, c, w)]))

\* for_each_fold_word, with what the last use left in the zero block.
FoldWords(ix, G, n, left) ==
  LET word(w) ==
        LET bb == (w \div BlockWords) * BlockWords
            ws == Block(ix, n, bb)
            columns == Xor([c \in GeneratorColumns(G) |-> ColumnWord(ix, c, w)])
        IN  IF by_postings(ix, G, ws)
            THEN IF w \in Touched(ix, G, ws) THEN PostedWord(ix, G, w, bb, left) ELSE {}
            ELSE IF NeedsParity(G) THEN SymDiff(columns, ix.row_parity[w + 1]) ELSE columns
  IN  [w \in 0 .. mask_words(ix, n) - 1 |-> Masked(word(w), w, ix, n)]

FoldedRows(folded) == UNION {{w * WordBits + b : b \in folded[w]} : w \in DOMAIN folded}

ZeroBlock == [w \in 0 .. BlockWords - 1 |-> {}]

WipeNothing(block) == block

\* A visitor that throws leaves the block to a guard that wipes it.
Wipe(block) == ZeroBlock

\* The block when the visitor throws at its first nonzero word: later words are still posted.
BrokenBlock(ix, G, left) ==
  LET ws == Block(ix, ix.row_count, 0)
      posted(w) == PostedWord(ix, G, w, 0, left)
      visited == {w \in ws : \A v \in ws : v < w => posted(v) = {}}
  IN  IF by_postings(ix, G, ws)
      THEN [w \in DOMAIN left |-> IF w \in ws \ visited THEN posted(w) ELSE {}]
      ELSE left

-----------------------------------------------------------------------------
(* The vectors of MPOperator, extended when they are asked for.            *)

\* get_operator(): a vector of full length is never looked into.
Landed == {M \in DOMAIN pending : find(M) # kNotFound}

get_operator ==
  IF Len(coeffs) = Size THEN coeffs
  ELSE [i \in 1 .. Size |->
          IF \E M \in Landed : find(M) = i - 1
          THEN pending[CHOOSE M \in Landed : find(M) = i - 1]
          ELSE IF i <= Len(coeffs) THEN coeffs[i] ELSE 0]

StillPending ==
  IF Len(coeffs) = Size THEN pending ELSE [M \in DOMAIN pending \ Landed |-> pending[M]]

\* score_new_state_rows_(): only paired rows, only those not scored yet.
fully_paired_rows_from(first) == Ascended({i \in first .. Size - 1 : is_paired(row(i))})

NothingScored == [rows |-> <<>>, vals |-> <<>>, upto |-> 0]

ScoredFrom(old) ==
  LET found == fully_paired_rows_from(old.upto)
  IN  [rows |-> old.rows \o found,
       vals |-> old.vals
                  \o [k \in DOMAIN found |->
                        state_phase(setup.basis, row(found[k]), initial_state_mask(setup.initial_state))],
       upto |-> Size]

score_new_state_rows_ == ScoredFrom(scored)

\* scatter_state_rows_from_(first): entries before the first row keep what they have.
ScatteredAnew(score, first, out) ==
  [i \in 1 .. Size |->
     IF \E k \in DOMAIN score.rows : score.rows[k] = i - 1
     THEN score.vals[CHOOSE k \in DOMAIN score.rows : score.rows[k] = i - 1] ELSE 0]

Scattered(score, first, out) ==
  [i \in 1 .. Size |->
     IF \E k \in DOMAIN score.rows : score.rows[k] = i - 1 /\ i > first
     THEN score.vals[CHOOSE k \in DOMAIN score.rows : score.rows[k] = i - 1]
     ELSE IF i <= Len(out) THEN out[i] ELSE 0]

dense_state ==
  IF Len(dense) = Size THEN dense ELSE Scattered(score_new_state_rows_, Len(dense), dense)

-----------------------------------------------------------------------------
(* The constructor of a slot: reserve, append and emplace the seeds, then  *)
(* bring every cache up to date.                                           *)

Init ==
  /\ setup \in Setups
  /\ LET seeds == SeedOrder(setup)
         pos(i) == Positions(seeds[i])
         user == [M \in {setup.initial_operator[i].term : i \in DOMAIN setup.initial_operator} |->
                    SeedAmplitude([setup EXCEPT !.schrodinger = FALSE], M)]
     IN  /\ check_append_fits(0, Len(seeds))
         /\ rows = [i \in DOMAIN seeds |-> PackedRow(pos(i))]
         /\ overflow = SpillMap(<<>>, 0, seeds)
         /\ table = bulk_insert_hashed(reserve_index(EmptyTable(MinSlots), Len(seeds)), 0,
                                       [i \in DOMAIN seeds |-> Hash32[seeds[i]]])
         /\ index = rebuild(seeds)
         /\ coeffs = [i \in DOMAIN seeds |-> IF seeds[i] \in DOMAIN user THEN user[seeds[i]] ELSE 0]
         /\ pending = [M \in DOMAIN user \ ToSet(seeds) |-> user[M]]
  /\ scored = ScoredFrom(NothingScored)
  /\ dense = IF setup.schrodinger THEN Scattered(scored, 0, <<>>) ELSE <<>>
  /\ scratch = ZeroBlock
  /\ drifts = 0

-----------------------------------------------------------------------------
(* Operations.                                                             *)

\* A batch of queries: what is found stays, what is missed becomes the next rows, in batch order.
InsertAbsent(batch) ==
  LET missed == Ascended({k \in DOMAIN batch : find_batch_positions(Positions(batch[k])) = kNotFound})
      misses == [n \in DOMAIN missed |-> batch[missed[n]]]
      n == Len(misses)
  IN  /\ n > 0
      /\ check_append_fits(Size, n)
      /\ rows' = rows \o [k \in DOMAIN misses |-> PackedRow(Positions(misses[k]))]
      /\ overflow' = SpillMap(overflow, Size, misses)
      /\ table' = bulk_insert_hashed(table, Size, [k \in DOMAIN misses |-> Hash32[misses[k]]])
      /\ index' = append_rows(index, misses, Size)
      /\ UNCHANGED <<setup, coeffs, pending, scored, dense, scratch, drifts>>

ExtendOperator ==
  /\ coeffs' = get_operator
  /\ pending' = StillPending

\* current_picture_coeffs_(): asked for between the gates of propagate().
current_picture_coeffs_ ==
  /\ IF setup.schrodinger
     THEN /\ scored' = score_new_state_rows_
          /\ dense' = dense_state
          /\ UNCHANGED <<coeffs, pending>>
     ELSE /\ ExtendOperator
          /\ UNCHANGED <<scored, dense>>
  /\ UNCHANGED <<setup, rows, overflow, table, index, scratch, drifts>>

\* After the last gate of a call. A call that throws before leaves the caches short.
initialize_operator_caches_ ==
  /\ ExtendOperator
  /\ scored' = score_new_state_rows_
  /\ dense' = IF setup.schrodinger THEN dense_state ELSE dense
  /\ UNCHANGED <<setup, rows, overflow, table, index, scratch, drifts>>

\* A contraction hands back the picture's vector, every entry of it changed.
Contract ==
  LET drifted(v) == [i \in 1 .. Size |-> v[i] + Drift]
  IN  /\ drifts < MaxDrift
      /\ drifts' = drifts + 1
      /\ IF setup.schrodinger
         THEN /\ scored' = score_new_state_rows_
              /\ dense' = drifted(dense_state)
              /\ UNCHANGED <<coeffs, pending>>
         ELSE /\ coeffs' = drifted(get_operator)
              /\ pending' = StillPending
              /\ UNCHANGED <<scored, dense>>
      /\ UNCHANGED <<setup, rows, overflow, table, index, scratch>>

\* The Heisenberg picture refuses a term it has never had, before anything changes.
update_initial_operator(dict) ==
  LET known == {M \in DOMAIN dict : find(M) # kNotFound}
      waits == IF setup.schrodinger THEN DOMAIN dict \ known ELSE DOMAIN dict \cap DOMAIN pending
  IN  /\ setup.schrodinger \/ DOMAIN dict \subseteq known \cup DOMAIN pending
      /\ pending' = [M \in waits |-> dict[M]]
      /\ coeffs' = [i \in 1 .. Size |->
                      IF \E M \in known \ waits : find(M) = i - 1
                      THEN dict[CHOOSE M \in known : find(M) = i - 1] ELSE 0]
      /\ UNCHANGED <<setup, rows, overflow, table, index, scored, dense, scratch, drifts>>

\* A fold over all rows; its visitor may throw at the first word it is shown.
Scan(G) ==
  LET ready == IF NeedsParity(G) THEN WithParity(index) ELSE index
  IN  /\ index' = ready
      /\ \/ UNCHANGED scratch
         \/ scratch' = Wipe(BrokenBlock(ready, G, scratch))
      /\ UNCHANGED <<setup, rows, overflow, table, coeffs, pending, scored, dense, drifts>>

\* The copy of a propagator: clone() re-inserts the slots in their order, the rest is copied.
Copy ==
  /\ table' = InsertAll(reserve_index(EmptyTable(MinSlots), table.count), table.slots)
  /\ UNCHANGED <<setup, rows, overflow, index, coeffs, pending, scored, dense, scratch, drifts>>

Next ==
  \/ \E batch \in Batches : InsertAbsent(batch)
  \/ current_picture_coeffs_
  \/ initialize_operator_caches_
  \/ Contract
  \/ \E dict \in Dicts : update_initial_operator(dict)
  \/ \E G \in Generators : Scan(G)
  \/ Copy

Spec == Init /\ [][Next]_vars

-----------------------------------------------------------------------------
(* Properties.                                                             *)

Terms == [i \in 1 .. Size |-> row(i - 1)]

\* The rows and the spill map hold these terms.
Packs(list, packed, spilled) ==
  /\ packed = [i \in 1 .. Len(list) |-> PackedRow(Positions(list[i]))]
  /\ spilled = [i \in {j \in 0 .. Len(list) - 1 : Cardinality(list[j + 1]) > InlineWidth} |-> list[i + 1]]

RowsInv ==
  /\ Terms \in Seq(Monomials) /\ IsInjective(Terms) /\ Size <= IndexCeiling
  /\ Packs(Terms, rows, overflow)

\* A table keeps a set of entries: each is in one slot, which its probe reaches over filled slots.
Hashes == {Hash32[M] : M \in Monomials}
Entries == [idx : Nat \ {kEmptySlot}, h : Hashes]
TableType == [slots : Seq([idx : Nat, h : Nat]), count : Nat]
FilledSlots(t) == {s \in 1 .. Capacity(t) : t.slots[s].idx # kEmptySlot}

Unbroken(t, h, n) == \A m \in 0 .. n : EntryAt(t, h, m).idx # kEmptySlot
Reached(t, s) ==
  \E n \in 0 .. Capacity(t) - 1 : Probe(t, t.slots[s].h, n) = s /\ Unbroken(t, t.slots[s].h, n)

Keeps(t, E) ==
  /\ t \in TableType /\ Capacity(t) > 0
  /\ E \in SUBSET Entries /\ IsFiniteSet(E) /\ t.count = Cardinality(E)
  /\ \A s \in FilledSlots(t) : t.slots[s] \in E /\ Reached(t, s)
  /\ \A e \in E : \E s \in FilledSlots(t) : t.slots[s] = e
  /\ \A r, s \in FilledSlots(t) : t.slots[r].idx = t.slots[s].idx => r = s

Roomy(t) == Capacity(t) >= 2 /\ 10 * t.count < 7 * Capacity(t)

EntriesOf(list) == {[idx |-> i - 1, h |-> Hash32[list[i]]] : i \in DOMAIN list}
TableInv == Keeps(table, EntriesOf(Terms)) /\ Roomy(table)

RowsWith(list, c) == {i \in 0 .. Len(list) - 1 : c \in list[i + 1]}

ColumnOf(list, col, c) ==
  IF col.dense THEN col = [dense |-> TRUE, words |-> Bitmap(RowsWith(list, c), words(Len(list))), set_rows |-> <<>>]
               ELSE col = [dense |-> FALSE, words |-> <<>>, set_rows |-> Ascended(RowsWith(list, c))]

Indexes(ix, list) ==
  /\ ix = [cols |-> ix.cols, row_count |-> Len(list), row_parity |-> ix.row_parity]
  /\ ix.cols = [c \in Bits |-> ix.cols[c]] /\ \A c \in Bits : ColumnOf(list, ix.cols[c], c)
  /\ ix.row_parity # NotBuilt => ix.row_parity = Bitmap(OddRows(list, 0), words(Len(list)))

IndexInv == Indexes(index, Terms) /\ scratch = ZeroBlock

PairedRows(list, n) == {i \in 0 .. n - 1 : is_paired(list[i + 1])}

Scores(list, score) ==
  /\ score = [rows |-> score.rows, vals |-> score.vals, upto |-> score.upto]
  /\ score.upto \in 0 .. Len(list) /\ score.rows = Ascended(PairedRows(list, score.upto))
  /\ score.vals = [k \in DOMAIN score.rows |->
                     state_phase(setup.basis, list[score.rows[k] + 1], initial_state_mask(setup.initial_state))]

CachesInv ==
  /\ setup \in Setups
  /\ coeffs = [i \in 1 .. Len(coeffs) |-> coeffs[i]] /\ Len(coeffs) \in 0 .. Size
  /\ pending = [M \in DOMAIN pending |-> pending[M]] /\ DOMAIN pending \subseteq Monomials
  /\ \A i \in 1 .. Len(coeffs) : Terms[i] \notin DOMAIN pending
  /\ ~setup.schrodinger => DOMAIN pending = {} /\ dense = <<>>
  /\ Scores(Terms, scored)
  /\ dense = [i \in 1 .. Len(dense) |-> dense[i]] /\ Len(dense) \in 0 .. scored.upto

\* Every structure has its shape, whatever the calls before: packed rows are ascending and spill
\* exactly beyond the inline width (set, set_positions); every row is in one slot of the table, where
\* its probe comes by, and the table keeps an empty slot, without which a probe for an absent term
\* would never end (rehash_if_needed); dense columns and a built row parity have full height and the
\* bits of the rows, sparse columns ascend, which lower_bound needs; no coefficient waits for a row
\* that has one already, and the scored rows are the paired ones of a prefix (get_operator,
\* score_new_state_rows_).
StoreTypeOK == RowsInv /\ TableInv /\ IndexInv /\ CachesInv

\* However often hashes collide, probes wrap, and the table was rehashed or copied, the three
\* searches agree and find exactly the row that holds the term (find, find_batch and
\* find_batch_positions of OperatorIndex.h).
FindsEveryRow ==
  \A M \in Monomials :
    LET at == {i \in 0 .. Size - 1 : row(i) = M}
    IN  /\ Cardinality(at) <= 1
        /\ {find(M), find_batch(M), find_batch_positions(Positions(M))}
             = IF at = {} THEN {kNotFound} ELSE at

\* The fold of a generator's columns over the first n rows is the set of rows that anticommute
\* with it, whichever tier the columns are in, whichever kernel a block takes, and whatever an
\* earlier fold that was cut short left behind; a layer's fold kept from before the rows grew
\* (FoldCache, for_each_fold_word) still is.
FoldsAnticommute ==
  \A G \in Generators, n \in 0 .. Size :
    LET ready == IF NeedsParity(G) THEN WithParity(index) ELSE index
        expected == {i \in 0 .. n - 1 : Anticommute(setup.basis, row(i), G)}
    IN  /\ FoldedRows(FoldWords(ready, G, n, scratch)) = expected
        /\ FoldedRows(FoldCache(ready, G, n)) = expected

\* What a monomial's coefficient and state value are, wherever the store keeps them at present.
ValueAt(vector, at, otherwise) == IF at = {} THEN otherwise ELSE vector[CHOOSE i \in at : TRUE]

AbsOp ==
  LET list == Terms
  IN  [M \in Monomials |->
         ValueAt(coeffs, {i \in 1 .. Len(coeffs) : list[i] = M}, IF M \in DOMAIN pending THEN pending[M] ELSE 0)]

AbsState ==
  LET list == Terms
      score(M) == {k \in DOMAIN scored.rows : list[scored.rows[k] + 1] = M}
      late(M) == \A i \in 1 .. scored.upto : list[i] # M
  IN  [M \in Monomials |->
         ValueAt(dense, {i \in 1 .. Len(dense) : list[i] = M},
                 IF late(M) THEN BornAmplitude([setup EXCEPT !.schrodinger = TRUE], M)
                 ELSE ValueAt(scored.vals, score(M), 0))]

Promise == INSTANCE TermStore WITH terms <- Terms, op <- AbsOp, state <- AbsState

\* The store with its tables and its lazily extended vectors implements the list of terms with
\* two values each that the engine believes in: growth loses and changes nothing, a re-weighted or
\* contracted value survives every later extension, and a copy is the same store.
ImplementsTermStore == Promise!Spec
=============================================================================
