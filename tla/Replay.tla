------------------------------- MODULE Replay -------------------------------
(***************************************************************************)
(* How the collector carries the pricer along the chain: the fast loop's   *)
(* replay of new headers, the gap filler's and the backfill's replays, the *)
(* timeline of owner actions they split at, and the prediction each block  *)
(* hands to the next (internal/collector/tick.go, fill.go, backfill.go,    *)
(* collector.go, actions.go).                                              *)
(*                                                                         *)
(* The chain is external: it prices every block with the state its parent  *)
(* left, then runs the transactions, an owner action first and the gas of  *)
(* its transaction after it.  Poster gas, reorgs and the size of a batch   *)
(* are modelled elsewhere or left out.                                     *)
(***************************************************************************)
EXTENDS Integers, Sequences, SequencesExt, FiniteSetsExt

CONSTANTS
  Width, OneInBips,        \* of the pricer
  Genesis,                 \* the pricer state the chain starts with
  Bodies,                  \* transaction lists a block may have
  Gaps,                    \* seconds between two blocks
  RowBacked,               \* a filled block keeps its row; else it is only folded into buckets
  Origins,                 \* blocks the owner scan may be truncated at, 0 for none
  MaxGap,                  \* the catch-up budget of a tick
  AnchorEvery,             \* cfg.BackfillAnchorInterval
  MaxHeight, MaxFaults     \* bounds

P == INSTANCE Pricer WITH Sizes <- {}, Targets <- {}, Windows <- {}, Tolerances <- {},
                          Gases <- {}, Times <- {}, Floors <- {},
                          calm <- Genesis, busy <- Genesis

VARIABLES
  chain,     \* external: blocks with their header fee and the state they leave
  rows,      \* db: blocks, height -> row
  rec,       \* db: heights whose owner actions are recorded
  sets,      \* db: constraint_sets by id
  samples,   \* db: heights of state_samples
  hole,      \* db: the missing range
  origin,    \* owner_scan_origin, 0 when absent
  head,      \* f.head
  st,        \* f.state
  last,      \* f.lastResult's group, the prediction of the block after head
  faults,    \* failed ticks and restarts so far
  guessed    \* history: heights replayed from a start taken on trust

vars == <<chain, rows, rec, sets, samples, hole, origin, head, st, last, faults, guessed>>
scan == <<rec, sets, origin>>

NoState == [constraints |-> <<>>, legacy |-> P!NoLegacy, min |-> -1]
NoPrediction == [fee |-> -1, exponent |-> 0, per |-> <<>>]
NoHole == [next |-> 0, to |-> 0, state |-> NoState, carry |-> NoPrediction]
InitialMinimumBaseFee == Genesis.min

ReplayAssumption ==
  /\ MaxHeight \in Nat /\ MaxFaults \in Nat /\ MaxGap \in Nat /\ AnchorEvery \in Nat \ {0}
  /\ Gaps \subseteq Nat /\ Origins \subseteq 0..MaxHeight

Tip == Len(chain)
Numbers(from, to) == [i \in 1..to - from + 1 |-> from + i - 1]
Post(n) == IF n = 0 THEN Genesis ELSE chain[n].post
Changes(n) == FlattenSeq([i \in 1..Len(chain[n].txs) |-> chain[n].txs[i].acts])
Of(kinds, n) == SelectSeq(Changes(n), LAMBDA c : c.kind \in kinds)
LegacyKinds == {"limit", "inertia", "tolerance"}

-----------------------------------------------------------------------------
(* The chain. *)
SetParam(l, c) == IF c.kind \in LegacyKinds THEN [l EXCEPT ![c.kind] = c.value] ELSE l
Govern(s, c) ==
  [constraints |-> IF c.kind = "set" THEN c.value ELSE s.constraints,
   legacy |-> SetParam(s.legacy, c),
   min |-> IF c.kind = "fee" THEN c.value ELSE s.min]
Execute(s, tx) == P!AddGas(FoldLeft(Govern, s, tx.acts), tx.gas)
Mint(dt, txs) ==
  /\ Tip < MaxHeight
  /\ LET step == P!Step(Post(Tip), dt)
     IN chain' = Append(chain, [ts |-> dt + (IF Tip = 0 THEN 1 ELSE chain[Tip].ts), txs |-> txs,
                                next |-> step.fee, post |-> FoldLeft(Execute, step.state, txs)])
  /\ UNCHANGED <<rows, rec, sets, samples, hole, origin, head, st, last, faults, guessed>>
HeaderFee(n) == IF n = 1 THEN Genesis.min ELSE chain[n - 1].next
Floor(n) == Post(n - 1).min
Sample(n) == Post(n)

-----------------------------------------------------------------------------
(* The timeline: tl.rec the heights whose actions are known, tl.sets the   *)
(* recorded sets.                                                          *)
SameSets(a, b) == /\ Len(a) = Len(b)
                  /\ \A i \in 1..Len(a) : a[i].target = b[i].target /\ a[i].window = b[i].window
Latest(table, ids) ==
  CHOOSE i \in ids : \A j \in ids : table[j].block < table[i].block
                                    \/ (table[j].block = table[i].block /\ j <= i)
SetAt(table, n) ==
  LET ids == {i \in DOMAIN table : table[i].block <= n}
  IN IF ids = {} THEN <<>> ELSE <<table[Latest(table, ids)].entries>>

(* An observed set at a block none of its actions explains: applied before *)
(* the block, as the place of the change in it is unknown.                 *)
BlockStart(tl, n) ==
  LET actions == IF n \in tl.rec THEN Of({"set"}, n) ELSE <<>>
      mine == SelectSeq(tl.sets, LAMBDA s : s.block = n
                /\ ~\E i \in 1..Len(actions) : SameSets(actions[i].value, s.entries))
  IN [i \in 1..Len(mine) |-> [kind |-> "set", value |-> mine[i].entries]]

(* Recorded changes of the floor win over the one sampled at the origin of *)
(* a truncated scan, and that one over the chain's initial floor.          *)
FeeBlocks(tl, to) == {k \in tl.rec : k <= to /\ Of({"fee"}, k) # <<>>}
HasOrigin(tl, n) == tl.origin > 0 /\ n >= tl.origin
FeeThrough(tl, n, to) ==
  LET ks == FeeBlocks(tl, to)
  IN CASE ks # {} -> Last(Of({"fee"}, Max(ks))).value
       [] ks = {} /\ HasOrigin(tl, n) -> Sample(tl.origin).min
       [] OTHER -> InitialMinimumBaseFee

MinFeeAt(tl, n) == FeeThrough(tl, n, n - 1)
MinFeeAfter(tl, n) == FeeThrough(tl, n, n)
FeeChangesInBlock(tl, n) == n \in FeeBlocks(tl, n)
MinFeeChangeBlock(tl, n) ==
  CASE FeeBlocks(tl, n - 1) # {} -> Max(FeeBlocks(tl, n - 1))
    [] FeeBlocks(tl, n - 1) = {} /\ HasOrigin(tl, n) -> tl.origin
    [] OTHER -> 0

(* The parameters base with the recorded changes of the blocks through to. *)
LegacyThrough(tl, n, base, to) ==
  LET from == IF HasOrigin(tl, n) THEN [Sample(tl.origin).legacy EXCEPT !.backlog = base.backlog]
              ELSE base
      known == SelectSeq(Numbers(1, to), LAMBDA k : k \in tl.rec)
  IN FoldLeft(SetParam, from, FlattenSeq([i \in 1..Len(known) |-> Changes(known[i])]))
LegacyAt(tl, n, base) == LegacyThrough(tl, n, base, n)

LegacyBefore(tl, n, base) == LegacyThrough(tl, n, base, n - 1)

(* A set replaces the constraints and, unless it is empty, the model. *)
ApplyPricingChange(s, c) ==
  CASE c.kind = "set" -> [s EXCEPT !.constraints = c.value,
                                   !.legacy = IF c.value = <<>> THEN @ ELSE P!NoLegacy]
    [] c.kind = "fee" -> [s EXCEPT !.min = c.value]
    [] c.kind \in LegacyKinds /\ s.legacy # P!NoLegacy -> [s EXCEPT !.legacy = SetParam(@, c)]
    [] OTHER -> s

(* The owner actions of a block by transaction, each with the gas before.  *)
ResolveActionBlock(tl, n) ==
  LET txs == chain[n].txs
      gas(i) == FoldLeft(LAMBDA a, tx : a + tx.gas, 0, SubSeq(txs, 1, i - 1))
      acting == SelectSeq(Numbers(1, Len(txs)), LAMBDA i : txs[i].acts # <<>>)
  IN IF n \in tl.rec
     THEN [j \in 1..Len(acting) |-> [before |-> gas(acting[j]), changes |-> txs[acting[j]].acts]]
     ELSE <<>>
GasUsed(n) == FoldLeft(LAMBDA a, tx : a + tx.gas, 0, chain[n].txs)

(* Plausible error: the whole block's gas is added before its actions. *)
GasBeforeActions(s, gas, boundaries) ==
  FoldLeft(ApplyPricingChange, P!AddGas(s, gas),
           FlattenSeq([i \in 1..Len(boundaries) |-> boundaries[i].changes]))

ApplyActionGas(s, gas, boundaries) ==
  LET through(acc, before, changes) ==
        [s |-> FoldLeft(ApplyPricingChange, P!AddGas(acc.s, before - acc.applied), changes),
         applied |-> before]
      act(acc, b) == through(acc, Min({b.before, gas}), b.changes)
      rest(acc) == P!AddGas(acc.s, gas - acc.applied)
  IN rest(FoldLeft(act, [s |-> s, applied |-> 0], boundaries))

-----------------------------------------------------------------------------
(* Replays.  A row first carries the group computed at its own block.      *)
Elapsed(prev, ts) == IF prev # 0 /\ ts > prev THEN ts - prev ELSE 0
NoRows == [n \in {} |-> 0]
Group(step) == [fee |-> step.fee, exponent |-> step.exponent, per |-> step.per]
Pin(s, n, anchors) == IF n \in anchors THEN P!SetBacklogs(s, P!Backlogs(Sample(n))) ELSE s
EndBlock(acc, n, s, min, group) ==
  [acc EXCEPT !.st = s, !.ts = chain[n].ts,
              !.rows = [k \in DOMAIN @ \cup {n} |->
                 IF k = n THEN [backlogs |-> P!Backlogs(s), min |-> min, seeded |-> FALSE,
                                stored |-> TRUE, pred |-> group]
                 ELSE @[k]]]
RunBlock(acc, n, step, tl, anchors) ==
  EndBlock(acc, n, Pin(ApplyActionGas(step.state, GasUsed(n), ResolveActionBlock(tl, n)), n, anchors),
       step.state.min, Group(step))
ReplayBlock(acc, n, tl, anchors) ==
  RunBlock(acc, n, P!Step(FoldLeft(ApplyPricingChange, acc.st, BlockStart(tl, n)),
                          Elapsed(acc.ts, chain[n].ts)), tl, anchors)
ReplayForward(s, ts, from, to, tl, anchors) ==
  FoldLeft(LAMBDA acc, n : ReplayBlock(acc, n, tl, anchors),
           [st |-> s, ts |-> ts, rows |-> NoRows], Numbers(from, to))

(* Plausible error: the group stays on the block that computed it. *)
UnshiftedPredictions(rs, carry) == rs

(* Every group moved to the block it prices, the first taking carry. *)
ShiftPredictions(rs, carry) ==
  [n \in DOMAIN rs |-> [rs[n] EXCEPT !.pred =
     IF n - 1 \in DOMAIN rs THEN rs[n - 1].pred ELSE carry]]
Merge(a, b) == [n \in DOMAIN a \cup DOMAIN b |-> IF n \in DOMAIN b THEN b[n] ELSE a[n]]

-----------------------------------------------------------------------------
(* Recording owner actions and sets. *)
Put(table, s) ==
  LET ids == {i \in DOMAIN table : table[i].block = s.block /\ table[i].source = s.source}
  IN IF ids = {} THEN Append(table, s) ELSE [table EXCEPT ![CHOOSE i \in ids : TRUE] = s]
(* The first set at or after an action's block when it is observed and has *)
(* the action's shape: the action explains it, and it moves to the action. *)
ObservedToReplace(table, s) ==
  LET later == {i \in DOMAIN table : table[i].block >= s.block}
      first == CHOOSE i \in later : \A j \in later :
                 table[i].block < table[j].block \/ (table[i].block = table[j].block /\ i <= j)
  IN IF \/ \E i \in DOMAIN table : table[i].block = s.block /\ table[i].source = s.source
        \/ later = {} THEN {}
     ELSE {i \in {first} : table[i].source = "observed" /\ SameSets(table[i].entries, s.entries)}
RecordAction(table, s) ==
  LET o == ObservedToReplace(table, s)
  IN IF o = {} THEN Put(table, s) ELSE [i \in DOMAIN table |-> IF i \in o THEN s ELSE table[i]]
SetsOf(n) ==
  LET cs == Of({"set"}, n)
  IN [i \in 1..Len(cs) |-> [block |-> n, source |-> "owner", entries |-> cs[i].value]]
StoreOwnerActions(tl, from, to) ==
  LET new == SelectSeq(Numbers(from, to), LAMBDA n : n \notin tl.rec)
  IN [rec |-> tl.rec \cup from..to, origin |-> tl.origin,
      sets |-> FoldLeft(RecordAction, tl.sets, FlattenSeq([i \in 1..Len(new) |-> SetsOf(new[i])]))]

Timeline == [rec |-> rec, sets |-> sets, origin |-> origin]
(* Merged with fetched actions that are not stored yet: the sets they      *)
(* install are known from the actions, not from a row.                     *)
Pending(from, to) == [Timeline EXCEPT !.rec = @ \cup from..to]

(* The sampled shape when it is not the latest known one. *)
ObservedSet(from, to) ==
  LET fetched == FlattenSeq([i \in 1..to - from + 1 |-> SetsOf(from + i - 1)])
      known == IF fetched # <<>> THEN <<Last(fetched).entries>> ELSE SetAt(sets, MaxHeight)
      live == Sample(Tip).constraints
  IN IF live = <<>> \/ (known # <<>> /\ SameSets(known[1], live)) THEN <<>>
     ELSE <<[block |-> Tip, source |-> "observed", entries |-> live]>>
Persist(from, to) ==
  LET stored == StoreOwnerActions(Timeline, from, to)
  IN /\ rec' = stored.rec
     /\ sets' = FoldLeft(Put, stored.sets, ObservedSet(from, to))
     /\ samples' = samples \cup {Tip}
     /\ UNCHANGED origin

-----------------------------------------------------------------------------
(* The state before the first missing block. *)
FromEntries(entries, min) == [constraints |-> entries, legacy |-> P!NoLegacy, min |-> min]
(* Backlogs are the caller's to set. *)
StateAt(n, sample) ==
  CASE P!IsLegacy(sample) ->
         [constraints |-> <<>>, legacy |-> LegacyAt(Timeline, n, sample.legacy), min |-> 0]
    [] ~P!IsLegacy(sample) /\ SetAt(sets, n) # <<>> -> FromEntries(SetAt(sets, n)[1], 0)
    [] OTHER -> FromEntries(sample.constraints, 0)

(* The floor at the end of the stored head. *)
FloorAfterHead(n) ==
  CASE FeeChangesInBlock(Timeline, n) -> MinFeeAfter(Timeline, n)
    [] ~FeeChangesInBlock(Timeline, n) /\ MinFeeChangeBlock(Timeline, n) = 0 -> Sample(Tip).min
    [] OTHER -> rows[n].min

Resume(shape, n, min) ==
  IF shape = NoState \/ Len(P!Backlogs(shape)) # Len(rows[n].backlogs) THEN NoState
  ELSE [P!SetBacklogs(shape, rows[n].backlogs) EXCEPT !.min = min]
ReplayState ==
  IF st # NoState THEN st ELSE Resume(StateAt(head, Sample(Tip)), head, FloorAfterHead(head))

SameShape(s, sample) ==
  CASE P!IsLegacy(sample) -> /\ P!IsLegacy(s) /\ s.legacy # P!NoLegacy
                             /\ [s.legacy EXCEPT !.backlog = sample.legacy.backlog] = sample.legacy
    [] OTHER -> SameSets(s.constraints, sample.constraints)
FromSample(sample) ==
  IF P!IsLegacy(sample) THEN sample ELSE [sample EXCEPT !.legacy = P!NoLegacy]

-----------------------------------------------------------------------------

(* The fast loop. *)
Publish(s, group) == head' = Tip /\ st' = s /\ last' = group

(* The sampled head alone: its group is computed from the sampled backlogs *)
(* less the block's own gas.                                               *)
Seed(from, to, gap) ==
  LET s == FromSample(Sample(Tip))
      bs == P!Backlogs(s)
      start == P!SetBacklogs(s, [i \in 1..Len(bs) |-> P!SaturatingUSub(bs[i], GasUsed(Tip))])
      step == P!Step(start, 0)
  IN /\ rows' = Merge(rows, [n \in {Tip} |-> [backlogs |-> bs, min |-> s.min, seeded |-> TRUE,
                                               stored |-> TRUE, pred |-> NoPrediction]])
     /\ Persist(from, to)
     /\ IF gap.next <= gap.to THEN hole = NoHole /\ hole' = gap ELSE UNCHANGED hole
     /\ Publish(s, [fee |-> step.fee, exponent |-> step.exponent, per |-> step.per])

Gap == [NoHole EXCEPT !.next = head + 1, !.to = Tip - 1]
First == /\ head = 0 /\ Tip > 0
         /\ Seed(1, 0, NoHole)
         /\ UNCHANGED <<chain, faults, guessed>>
(* A gap over the catch-up budget is skipped. *)
Skip == /\ head > 0 /\ Tip - head > MaxGap
        /\ Seed(head + 1, Tip, Gap)
        /\ UNCHANGED <<chain, faults, guessed>>

(* A replay that ends in another shape or with another floor than sampled  *)
(* starts again from the sample.                                           *)
Matches(s, sample) == SameShape(s, sample) /\ s.min = sample.min
ReplayLive(r) ==
  IF ~Matches(r.st, Sample(Tip)) THEN Seed(head + 1, Tip, Gap)
  ELSE /\ rows' = Merge(rows, ShiftPredictions(r.rows, last))
       /\ Persist(head + 1, Tip)
       /\ Publish(r.st, r.rows[Tip].pred)
       /\ UNCHANGED hole

(* A restarted replay takes a parameter, or the model itself, from the     *)
(* live sample when nothing recorded up to the head explains it; one of    *)
(* the blocks to be replayed may have changed it.                          *)
Unexplained(kind) ==
  IF kind = "set" THEN SetAt(sets, head) = <<>> /\ ~P!IsLegacy(Sample(Tip))
  ELSE ~HasOrigin(Timeline, head) /\ ~\E k \in rec : k <= head /\ Of({kind}, k) # <<>>
LiveGuess ==
  /\ st = NoState
  /\ \E kind \in LegacyKinds \cup {"fee", "set"} :
       Unexplained(kind) /\ \E k \in head + 1..Tip : Of({kind}, k) # <<>>

Process ==
  /\ head > 0 /\ head < Tip /\ Tip - head <= MaxGap
  /\ IF ReplayState = NoState THEN Seed(1, 0, Gap)
     ELSE ReplayLive(ReplayForward(ReplayState, chain[head].ts, head + 1, Tip,
                                   Pending(head + 1, Tip), {Tip}))
  /\ guessed' = guessed \cup {n \in head + 1..Tip : /\ LiveGuess \/ head \in guessed
                                                   /\ n \in DOMAIN rows' /\ ~rows'[n].seeded}
  /\ UNCHANGED <<chain, faults>>

SampleOnly ==
  /\ head > 0 /\ head = Tip /\ st = NoState
  /\ Persist(1, 0)
  /\ Publish(FromSample(Sample(Tip)), last)
  /\ UNCHANGED <<chain, rows, hole, faults, guessed>>

(* A failed tick reloads the head and keeps the group computed at it. *)
FailedTick == /\ head > 0 /\ faults < MaxFaults /\ st # NoState
              /\ faults' = faults + 1
              /\ st' = NoState
              /\ UNCHANGED <<chain, rows, scan, samples, hole, head, last, guessed>>
Restart == /\ head > 0 /\ faults < MaxFaults
           /\ faults' = faults + 1
           /\ st' = NoState /\ last' = NoPrediction
           /\ UNCHANGED <<chain, rows, scan, samples, hole, head, guessed>>

(* The owner scan reaches the head, from the genesis or from a cutoff.     *)
Scan(cut) ==
  /\ cut < head /\ origin \in {0, cut}
  /\ ~(cut + 1..head \subseteq rec)
  /\ origin' = cut
  /\ LET stored == StoreOwnerActions(Timeline, cut + 1, head)
     IN rec' = stored.rec /\ sets' = stored.sets
  /\ UNCHANGED <<chain, rows, samples, hole, head, st, last, faults, guessed>>

-----------------------------------------------------------------------------
(* The gap filler. *)
ShapeAt(n) ==
  LET at == {k \in samples : k <= n}
      sample == Sample(Max(at))
  IN CASE at # {} /\ P!IsLegacy(sample) ->
            [constraints |-> <<>>, legacy |-> LegacyAt(Timeline, n, sample.legacy), min |-> 0]
       [] ~(at # {} /\ P!IsLegacy(sample)) /\ SetAt(sets, n) # <<>> -> FromEntries(SetAt(sets, n)[1], 0)
       [] at # {} /\ ~P!IsLegacy(sample) /\ SetAt(sets, n) = <<>> -> FromEntries(sample.constraints, 0)
       [] OTHER -> NoState
StoredFillState(n) == Resume(ShapeAt(n), n, rows[n].min)
TargetFor(h) ==
  LET prev == h.next - 1
      stored == IF prev \in DOMAIN rows /\ rows[prev].stored THEN StoredFillState(prev) ELSE NoState
  IN IF stored # NoState THEN stored ELSE h.state

(* The shape the replay of the range ends with is the one stored after it. *)
EndsInKnownShape(h, s) ==
  LET ids == {i \in DOMAIN sets : /\ sets[i].block \in h.next..h.to + 1
                                  /\ ~(sets[i].block = h.to + 1 /\ sets[i].source = "observed")}
      order == SetToSortSeq(ids, LAMBDA i, j : sets[i].block < sets[j].block
                                               \/ (sets[i].block = sets[j].block /\ i < j))
      end == FoldLeft(ApplyPricingChange, s,
                      [i \in 1..Len(order) |-> [kind |-> "set", value |-> sets[order[i]].entries]])
      known == Sample(h.to + 1).constraints
  IN IF known # <<>> THEN SameSets(end.constraints, known)
     ELSE Len(P!Backlogs(end)) = Len(rows[h.to + 1].backlogs)

(* commitFill of a batch that ends at to, replayed as r: its rows, the     *)
(* prediction of the block after the range, and what is left of the range. *)
CommitFill(to, r) ==
  LET shifted == ShiftPredictions(r.rows, hole.carry)
      filled == [n \in DOMAIN r.rows |-> [shifted[n] EXCEPT !.stored = RowBacked]]
      tail == hole.to + 1
      scores == to = hole.to /\ Len(rows[tail].backlogs) = Len(r.rows[to].backlogs)
  IN /\ rows' = Merge(IF scores THEN [rows EXCEPT ![tail].pred = r.rows[to].pred] ELSE rows, filled)
     /\ hole' = IF to = hole.to THEN NoHole
                ELSE [hole EXCEPT !.next = to + 1, !.state = r.st, !.carry = r.rows[to].pred]
FillFrom(s, to) ==
  /\ s # NoState /\ EndsInKnownShape(hole, s)
  /\ CommitFill(to, ReplayForward(s, chain[hole.next - 1].ts, hole.next, to, Timeline, {}))

(* A row holds the floor its block was priced with, not one the block set; *)
(* and a state sample of the legacy model wins over a newer set.           *)
FillGuess(n) ==
  LET at == {k \in samples : k <= n}
  IN /\ n \in DOMAIN rows /\ rows[n].stored /\ StoredFillState(n) # NoState
     /\ \/ ~rows[n].seeded /\ Of({"fee"}, n) # <<>>
        \/ at # {} /\ P!IsLegacy(Sample(Max(at))) /\ ~P!IsLegacy(Post(n))

Fill(k) ==
  /\ hole # NoHole
  /\ LET to == Min({hole.next + k - 1, hole.to})
     IN /\ FillFrom(TargetFor(hole), to)
        /\ guessed' = guessed \cup {n \in hole.next..to : FillGuess(hole.next - 1) \/ hole.next - 1 \in guessed}
  /\ UNCHANGED <<chain, scan, samples, head, st, last, faults>>

-----------------------------------------------------------------------------
(* The backfill's replay of a run, after the owner scan is complete.       *)

(* The floor at a block: the recorded one, unless nothing changed it since *)
(* the last anchor, where it was sampled.                                  *)
BackfillFee(tl, anchors, n) ==
  LET below == {a \in anchors : a < n}
  IN IF below # {} /\ MinFeeChangeBlock(tl, n) <= Max(below) THEN Sample(Max(below)).min
     ELSE MinFeeAt(tl, n)

(* A new chunk starts where the floor or the legacy parameters differ from *)
(* those the chunk began with.                                             *)
Terms(s, tl, anchors, n) ==
  [min |-> BackfillFee(tl, anchors, n),
   params |-> IF s.legacy = P!NoLegacy THEN s.legacy
              ELSE [LegacyBefore(tl, n, s.legacy) EXCEPT !.backlog = 0]]
Adopt(acc, terms) ==
  IF acc.terms = <<terms>> THEN acc
  ELSE [acc EXCEPT !.terms = <<terms>>, !.st.min = terms.min,
                   !.st.legacy = IF @ = P!NoLegacy THEN @
                                 ELSE [terms.params EXCEPT !.backlog = acc.st.legacy.backlog]]
ReplaySegment(s, ts, from, to, tl, anchors) ==
  FoldLeft(LAMBDA acc, n : ReplayBlock(Adopt(acc, Terms(s, tl, anchors, n)), n, tl, anchors),
           [st |-> s, ts |-> ts, rows |-> NoRows, terms |-> <<>>], Numbers(from, to)).rows
Anchors == {n \in 1..Tip : n % AnchorEvery = 0}

Init ==
  /\ chain = <<>> /\ rows = NoRows /\ rec = {} /\ sets = <<>> /\ samples = {}
  /\ hole = NoHole /\ origin = 0 /\ head = 0 /\ st = NoState /\ last = NoPrediction
  /\ faults = 0 /\ guessed = {}
Next ==
  \/ \E dt \in Gaps, txs \in Bodies : Mint(dt, txs)
  \/ First \/ Skip \/ Process \/ SampleOnly \/ FailedTick \/ Restart
  \/ \E cut \in Origins : Scan(cut)
  \/ \E k \in 1..2 : Fill(k)
Spec == Init /\ [][Next]_vars

-----------------------------------------------------------------------------
(* Rows are contiguous from the first one but for the range still missing, *)
(* which lies below the head.                                              *)
TypeOK ==
  /\ head = Max({0} \cup DOMAIN rows)
  /\ hole # NoHole => hole.next \in 2..hole.to /\ hole.to < head
  /\ DOMAIN rows # {} =>
       Min(DOMAIN rows)..head = DOMAIN rows \cup (IF hole = NoHole THEN {} ELSE hole.next..hole.to)

(* Every stored block has the backlogs the chain ended it with and the     *)
(* floor that priced it, whichever loop replayed it, in whatever batches,  *)
(* after whatever failures; but for blocks replayed from one of the starts *)
(* taken on trust. A seeded block has the sampled floor.                   *)
RowsExact ==
  \A n \in DOMAIN rows \ guessed :
    /\ rows[n].backlogs = P!Backlogs(Post(n))
    /\ ~rows[n].seeded => rows[n].min = Floor(n)

(* A prediction is the base fee in the block's own header.  After a seeded *)
(* block that an owner action repriced it is only an approximation, and    *)
(* after one replayed from a start taken on trust.                         *)
PredictionsExact ==
  \A n \in DOMAIN rows :
    \/ {n - 1, n} \cap guessed # {}
    \/ rows[n].pred = NoPrediction
    \/ rows[n].pred.fee = HeaderFee(n)
    \/ n - 1 \in DOMAIN rows /\ rows[n - 1].seeded /\ Changes(n - 1) # <<>>

(* A block is left without a prediction only by a seed, by the first tick  *)
(* of a process, or by a fill that continues from a block row alone; every *)
(* tick that moves the head leaves a group for the block after it.         *)
CarryStep ==
  /\ \A n \in DOMAIN rows' \ DOMAIN rows :
       rows'[n].pred = NoPrediction =>
         \/ rows'[n].seeded
         \/ n = head + 1 /\ last = NoPrediction
         \/ n = hole.next /\ hole.carry = NoPrediction
  /\ head' # head => last' # NoPrediction
CarryKept == [][CarryStep]_vars

Whole == StoreOwnerActions([rec |-> {}, sets |-> <<>>, origin |-> 0], 1, Tip)
Same(n, row) == row.backlogs = P!Backlogs(Post(n)) /\ row.min = Floor(n)
Reproduces(from, to, rs) ==
  \A k \in from..to : Same(k, rs[k]) /\ (k > from => rs[k].pred.fee = HeaderFee(k))
(* Blocks to end of the run that starts at the set in force at its first   *)
(* block: no other set is installed in it.                                 *)
RunFrom(n) == {k \in n + 1..Tip : \A j \in n + 1..k : Of({"set"}, j) = <<>>}

(* A window seeded from an archive sample reproduces the chain: backlogs,  *)
(* floors and, one block in, base fees, through changes of the floor and   *)
(* of the legacy parameters and whether an anchor pins a block or not.     *)
WindowsExact ==
  \A n \in 1..Tip : \A to \in RunFrom(n), anchors \in {{n}, {n} \cup Anchors} :
    Reproduces(n + 1, to, ShiftPredictions(
      ReplaySegment(FromSample(Post(n)), chain[n].ts, n + 1, to, Whole, anchors), NoPrediction))

(* Replayed from the block that installed the set, with the set's starting *)
(* backlogs and no predecessor.                                            *)
FromSet(n, to) ==
  ReplaySegment(FromEntries(Last(Of({"set"}, n)).value, 0), 0, n, to, Whole, {})
SetStarts == {n \in 1..Tip : Of({"set"}, n) # <<>>}

(* A segment replayed from the set that starts it ends every block with    *)
(* the chain's backlogs and floor, although the block that installed the   *)
(* set began under another one.                                            *)
SegmentsExact ==
  \A n \in SetStarts : \A to \in RunFrom(n) : \A k \in n..to : Same(k, FromSet(n, to)[k])

(* ...and every prediction it writes is the block's base fee. *)
SegmentsPredict ==
  \A n \in SetStarts : \A to \in RunFrom(n) : \A k \in n + 1..to :
    ShiftPredictions(FromSet(n, to), NoPrediction)[k].pred.fee = HeaderFee(k)
=============================================================================
