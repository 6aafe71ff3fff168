----------------------------- MODULE BatchScan -----------------------------
(***************************************************************************)
(* The scan for batch posting reports (internal/collector/slow.go): a step *)
(* of the slow tick walks the stored blocks above its cursor, reads those  *)
(* that may hold a report and stores each with the cost parameters in      *)
(* force at its block.  They are reconstructed from a sample at a recent   *)
(* head, the recorded setter calls and the state at the owner scan's       *)
(* origin, all read before the step starts.                                *)
(*                                                                         *)
(* The node reorganises and the fast loop rewinds between any two steps.   *)
(* A report and a setter never share a block.                              *)
(***************************************************************************)
EXTENDS Integers, Sequences, FiniteSets, FiniteSetsExt, SequencesExt

CONSTANTS
  Params,         \* the per batch gas charge and the parent gas floor
  Needed,         \* those the blocks' ArbOS version uses
  Values,         \* what a setter may install
  Plain,          \* a block without a report or a setter may be minted
  Base,           \* the chain's height when the collector first starts
  Cut,            \* where the owner scan starts, 0 for the genesis
  Archive,        \* the state at the cut can be sampled
  ScanFirst,      \* the owner scan completes before the first report is read
  Limit,          \* batchScanLimit
  MaxHeight, MaxReorgs, MaxFaults  \* bounds

Default == 0   \* defaultPerBatchGasCharge, and no floor

BatchScanAssumption ==
  /\ Needed \subseteq Params /\ Values \subseteq Nat /\ Base \in 1..MaxHeight
  /\ Cut \in 0..Base /\ Limit \in Nat \ {0} /\ {Plain, Archive, ScanFirst} \subseteq BOOLEAN

VARIABLES
  chain,      \* external: the node's blocks
  rows,       \* db: stored blocks, by height
  actions,    \* db: recorded setter calls
  reports,    \* db: batch_reports, height -> fork and parameters
  cursor,     \* db: batch_scan_cursor_v2
  gen,        \* db: generation
  head,       \* f.head
  changes,    \* f.batchCostChanges
  origin,     \* f.scanOrigin
  anchor,     \* f.batchCostAnchor
  scanned,    \* an owner scan has completed
  step,       \* the batch scan in flight
  spent       \* reorgs and faults so far

vars == <<chain, rows, actions, reports, cursor, gen, head, changes, origin, anchor, scanned, step, spent>>
owner == <<actions, changes, origin, scanned>>
store == <<rows, reports, cursor, gen>>

Absent == -1
NoSetter == [param |-> "none", value |-> 0]
Unknown == [p \in Params |-> Absent]
NoOrigin == [block |-> Absent, params |-> Unknown]
NoAnchor == [block |-> 0, params |-> Unknown]
Idle == [pc |-> "idle"]
Nothing == [h \in {} |-> 0]
Tip == Len(chain)

(* The parameters the chain had at the end of block n. *)
InForce(n) ==
  [p \in Params |->
     LET at == {h \in 1..n : chain[h].setter.param = p}
     IN IF at = {} THEN Default ELSE chain[Max(at)].setter.value]
Setters(from, to) ==
  {[block |-> h, fork |-> chain[h].fork, param |-> chain[h].setter.param, value |-> chain[h].setter.value] :
     h \in {k \in from..to : chain[k].setter # NoSetter}}

-----------------------------------------------------------------------------
(* The node, the fast loop and the owner scan. *)
Bodies ==
  {[report |-> TRUE, setter |-> NoSetter]}
  \cup (IF Plain THEN {[report |-> FALSE, setter |-> NoSetter]} ELSE {})
  \cup {[report |-> FALSE, setter |-> [param |-> p, value |-> v]] : p \in Params, v \in Values}
Mint(b) ==
  /\ Tip < MaxHeight
  /\ chain' = Append(chain, [report |-> b.report, setter |-> b.setter, fork |-> spent.reorgs])
  /\ UNCHANGED <<store, head, owner, anchor, step, spent>>
Reorg(k, b) ==
  /\ spent.reorgs < MaxReorgs /\ head > 0 /\ k \in Min(DOMAIN rows)..Tip - 1
  /\ chain' = Append(SubSeq(chain, 1, k), [report |-> b.report, setter |-> b.setter, fork |-> spent.reorgs + 1])
  /\ spent' = [spent EXCEPT !.reorgs = @ + 1]
  /\ UNCHANGED <<store, head, owner, anchor, step>>

OnChain(h) == h <= Tip /\ rows[h] = chain[h]
Settled == \A h \in DOMAIN rows : OnChain(h)
Tick ==
  /\ Settled /\ head < Tip /\ Tip >= Base
  /\ LET new == IF head = 0 THEN {Tip} ELSE head + 1..Tip
     IN rows' = [h \in DOMAIN rows \cup new |-> chain[h]]
  /\ head' = Tip
  /\ actions' = actions \cup (IF head = 0 THEN {} ELSE Setters(head + 1, Tip))
  /\ changes' = actions'
  /\ UNCHANGED <<chain, reports, cursor, gen, origin, scanned, anchor, step, spent>>

RewindCursor(k) == IF cursor > k THEN k ELSE cursor
Rewind ==
  /\ ~Settled
  /\ LET k == Max({h \in DOMAIN rows : OnChain(h)})
     IN /\ rows' = [h \in {n \in DOMAIN rows : n <= k} |-> rows[h]]
        /\ reports' = [h \in {n \in DOMAIN reports : n <= k} |-> reports[h]]
        /\ actions' = {a \in actions : a.block <= k}
        /\ changes' = actions'
        /\ cursor' = RewindCursor(k)
        /\ head' = k
  /\ gen' = gen + 1
  /\ UNCHANGED <<chain, origin, scanned, anchor, step, spent>>

(* A complete pass of the owner scan. *)
OwnerScan ==
  /\ head > 0 /\ Settled /\ head > Cut /\ ~scanned
  /\ actions' = actions \cup Setters(Cut + 1, head)
  /\ changes' = actions' /\ scanned' = TRUE
  /\ origin' = IF Cut = 0 THEN NoOrigin
               ELSE [block |-> Cut, params |-> IF Archive THEN InForce(Cut) ELSE Unknown]
  /\ UNCHANGED <<chain, store, head, anchor, step, spent>>

(* The L1 step of the slow tick pins the parameters at the stored head. *)
SampleSlow ==
  /\ step = Idle /\ head \in 1..Tip
  /\ anchor' = [block |-> head, params |-> InForce(head)]
  /\ UNCHANGED <<chain, store, head, owner, step, spent>>

-----------------------------------------------------------------------------
(* The parameters at a block.  Setters up to it are applied; where none    *)
(* lies between the block and the anchor, the anchor's value is taken.     *)
Applies(r, c) == ~(r.origin.block # Absent /\ r.origin.params # Unknown /\ c.block <= r.origin.block)
Latest(cs) == CHOOSE c \in cs : \A d \in cs : d.block <= c.block

(* Plausible error: the anchor's value is taken whatever was set since. *)
AlwaysAnchor(r, n, p) == r.anchor.params[p]

ParamAt(r, n, p) ==
  LET mine == {c \in r.changes : c.param = p /\ Applies(r, c)}
      before == {c \in mine : c.block <= n}
      after == {c \in mine : c.block \in n + 1..r.anchor.block}
  IN CASE after = {} -> r.anchor.params[p]
       [] after # {} /\ before # {} -> Latest(before).value
       [] after # {} /\ before = {} /\ r.origin = NoOrigin -> Default
       [] OTHER -> IF n > r.origin.block THEN r.origin.params[p] ELSE Absent
ParamsAt(r, n) == [p \in Params |-> ParamAt(r, n, p)]
Reconstructable(params) == \A p \in Needed : params[p] # Absent

(* What the step decides with, read before the generation. *)
BatchCostResolver ==
  /\ step = Idle /\ anchor # NoAnchor /\ (ScanFirst => scanned)
  /\ step' = [pc |-> "resolved", r |-> [anchor |-> anchor, changes |-> changes, origin |-> origin]]
  /\ UNCHANGED <<chain, store, head, owner, anchor, spent>>

FirstAfter == Min(DOMAIN rows) - 1
ReadCursor ==
  /\ step.pc = "resolved"
  /\ step' = [pc |-> "walk", r |-> step.r, gen |-> gen,
              after |-> IF cursor = Absent THEN FirstAfter ELSE cursor]
  /\ UNCHANGED <<chain, store, head, owner, anchor, spent>>

(* Every stored block on an unlimited endpoint, blocks of two transactions *)
(* on a budgeted one.                                                      *)
TwoTxs(h) == rows[h].report \/ rows[h].setter # NoSetter
BatchCandidates(after, unlimited) ==
  LET found == {h \in DOMAIN rows : h > after /\ (unlimited \/ TwoTxs(h))}
      order == SetToSortSeq(found, <)
  IN SubSeq(order, 1, IF Len(order) < Limit THEN Len(order) ELSE Limit)

CapBlocks(nums, through) == SelectSeq(nums, LAMBDA n : n <= through)

Walk(unlimited) ==
  /\ step.pc = "walk"
  /\ LET nums == CapBlocks(BatchCandidates(step.after, unlimited), step.r.anchor.block)
         read == {nums[i] : i \in 1..Len(nums)}
         kept == {h \in read : h <= Tip /\ chain[h].report /\ Reconstructable(ParamsAt(step.r, h))}
     IN IF nums = <<>> \/ ~(read \subseteq 1..Tip) THEN step' = Idle
        ELSE step' = [pc |-> "commit", r |-> step.r, gen |-> step.gen, after |-> Last(nums),
                      more |-> unlimited /\ Len(nums) = Limit,
                      found |-> [h \in kept |-> [fork |-> chain[h].fork, params |-> ParamsAt(step.r, h)]]]
  /\ UNCHANGED <<chain, store, head, owner, anchor, spent>>

(* Plausible error: the generation is not compared. *)
AlwaysCurrent == TRUE

Current == step.gen = gen
Upsert(table, new) ==
  [h \in DOMAIN table \cup DOMAIN new |-> IF h \in DOMAIN new THEN new[h] ELSE table[h]]
Commit ==
  /\ step.pc = "commit"
  /\ IF Current
     THEN /\ reports' = Upsert(reports, step.found)
          /\ cursor' = step.after
          /\ step' = IF step.more THEN [pc |-> "walk", r |-> step.r, gen |-> step.gen, after |-> step.after]
                     ELSE Idle
     ELSE step' = Idle /\ UNCHANGED <<reports, cursor>>
  /\ UNCHANGED <<chain, rows, gen, head, owner, anchor, spent>>

Fails ==
  /\ step # Idle /\ spent.faults < MaxFaults
  /\ spent' = [spent EXCEPT !.faults = @ + 1]
  /\ step' = Idle
  /\ UNCHANGED <<chain, store, head, owner, anchor>>

Init ==
  /\ chain = <<>> /\ rows = Nothing /\ actions = {} /\ reports = Nothing
  /\ cursor = Absent /\ gen = 0 /\ head = 0 /\ changes = {} /\ origin = NoOrigin
  /\ anchor = NoAnchor /\ scanned = FALSE /\ step = Idle
  /\ spent = [reorgs |-> 0, faults |-> 0]
Slow == SampleSlow \/ BatchCostResolver \/ ReadCursor \/ Commit
        \/ (\E unlimited \in BOOLEAN : Walk(unlimited))
Next ==
  \/ Slow \/ Tick \/ Rewind \/ OwnerScan \/ Fails
  \/ \E b \in Bodies : Mint(b) \/ \E k \in 1..MaxHeight : Reorg(k, b)
Spec == Init /\ [][Next]_vars

-----------------------------------------------------------------------------
(* The cursor and the reports stay within the stored blocks. *)
TypeOK ==
  /\ DOMAIN reports \subseteq DOMAIN rows
  /\ cursor = Absent \/ cursor \in DOMAIN rows
  /\ head = Max({0} \cup DOMAIN rows)

(* A stored report is one of the chain that is followed, with the          *)
(* parameters ArbOS charged the batch with: never those of another fork,   *)
(* of before a setter or of after it.                                      *)
CostsExact ==
  Settled => \A h \in DOMAIN reports :
    \A p \in Needed : reports[h].params[p] = InForce(h)[p]

(* No report of a dead fork survives the rewind. *)
ReportsOnChain ==
  Settled => \A h \in DOMAIN reports : chain[h].report /\ reports[h].fork = chain[h].fork

(* A report the scan has passed is stored, except one whose parameters     *)
(* nothing recorded explains: without an archive, before a later setter.   *)
NoneMissed ==
  Settled => \A h \in DOMAIN rows :
    h <= cursor /\ chain[h].report /\ h \notin DOMAIN reports =>
      ~Archive /\ Cut > 0 /\ Setters(h, Tip) # {}
=============================================================================
