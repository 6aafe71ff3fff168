----------------------------- MODULE BucketMath -----------------------------
(***************************************************************************)
(* The arithmetic of a bucket, which the repository writes four times: the *)
(* builder that adds one block at a time (bucket.go Add), the merge of two *)
(* partial buckets (MergeBuckets, the in-memory store), the same merge as  *)
(* an upsert of the database (FoldBuckets) and the recomputation of a      *)
(* window from its rows as one aggregate query (RebuildBuckets).  Blocks   *)
(* are folded in runs, newest first or oldest first, and windows are       *)
(* rebuilt in between, so the four must agree whatever the order.          *)
(*                                                                         *)
(* A nullable column is an integer, Null when it is absent.  Block n has   *)
(* the timestamp n; a window of width w starts at a multiple of w.         *)
(***************************************************************************)
EXTENDS Integers, Sequences, FiniteSets, SequencesExt, FiniteSetsExt

CONSTANTS Shapes,      \* the block rows a chain may hold, without their numbers
          Count,       \* blocks of the chain
          Widths,      \* the stored resolutions
          Legacy,      \* TRUE: a bucket written before base_fee_sum may be stored
          MaxBips      \* the largest value of the replay error column

Null == -1

BucketMathAssumption ==
  /\ Count \in Nat \ {0}
  /\ Widths \subseteq Nat \ {0}
  /\ \A s \in Shapes : s.poster <= s.gas  \* CHECK blocks_poster_gas_valid

VARIABLES
  chain,     \* the block of every number
  counted,   \* numbers of the blocks the buckets count
  mem,       \* buckets of the in-memory store, by width and start
  pg         \* buckets of the database, by width and start

vars == <<chain, counted, mem, pg>>

Keys == {<<w, n - (n % w)>> : w \in Widths, n \in 1..Count}
KeyOf(w, n) == <<w, n - (n % w)>>
NoBucket == [blocks |-> 0]

AddNull(a, b) == IF Null \in {a, b} THEN Null ELSE a + b
Least(a, b) == IF a < b THEN a ELSE b
Most(a, b) == IF a > b THEN a ELSE b

(* Element-wise maximum of two arrays, as long as the longer one. *)
MaxEach(a, b) ==
  [i \in 1..Most(Len(a), Len(b)) |->
     CASE i > Len(a) -> b[i] [] i > Len(b) -> a[i] [] OTHER -> Most(a[i], b[i])]

-----------------------------------------------------------------------------
(* The builder: one block at a time, then Bucket() closes it. *)
NewBucketBuilder ==
  [blocks |-> 0, gas |-> 0, poster |-> 0, fees |-> 0, posterFees |-> 0,
   feeMin |-> 0, feeMax |-> 0, feeSum |-> 0, feeAvg |-> 0,
   floorFees |-> 0, surplusFees |-> 0, floor |-> 0, known |-> TRUE,
   backlogsEnd |-> <<>>, backlogsMax |-> <<>>, set |-> Null, error |-> 0,
   last |-> 0, arbosMin |-> Null, arbosMax |-> Null]

Known(blk) == blk.floor # Null

DestinationsKnown(blk) == Known(blk) /\ blk.poster # Null
ReplayErrorBips(blk) == IF blk.error = Null THEN 0 ELSE blk.error
FloorRate(blk) == Least(blk.fee, blk.floor)

(* A block that recorded no ArbOS version clears the bounds for good. *)
ExtendArbOSRange(b, v) ==
  IF v = Null \/ (b.blocks > 0 /\ b.arbosMin = Null) THEN <<Null, Null>>
  ELSE IF b.blocks = 0 THEN <<v, v>>
  ELSE <<Least(b.arbosMin, v), Most(b.arbosMax, v)>>

AddBlock(b, n) ==
  LET blk == chain[n]
      newer == n >= b.last
      split == DestinationsKnown(blk) /\ Null \notin {b.floorFees, b.surplusFees}
      poster == Null \notin {blk.poster, b.poster}
  IN [blocks |-> b.blocks + 1,
      gas |-> b.gas + blk.gas,
      fees |-> b.fees + blk.fee * blk.gas,
      poster |-> IF poster THEN b.poster + blk.poster ELSE Null,
      posterFees |-> IF poster THEN b.posterFees + blk.fee * blk.poster ELSE Null,
      feeMin |-> IF b.blocks = 0 THEN blk.fee ELSE Least(b.feeMin, blk.fee),
      feeMax |-> Most(b.feeMax, blk.fee),
      feeSum |-> b.feeSum + blk.fee,
      feeAvg |-> b.feeAvg,
      floorFees |-> IF split THEN b.floorFees + FloorRate(blk) * (blk.gas - blk.poster)
                             ELSE Null,
      surplusFees |-> IF split
                      THEN b.surplusFees + (blk.fee - FloorRate(blk)) * (blk.gas - blk.poster)
                      ELSE Null,
      floor |-> IF newer THEN blk.floor ELSE b.floor,
      known |-> b.known /\ Known(blk),
      backlogsEnd |-> IF newer THEN blk.backlogs ELSE b.backlogsEnd,
      backlogsMax |-> MaxEach(b.backlogsMax, blk.backlogs),
      set |-> IF newer /\ blk.set # Null THEN blk.set ELSE b.set,
      error |-> Most(b.error, ReplayErrorBips(blk)),
      last |-> Most(b.last, n),
      arbosMin |-> ExtendArbOSRange(b, blk.arbos)[1],
      arbosMax |-> ExtendArbOSRange(b, blk.arbos)[2]]

(* A window holding a block without the breakdown reports no floor, no split. *)
HideUnknown(b) ==
  IF b.known THEN b
  ELSE [b EXCEPT !.floor = Null, !.floorFees = Null, !.surplusFees = Null]

Bucket(b) == HideUnknown([b EXCEPT !.feeAvg = b.feeSum \div b.blocks])

(* The bucket of the blocks of a set, added in ascending order. *)
Build(ns) == Bucket(FoldLeft(AddBlock, NewBucketBuilder, SetToSortSeq(ns, <)))

(* One partial bucket for every window the run touches, at every width. *)
InWindow(ns, k) == {n \in ns : KeyOf(k[1], n) = k}
FoldBlocks(ns) == [k \in {j \in Keys : InWindow(ns, j) # {}} |-> Build(InWindow(ns, k))]

-----------------------------------------------------------------------------

(* The merge of the in-memory store, MergeBuckets(old, b). *)
BaseFeeSumOf(b) == IF b.feeSum # Null THEN b.feeSum ELSE b.feeAvg * b.blocks

MergeArbOSRange(old, b) ==
  IF old.blocks = 0 THEN <<b.arbosMin, b.arbosMax>>
  ELSE IF b.blocks = 0 THEN <<old.arbosMin, old.arbosMax>>
  ELSE IF old.arbosMin = Null \/ b.arbosMin = Null THEN <<Null, Null>>
  ELSE <<Least(old.arbosMin, b.arbosMin), Most(old.arbosMax, b.arbosMax)>>

MergeBuckets(old, b) ==
  LET newer == b.last >= old.last
      n == old.blocks + b.blocks
  IN HideUnknown(
       [blocks |-> n,
        gas |-> old.gas + b.gas,
        fees |-> old.fees + b.fees,
        poster |-> AddNull(old.poster, b.poster),
        posterFees |-> AddNull(old.posterFees, b.posterFees),
        feeMin |-> Least(old.feeMin, b.feeMin),
        feeMax |-> Most(old.feeMax, b.feeMax),
        feeSum |-> AddNull(old.feeSum, b.feeSum),
        feeAvg |-> (BaseFeeSumOf(old) + BaseFeeSumOf(b)) \div n,
        floorFees |-> AddNull(old.floorFees, b.floorFees),
        surplusFees |-> AddNull(old.surplusFees, b.surplusFees),
        floor |-> IF newer THEN b.floor ELSE old.floor,
        known |-> old.known /\ b.known,
        backlogsEnd |-> IF newer THEN b.backlogsEnd ELSE old.backlogsEnd,
        backlogsMax |-> MaxEach(old.backlogsMax, b.backlogsMax),
        set |-> IF newer /\ b.set # Null THEN b.set ELSE old.set,
        error |-> Most(old.error, b.error),
        last |-> Most(old.last, b.last),
        arbosMin |-> MergeArbOSRange(old, b)[1],
        arbosMax |-> MergeArbOSRange(old, b)[2]])

MemFold(k, b) == IF mem[k] = NoBucket THEN b ELSE MergeBuckets(mem[k], b)

-----------------------------------------------------------------------------
(* The database's fold: every column of DO UPDATE SET reads the old row    *)
(* and EXCLUDED, never a column assigned beside it.                        *)
Coalesce(a, b) == IF a # Null THEN a ELSE b
CaseNull(cond, v) == IF cond THEN Null ELSE v

(* Plausible error: the upsert leaves the surplus of the other run out. *)
FoldKeepsSurplus(old, new) == [MergeBuckets(old, new) EXCEPT !.surplusFees = old.surplusFees]

FoldBuckets(old, new) ==
  LET unknown == ~(old.known /\ new.known)      \* LEAST(pricing versions) = 0
      newer == new.last >= old.last
  IN [blocks |-> old.blocks + new.blocks,
      gas |-> old.gas + new.gas,
      fees |-> old.fees + new.fees,
      poster |-> CaseNull(Null \in {old.poster, new.poster}, old.poster + new.poster),
      posterFees |-> CaseNull(Null \in {old.posterFees, new.posterFees},
                              old.posterFees + new.posterFees),
      feeMin |-> Least(old.feeMin, new.feeMin),
      feeMax |-> Most(old.feeMax, new.feeMax),
      feeSum |-> CaseNull(Null \in {old.feeSum, new.feeSum}, old.feeSum + new.feeSum),
      feeAvg |-> (Coalesce(old.feeSum, old.feeAvg * old.blocks)
                    + Coalesce(new.feeSum, new.feeAvg * new.blocks))
                 \div (old.blocks + new.blocks),
      floorFees |-> CaseNull(unknown \/ Null \in {old.floorFees, new.floorFees},
                             old.floorFees + new.floorFees),
      surplusFees |-> CaseNull(unknown \/ Null \in {old.surplusFees, new.surplusFees},
                               old.surplusFees + new.surplusFees),
      floor |-> CaseNull(unknown, IF newer THEN new.floor ELSE old.floor),
      known |-> ~unknown,
      backlogsEnd |-> IF newer THEN new.backlogsEnd ELSE old.backlogsEnd,
      backlogsMax |-> MaxEach(old.backlogsMax, new.backlogsMax),
      set |-> IF newer THEN Coalesce(new.set, old.set) ELSE old.set,
      error |-> Most(old.error, new.error),
      last |-> Most(old.last, new.last),
      arbosMin |-> CaseNull(Null \in {old.arbosMin, new.arbosMin},
                            Least(old.arbosMin, new.arbosMin)),
      arbosMax |-> CaseNull(Null \in {old.arbosMax, new.arbosMax},
                            Most(old.arbosMax, new.arbosMax))]

(* The database's recomputation, one aggregate over the rows of a window.  *)
(* LEAST skips a NULL argument, so a row without a prediction counts as    *)
(* the cap of the replay error column.                                     *)
SumOver(ns, F(_)) == MapThenSumSet(F, ns)
LeastSkipsNull(a, b) == IF a = Null THEN b ELSE Least(a, b)

RebuildBuckets(ns) ==
  LET lastb == Max(ns)
      all(P(_)) == \A n \in ns : P(n)
      priced == all(LAMBDA n : Known(chain[n]))
      posted == all(LAMBDA n : chain[n].poster # Null)
      dated == all(LAMBDA n : chain[n].arbos # Null)
      sum == SumOver(ns, LAMBDA n : chain[n].fee)
  IN [blocks |-> Cardinality(ns),
      gas |-> SumOver(ns, LAMBDA n : chain[n].gas),
      fees |-> SumOver(ns, LAMBDA n : chain[n].fee * chain[n].gas),
      poster |-> CaseNull(~posted, SumOver(ns, LAMBDA n : chain[n].poster)),
      posterFees |-> CaseNull(~posted, SumOver(ns, LAMBDA n : chain[n].fee * chain[n].poster)),
      feeMin |-> Min({chain[n].fee : n \in ns}),
      feeMax |-> Max({chain[n].fee : n \in ns}),
      feeSum |-> sum,
      feeAvg |-> sum \div Cardinality(ns),
      floorFees |-> CaseNull(~priced \/ ~posted,
        SumOver(ns, LAMBDA n : FloorRate(chain[n]) * (chain[n].gas - chain[n].poster))),
      surplusFees |-> CaseNull(~priced \/ ~posted,
        SumOver(ns, LAMBDA n : (chain[n].fee - FloorRate(chain[n]))
                                 * (chain[n].gas - chain[n].poster))),
      floor |-> CaseNull(~priced, chain[lastb].floor),
      known |-> priced,
      backlogsEnd |-> chain[lastb].backlogs,
      backlogsMax |-> [i \in 1..Max({Len(chain[n].backlogs) : n \in ns}) |->
        Max({chain[n].backlogs[i] : n \in {m \in ns : i \in DOMAIN chain[m].backlogs}})],
      set |-> chain[lastb].set,
      error |-> Max({LeastSkipsNull(chain[n].error, MaxBips) : n \in ns}),
      last |-> lastb,
      arbosMin |-> CaseNull(~dated, Min({chain[n].arbos : n \in ns})),
      arbosMax |-> CaseNull(~dated, Max({chain[n].arbos : n \in ns}))]

-----------------------------------------------------------------------------
(* A bucket of the schema before base_fee_sum: its average is rounded. *)
DropSum(b) == [b EXCEPT !.feeSum = Null]

Init ==
  /\ chain \in [1..Count -> Shapes]
  /\ \E old \in IF Legacy THEN {{}, {1}, 1..2} ELSE {{}} :
       /\ counted = old
       /\ mem = [k \in Keys |-> IF InWindow(old, k) = {} THEN NoBucket
                                ELSE DropSum(Build(InWindow(old, k)))]
       /\ pg = mem

(* A run of consecutive blocks not counted yet is folded into both stores. *)
Fold(first, last) ==
  LET part == FoldBlocks(first..last)
  IN /\ (first..last) \cap counted = {}
     /\ mem' = [k \in Keys |-> IF k \in DOMAIN part THEN MemFold(k, part[k]) ELSE mem[k]]
     /\ pg' = [k \in Keys |-> IF k \notin DOMAIN part THEN pg[k]
                              ELSE IF pg[k] = NoBucket THEN part[k]
                              ELSE FoldBuckets(pg[k], part[k])]
     /\ counted' = counted \cup (first..last)
     /\ UNCHANGED chain

(* A window whose blocks are stored as rows is recomputed from them. *)
Rebuild(k) ==
  /\ InWindow(counted, k) # {}
  /\ mem' = [mem EXCEPT ![k] = Build(InWindow(counted, k))]
  /\ pg' = [pg EXCEPT ![k] = RebuildBuckets(InWindow(counted, k))]
  /\ UNCHANGED <<chain, counted>>

(* The rows above a block leave with a reorg, and their windows are recomputed. *)
Rewind(after) ==
  LET kept == {n \in counted : n <= after}
      hit(k) == InWindow(counted, k) # InWindow(kept, k)
  IN /\ kept # counted
     /\ counted' = kept
     /\ mem' = [k \in Keys |-> IF ~hit(k) THEN mem[k]
                 ELSE IF InWindow(kept, k) = {} THEN NoBucket ELSE Build(InWindow(kept, k))]
     /\ pg' = [k \in Keys |-> IF ~hit(k) THEN pg[k]
                 ELSE IF InWindow(kept, k) = {} THEN NoBucket
                 ELSE RebuildBuckets(InWindow(kept, k))]
     /\ UNCHANGED chain

Next ==
  \/ \E first, last \in 1..Count : first <= last /\ Fold(first, last)
  \/ \E k \in Keys : Rebuild(k)
  \/ \E after \in 0..Count : Rewind(after)

Spec == Init /\ [][Next]_vars

-----------------------------------------------------------------------------
TypeOK ==
  /\ chain \in [1..Count -> Shapes]
  /\ counted \subseteq 1..Count
  /\ DOMAIN mem = Keys /\ DOMAIN pg = Keys
  /\ \A k \in Keys : pg[k].blocks \in 0..k[1]

(* The in-memory store, which every test of the collector runs on, holds   *)
(* the bucket the database holds, after any order of folds, rebuilds and   *)
(* rewinds.                                                                *)
StoresAgree == mem = pg

(* A window folded run by run, in any order, is the window recomputed from *)
(* its rows at once: a fold never depends on which run came first.         *)
FoldIsRebuild ==
  \A k \in Keys :
    /\ InWindow(counted, k) = {} => pg[k] = NoBucket
    /\ InWindow(counted, k) # {} /\ pg[k].feeSum # Null
         => pg[k] = RebuildBuckets(InWindow(counted, k))

(* Where a fee split is shown it accounts for every wei of the window: the *)
(* floor, the surplus and the poster's share sum to the fees paid.         *)
SplitAddsUp ==
  \A k \in Keys :
    pg[k] # NoBucket /\ pg[k].floorFees # Null =>
      /\ pg[k].known
      /\ pg[k].floorFees + pg[k].surplusFees + pg[k].posterFees = pg[k].fees
=============================================================================
