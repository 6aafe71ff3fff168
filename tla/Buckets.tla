------------------------------- MODULE Buckets -------------------------------
(***************************************************************************)
(* Which blocks a bucket counts, and how often. Buckets from the hour of   *)
(* the first live block on are rebuilt from block rows (RebuildBuckets) by *)
(* the live loop, the filler and a rewind; older ones are only folded into *)
(* (FoldBuckets), under a hole's watermark. Pruning deletes rows below a   *)
(* forward-only frontier, after which the store declines to rebuild a      *)
(* window that starts below it. A height is its own timestamp and a bucket *)
(* is what it counts of every height; what it aggregates is in             *)
(* BucketMath. Reorgs are detected in the step they happen in and reach no *)
(* block below the first live one: Follower and Backfill have the rest.    *)
(***************************************************************************)
EXTENDS Integers, FiniteSets, FiniteSetsExt

CONSTANTS
    MaxHeight,      \* bound on the chain
    LiveStart,      \* the first live block, whose hour is the boundary
    Widths,         \* bucket widths, the widest one being the boundary's
    Retention,      \* block_retention
    Batch,          \* heights a fill fetches at once
    OldHoles,       \* holes below the boundary, left by a moved live start
    MaxSkips,       \* bound: gaps the live loop records
    MaxRewinds      \* bound: rewinds

Heights == 1..MaxHeight
WindowStart(b, w) == b - (b % w)
Window(b, w) == {c \in Heights : WindowStart(c, w) = WindowStart(b, w)}
Boundary == WindowStart(LiveStart, Max(Widths))

BucketsAssumption ==
    /\ MaxHeight \in Nat /\ LiveStart \in Heights
    /\ Widths # {} /\ Widths \subseteq Nat \ {0} /\ IsFiniteSet(Widths)
    /\ Retention \in Nat /\ Retention >= Max(Widths)  \* MinBlockRetention
    /\ Batch \in Nat \ {0} /\ MaxSkips \in Nat /\ MaxRewinds \in Nat
    /\ \A h \in OldHoles : h.from <= h.to /\ h.to < Boundary /\ h.next = 0 /\ h.folded = 0

VARIABLES
    rows,       \* heights with a block row
    holes,      \* missing_ranges: first, last, cursor and fold watermark
    frontier,   \* StatePruneFrontier
    count,      \* times a bucket of each width counts each height
    dead,       \* heights of a dead fork a bucket of each width still counts
    generation, \* the rewind counter
    fill,       \* the filler's batch in flight
    skips, rewinds,
    unfolded,   \* history: heights below a range's watermark that a rewind deleted
    relived     \* history: heights the live loop stored while a range owed them,
                \* or recorded as missing while a bucket counted them

past == <<unfolded, relived>>
vars == <<rows, holes, frontier, count, dead, generation, fill, skips, rewinds, unfolded, relived>>

Head == Max(rows)
NoFill == [on |-> FALSE, gen |-> 0, hole |-> [from |-> 0, to |-> 0, next |-> 0, folded |-> 0], batch |-> {}]

-----------------------------------------------------------------------------

(* rebuildable and BelowFrontier. *)
Declined(b, w) == WindowStart(b, w) < frontier

(* RebuildBuckets over the windows of touched, at every resolution: what   *)
(* the rows R say, unless declined.                                        *)
RebuildCount(R, touched) ==
    [w \in Widths |-> [b \in Heights |->
        IF WindowStart(b, w) \in {WindowStart(t, w) : t \in touched} /\ ~Declined(b, w)
        THEN IF b \in R THEN 1 ELSE 0
        ELSE count[w][b]]]

(* A rebuilt window counts nothing of a dead fork. *)
RebuildDead(touched) ==
    [w \in Widths |-> {b \in dead[w] :
        WindowStart(b, w) \notin {WindowStart(t, w) : t \in touched} \/ Declined(b, w)}]

Present(b, w) == \E c \in Window(b, w) : count[w][c] > 0 \/ c \in dead[w]

(* recordHole: one class and reason, so the new range merges with all it   *)
(* touches. Cursor of the first, highest watermark (mergeHole).            *)
RecordHole(H, h) ==
    LET group == {k \in H : k.from <= h.to + 1 /\ h.from <= k.to + 1} \cup {h}
        lead == CHOOSE k \in group : \A o \in group : k.from < o.from \/ (k.from = o.from /\ k.next >= o.next)
    IN  (H \ group) \cup {[lead EXCEPT !.to = Max({k.to : k \in group}),
                                       !.folded = Max({k.folded : k \in group})]}

Start(h) == IF h.next > h.from /\ h.next <= h.to THEN h.next ELSE h.from

(* Heights the collector still owes. *)
Owed == UNION {Start(h) .. h.to : h \in holes}

-----------------------------------------------------------------------------
(* persist: the live loop stores the next height, or the head above a gap  *)
(* it records, and rebuilds the windows it touched.                        *)
Live(n) ==
    /\ n \in Heights /\ n > Head
    /\ n > Head + 1 => skips < MaxSkips
    /\ skips' = IF n > Head + 1 THEN skips + 1 ELSE skips
    /\ holes' = IF n > Head + 1
                THEN RecordHole(holes, [from |-> Head + 1, to |-> n - 1, next |-> 0, folded |-> 0])
                ELSE holes
    /\ rows' = rows \cup {n}
    /\ count' = RebuildCount(rows \cup {n}, {n})
    /\ dead' = RebuildDead({n})
    /\ relived' = relived \cup ({n} \cap Owed)
                          \cup {b \in (Head + 1) .. (n - 1) : \E w \in Widths : count[w][b] > 0}
    /\ UNCHANGED <<frontier, generation, fill, rewinds, unfolded>>

(* fillBatch up to the commit: headers are fetched without the chain lock. *)
FillFetch ==
    /\ ~fill.on
    /\ \E h \in holes :
        /\ Start(h) - 1 \in rows \/ h.next > h.from \/ h.to < Boundary
        /\ \E n \in 1..Batch :
            /\ Start(h) + n - 1 <= h.to
            /\ fill' = [on |-> TRUE, gen |-> generation, hole |-> h,
                        batch |-> Start(h) .. (Start(h) + n - 1)]
    /\ UNCHANGED <<rows, holes, frontier, count, dead, generation, skips, rewinds, past>>

(* A recovered row folded into a bucket the store will not rebuild. *)
FoldsRow(b, w) == b >= fill.hole.folded /\ Declined(b, w) /\ Present(b, w)

(* commitFill's transaction: rows from the boundary on are stored, their   *)
(* windows rebuilt or folded into; older ones are folded, once.            *)
FillCount ==
    LET rowBacked == {b \in fill.batch : b >= Boundary}
        tail == {fill.hole.to + 1} \cap {b \in rows : b >= Boundary /\ fill.hole.to \in fill.batch}
        rebuilt == RebuildCount(rows \cup rowBacked, rowBacked \cup tail)
    IN  [w \in Widths |-> [b \in Heights |->
            CASE b \in rowBacked /\ FoldsRow(b, w) -> rebuilt[w][b] + 1
              [] b \in fill.batch \ rowBacked /\ b >= fill.hole.folded -> rebuilt[w][b] + 1
              [] OTHER -> rebuilt[w][b]]]

(* Mutant: a finished range is kept. *)
AdvanceKeepsDone(H, h) ==
    LET hit == {c \in H : c.from = h.from /\ c.to >= h.to}
    IN  (H \ hit) \cup {[c EXCEPT !.next = h.next, !.folded = Max({@, h.folded})] : c \in hit}

(* Mutant: neither cursor nor watermark of an unfinished range is kept. *)
AdvanceForgets(H, h) == {c \in H : c.from # h.from \/ c.to # h.to \/ h.next <= h.to}

(* advanceHole: the entry with the same start that still reaches as far. *)
Advance(H, h) ==
    LET hit == {c \in H : c.from = h.from /\ c.to >= h.to}
        done == h.next > h.to
    IN  (H \ hit) \cup {[c EXCEPT !.next = h.next, !.folded = Max({@, h.folded})] :
                           c \in {k \in hit : ~done \/ k.to # h.to}}

FillCommit ==
    /\ fill.on /\ fill' = NoFill
    /\ IF generation # fill.gen
       THEN UNCHANGED <<rows, holes, count, dead>>
       ELSE LET rowBacked == {b \in fill.batch : b >= Boundary}
                next == Max(fill.batch) + 1
            IN  /\ rows' = rows \cup rowBacked
                /\ count' = FillCount
                /\ dead' = RebuildDead(rowBacked)
                /\ holes' = Advance(holes, [fill.hole EXCEPT !.next = next, !.folded = Max({@, next})])
    /\ UNCHANGED <<frontier, generation, skips, rewinds, past>>

(* A fetch or a commit fails, or the process crashes: nothing is stored.   *)
(* A commit whose answer is lost is a FillCommit.                          *)
FillFails ==
    /\ fill.on /\ fill' = NoFill
    /\ UNCHANGED <<rows, holes, frontier, count, dead, generation, skips, rewinds, past>>

-----------------------------------------------------------------------------

(* DiscardBucketsBelowFrontier. *)
Discarded(b, w, removed) == Declined(b, w) /\ removed \cap Window(b, w) # {}

(* rewindHoles. *)
RewindHoles(H, ancestor) ==
    {IF h.next = 0 \/ h.next - 1 <= ancestor THEN h ELSE [h EXCEPT !.next = 0] : h \in H}

(* rewindToAncestor from a reported head: every height above the ancestor  *)
(* up to that head has a dead row, and the ancestor is on the chain or has *)
(* no row (findAncestor).                                                  *)
Rewind(ancestor) ==
    LET removed == {b \in rows : b > ancestor}
        kept == rows \ removed
        rebuilt == RebuildCount(kept, removed)
        orphans(w) == {b \in Heights : b > ancestor /\ rebuilt[w][b] > 0} \cup RebuildDead(removed)[w]
    IN  /\ rewinds < MaxRewinds /\ rewinds' = rewinds + 1
        /\ ancestor >= LiveStart /\ removed # {} /\ kept # {}
        /\ ancestor + 1 \in rows
        /\ generation' = generation + 1
        /\ rows' = kept
        /\ count' = [w \in Widths |-> [b \in Heights |->
                        IF b > ancestor \/ Discarded(b, w, removed) THEN 0 ELSE rebuilt[w][b]]]
        /\ dead' = [w \in Widths |-> {b \in orphans(w) : ~Discarded(b, w, removed)}]
        /\ holes' = RewindHoles(holes, ancestor)
        /\ unfolded' = unfolded \cup UNION {(ancestor + 1) .. (h.folded - 1) : h \in holes}
        /\ UNCHANGED <<frontier, fill, skips, relived>>

(* pruneCutoff: retention back from the latest stored block, held at the   *)
(* boundary while the backfill or the repair is unfinished.                *)
Cutoff(pinned) ==
    LET before == Head - Retention
    IN  IF pinned /\ Boundary < before THEN Boundary ELSE before

(* recordPruneFrontier: forward only. *)
RecordFrontier(before) == IF before > frontier THEN before ELSE frontier

Prune(pinned) ==
    /\ frontier' = RecordFrontier(Cutoff(pinned))
    /\ rows' = {b \in rows : b >= Cutoff(pinned)}
    /\ UNCHANGED <<holes, count, dead, generation, fill, skips, rewinds, past>>

Missing == UNION {h.from .. h.to : h \in OldHoles}

(* The live loop has just started above a finished backfill, which stored  *)
(* rows down to the boundary and folded the rest.                          *)
Init ==
    /\ rows = Boundary .. LiveStart
    /\ holes = OldHoles
    /\ frontier = 0 /\ generation = 0 /\ fill = NoFill
    /\ count = [w \in Widths |-> [b \in Heights |-> IF b <= LiveStart /\ b \notin Missing THEN 1 ELSE 0]]
    /\ dead = [w \in Widths |-> {}]
    /\ skips = 0 /\ rewinds = 0 /\ unfolded = {} /\ relived = {}

Follow == \E n \in Heights : Live(n)
Rewinds == \E a \in Heights : Rewind(a)
Prunes == \E p \in BOOLEAN : Prune(p)
(* A hole whose predecessor was pruned stays, blocked. *)
Done == Head = MaxHeight /\ ~fill.on /\ UNCHANGED vars
Next == Follow \/ FillFetch \/ FillCommit \/ FillFails \/ Rewinds \/ Prunes \/ Done

Spec == Init /\ [][Next]_vars

-----------------------------------------------------------------------------
TypeOK ==
    /\ rows \subseteq Heights /\ rows # {} /\ frontier \in 0..MaxHeight
    /\ \A w \in Widths : dead[w] \subseteq Heights /\ \A b \in Heights : count[w][b] \in Nat
    /\ \A h \in holes : h.from <= h.to /\ h.next <= h.to /\ h.folded <= MaxHeight + 1

(* No bucket counts a block twice, whichever of rebuild and fold put it    *)
(* there and however often its range was retried (commitFill); but for one *)
(* the live loop stored while a range still owed it, or recorded as        *)
(* missing although a rewind below the frontier had left its count.        *)
CountedOnce == \A w \in Widths : \A b \in Heights \ relived : count[w][b] <= 1

(* No bucket counts a block of a dead fork once the rewind committed       *)
(* (rewindToAncestor, DiscardBucketsBelowFrontier).                        *)
NothingDead == \A w \in Widths : dead[w] = {}

(* A bucket that is served counts every block of its window that is        *)
(* indexed: one rebuilt from half its rows, or completed without the rows  *)
(* a fill recovered, would be served as whole. Only a window the frontier  *)
(* cut may have no bucket, and only a height that a rewind deleted below   *)
(* its range's watermark may be left out.                                  *)
ServedWhole ==
    \A w \in Widths : \A b \in Heights \ unfolded :
        /\ b <= Head /\ b \notin Owed
        /\ Present(b, w) \/ WindowStart(b, w) >= frontier
        => count[w][b] >= 1
=============================================================================
