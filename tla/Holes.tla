------------------------------- MODULE Holes -------------------------------
(***************************************************************************)
(* The missing ranges ("holes") of the collector, as pure operators over   *)
(* sets of intervals: internal/collector/fill.go.                          *)
(*                                                                         *)
(* A hole is a range of block heights the live path skipped.  The database *)
(* holds them in missing_ranges, whose primary key is the range's first    *)
(* block, and every writer replaces the whole table by a normalized copy   *)
(* (saveHoles).  Timestamps, retry counts, error texts and the pricer      *)
(* state proper are left out; of the carried replay state only the hash    *)
(* of the block it belongs to is kept.                                     *)
(***************************************************************************)
EXTENDS Integers, FiniteSetsExt

(* No block: the hash of a replay state that is not there. *)
NoHash == -1

(* The reasons of collector.go.  "" is a range that lost its blocked mark. *)
Reasons == {"", "catch_up_limit", "replay_discontinuity", "no_state", "unsupported_model"}
Lifecycles == {"pending", "retrying", "blocked"}

(* The hole struct, up to block max.  next is 0 until the filler commits   *)
(* its first batch; a range can be empty until it is saved.                *)
HoleRecords(max, Hash) ==
    [from : 1 .. max + 1, to : 0 .. max, next : 0 .. max + 1, st : Hash \cup {NoHash},
     life : Lifecycles, reason : Reasons]

NewHole(from, to, life, reason) ==
    [from |-> from, to |-> to, next |-> 0, st |-> NoHash, life |-> life, reason |-> reason]

(* Hole.Start: the first block still to be replayed. *)
Start(h) == IF h.next > h.from /\ h.next <= h.to THEN h.next ELSE h.from

Blocked(h) == h.life = "blocked"
Heights(h) == h.from .. h.to

(* The heights the collector still owes: the union of the ranges. *)
Owed(H) == UNION {Heights(h) : h \in H}

-----------------------------------------------------------------------------
(* normalizeHoles.  The sort is by first and last block and stable; the    *)
(* only hole of a list that can tie with another is the one just appended, *)
(* `last', which therefore comes second.                                   *)
Before(a, b, last) ==
    \/ a.from < b.from
    \/ a.from = b.from /\ a.to < b.to
    \/ a.from = b.from /\ a.to = b.to /\ a # last /\ b = last

(* compatibleLifecycle and the equal reason: what lets two holes merge. *)
SameClass(a, b) == (Blocked(a) <=> Blocked(b)) /\ a.reason = b.reason

(* a precedes b and nothing of another class is sorted between them. *)
SameRun(H, a, b, last) ==
    /\ Before(a, b, last)
    /\ SameClass(a, b)
    /\ \A x \in H : Before(a, x, last) /\ Before(x, b, last) => SameClass(a, x)

(* A hole opens a new entry when it touches no earlier hole of its run:    *)
(* the last merged entry is the union of the run's holes since the last    *)
(* opening, and anything before that ends too low to be touched.           *)
Opens(H, h, last) ==
    \A k \in H : SameRun(H, k, h, last) => h.from > k.to + 1

(* The holes merged into the entry that s opens. *)
Group(H, s, last) ==
    {s} \cup {h \in H : /\ SameRun(H, s, h, last)
                        /\ ~ Opens(H, h, last)
                        /\ \A t \in H : SameRun(H, s, t, last) /\ Before(t, h, last)
                                           => ~ Opens(H, t, last)}

(* Mutant: the entry ends where the last range merged into it ends. *)
MergedToLast(g, s) ==
    LET latest == CHOOSE h \in g : \A k \in g : k.from <= h.from
    IN  [s EXCEPT !.to = latest.to]

(* mergeHole over a group: the cursor is that of the first block's range,  *)
(* one failed member makes the whole entry retrying.                       *)
Merged(g, s) ==
    LET lead == CHOOSE h \in g : /\ h.from = s.from
                                 /\ \A k \in g : k.from = s.from => k.next <= h.next
    IN  [from |-> s.from, to |-> Max({h.to : h \in g}), next |-> lead.next, st |-> lead.st,
         life |-> IF \E h \in g : h.life = "retrying" THEN "retrying" ELSE s.life,
         reason |-> s.reason]

NonEmpty(H) == {h \in H : h.from <= h.to}

(* Mutant: the empty ranges of a one-block catch-up are kept. *)
NormalizeKeepingEmpty(H, last) ==
    {Merged(Group(H, s, last), s) : s \in {h \in H : Opens(H, h, last)}}

NormalizeLast(H0, last) ==
    LET H == NonEmpty(H0)
    IN  {Merged(Group(H, s, last), s) : s \in {h \in H : Opens(H, h, last)}}

Normalize(H) == NormalizeLast(H, NewHole(0, 0, "pending", ""))

(* The primary key of missing_ranges: a replacement that breaks it fails. *)
UniqueStarts(H) == \A a, b \in H : a.from = b.from => a = b

-----------------------------------------------------------------------------
(* The writers, each ending in saveHoles. *)

(* recordHole: append and save. *)
RecordHole(H, h) == NormalizeLast(H \cup {h}, h)

(* markHoles: reasons is a function from first blocks. *)
MarkHoles(H, reasons) ==
    Normalize({IF h.from \in DOMAIN reasons
                 THEN [h EXCEPT !.reason = reasons[h.from], !.life = "blocked"]
                 ELSE h : h \in H})

(* recordFillFailure: the first hole that still contains the attempt. *)
RecordFillFailure(H, attempted) ==
    LET hit == {h \in H : h.from <= attempted.from /\ h.to >= attempted.to}
        first == CHOOSE h \in hit : \A k \in hit : h.from <= k.from
    IN  IF hit = {} THEN H
        ELSE Normalize((H \ {first}) \cup {[first EXCEPT !.life = "retrying"]})

(* Mutant: a finished range is kept. *)
AdvanceKeepsDone(H, h) ==
    LET hit == {c \in H : c.from = h.from /\ c.to >= h.to}
    IN  Normalize((H \ hit) \cup
                  {[c EXCEPT !.next = h.next, !.st = h.st, !.life = h.life, !.reason = h.reason] : c \in hit})

(* advanceHole: h is the hole as the batch leaves it. *)
AdvanceHole(H, h) ==
    LET hit == {c \in H : c.from = h.from /\ c.to >= h.to}
        done == h.next > h.to
    IN  Normalize((H \ hit) \cup
                  {[c EXCEPT !.next = h.next, !.st = h.st, !.life = h.life, !.reason = h.reason] :
                      c \in {c \in hit : ~ (done /\ c.to = h.to)}})

(* rewindHoles: a hole whose recovered blocks reach above the ancestor     *)
(* starts over.                                                            *)
RewindHoles(H, ancestor) ==
    LET reset == {h \in H : h.next > 0 /\ h.next - 1 > ancestor}
    IN  IF reset = {} THEN H
        ELSE Normalize((H \ reset) \cup {[h EXCEPT !.next = 0, !.st = NoHash] : h \in reset})

-----------------------------------------------------------------------------
(* The order pickHole examines holes in: unblocked first, then the ones    *)
(* already being filled, then the newest.                                  *)
PickedBefore(a, b) ==
    IF Blocked(a) # Blocked(b) THEN Blocked(b)
    ELSE IF (a.next > 0) # (b.next > 0) THEN a.next > 0
    ELSE a.from > b.from
=============================================================================
