------------------------------ MODULE HolesSeq ------------------------------
(***************************************************************************)
(* normalizeHoles as the code runs it, over a list: drop, stable sort, one *)
(* pass that merges into the last entry (internal/collector/fill.go).  It  *)
(* is the reference the set operators of Holes are compared with.          *)
(***************************************************************************)
EXTENDS Holes, SequencesExt

CONSTANTS
    Top,        \* bound: the highest block of a range
    MaxRanges   \* bound: the ranges stored at a time

HolesSeqAssumption == Top \in Nat \ {0} /\ MaxRanges \in Nat \ {0}

VARIABLE list   \* the missing_ranges of a chain, by first block

(* sort.SliceStable, as an insertion sort. *)
NotAfter(a, b) == a.from < b.from \/ (a.from = b.from /\ a.to <= b.to)
InsertSorted(l, h) == InsertAt(l, Cardinality({i \in DOMAIN l : NotAfter(l[i], h)}) + 1, h)
SortStable(l) == FoldLeft(InsertSorted, <<>>, l)

MergeHole(into, h) ==
    LET ahead == h.from = into.from /\ h.next > into.next
    IN  [from |-> into.from, to |-> IF h.to > into.to THEN h.to ELSE into.to,
         next |-> IF ahead THEN h.next ELSE into.next,
         st |-> IF ahead THEN h.st ELSE into.st,
         life |-> IF "retrying" \in {into.life, h.life} THEN "retrying" ELSE into.life,
         reason |-> into.reason]

MergeLast(l, h) ==
    IF l # <<>> /\ SameClass(Last(l), h) /\ h.from <= Last(l).to + 1
      THEN Append(Front(l), MergeHole(Last(l), h))
      ELSE Append(l, h)

NormalizeHoles(l) == FoldLeft(MergeLast, <<>>, SortStable(SelectSeq(l, LAMBDA h : h.from <= h.to)))

-----------------------------------------------------------------------------
(* The ranges a writer can append or leave behind. *)
Classes == {<<"pending", "catch_up_limit">>, <<"retrying", "catch_up_limit">>,
            <<"pending", "">>, <<"blocked", "no_state">>}
Ranges ==
    {[from |-> f, to |-> t, next |-> n, st |-> IF n = 0 THEN NoHash ELSE 0,
      life |-> c[1], reason |-> c[2]] :
        f \in 1 .. Top, t \in 0 .. Top, n \in {0, 2, Top}, c \in Classes}
Appended == {h \in Ranges : h.next = 0}
Held == {h \in Ranges : h.from <= h.to /\ h.next <= h.to /\ (h.next > 0 => h.next > h.from)}

(* saveHoles, as long as the key of the table allows it. *)
Save(l) ==
    /\ UniqueStarts(Range(NormalizeHoles(l))) /\ Len(NormalizeHoles(l)) <= MaxRanges
    /\ list' = NormalizeHoles(l)

(* recordHole, and the writers that rewrite one range. *)
Record == \E h \in Appended : Save(Append(list, h))
Rewrite == \E i \in DOMAIN list, h \in Held :
             h.from = list[i].from /\ h.to = list[i].to /\ Save([list EXCEPT ![i] = h])
Finish == \E i \in DOMAIN list : Save(RemoveAt(list, i))

Init == list = <<>>
Next == Record \/ Rewrite \/ Finish
Spec == Init /\ [][Next]_list

-----------------------------------------------------------------------------
TypeOK == list \in Seq(Held) /\ Len(list) <= MaxRanges

(* The declarative Normalize is what the list pass computes, for every     *)
(* range appended to a stored list and every rewrite of one of its ranges  *)
(* (normalizeHoles, mergeHole).                                            *)
NormalizeAgrees ==
    /\ \A h \in Appended :
         Range(NormalizeHoles(Append(list, h))) = NormalizeLast(Range(list) \cup {h}, h)
    /\ \A i \in DOMAIN list : \A h \in {h \in Held : h.from = list[i].from /\ h.to = list[i].to} :
         Range(NormalizeHoles([list EXCEPT ![i] = h])) = Normalize(Range([list EXCEPT ![i] = h]))

(* Merging neither loses a height nor invents one, and a second pass finds *)
(* nothing left to merge: a saved set stays as it is until a writer        *)
(* changes it (normalizeHoles, loadHoles and saveHoles).                   *)
MergesExactly ==
    \A h \in Appended :
        LET after == NormalizeLast(Range(list) \cup {h}, h)
        IN  /\ Owed(after) = Owed(Range(list)) \cup Heights(h)
            /\ UniqueStarts(after) => Normalize(after) = after
=============================================================================
