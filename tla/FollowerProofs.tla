--------------------------- MODULE FollowerProofs ---------------------------
(***************************************************************************)
(* The follower keeps its types, its missing ranges keep different keys    *)
(* and no height it owes is dropped before it is recovered: proofs for     *)
(* any number of blocks, reorgs, faults and restarts and any budget.       *)
(***************************************************************************)
EXTENDS Follower, SequenceTheorems, NaturalsInduction, WellFoundedInduction, TLAPS

-----------------------------------------------------------------------------
(* The missing ranges: what normalizeHoles and the writers of the ranges   *)
(* preserve, for any number of ranges over any heights.                    *)

(* Every nonempty set of naturals has a least element.  The well-founded   *)
(* order takes the place of induction.                                     *)
Below == {pair \in Nat \X Nat : pair[1] < pair[2]}

LEMMA BelowWellFounded == IsWellFoundedOn(Below, Nat)
  BY NatLessThanWellFounded, Zenon DEF OpToRel, Below

LEMMA LeastNat ==
  ASSUME NEW S \in SUBSET Nat, S # {}
  PROVE  \E m \in S : \A k \in S : m <= k
<1>1. PICK m \in S : \A k \in S : ~ (<<k, m>> \in Below)
  BY BelowWellFounded, WFMin
<1>2. \A k \in S : ~ (k < m)
  BY <1>1 DEF Below
<1> QED
  BY <1>2

(* Max and Min of a bounded set are what they are called. *)
LEMMA MaxOfBounded ==
  ASSUME NEW S \in SUBSET Int, S # {}, NEW b \in Int, \A x \in S : x <= b
  PROVE  Max(S) \in S /\ \A x \in S : x <= Max(S)
<1> DEFINE D == {b - x : x \in S}
<1>1. D \in SUBSET Nat /\ D # {}
  <2>1. \A x \in S : b - x \in Nat
    OBVIOUS
  <2>2. PICK x \in S : TRUE
    OBVIOUS
  <2>3. b - x \in D
    OBVIOUS
  <2> QED
    BY <2>1, <2>3
<1>2. PICK m \in D : \A k \in D : m <= k
  BY <1>1, LeastNat
<1>3. PICK y \in S : m = b - y
  OBVIOUS
<1>4. \A x \in S : y >= x
  <2> TAKE x \in S
  <2>1. b - x \in D
    OBVIOUS
  <2>2. b - y <= b - x
    BY <2>1, <1>2, <1>3
  <2> QED
    BY <2>2
<1>5. Max(S) \in S /\ \A x \in S : Max(S) >= x
  BY <1>3, <1>4 DEF Max
<1> QED
  BY <1>5

LEMMA MinOfBounded ==
  ASSUME NEW S \in SUBSET Int, S # {}, NEW b \in Int, \A x \in S : b <= x
  PROVE  Min(S) \in S /\ \A x \in S : Min(S) <= x
<1> DEFINE D == {x - b : x \in S}
<1>1. D \in SUBSET Nat /\ D # {}
  <2>1. \A x \in S : x - b \in Nat
    OBVIOUS
  <2>2. PICK x \in S : TRUE
    OBVIOUS
  <2>3. x - b \in D
    OBVIOUS
  <2> QED
    BY <2>1, <2>3
<1>2. PICK m \in D : \A k \in D : m <= k
  BY <1>1, LeastNat
<1>3. PICK y \in S : m = y - b
  OBVIOUS
<1>4. \A x \in S : y =< x
  <2> TAKE x \in S
  <2>1. x - b \in D
    OBVIOUS
  <2>2. y - b <= x - b
    BY <2>1, <1>2, <1>3
  <2> QED
    BY <2>2
<1>5. Min(S) \in S /\ \A x \in S : Min(S) =< x
  BY <1>3, <1>4 DEF Min
<1> QED
  BY <1>5

-----------------------------------------------------------------------------
(* Sets of holes up to a height. *)
HoleSet(max, Hashes, H) == H \in SUBSET HoleRecords(max, Hashes)

(* The sort of normalizeHoles leaves no two ranges undecided. *)
Sorted(H, last) == \A a, b \in H : a = b \/ Before(a, b, last) \/ Before(b, a, last)

LEMMA BeforeOrders ==
  ASSUME NEW max \in Nat, NEW Hashes, NEW H, HoleSet(max, Hashes, H), NEW last,
         NEW a \in H, NEW b \in H, NEW c \in H
  PROVE  /\ ~ Before(a, a, last)
         /\ Before(a, b, last) => a.from <= b.from /\ a # b /\ ~ Before(b, a, last)
         /\ Before(a, b, last) /\ Before(b, c, last) => Before(a, c, last)
<1>1. \A x \in H : x.from \in Int /\ x.to \in Int
  BY DEF HoleSet, HoleRecords
<1> QED
  BY <1>1 DEF Before

LEMMA SameClassTransitive ==
  ASSUME NEW a, NEW b, NEW c
  PROVE  /\ SameClass(a, b) => SameClass(b, a)
         /\ SameClass(a, b) /\ SameClass(b, c) => SameClass(a, c)
  BY DEF SameClass

(* The first and the last range of a set, in the order of the sort. *)
LEMMA FirstHole ==
  ASSUME NEW max \in Nat, NEW Hashes, NEW H, HoleSet(max, Hashes, H), NEW last,
         Sorted(H, last), NEW S \in SUBSET H, S # {}
  PROVE  \E m \in S : \A k \in S : ~ Before(k, m, last)
<1>1. \A x \in H : x.from \in Nat /\ x.to \in Nat
  BY DEF HoleSet, HoleRecords
<1>2. PICK a \in S : \A k \in S : a.from <= k.from
  <2> DEFINE F == {x.from : x \in S}
  <2>1. F \in SUBSET Nat /\ F # {}
    BY <1>1
  <2>2. PICK m \in F : \A k \in F : m <= k
    BY <2>1, LeastNat
  <2> QED
    BY <2>2
<1> DEFINE E == {x \in S : x.from = a.from}
<1>3. PICK c \in E : \A k \in E : c.to <= k.to
  <2> DEFINE F == {x.to : x \in E}
  <2>1. F \in SUBSET Nat /\ F # {}
    BY <1>1
  <2>2. PICK m \in F : \A k \in F : m <= k
    BY <2>1, LeastNat
  <2> QED
    BY <2>2
<1>4. CASE \E k \in S : Before(k, c, last)
  <2>1. PICK k \in S : Before(k, c, last)
    BY <1>4
  <2>2. k.from = c.from /\ k.to = c.to /\ k # last /\ c = last
    BY <2>1, <1>1, <1>2, <1>3 DEF Before
  <2>3. \A j \in S : ~ Before(j, k, last)
    BY <2>2, <1>1, <1>2, <1>3 DEF Before
  <2> QED
    BY <2>3
<1>5. CASE ~ \E k \in S : Before(k, c, last)
  BY <1>5
<1> QED
  BY <1>4, <1>5

LEMMA LastHole ==
  ASSUME NEW max \in Nat, NEW Hashes, NEW H, HoleSet(max, Hashes, H), NEW last,
         Sorted(H, last), NEW S \in SUBSET H, S # {}
  PROVE  \E m \in S : \A k \in S : ~ Before(m, k, last)
<1>1. \A x \in H : x.from \in Int /\ x.to \in Int /\ x.from <= max + 1 /\ x.to <= max
  BY DEF HoleSet, HoleRecords
<1>2. PICK a \in S : \A k \in S : k.from <= a.from
  <2> DEFINE F == {x.from : x \in S}
  <2>1. F \in SUBSET Int /\ F # {} /\ \A x \in F : x <= max + 1
    BY <1>1
  <2>2. Max(F) \in F /\ \A x \in F : x <= Max(F)
    <3> HIDE DEF F
    <3> QED
      BY <2>1, MaxOfBounded
  <2> QED
    BY <2>2
<1> DEFINE E == {x \in S : x.from = a.from}
<1>3. PICK c \in E : \A k \in E : k.to <= c.to
  <2> DEFINE F == {x.to : x \in E}
  <2>1. F \in SUBSET Int /\ F # {} /\ \A x \in F : x <= max
    BY <1>1
  <2>2. Max(F) \in F /\ \A x \in F : x <= Max(F)
    <3> HIDE DEF F
    <3> QED
      BY <2>1, MaxOfBounded
  <2> QED
    BY <2>2
<1>4. CASE \E k \in S : Before(c, k, last)
  <2>1. PICK k \in S : Before(c, k, last)
    BY <1>4
  <2>2. k.from = c.from /\ k.to = c.to /\ c # last /\ k = last
    BY <2>1, <1>1, <1>2, <1>3 DEF Before
  <2>3. \A j \in S : ~ Before(k, j, last)
    BY <2>2, <1>1, <1>2, <1>3 DEF Before
  <2> QED
    BY <2>3
<1>5. CASE ~ \E k \in S : Before(c, k, last)
  BY <1>5
<1> QED
  BY <1>4, <1>5

-----------------------------------------------------------------------------
(* Runs compose, and every range is merged into the entry of some opener. *)
LEMMA SameRunComposes ==
  ASSUME NEW max \in Nat, NEW Hashes, NEW H, HoleSet(max, Hashes, H), NEW last, Sorted(H, last),
         NEW a \in H, NEW b \in H, NEW c \in H,
         SameRun(H, a, b, last), SameRun(H, b, c, last)
  PROVE  SameRun(H, a, c, last)
<1>1. Before(a, c, last) /\ SameClass(a, c)
  BY BeforeOrders, SameClassTransitive DEF SameRun
<1>2. ASSUME NEW x \in H, Before(a, x, last), Before(x, c, last)
      PROVE  SameClass(a, x)
  <2>1. CASE x = b
    BY <2>1 DEF SameRun
  <2>2. CASE Before(x, b, last)
    BY <1>2, <2>2 DEF SameRun
  <2>3. CASE Before(b, x, last)
    BY <1>2, <2>3, SameClassTransitive DEF SameRun
  <2> QED
    BY <2>1, <2>2, <2>3 DEF Sorted
<1> QED
  BY <1>1, <1>2 DEF SameRun

LEMMA RunSuffix ==
  ASSUME NEW max \in Nat, NEW Hashes, NEW H, HoleSet(max, Hashes, H), NEW last,
         NEW a \in H, NEW b \in H, NEW c \in H,
         SameRun(H, a, c, last), SameRun(H, a, b, last), Before(b, c, last)
  PROVE  SameRun(H, b, c, last)
<1>1. SameClass(b, c)
  BY SameClassTransitive DEF SameRun
<1>2. ASSUME NEW x \in H, Before(b, x, last), Before(x, c, last)
      PROVE  SameClass(b, x)
  <2>1. Before(a, x, last)
    BY <1>2, BeforeOrders DEF SameRun
  <2>2. SameClass(a, x)
    BY <1>2, <2>1 DEF SameRun
  <2> QED
    BY <2>2, SameClassTransitive DEF SameRun
<1> QED
  BY <1>1, <1>2 DEF SameRun

LEMMA OpenerOf ==
  ASSUME NEW max \in Nat, NEW Hashes, NEW H, HoleSet(max, Hashes, H), NEW last, Sorted(H, last),
         NEW h \in H
  PROVE  \E s \in H : Opens(H, s, last) /\ h \in Group(H, s, last)
<1>1. CASE Opens(H, h, last)
  BY <1>1 DEF Group
<1>2. CASE ~ Opens(H, h, last)
  <2> DEFINE Run == {k \in H : k = h \/ SameRun(H, k, h, last)}
             Openers == {k \in Run : Opens(H, k, last)}
  <2>1. PICK m \in Run : \A k \in Run : ~ Before(k, m, last)
    <3>1. Run \in SUBSET H /\ Run # {}
      OBVIOUS
    <3> HIDE DEF Run
    <3> QED
      BY <3>1, FirstHole
  <2>2. Opens(H, m, last)
    <3> SUFFICES ASSUME NEW k \in H, SameRun(H, k, m, last)
                 PROVE  FALSE
      BY DEF Opens
    <3>1. SameRun(H, k, h, last)
      BY SameRunComposes
    <3> QED
      BY <3>1, <2>1 DEF SameRun
  <2>3. PICK s \in Openers : \A k \in Openers : ~ Before(s, k, last)
    <3>1. Openers \in SUBSET H /\ Openers # {}
      BY <2>2
    <3> HIDE DEF Openers
    <3> QED
      BY <3>1, LastHole
  <2>4. SameRun(H, s, h, last)
    BY <1>2
  <2>5. ASSUME NEW t \in H, SameRun(H, s, t, last), Before(t, h, last)
        PROVE  ~ Opens(H, t, last)
    <3>1. SameRun(H, t, h, last)
      BY <2>4, <2>5, RunSuffix
    <3> QED
      BY <3>1, <2>3, <2>5 DEF SameRun
  <2>6. h \in Group(H, s, last)
    BY <1>2, <2>4, <2>5 DEF Group
  <2> QED
    BY <2>6
<1> QED
  BY <1>1, <1>2

-----------------------------------------------------------------------------
(* What an entry takes from the ranges merged into it. *)
LEMMA MergedEntry ==
  ASSUME NEW max \in Nat, NEW Hashes, NEW H, HoleSet(max, Hashes, H), NEW last,
         NEW s \in H, s.from <= s.to
  PROVE  LET e == Merged(Group(H, s, last), s)
         IN  /\ e \in HoleRecords(max, Hashes)
             /\ e.from = s.from /\ e.from <= e.to
             /\ \A h \in Group(H, s, last) : e.from <= h.from /\ h.to <= e.to
             /\ \E h \in H : e.from = h.from /\ e.next = h.next /\ e.st = h.st /\ h.to <= e.to
<1> DEFINE g == Group(H, s, last)
           e == Merged(g, s)
           tops == {h.to : h \in g}
           cursors == {h.next : h \in {h \in g : h.from = s.from}}
           lead == CHOOSE h \in g : h.from = s.from /\ \A k \in g : k.from = s.from => k.next <= h.next
<1>1. g \in SUBSET H /\ s \in g
  BY DEF Group
<1>2. \A h \in H : /\ h.from \in 1 .. max + 1 /\ h.to \in 0 .. max /\ h.next \in 0 .. max + 1
                   /\ h.st \in Hashes \cup {NoHash} /\ h.life \in Lifecycles /\ h.reason \in Reasons
  BY DEF HoleSet, HoleRecords
<1>3. Max(tops) \in tops /\ \A x \in tops : x <= Max(tops)
  <2>1. tops \in SUBSET Int /\ tops # {} /\ \A x \in tops : x <= max
    BY <1>1, <1>2
  <2> HIDE DEF tops
  <2> QED
    BY <2>1, MaxOfBounded
<1>4. lead \in g /\ lead.from = s.from
  <2>1. Max(cursors) \in cursors /\ \A x \in cursors : x <= Max(cursors)
    <3>1. cursors \in SUBSET Int /\ cursors # {} /\ \A x \in cursors : x <= max + 1
      BY <1>1, <1>2
    <3>2. max + 1 \in Int
      OBVIOUS
    <3> HIDE DEF cursors, g, e, tops, lead
    <3> QED
      BY <3>1, <3>2, MaxOfBounded
  <2>2. \E h \in g : h.from = s.from /\ \A k \in g : k.from = s.from => k.next <= h.next
    BY <2>1
  <2> HIDE DEF g
  <2> QED
    BY <2>2
<1>5. e = [from |-> s.from, to |-> Max(tops), next |-> lead.next, st |-> lead.st,
           life |-> IF \E h \in g : h.life = "retrying" THEN "retrying" ELSE s.life,
           reason |-> s.reason]
  BY DEF Merged
<1>6. e \in HoleRecords(max, Hashes)
  <2>1. Max(tops) \in 0 .. max
    BY <1>1, <1>2, <1>3
  <2>2. lead.next \in 0 .. max + 1 /\ lead.st \in Hashes \cup {NoHash}
    BY <1>1, <1>2, <1>4
  <2>3. (IF \E h \in g : h.life = "retrying" THEN "retrying" ELSE s.life) \in Lifecycles
    BY <1>2 DEF Lifecycles
  <2> HIDE DEF e, g, tops, lead
  <2> QED
    BY <1>2, <1>5, <2>1, <2>2, <2>3 DEF HoleRecords
<1>7. e.from = s.from /\ e.to = Max(tops) /\ e.next = lead.next /\ e.st = lead.st
  <2> HIDE DEF g, tops, lead, e
  <2> QED
    BY <1>5
<1>8. \A h \in g : s.from <= h.from /\ h.to <= Max(tops)
  <2> TAKE h \in g
  <2>1. h = s \/ Before(s, h, last)
    BY DEF Group, SameRun
  <2>2. s.from <= h.from
    BY <1>1, <1>2, <2>1 DEF Before
  <2> QED
    BY <2>2, <1>3
<1> HIDE DEF g, e, tops, cursors, lead
<1>9. \E h \in H : e.from = h.from /\ e.next = h.next /\ e.st = h.st /\ h.to <= e.to
  BY <1>1, <1>4, <1>7, <1>8
<1>10. e.from <= e.to
  <2>1. e.from \in Int /\ e.to \in Int /\ s.to \in Int
    BY <1>2, <1>6 DEF HoleRecords
  <2> QED
    BY <2>1, <1>1, <1>7, <1>8
<1> QED
  BY <1>6, <1>7, <1>8, <1>9, <1>10 DEF g, e

-----------------------------------------------------------------------------
(* A range whose cursor has moved has recovered everything below it: D is  *)
(* the set of heights with a row or a committed fold.                      *)
CursorSound(h, D) ==
    h.next = 0 \/ (h.from < h.next /\ h.next <= h.to /\ h.from .. h.next - 1 \subseteq D)

(* normalizeHoles loses no height, keeps every cursor sound, and never     *)
(* makes two ranges start together that did not before.                    *)
LEMMA NormalizeLastPreserves ==
  ASSUME NEW max \in Nat, NEW Hashes, NEW H, HoleSet(max, Hashes, H), NEW last,
         Sorted(NonEmpty(H), last)
  PROVE  /\ NormalizeLast(H, last) \in SUBSET NonEmpty(HoleRecords(max, Hashes))
         /\ Owed(H) \subseteq Owed(NormalizeLast(H, last))
         /\ \A D : (\A h \in H : CursorSound(h, D))
                      => \A e \in NormalizeLast(H, last) : CursorSound(e, D)
         /\ UniqueStarts(NonEmpty(H)) => UniqueStarts(NormalizeLast(H, last))
<1> DEFINE N == NonEmpty(H)
           Entry(s) == Merged(Group(N, s, last), s)
           starts == {h \in N : Opens(N, h, last)}
<1>1. N \in SUBSET H /\ HoleSet(max, Hashes, N) /\ \A s \in N : s.from <= s.to
  BY DEF NonEmpty, HoleSet
<1>2. NormalizeLast(H, last) = {Entry(s) : s \in starts}
  BY DEF NormalizeLast
<1>3. \A h \in HoleRecords(max, Hashes) : h.from \in Int /\ h.to \in Int /\ h.next \in Int
  BY DEF HoleRecords
<1>4. ASSUME NEW s \in starts
      PROVE  /\ Entry(s) \in HoleRecords(max, Hashes)
             /\ Entry(s).from = s.from /\ Entry(s).from <= Entry(s).to
             /\ \A h \in Group(N, s, last) : Entry(s).from <= h.from /\ h.to <= Entry(s).to
             /\ \E h \in N : /\ Entry(s).from = h.from /\ Entry(s).next = h.next
                             /\ h.to <= Entry(s).to
  <2>1. s \in N /\ s.from <= s.to
    BY <1>1
  <2> HIDE DEF N
  <2> QED
    BY <1>1, <2>1, MergedEntry
<1>5. NormalizeLast(H, last) \in SUBSET NonEmpty(HoleRecords(max, Hashes))
  <2> HIDE DEF Entry, starts
  <2> QED
    BY <1>2, <1>4 DEF NonEmpty
<1>6. Owed(H) \subseteq Owed(NormalizeLast(H, last))
  <2> SUFFICES ASSUME NEW h \in H, NEW n \in Heights(h)
               PROVE  \E e \in NormalizeLast(H, last) : n \in Heights(e)
    BY DEF Owed
  <2>1. h \in HoleRecords(max, Hashes) /\ n \in Int /\ h.from <= n /\ n <= h.to
    BY <1>3 DEF Heights, HoleSet
  <2>2. h \in N
    BY <2>1, <1>3 DEF NonEmpty
  <2>3. PICK s \in N : Opens(N, s, last) /\ h \in Group(N, s, last)
    <3> HIDE DEF N
    <3> QED
      BY <1>1, <2>2, OpenerOf DEF N
  <2>4. s \in starts
    BY <2>3
  <2>5. Entry(s) \in NormalizeLast(H, last)
    BY <1>2, <2>4
  <2> HIDE DEF Entry, starts, N
  <2>6. n \in Heights(Entry(s))
    BY <1>3, <1>4, <2>1, <2>3, <2>4 DEF Heights
  <2> QED
    BY <2>5, <2>6
<1>7. ASSUME NEW D, \A h \in H : CursorSound(h, D), NEW e \in NormalizeLast(H, last)
      PROVE  CursorSound(e, D)
  <2>1. PICK s \in starts : e = Entry(s)
    BY <1>2
  <2> HIDE DEF Entry, starts, N
  <2>2. PICK h \in N : e.from = h.from /\ e.next = h.next /\ h.to <= e.to
    BY <1>4, <2>1
  <2>3. e \in HoleRecords(max, Hashes) /\ h \in HoleRecords(max, Hashes) /\ CursorSound(h, D)
    BY <1>1, <1>4, <1>7, <2>1 DEF HoleSet
  <2> QED
    BY <1>3, <2>2, <2>3 DEF CursorSound
<1>8. UniqueStarts(N) => UniqueStarts(NormalizeLast(H, last))
  <2> HIDE DEF Entry
  <2> QED
    BY <1>2, <1>4 DEF UniqueStarts
<1> QED
  BY <1>5, <1>6, <1>7, <1>8

(* A saved range takes first block, cursor and replay state from one that  *)
(* was there.                                                              *)
LEMMA NormalizeLastCursors ==
  ASSUME NEW max \in Nat, NEW Hashes, NEW H, HoleSet(max, Hashes, H), NEW last,
         NEW e \in NormalizeLast(H, last)
  PROVE  \E h \in H : e.from = h.from /\ e.next = h.next /\ e.st = h.st
<1> DEFINE N == NonEmpty(H)
<1>1. N \in SUBSET H /\ HoleSet(max, Hashes, N) /\ \A s \in N : s.from <= s.to
  BY DEF NonEmpty, HoleSet
<1>2. PICK s \in N : e = Merged(Group(N, s, last), s)
  BY DEF NormalizeLast
<1>3. \E h \in N : e.from = h.from /\ e.next = h.next /\ e.st = h.st
  <2> HIDE DEF N
  <2> QED
    BY <1>1, <1>2, MergedEntry
<1> QED
  BY <1>1, <1>3

-----------------------------------------------------------------------------
(* A table of missing ranges, and one with every cursor sound. *)
Stored(max, Hashes, H) == H \in SUBSET NonEmpty(HoleRecords(max, Hashes)) /\ UniqueStarts(H)
AllSound(H, D) == \A h \in H : CursorSound(h, D)

LEMMA NormalizePreserves ==
  ASSUME NEW max \in Nat, NEW Hashes, NEW H, HoleSet(max, Hashes, H), UniqueStarts(H)
  PROVE  /\ Stored(max, Hashes, Normalize(H))
         /\ Owed(H) \subseteq Owed(Normalize(H))
         /\ \A D : AllSound(H, D) => AllSound(Normalize(H), D)
<1> DEFINE last == NewHole(0, 0, "pending", "")
<1>1. ASSUME NEW x
      PROVE  Sorted(NonEmpty(H), x)
  <2>1. \A h \in H : h.from \in Int
    BY DEF HoleSet, HoleRecords
  <2> SUFFICES ASSUME NEW a \in NonEmpty(H), NEW b \in NonEmpty(H), a # b
               PROVE  Before(a, b, x) \/ Before(b, a, x)
    BY DEF Sorted
  <2>2. a.from < b.from \/ b.from < a.from
    BY <2>1 DEF UniqueStarts, NonEmpty
  <2> QED
    BY <2>2 DEF Before
<1>2. UniqueStarts(NonEmpty(H))
  BY DEF UniqueStarts, NonEmpty
<1>3. Normalize(H) = NormalizeLast(H, last)
  BY DEF Normalize
<1> HIDE DEF last
<1> QED
  BY <1>1, <1>2, <1>3, NormalizeLastPreserves DEF Stored, AllSound

(* recordHole: the new range is owed besides all the others. *)
LEMMA RecordHolePreserves ==
  ASSUME NEW max \in Nat, NEW Hashes, NEW H, Stored(max, Hashes, H),
         NEW h \in HoleRecords(max, Hashes), h.next = 0
  PROVE  /\ RecordHole(H, h) \in SUBSET NonEmpty(HoleRecords(max, Hashes))
         /\ Owed(H) \cup Heights(h) \subseteq Owed(RecordHole(H, h))
         /\ \A D : AllSound(H, D) => AllSound(RecordHole(H, h), D)
<1> DEFINE G == H \cup {h}
<1>1. HoleSet(max, Hashes, G)
  BY DEF HoleSet, Stored, NonEmpty
<1>2. Sorted(NonEmpty(G), h)
  <2>1. \A x \in G : x.from \in Int /\ x.to \in Int
    BY <1>1 DEF HoleSet, HoleRecords
  <2> QED
    BY <2>1 DEF Sorted, Before, UniqueStarts, NonEmpty, Stored
<1>3. RecordHole(H, h) = NormalizeLast(G, h)
  BY DEF RecordHole
<1>4. Owed(G) = Owed(H) \cup Heights(h)
  BY DEF Owed
<1>5. \A D : AllSound(H, D) => AllSound(G, D)
  BY DEF AllSound, CursorSound
<1> HIDE DEF G
<1> QED
  BY <1>1, <1>2, <1>3, <1>4, <1>5, NormalizeLastPreserves DEF AllSound

(* markHoles changes classes only. *)
LEMMA MarkHolesPreserves ==
  ASSUME NEW max \in Nat, NEW Hashes, NEW H, Stored(max, Hashes, H), NEW reasons,
         \A n \in DOMAIN reasons : reasons[n] \in Reasons
  PROVE  /\ Stored(max, Hashes, MarkHoles(H, reasons))
         /\ Owed(H) \subseteq Owed(MarkHoles(H, reasons))
         /\ \A D : AllSound(H, D) => AllSound(MarkHoles(H, reasons), D)
<1> DEFINE Mark(h) == IF h.from \in DOMAIN reasons
                        THEN [h EXCEPT !.reason = reasons[h.from], !.life = "blocked"] ELSE h
           G == {Mark(h) : h \in H}
<1>1. \A h \in H : /\ h \in HoleRecords(max, Hashes)
                   /\ Mark(h) \in HoleRecords(max, Hashes)
                   /\ Mark(h).from = h.from /\ Mark(h).to = h.to /\ Mark(h).next = h.next
  BY DEF Stored, NonEmpty, HoleRecords, Lifecycles
<1>2. MarkHoles(H, reasons) = Normalize(G)
  BY DEF MarkHoles
<1> HIDE DEF Mark
<1>3. HoleSet(max, Hashes, G) /\ UniqueStarts(G)
  BY <1>1 DEF HoleSet, UniqueStarts, Stored
<1>4. Owed(H) \subseteq Owed(G)
  <2>1. \A h \in H : Heights(h) = Heights(Mark(h))
    BY <1>1 DEF Heights
  <2> QED
    BY <2>1 DEF Owed
<1>5. \A D : AllSound(H, D) => AllSound(G, D)
  BY <1>1 DEF AllSound, CursorSound
<1> HIDE DEF G
<1> QED
  BY <1>2, <1>3, <1>4, <1>5, NormalizePreserves

(* The first of a nonempty set of ranges. *)
LEMMA LowestHole ==
  ASSUME NEW max \in Nat, NEW Hashes, NEW S \in SUBSET HoleRecords(max, Hashes), S # {}
  PROVE  (CHOOSE h \in S : \A k \in S : h.from <= k.from) \in S
<1> DEFINE F == {h.from : h \in S}
<1>1. F \in SUBSET Nat /\ F # {}
  BY DEF HoleRecords
<1>2. PICK m \in F : \A k \in F : m <= k
  <2> HIDE DEF F
  <2> QED
    BY <1>1, LeastNat
<1>3. \E h \in S : \A k \in S : h.from <= k.from
  BY <1>2
<1> QED
  BY <1>3

(* recordFillFailure changes a lifecycle only. *)
LEMMA RecordFillFailurePreserves ==
  ASSUME NEW max \in Nat, NEW Hashes, NEW H, Stored(max, Hashes, H), NEW attempted
  PROVE  /\ Stored(max, Hashes, RecordFillFailure(H, attempted))
         /\ Owed(H) \subseteq Owed(RecordFillFailure(H, attempted))
         /\ \A D : AllSound(H, D) => AllSound(RecordFillFailure(H, attempted), D)
<1> DEFINE hit == {h \in H : h.from <= attempted.from /\ h.to >= attempted.to}
           first == CHOOSE h \in hit : \A k \in hit : h.from <= k.from
           failed == [first EXCEPT !.life = "retrying"]
           G == (H \ {first}) \cup {failed}
<1>1. CASE hit = {}
  BY <1>1 DEF RecordFillFailure
<1>2. CASE hit # {}
  <2>1. first \in H
    <3>1. hit \in SUBSET HoleRecords(max, Hashes)
      BY DEF Stored, NonEmpty
    <3> HIDE DEF hit
    <3>2. first \in hit
      BY <1>2, <3>1, LowestHole
    <3> QED
      BY <3>2 DEF hit
  <2>2. RecordFillFailure(H, attempted) = Normalize(G)
    BY <1>2 DEF RecordFillFailure
  <2> HIDE DEF first
  <2>3. /\ first \in HoleRecords(max, Hashes) /\ failed \in HoleRecords(max, Hashes)
        /\ failed.from = first.from /\ failed.to = first.to /\ failed.next = first.next
    BY <2>1 DEF Stored, NonEmpty, HoleRecords, Lifecycles
  <2> HIDE DEF failed
  <2>4. HoleSet(max, Hashes, G) /\ UniqueStarts(G)
    BY <2>1, <2>3 DEF HoleSet, UniqueStarts, Stored, NonEmpty
  <2>5. Owed(H) \subseteq Owed(G)
    <3>1. Heights(first) = Heights(failed)
      BY <2>3 DEF Heights
    <3> QED
      BY <2>1, <3>1 DEF Owed
  <2>6. \A D : AllSound(H, D) => AllSound(G, D)
    BY <2>1, <2>3 DEF AllSound, CursorSound
  <2> HIDE DEF G
  <2> QED
    BY <2>2, <2>4, <2>5, <2>6, NormalizePreserves
<1> QED
  BY <1>1, <1>2

(* A hole with other fields keeps its range. *)
WithCursor(h, n, s) == [h EXCEPT !.next = n, !.st = s]
Updated(h, n, s, l, r) == [h EXCEPT !.next = n, !.st = s, !.life = l, !.reason = r]

LEMMA WithCursorKeeps ==
  ASSUME NEW max \in Nat, NEW Hashes, NEW h \in HoleRecords(max, Hashes),
         NEW n \in 0 .. max + 1, NEW s \in Hashes \cup {NoHash}
  PROVE  /\ WithCursor(h, n, s) \in HoleRecords(max, Hashes)
         /\ WithCursor(h, n, s).from = h.from
         /\ WithCursor(h, n, s).to = h.to
         /\ WithCursor(h, n, s).next = n
<1> DEFINE k == [h EXCEPT !.next = n]
           g == [k EXCEPT !.st = s]
<1>1. k \in HoleRecords(max, Hashes) /\ k.from = h.from /\ k.to = h.to /\ k.next = n
  BY DEF HoleRecords
<1>2. WithCursor(h, n, s) = g
  BY DEF WithCursor
<1> HIDE DEF k
<1>3. g \in HoleRecords(max, Hashes) /\ g.from = k.from /\ g.to = k.to /\ g.next = k.next
  BY <1>1 DEF HoleRecords
<1> HIDE DEF g
<1> QED
  BY <1>1, <1>2, <1>3

LEMMA UpdatedKeeps ==
  ASSUME NEW max \in Nat, NEW Hashes, NEW h \in HoleRecords(max, Hashes),
         NEW n \in 0 .. max + 1, NEW s \in Hashes \cup {NoHash},
         NEW l \in Lifecycles, NEW r \in Reasons
  PROVE  /\ Updated(h, n, s, l, r) \in HoleRecords(max, Hashes)
         /\ Updated(h, n, s, l, r).from = h.from
         /\ Updated(h, n, s, l, r).to = h.to
         /\ Updated(h, n, s, l, r).next = n
<1> DEFINE k == WithCursor(h, n, s)
           g == [k EXCEPT !.life = l, !.reason = r]
<1>1. k \in HoleRecords(max, Hashes) /\ k.from = h.from /\ k.to = h.to /\ k.next = n
  BY WithCursorKeeps
<1>2. Updated(h, n, s, l, r) = g
  BY DEF Updated, WithCursor
<1> HIDE DEF k
<1>3. g \in HoleRecords(max, Hashes) /\ g.from = k.from /\ g.to = k.to /\ g.next = k.next
  BY <1>1 DEF HoleRecords
<1> HIDE DEF g
<1> QED
  BY <1>1, <1>2, <1>3

(* rewindHoles: the ranges stay, and a cursor that survives stands on      *)
(* heights the rewind kept.                                                *)
LEMMA RewindHolesPreserves ==
  ASSUME NEW max \in Nat, NEW Hashes, NEW H, Stored(max, Hashes, H), NEW ancestor \in Nat
  PROVE  /\ Stored(max, Hashes, RewindHoles(H, ancestor))
         /\ Owed(H) \subseteq Owed(RewindHoles(H, ancestor))
         /\ \A D, E : AllSound(H, D) /\ {n \in D : n <= ancestor} \subseteq E
                       => AllSound(RewindHoles(H, ancestor), E)
<1> DEFINE reset == {h \in H : h.next > 0 /\ h.next - 1 > ancestor}
           Reset(h) == [h EXCEPT !.next = 0, !.st = NoHash]
           G == (H \ reset) \cup {Reset(h) : h \in reset}
<1>1. \A h \in H : /\ h \in HoleRecords(max, Hashes) /\ Reset(h) \in HoleRecords(max, Hashes)
                   /\ h.from \in Nat /\ h.to \in Nat /\ h.next \in Nat
                   /\ Reset(h).from = h.from /\ Reset(h).to = h.to /\ Reset(h).next = 0
  <2> TAKE h \in H
  <2>1. h \in HoleRecords(max, Hashes)
    BY DEF Stored, NonEmpty
  <2>2. Reset(h) = WithCursor(h, 0, NoHash)
    BY DEF WithCursor
  <2> HIDE DEF Reset
  <2>3. 0 \in 0 .. max + 1 /\ h.from \in Nat /\ h.to \in Nat /\ h.next \in Nat
    BY <2>1 DEF HoleRecords
  <2> QED
    BY <2>1, <2>2, <2>3, WithCursorKeeps
<1>2. RewindHoles(H, ancestor) = IF reset = {} THEN H ELSE Normalize(G)
  BY DEF RewindHoles
<1> HIDE DEF Reset
<1>3. HoleSet(max, Hashes, G) /\ UniqueStarts(G)
  BY <1>1 DEF HoleSet, UniqueStarts, Stored
<1>4. Owed(H) \subseteq Owed(G)
  <2>1. \A h \in H : Heights(h) = Heights(Reset(h))
    BY <1>1 DEF Heights
  <2> QED
    BY <2>1 DEF Owed
<1>5. ASSUME NEW D, NEW E, AllSound(H, D), {n \in D : n <= ancestor} \subseteq E
      PROVE  AllSound(G, E)
  <2>1. \A h \in H \ reset : CursorSound(h, E)
    BY <1>1, <1>5 DEF AllSound, CursorSound
  <2>2. \A h \in reset : CursorSound(Reset(h), E)
    BY <1>1 DEF CursorSound
  <2> QED
    BY <2>1, <2>2 DEF AllSound
<1>6. CASE reset = {}
  <2>1. G = H
    BY <1>6
  <2> QED
    BY <1>2, <1>5, <1>6, <2>1
<1>7. CASE reset # {}
  <2> HIDE DEF G, reset
  <2> QED
    BY <1>2, <1>3, <1>4, <1>5, <1>7, NormalizePreserves
<1> QED
  BY <1>6, <1>7

(* So does one that takes the cursor, state, life and reason of another. *)
Marked(c, h) == [c EXCEPT !.next = h.next, !.st = h.st, !.life = h.life, !.reason = h.reason]

LEMMA MarkKeeps ==
  ASSUME NEW max \in Nat, NEW Hashes,
         NEW c \in HoleRecords(max, Hashes), NEW h \in HoleRecords(max, Hashes)
  PROVE  /\ Marked(c, h) \in HoleRecords(max, Hashes)
         /\ Marked(c, h).from = c.from /\ Marked(c, h).to = c.to /\ Marked(c, h).next = h.next
<1> DEFINE n == h.next
           s == h.st
           l == h.life
           r == h.reason
<1>1. n \in 0 .. max + 1 /\ s \in Hashes \cup {NoHash} /\ l \in Lifecycles /\ r \in Reasons
  BY DEF HoleRecords
<1>2. Marked(c, h) = Updated(c, n, s, l, r)
  BY DEF Marked, Updated
<1> HIDE DEF n, s, l, r
<1>3. /\ Updated(c, n, s, l, r) \in HoleRecords(max, Hashes)
      /\ Updated(c, n, s, l, r).from = c.from
      /\ Updated(c, n, s, l, r).to = c.to
      /\ Updated(c, n, s, l, r).next = n
  BY <1>1, UpdatedKeeps
<1> QED
  BY <1>2, <1>3 DEF n

(* advanceHole: h is a range as it was picked, b the first block after the *)
(* batch.  What stops being owed is stored by then.                        *)
LEMMA AdvanceHolePreserves ==
  ASSUME NEW max \in Nat, NEW Hashes, NEW H, Stored(max, Hashes, H),
         NEW h \in HoleRecords(max, Hashes), NEW D,
         h.from < h.next, h.next <= h.to + 1, h.from .. h.next - 1 \subseteq D
  PROVE  /\ Stored(max, Hashes, AdvanceHole(H, h))
         /\ Owed(H) \subseteq Owed(AdvanceHole(H, h)) \cup D
         /\ AllSound(H, D) => AllSound(AdvanceHole(H, h), D)
<1> DEFINE hit == {c \in H : c.from = h.from /\ c.to >= h.to}
           done == h.next > h.to
           gone == {c \in hit : done /\ c.to = h.to}
           kept == {c \in hit : ~ (done /\ c.to = h.to)}
           Step(c) == [c EXCEPT !.next = h.next, !.st = h.st, !.life = h.life, !.reason = h.reason]
           G == (H \ hit) \cup {Step(c) : c \in kept}
<1>1. \A c \in H : /\ c \in HoleRecords(max, Hashes) /\ Step(c) \in HoleRecords(max, Hashes)
                   /\ c.from \in Nat /\ c.to \in Nat
                   /\ Step(c).from = c.from /\ Step(c).to = c.to /\ Step(c).next = h.next
  <2> TAKE c \in H
  <2>1. c \in HoleRecords(max, Hashes)
    BY DEF Stored, NonEmpty
  <2> HIDE DEF Step, hit, done, gone, kept, G
  <2>2. c.from \in Nat /\ c.to \in Nat
    BY <2>1 DEF HoleRecords
  <2>3. /\ Step(c) \in HoleRecords(max, Hashes)
        /\ Step(c).from = c.from /\ Step(c).to = c.to /\ Step(c).next = h.next
    <3>1. Step(c) = Marked(c, h)
      BY DEF Step, Marked
    <3> QED
      BY <2>1, <3>1, MarkKeeps
  <2> QED
    BY <2>1, <2>2, <2>3
<1>2. AdvanceHole(H, h) = Normalize(G)
  BY DEF AdvanceHole
<1>3. h.from \in Nat /\ h.to \in Nat /\ h.next \in Nat
  BY DEF HoleRecords
<1> HIDE DEF Step
<1>4. HoleSet(max, Hashes, G) /\ UniqueStarts(G)
  BY <1>1 DEF HoleSet, UniqueStarts, Stored
<1>5. Owed(H) \subseteq Owed(G) \cup D
  <2> SUFFICES ASSUME NEW c \in H, NEW n \in Heights(c)
               PROVE  n \in D \/ \E e \in G : n \in Heights(e)
    BY DEF Owed
  <2>1. CASE c \in gone
    BY <1>1, <1>3, <2>1 DEF Heights
  <2>2. CASE c \in kept
    BY <1>1, <2>2 DEF Heights
  <2>3. CASE c \notin hit
    BY <2>3
  <2> QED
    BY <2>1, <2>2, <2>3
<1>6. AllSound(H, D) => AllSound(G, D)
  <2>1. \A c \in kept : CursorSound(Step(c), D)
    BY <1>1, <1>3 DEF CursorSound
  <2> QED
    BY <2>1 DEF AllSound
<1> HIDE DEF G
<1> QED
  BY <1>2, <1>4, <1>5, <1>6, NormalizePreserves

-----------------------------------------------------------------------------
(* The follower. *)

(* The pc of a tick, or of a fill step, says which locals it has. *)
LEMMA TickShape ==
  ASSUME tick \in Tick
  PROVE  /\ tick.pc = "fetch" => tick \in FetchTick
         /\ tick.pc = "ancestor" => tick \in WalkTick
         /\ tick.pc \in {"rewind", "reload"} => tick \in RewindTick
         /\ tick.pc = "persist" => tick \in PersistTick
         /\ tick.pc = "publish" => tick \in PublishTick
<1>1. /\ \A t \in IdleStep : t.pc = "idle"
      /\ \A t \in FetchTick : t.pc = "fetch"
      /\ \A t \in WalkTick : t.pc = "ancestor"
      /\ \A t \in RewindTick : t.pc \in {"rewind", "reload"}
      /\ \A t \in PersistTick : t.pc = "persist"
      /\ \A t \in PublishTick : t.pc = "publish"
  BY DEF IdleStep, FetchTick, WalkTick, RewindTick, PersistTick, PublishTick
<1> QED
  BY <1>1 DEF Tick

LEMMA FillShape ==
  ASSUME fill \in Fill
  PROVE  /\ fill.pc = "fetch" => fill \in FetchFill
         /\ fill.pc = "mark" => fill \in MarkFill
         /\ fill.pc = "commit" => fill \in CommitFill
         /\ fill.pc = "failed" => fill \in FailedFill
<1>1. /\ \A t \in IdleStep : t.pc = "idle"
      /\ \A t \in FetchFill : t.pc = "fetch"
      /\ \A t \in MarkFill : t.pc = "mark"
      /\ \A t \in CommitFill : t.pc = "commit"
      /\ \A t \in FailedFill : t.pc = "failed"
  BY DEF IdleStep, FetchFill, MarkFill, CommitFill, FailedFill
<1> QED
  BY <1>1 DEF Fill

-----------------------------------------------------------------------------
(* Tables of blocks. *)
LEMMA TableEntries ==
  ASSUME NEW t \in Table
  PROVE  /\ DOMAIN t \in SUBSET Height /\ t \in [DOMAIN t -> Block]
         /\ \A n \in DOMAIN t : t[n] \in Block /\ t[n].v \in Hash /\ t[n].p \in Hash
<1>1. PICK S \in SUBSET Height : t \in [S -> Block]
  BY DEF Table
<1>2. DOMAIN t = S
  BY <1>1
<1> QED
  BY <1>1, <1>2 DEF Block

LEMMA TableIntro ==
  ASSUME NEW S \in SUBSET Height, NEW f \in [S -> Block]
  PROVE  f \in Table /\ DOMAIN f = S
  BY DEF Table

LEMMA NoRowsTable == NoRows \in Table /\ DOMAIN NoRows = {}
<1>1. NoRows \in [{} -> Block] /\ {} \in SUBSET Height
  BY DEF NoRows
<1> QED
  BY <1>1, TableIntro

LEMMA UpsertTable ==
  ASSUME NEW old \in Table, NEW new \in Table
  PROVE  /\ UpsertBlocks(old, new) \in Table
         /\ DOMAIN UpsertBlocks(old, new) = DOMAIN old \cup DOMAIN new
<1> DEFINE S == DOMAIN old \cup DOMAIN new
<1>1. S \in SUBSET Height
  BY TableEntries
<1>2. UpsertBlocks(old, new) \in [S -> Block]
  BY TableEntries DEF UpsertBlocks
<1> QED
  BY <1>1, <1>2, TableIntro

LEMMA RestrictTable ==
  ASSUME NEW t \in Table, NEW S \in SUBSET DOMAIN t
  PROVE  Restrict(t, S) \in Table /\ DOMAIN Restrict(t, S) = S
<1>1. S \in SUBSET Height
  BY TableEntries
<1>2. Restrict(t, S) \in [S -> Block]
  BY TableEntries DEF Restrict
<1> QED
  BY <1>1, <1>2, TableIntro

LEMMA LatestBlockType ==
  ASSUME NEW t \in Table
  PROVE  /\ LatestBlock(t) \in 0 .. MaxHeight
         /\ IF LatestBlock(t) = 0 THEN DOMAIN t = {} ELSE LatestBlock(t) \in DOMAIN t
<1>1. CASE DOMAIN t = {}
  BY <1>1, FollowerAssumption DEF LatestBlock
<1>2. CASE DOMAIN t # {}
  <2>1. DOMAIN t \in SUBSET Int /\ \A n \in DOMAIN t : n \in 1 .. MaxHeight
    BY TableEntries DEF Height
  <2>2. MaxHeight \in Int /\ \A n \in DOMAIN t : n <= MaxHeight
    BY <2>1, FollowerAssumption
  <2>3. Max(DOMAIN t) \in DOMAIN t
    BY <1>2, <2>1, <2>2, MaxOfBounded
  <2> QED
    BY <1>2, <2>1, <2>3 DEF LatestBlock
<1> QED
  BY <1>1, <1>2

LEMMA OldestBlockType ==
  ASSUME NEW t \in Table
  PROVE  /\ OldestBlock(t) \in 0 .. MaxHeight
         /\ DOMAIN t # {} => OldestBlock(t) \in DOMAIN t
<1>1. CASE DOMAIN t = {}
  BY <1>1, FollowerAssumption DEF OldestBlock
<1>2. CASE DOMAIN t # {}
  <2>1. DOMAIN t \in SUBSET Int /\ \A n \in DOMAIN t : n \in 1 .. MaxHeight
    BY TableEntries DEF Height
  <2>2. \A n \in DOMAIN t : 1 <= n
    BY <2>1
  <2>3. Min(DOMAIN t) \in DOMAIN t
    BY <1>2, <2>1, <2>2, MinOfBounded
  <2> QED
    BY <1>2, <2>1, <2>3 DEF OldestBlock
<1> QED
  BY <1>1, <1>2

-----------------------------------------------------------------------------
(* The Follower struct, one field at a time. *)
LEMMA MemoryField ==
  ASSUME NEW m \in Memory
  PROVE  /\ \A x \in 0 .. MaxHeight : [m EXCEPT !.head = x] \in Memory
         /\ \A x \in 0 .. MaxHeight : [m EXCEPT !.live = x] \in Memory
         /\ \A x \in Hash \cup {NoHash} : [m EXCEPT !.hash = x] \in Memory
         /\ \A x \in BOOLEAN : [m EXCEPT !.known = x] \in Memory
         /\ m.live \in 0 .. MaxHeight /\ m.head \in 0 .. MaxHeight
  BY DEF Memory

LEMMA ReloadHeadType ==
  ASSUME NEW m \in Memory, NEW t \in Table
  PROVE  ReloadHead(m, t) \in Memory /\ ReloadHead(m, t).head = LatestBlock(t)
<1> DEFINE last == LatestBlock(t)
           hash == IF last = 0 THEN NoHash ELSE t[last].v
           a == [m EXCEPT !.head = last]
           b == [a EXCEPT !.known = FALSE]
           c == [b EXCEPT !.hash = hash]
<1>1. last \in 0 .. MaxHeight
  BY LatestBlockType
<1>2. hash \in Hash \cup {NoHash}
  BY LatestBlockType, TableEntries
<1>3. ReloadHead(m, t) = c
  BY DEF ReloadHead
<1> HIDE DEF hash, last
<1>4. a \in Memory /\ a.head = last
  BY <1>1, MemoryField DEF Memory
<1> HIDE DEF a
<1>5. b \in Memory /\ b.head = last
  BY <1>4, MemoryField DEF Memory
<1> HIDE DEF b
<1>6. c \in Memory /\ c.head = last
  BY <1>2, <1>5, MemoryField DEF Memory
<1> HIDE DEF c
<1> QED
  BY <1>3, <1>6 DEF last

LEMMA DownType == Down \in Memory /\ \A n \in 0 .. MaxHeight : [Down EXCEPT !.up = TRUE, !.live = n] \in Memory
<1>1. Down \in Memory
  BY FollowerAssumption DEF Down, Memory
<1>2. [Down EXCEPT !.up = TRUE] \in Memory
  BY <1>1 DEF Memory
<1> DEFINE m == [Down EXCEPT !.up = TRUE]
<1>3. \A n \in 0 .. MaxHeight : [Down EXCEPT !.up = TRUE, !.live = n] = [m EXCEPT !.live = n]
  OBVIOUS
<1> HIDE DEF m
<1>4. m \in Memory => \A n \in 0 .. MaxHeight : [m EXCEPT !.live = n] \in Memory
  BY MemoryField
<1> QED
  BY <1>1, <1>2, <1>3, <1>4 DEF m

-----------------------------------------------------------------------------
(* The inductive invariant.  Besides the types it says that the holes have *)
(* different first blocks, that a hole's cursor stands on stored blocks,   *)
(* and the same of the hole a fill step works on while no rewind has       *)
(* bumped the generation since it was picked.                              *)
Recovered == DOMAIN rows \cup folded

EnvInv ==
    /\ chain \in Seq(Block) /\ Len(chain) \in Height
    /\ forks \in Hash /\ faults \in 0 .. MaxFaults /\ crossed \in BOOLEAN

DbInv ==
    /\ rows \in Table /\ gen \in Nat /\ live \in 0 .. MaxHeight /\ folded \in SUBSET Height
    /\ Stored(MaxHeight, Hash, holes)
    /\ AllSound(holes, Recovered)

TickOK(t) ==
    /\ t \in Tick
    /\ t.pc = "fetch" => Len(t.headers) < t.sample.n
    /\ t.pc = "persist" => \A h \in t.hole : h.next = 0
TickInv == TickOK(tick)

(* A fill attempt of generation g at hole h. *)
Attempt(g, h) ==
    /\ g <= gen /\ h.from <= h.to
    /\ g = gen => CursorSound(h, Recovered)

FillInv ==
    /\ fill \in Fill
    /\ fill.pc \in {"fetch", "commit"} => Attempt(fill.gen, fill.hole)
    /\ fill.pc = "mark" /\ fill.target.pc = "fetch" => Attempt(fill.target.gen, fill.target.hole)
    /\ fill.pc = "commit" => /\ DOMAIN fill.rows = Start(fill.hole) .. fill.next - 1
                             /\ Start(fill.hole) < fill.next /\ fill.next <= fill.hole.to + 1

IInv == EnvInv /\ DbInv /\ mem \in Memory /\ TickInv /\ FillInv

(* What every step does to the database: recovered heights are forgotten   *)
(* only with the generation bumped, owed ones only when recovered.         *)
DbStep ==
    /\ DbInv'
    /\ gen' = gen + 1 \/ (gen' = gen /\ Recovered \subseteq Recovered')
    /\ Owed(holes) \subseteq Owed(holes') \cup Recovered'

LEMMA IInvTypes == IInv => TypeOK
  BY DEF IInv, TypeOK, EnvInv, DbInv, TickInv, TickOK, FillInv, Stored, Hole

LEMMA DbUnchanged ==
  ASSUME DbInv, UNCHANGED db
  PROVE  DbStep
  BY DEF DbInv, DbStep, db, Recovered

LEMMA FillUnchanged ==
  ASSUME DbInv, FillInv, DbStep, UNCHANGED fill
  PROVE  FillInv'
<1>1. \A g \in Nat : \A h : Attempt(g, h) => Attempt(g, h)'
  BY DEF DbInv, DbStep, Attempt, CursorSound, Recovered
<1>2. fill.pc \in {"fetch", "commit"} => fill.gen \in Nat
  BY FillShape DEF FillInv, FetchFill, CommitFill
<1>3. fill.pc = "mark" /\ fill.target.pc = "fetch" => fill.target.gen \in Nat
  BY FillShape DEF FillInv, MarkFill, IdleStep, FetchFill
<1> QED
  BY <1>1, <1>2, <1>3 DEF FillInv

-----------------------------------------------------------------------------
(* The transactions. *)
LEMMA RewindTxStep ==
  ASSUME DbInv, mem \in Memory, tick \in RewindTick, RewindTx
  PROVE  DbStep /\ crossed' \in BOOLEAN
<1> DEFINE a == tick.ancestor
           kept == {n \in DOMAIN rows : n <= a}
<1>1. a \in Nat
  BY DEF RewindTick
<1>2. rows' \in Table /\ DOMAIN rows' = kept
  <2>1. rows' = Restrict(rows, kept)
    BY DEF RewindTx, BlocksUpTo
  <2> QED
    BY <2>1, RestrictTable DEF DbInv
<1>3. Recovered' = {n \in Recovered : n <= a}
  BY <1>2 DEF Recovered, RewindTx
<1>4. folded' \in SUBSET Height /\ gen' \in Nat /\ gen' = gen + 1 /\ live' \in 0 .. MaxHeight
  BY FollowerAssumption DEF DbInv, RewindTx
<1>5. /\ Stored(MaxHeight, Hash, holes')
      /\ Owed(holes) \subseteq Owed(holes')
      /\ AllSound(holes', Recovered')
  <2>1. MaxHeight \in Nat /\ Stored(MaxHeight, Hash, holes) /\ AllSound(holes, Recovered)
    BY FollowerAssumption DEF DbInv
  <2>2. holes' = RewindHoles(holes, a)
    BY DEF RewindTx
  <2>3. {n \in Recovered : n <= a} \subseteq Recovered'
    BY <1>3
  <2> HIDE DEF a
  <2> QED
    BY <1>1, <2>1, <2>2, <2>3, RewindHolesPreserves
<1>6. crossed' \in BOOLEAN
  BY DEF RewindTx
<1> QED
  BY <1>2, <1>4, <1>5, <1>6 DEF DbStep, DbInv

LEMMA PersistTxStep ==
  ASSUME DbInv, mem \in Memory, tick \in PersistTick, \A h \in tick.hole : h.next = 0, PersistTx
  PROVE  DbStep
<1>1. tick.rows \in Table /\ tick.hole \in SUBSET Hole /\ tick.sample.n \in 0 .. MaxHeight
  BY DEF PersistTick, Maybe, Sample, Height
<1>2. rows' \in Table /\ Recovered \subseteq Recovered'
  BY <1>1, UpsertTable DEF DbInv, PersistTx, Recovered
<1>3. gen' = gen /\ folded' = folded /\ live' \in 0 .. MaxHeight
  BY <1>1 DEF DbInv, PersistTx
<1>4. /\ Stored(MaxHeight, Hash, holes')
      /\ Owed(holes) \subseteq Owed(holes')
      /\ AllSound(holes', Recovered)
  <2>1. MaxHeight \in Nat /\ Stored(MaxHeight, Hash, holes) /\ AllSound(holes, Recovered)
    BY FollowerAssumption DEF DbInv
  <2>2. CASE tick.hole = {}
    BY <2>1, <2>2 DEF PersistTx
  <2>3. CASE tick.hole # {}
    <3> DEFINE h == CHOOSE h \in tick.hole : TRUE
    <3>1. h \in tick.hole
      BY <2>3
    <3>2. h \in HoleRecords(MaxHeight, Hash) /\ h.next = 0
      BY <1>1, <3>1 DEF Hole
    <3>3. holes' = RecordHole(holes, h) /\ UniqueStarts(holes')
      BY <2>3 DEF PersistTx
    <3> HIDE DEF h
    <3> QED
      BY <2>1, <3>2, <3>3, RecordHolePreserves DEF Stored
  <2> QED
    BY <2>2, <2>3
<1>5. AllSound(holes', Recovered')
  BY <1>2, <1>4 DEF AllSound, CursorSound
<1> QED
  BY <1>2, <1>3, <1>4, <1>5 DEF DbStep, DbInv

LEMMA MarkStep ==
  ASSUME DbInv, NEW m, \A n \in DOMAIN m : m[n] \in Reasons,
         holes' = MarkHoles(holes, m), UNCHANGED <<rows, gen, live, folded>>
  PROVE  DbStep
<1>1. MaxHeight \in Nat /\ Stored(MaxHeight, Hash, holes) /\ AllSound(holes, Recovered)
  BY FollowerAssumption DEF DbInv
<1>2. /\ Stored(MaxHeight, Hash, holes')
      /\ Owed(holes) \subseteq Owed(holes')
      /\ AllSound(holes', Recovered)
  BY <1>1, MarkHolesPreserves
<1>3. Recovered' = Recovered
  BY DEF Recovered
<1> QED
  BY <1>2, <1>3 DEF DbStep, DbInv

LEMMA RetryStep ==
  ASSUME DbInv, NEW h, holes' = RecordFillFailure(holes, h), UNCHANGED <<rows, gen, live, folded>>
  PROVE  DbStep
<1>1. MaxHeight \in Nat /\ Stored(MaxHeight, Hash, holes) /\ AllSound(holes, Recovered)
  BY FollowerAssumption DEF DbInv
<1>2. /\ Stored(MaxHeight, Hash, holes')
      /\ Owed(holes) \subseteq Owed(holes')
      /\ AllSound(holes', Recovered)
  BY <1>1, RecordFillFailurePreserves
<1>3. Recovered' = Recovered
  BY DEF Recovered
<1> QED
  BY <1>2, <1>3 DEF DbStep, DbInv

LEMMA FillTxStep ==
  ASSUME DbInv, FillInv, fill.pc = "commit", gen = fill.gen, FillTx
  PROVE  DbStep
<1> DEFINE h == fill.hole
           e == Max(DOMAIN fill.rows)
           k == WithCursor(h, fill.next, fill.rows[e].v)
           g == [k EXCEPT !.life = "pending"]
<1>1. /\ h \in HoleRecords(MaxHeight, Hash) /\ fill.next \in Nat
      /\ fill.rows \in Table /\ fill.tail \in Table /\ MaxHeight \in Nat
  BY FillShape, FollowerAssumption DEF FillInv, CommitFill, Hole
<1>2. /\ DOMAIN fill.rows = Start(h) .. fill.next - 1
      /\ Start(h) < fill.next /\ fill.next <= h.to + 1
      /\ CursorSound(h, Recovered)
  BY DEF FillInv, Attempt
<1>3. h.from \in 1 .. MaxHeight + 1 /\ h.to \in 0 .. MaxHeight /\ h.next \in 0 .. MaxHeight + 1
  BY <1>1 DEF HoleRecords
<1>4. /\ Start(h) \in Nat /\ h.from <= Start(h)
      /\ h.from .. Start(h) - 1 \subseteq Recovered
  BY <1>2, <1>3 DEF Start, CursorSound
<1>5. e \in DOMAIN fill.rows
  <2>1. DOMAIN fill.rows \in SUBSET Int /\ fill.next - 1 \in DOMAIN fill.rows
    BY <1>1, <1>2, <1>4
  <2>2. \A n \in DOMAIN fill.rows : n <= fill.next - 1
    BY <1>1, <1>2, <1>4
  <2> QED
    BY <1>1, <2>1, <2>2, MaxOfBounded
<1>6. fill.rows[e].v \in Hash \cup {NoHash}
  BY <1>1, <1>5, TableEntries
<1>7. fill.next \in 0 .. MaxHeight + 1
  BY <1>1, <1>2, <1>3
<1>8. k \in HoleRecords(MaxHeight, Hash) /\ k.from = h.from /\ k.to = h.to /\ k.next = fill.next
  <2> HIDE DEF e, h
  <2> QED
    BY <1>1, <1>6, <1>7, WithCursorKeeps
<1>9. holes' = AdvanceHole(holes, g)
  BY DEF FillTx, WithCursor
<1> HIDE DEF k
<1>10. g \in HoleRecords(MaxHeight, Hash) /\ g.from = h.from /\ g.to = h.to /\ g.next = fill.next
  BY <1>8 DEF HoleRecords, Lifecycles
<1> HIDE DEF g
<1>11. /\ rows' \in Table /\ folded' \in SUBSET Height
       /\ Recovered \cup DOMAIN fill.rows \subseteq Recovered'
  <2> DEFINE batch == IF mem.live = 0 THEN NoRows ELSE fill.rows
             under == UpsertBlocks(rows, batch)
  <2>1. rows' = UpsertBlocks(under, fill.tail)
    BY DEF FillTx
  <2>2. batch \in Table /\ (mem.live # 0 => DOMAIN batch = DOMAIN fill.rows)
    BY <1>1, NoRowsTable
  <2> HIDE DEF batch
  <2>3. rows \in Table /\ folded \in SUBSET Height
    BY DEF DbInv
  <2>4. under \in Table /\ DOMAIN under = DOMAIN rows \cup DOMAIN batch
    BY <2>2, <2>3, UpsertTable
  <2> HIDE DEF under
  <2>5. rows' \in Table /\ DOMAIN rows' = DOMAIN under \cup DOMAIN fill.tail
    BY <1>1, <2>1, <2>4, UpsertTable
  <2>6. folded' = IF mem.live = 0 THEN folded \cup DOMAIN fill.rows ELSE folded
    BY DEF FillTx
  <2>7. DOMAIN fill.rows \in SUBSET Height
    BY <1>1, TableEntries
  <2> QED
    BY <2>2, <2>3, <2>4, <2>5, <2>6, <2>7 DEF Recovered
<1>12. g.from < g.next /\ g.next <= g.to + 1 /\ g.from .. g.next - 1 \subseteq Recovered'
  BY <1>1, <1>2, <1>3, <1>4, <1>10, <1>11
<1>13. AllSound(holes, Recovered')
  BY <1>11 DEF DbInv, AllSound, CursorSound
<1>14. /\ Stored(MaxHeight, Hash, holes')
       /\ Owed(holes) \subseteq Owed(holes') \cup Recovered'
       /\ AllSound(holes', Recovered')
  <2>1. Stored(MaxHeight, Hash, holes)
    BY DEF DbInv
  <2> QED
    BY <1>1, <1>9, <1>10, <1>12, <1>13, <2>1, AdvanceHolePreserves
<1>15. gen' = gen /\ live' = live
  BY DEF FillTx
<1> QED
  BY <1>11, <1>14, <1>15 DEF DbStep, DbInv

-----------------------------------------------------------------------------
(* The records a tick goes through. *)
LEMMA IdleOK == TickOK(Idle) /\ Idle \in Fill /\ Idle.pc = "idle"
  BY DEF TickOK, Idle, IdleStep, Tick, Fill

LEMMA NewHoleOK ==
  ASSUME NEW from \in 1 .. MaxHeight + 1, NEW to \in 0 .. MaxHeight,
         NEW life \in Lifecycles, NEW reason \in Reasons
  PROVE  LET skipped == {NewHole(from, to, life, reason)}
         IN  skipped \in Maybe(Hole) /\ \A h \in skipped : h.next = 0
<1>1. NewHole(from, to, life, reason) \in Hole
  BY FollowerAssumption DEF NewHole, Hole, HoleRecords
<1>2. NewHole(from, to, life, reason).next = 0
  BY DEF NewHole
<1> QED
  BY <1>1, <1>2 DEF Maybe

LEMMA PersistOK ==
  ASSUME NEW s \in Sample, NEW t \in Table, NEW skipped \in Maybe(Hole),
         \A h \in skipped : h.next = 0
  PROVE  TickOK([pc |-> "persist", sample |-> s, rows |-> t, hole |-> skipped])
<1> DEFINE p == [pc |-> "persist", sample |-> s, rows |-> t, hole |-> skipped]
<1>1. p \in PersistTick /\ p.pc = "persist" /\ p.hole = skipped
  BY DEF PersistTick
<1>2. TickOK(p)
  <2> HIDE DEF p
  <2> QED
    BY <1>1 DEF TickOK, Tick
<1> QED
  BY <1>2

LEMMA NoneOK == {} \in Maybe(Hole)
  BY DEF Maybe

LEMMA SeedOK ==
  ASSUME NEW s \in Sample, NEW skipped \in Maybe(Hole), \A h \in skipped : h.next = 0
  PROVE  TickOK(Seed(s, skipped))
<1> DEFINE t == [n \in {s.n} |-> [v |-> s.v, p |-> s.p]]
<1>1. t \in [{s.n} -> Block] /\ {s.n} \in SUBSET Height
  BY DEF Sample, Block
<1>2. t \in Table
  BY <1>1, TableIntro
<1> HIDE DEF t
<1>3. TickOK([pc |-> "persist", sample |-> s, rows |-> t, hole |-> skipped])
  BY <1>2, PersistOK
<1> QED
  BY <1>3 DEF Seed, t

LEMMA SkipOK ==
  ASSUME NEW s \in Sample, NEW stored \in 0 .. MaxHeight
  PROVE  TickOK(Skip(s, stored))
<1>1. s.n - 1 \in 0 .. MaxHeight /\ stored + 1 \in 1 .. MaxHeight + 1
  BY FollowerAssumption DEF Sample, Height
<1>2. "pending" \in Lifecycles /\ "catch_up_limit" \in Reasons
  BY DEF Lifecycles, Reasons
<1> QED
  BY <1>1, <1>2, NewHoleOK, SeedOK DEF Skip

LEMMA FetchOK ==
  ASSUME NEW s \in Sample, NEW stored \in Height, NEW u \in BOOLEAN, NEW again \in BOOLEAN,
         NEW hs \in Seq(Block), Len(hs) < s.n
  PROVE  TickOK([pc |-> "fetch", sample |-> s, stored |-> stored, unlimited |-> u,
                 headers |-> hs, again |-> again])
<1> DEFINE f == [pc |-> "fetch", sample |-> s, stored |-> stored, unlimited |-> u,
                 headers |-> hs, again |-> again]
<1>1. f \in FetchTick /\ f.pc = "fetch" /\ f.headers = hs /\ f.sample = s
  BY DEF FetchTick
<1>2. TickOK(f)
  <2> HIDE DEF f
  <2> QED
    BY <1>1 DEF TickOK, Tick
<1> QED
  BY <1>2

LEMMA CatchUpOK ==
  ASSUME NEW s \in Sample, NEW stored \in 0 .. MaxHeight, NEW again \in BOOLEAN,
         NEW t \in CatchUp(s, stored, again)
  PROVE  TickOK(t)
<1>1. CASE stored = 0
  BY <1>1, SeedOK, NoneOK DEF CatchUp
<1>2. CASE stored # 0
  <2>1. PICK u \in Unlimited :
          t = IF ~ u /\ OverBudget(s, stored) THEN Skip(s, stored)
              ELSE [pc |-> "fetch", sample |-> s, stored |-> stored, unlimited |-> u,
                    headers |-> <<>>, again |-> again]
    BY <1>2 DEF CatchUp
  <2>2. stored \in Height /\ u \in BOOLEAN /\ s.n \in Height /\ s.n > 0
    BY <1>2, FollowerAssumption DEF Height, Sample
  <2>3. <<>> \in Seq(Block) /\ Len(<<>>) < s.n
    BY <2>2 DEF Height
  <2>4. TickOK([pc |-> "fetch", sample |-> s, stored |-> stored, unlimited |-> u,
                headers |-> <<>>, again |-> again])
    BY <2>2, <2>3, FetchOK
  <2> QED
    BY <2>1, <2>4, SkipOK
<1> QED
  BY <1>1, <1>2

LEMMA FindAncestorOK ==
  ASSUME NEW s \in Sample, NEW from \in Nat, NEW why \in RewindFor, rows \in Table
  PROVE  TickOK(FindAncestor(s, from, why))
<1> DEFINE f == FindAncestor(s, from, why)
<1>1. RecentBlocks(rows, MaxReorgDepth + 1) \in Table
  BY RestrictTable DEF RecentBlocks
<1>2. f \in WalkTick /\ f.pc = "ancestor"
  BY <1>1 DEF FindAncestor, WalkTick
<1>3. TickOK(f)
  <2> HIDE DEF f
  <2> QED
    BY <1>2 DEF TickOK, Tick
<1> QED
  BY <1>3

LEMMA ProcessOK ==
  ASSUME NEW s \in Sample, NEW hs \in Seq(Block), Len(hs) >= 1, Len(hs) <= s.n,
         NEW t \in Process(s, hs)
  PROVE  TickOK(t)
<1> DEFINE first == s.n - Len(hs) + 1
           replayed == [n \in first .. s.n |-> hs[n - first + 1]]
           skipped(life, reason) == {NewHole(first, s.n - 1, life, reason)}
<1>1. s.n \in 1 .. MaxHeight /\ Len(hs) \in Nat /\ MaxHeight \in Nat
  BY FollowerAssumption DEF Sample, Height
<1>2. first \in 1 .. MaxHeight + 1 /\ first <= s.n /\ s.n - 1 \in 0 .. MaxHeight
  BY <1>1
<1>3. replayed \in Table
  <2>1. \A n \in first .. s.n : n - first + 1 \in 1 .. Len(hs)
    BY <1>1
  <2>2. replayed \in [first .. s.n -> Block]
    BY <2>1
  <2>3. first .. s.n \in SUBSET Height
    BY <1>1, <1>2 DEF Height
  <2> QED
    BY <2>2, <2>3, TableIntro
<1>4. PICK r \in Replays :
        t = CASE r = "ok" -> [pc |-> "persist", sample |-> s, rows |-> replayed, hole |-> {}]
              [] r = "no_state" -> Seed(s, skipped("blocked", r))
              [] r = "unsupported_model" ->
                   Seed(s, IF first < s.n THEN skipped("blocked", r) ELSE {})
              [] r = "replay_discontinuity" -> Seed(s, skipped("pending", r))
  BY DEF Process
<1>5. r \in {"ok", "no_state", "unsupported_model", "replay_discontinuity"}
  BY FollowerAssumption
<1>6. r # "ok" => r \in Reasons
  BY <1>5 DEF Reasons
<1>7. "blocked" \in Lifecycles /\ "pending" \in Lifecycles
  BY DEF Lifecycles
<1> HIDE DEF first, replayed
<1>8. CASE r = "ok"
  <2>1. t = [pc |-> "persist", sample |-> s, rows |-> replayed, hole |-> {}]
    BY <1>4, <1>8
  <2> QED
    BY <1>3, <2>1, PersistOK, NoneOK
<1>9. CASE r = "no_state"
  <2>1. t = Seed(s, skipped("blocked", r))
    BY <1>4, <1>9
  <2> QED
    BY <1>2, <1>6, <1>7, <1>9, <2>1, NewHoleOK, SeedOK
<1>10. CASE r = "unsupported_model"
  <2>1. t = Seed(s, IF first < s.n THEN skipped("blocked", r) ELSE {})
    BY <1>4, <1>10
  <2> QED
    BY <1>2, <1>6, <1>7, <1>10, <2>1, NewHoleOK, SeedOK, NoneOK
<1>11. CASE r = "replay_discontinuity"
  <2>1. t = Seed(s, skipped("pending", r))
    BY <1>4, <1>11
  <2> QED
    BY <1>2, <1>6, <1>7, <1>11, <2>1, NewHoleOK, SeedOK
<1> QED
  BY <1>5, <1>8, <1>9, <1>10, <1>11

-----------------------------------------------------------------------------
(* Each action preserves the invariant and makes a DbStep. *)
Inductive == IInv' /\ DbStep

LEMMA FastStep ==
  ASSUME IInv, DbStep, EnvInv', mem' \in Memory, TickInv', UNCHANGED fill
  PROVE  Inductive
  BY FillUnchanged DEF IInv, Inductive, DbStep

LEMMA ChainEntries ==
  ASSUME EnvInv
  PROVE  \A n \in 1 .. Len(chain) : chain[n] \in Block /\ chain[n].v \in Hash
<1> TAKE n \in 1 .. Len(chain)
<1>1. chain[n] \in Block
  BY ElementOfSeq DEF EnvInv
<1> QED
  BY <1>1 DEF Block

LEMMA ChainStep ==
  ASSUME IInv, Mint \/ Reorg
  PROVE  Inductive
<1>1. chain \in Seq(Block) /\ Len(chain) \in 1 .. MaxHeight /\ forks \in Hash
  BY DEF IInv, EnvInv, Height
<1>2. \A n \in 1 .. Len(chain) : chain[n] \in Block /\ chain[n].v \in Hash
  BY ChainEntries DEF IInv
<1>3. ASSUME Mint PROVE EnvInv'
  <2> DEFINE b == [v |-> forks, p |-> chain[Len(chain)].v]
  <2>1. b \in Block /\ chain' = Append(chain, b)
    BY <1>1, <1>2, <1>3 DEF Mint, Block
  <2> HIDE DEF b
  <2>2. chain' \in Seq(Block) /\ Len(chain') = Len(chain) + 1
    BY <1>1, <2>1, AppendProperties
  <2> QED
    BY <1>1, <1>3, <2>2, FollowerAssumption DEF Mint, IInv, EnvInv, Height
<1>4. ASSUME Reorg PROVE EnvInv'
  <2>1. PICK k \in 1 .. Len(chain) - 1 :
          chain' = Append(SubSeq(chain, 1, k), [v |-> forks + 1, p |-> chain[k].v])
    BY <1>4 DEF Reorg
  <2> DEFINE b == [v |-> forks + 1, p |-> chain[k].v]
             c == SubSeq(chain, 1, k)
  <2>2. forks + 1 \in Hash /\ forks' = forks + 1
    BY <1>1, <1>4, FollowerAssumption DEF Reorg, Hash
  <2>3. b \in Block
    BY <1>1, <1>2, <2>1, <2>2 DEF Block
  <2>4. c \in Seq(Block) /\ Len(c) = k
    BY <1>1, <1>2, <2>1, SubSeqProperties
  <2> HIDE DEF b, c
  <2>5. chain' \in Seq(Block) /\ Len(chain') = k + 1
    BY <2>1, <2>3, <2>4, AppendProperties DEF b, c
  <2> QED
    BY <1>1, <1>4, <2>1, <2>2, <2>5, FollowerAssumption DEF Reorg, IInv, EnvInv, Height
<1>5. UNCHANGED <<db, mem, tick, fill>>
  BY DEF Mint, Reorg
<1> QED
  BY <1>3, <1>4, <1>5, DbUnchanged, FastStep DEF IInv, TickInv

LEMMA TickSampleStep ==
  ASSUME IInv, TickSample
  PROVE  Inductive
<1>1. PICK n \in 1 .. Len(chain) :
        LET s == [n |-> n, v |-> chain[n].v, p |-> chain[n].p]
            stored == mem.head
        IN  /\ IF n < Len(chain) THEN Fault ELSE UNCHANGED faults
            /\ \/ stored = 0 /\ tick' = Seed(s, {})
               \/ /\ n < stored
                  /\ tick' = IF n \in DOMAIN rows /\ rows[n].v # s.v
                               THEN FindAncestor(s, n, "behind") ELSE Idle
               \/ /\ n = stored /\ stored > 0 /\ mem.hash = s.v
                  /\ tick' = [pc |-> "persist", sample |-> s, rows |-> NoRows, hole |-> {}]
               \/ /\ n = stored /\ stored > 0 /\ mem.hash # s.v
                  /\ tick' = FindAncestor(s, stored - 1, "same")
               \/ n > stored /\ stored > 0 /\ tick' \in CatchUp(s, stored, FALSE)
  BY DEF TickSample
<1> DEFINE s == [n |-> n, v |-> chain[n].v, p |-> chain[n].p]
<1>2. chain \in Seq(Block) /\ Len(chain) \in Height /\ mem.head \in 0 .. MaxHeight /\ rows \in Table
  BY MemoryField DEF IInv, EnvInv, DbInv
<1>3. n \in Height /\ n \in Nat /\ s \in Sample
  <2>1. n \in Height /\ n \in Nat
    BY <1>2, FollowerAssumption DEF Height
  <2>2. chain[n] \in Block
    BY <1>2, ElementOfSeq
  <2> QED
    BY <2>1, <2>2 DEF Sample, Block
<1>4. "behind" \in RewindFor /\ "same" \in RewindFor /\ (mem.head > 0 => mem.head - 1 \in Nat)
  BY <1>2 DEF RewindFor
<1>5. faults' \in 0 .. MaxFaults
  BY <1>1, FollowerAssumption DEF Fault, IInv, EnvInv
<1>6. UNCHANGED <<chain, forks, db, mem, fill, crossed>>
  BY DEF TickSample, env
<1> HIDE DEF s
<1>7. TickInv'
  BY <1>1, <1>2, <1>3, <1>4, SeedOK, NoneOK, NoRowsTable, PersistOK, FindAncestorOK, IdleOK,
     CatchUpOK DEF TickInv, s
<1> QED
  BY <1>5, <1>6, <1>7, DbUnchanged, FastStep DEF IInv, EnvInv

(* A batch never reaches the sampled block. *)
LEMMA FetchedLength ==
  ASSUME EnvInv, TickInv, tick.pc = "fetch", NextBatch < tick.sample.n, BatchEnd <= Len(chain)
  PROVE  LET hs == tick.headers \o SubSeq(chain, NextBatch, BatchEnd)
         IN  hs \in Seq(Block) /\ tick.stored + Len(hs) < tick.sample.n
<1> DEFINE more == SubSeq(chain, NextBatch, BatchEnd)
           hs == tick.headers \o more
<1>1. tick \in FetchTick
  BY TickShape DEF TickInv, TickOK
<1>2. tick.sample \in Sample /\ tick.stored \in Height /\ tick.headers \in Seq(Block)
  BY <1>1 DEF FetchTick
<1>3. /\ tick.sample.n \in Nat /\ tick.stored \in Nat /\ Len(tick.headers) \in Nat
      /\ NextBatch \in Nat /\ NextBatch >= 1
      /\ NextBatch = tick.stored + 1 + Len(tick.headers)
  BY <1>2, FollowerAssumption DEF NextBatch, Sample, Height
<1>4. /\ BatchEnd \in Nat /\ BatchEnd <= tick.sample.n - 1 /\ NextBatch <= BatchEnd
  <2> DEFINE ends == {NextBatch + HeaderBatchSize - 1, tick.sample.n - 1}
  <2>1. ends \in SUBSET Int /\ ends # {} /\ \A x \in ends : NextBatch <= x
    BY <1>3, FollowerAssumption
  <2>2. Min(ends) \in ends /\ \A x \in ends : Min(ends) <= x
    <3>1. NextBatch \in Int
      BY <1>3
    <3> HIDE DEF ends
    <3> QED
      BY <2>1, <3>1, MinOfBounded
  <2>3. BatchEnd = Min(ends)
    BY DEF BatchEnd
  <2> QED
    BY <1>3, <2>1, <2>2, <2>3, FollowerAssumption
<1>5. more \in Seq(Block) /\ Len(more) = BatchEnd - NextBatch + 1
  <2>1. Len(chain) \in Nat
    BY DEF EnvInv, Height
  <2>2. \A i \in NextBatch .. BatchEnd : chain[i] \in Block
    BY <1>3, <1>4, <2>1, ChainEntries
  <2> QED
    BY <1>3, <1>4, <2>2, SubSeqProperties
<1> HIDE DEF more
<1>6. hs \in Seq(Block) /\ Len(hs) = Len(tick.headers) + Len(more)
  <2> DEFINE old == tick.headers
  <2>1. old \in Seq(Block) /\ more \in Seq(Block)
    BY <1>2, <1>5
  <2> HIDE DEF old
  <2>2. old \o more \in Seq(Block) /\ Len(old \o more) = Len(old) + Len(more)
    BY <2>1, ConcatProperties, Zenon
  <2> QED
    BY <2>2 DEF old
<1> HIDE DEF hs
<1>7. tick.stored + Len(hs) < tick.sample.n
  <2> DEFINE a == tick.stored
             l == Len(tick.headers)
             n == tick.sample.n
  <2>1. /\ a \in Nat /\ l \in Nat /\ n \in Nat /\ BatchEnd \in Nat /\ BatchEnd <= n - 1
        /\ NextBatch = a + 1 + l /\ Len(hs) = l + (BatchEnd - NextBatch + 1)
    BY <1>3, <1>4, <1>5, <1>6
  <2> HIDE DEF a, l, n
  <2>2. a + Len(hs) < n
    BY <2>1
  <2> QED
    BY <2>2 DEF a, n
<1> QED
  BY <1>6, <1>7 DEF hs, more

LEMMA FetchHeadersStep ==
  ASSUME IInv, FetchHeaders
  PROVE  Inductive
<1> DEFINE hs == tick.headers \o SubSeq(chain, NextBatch, BatchEnd)
<1>1. tick \in FetchTick /\ tick.stored \in Nat /\ tick.sample.n \in Nat
  BY TickShape DEF FetchHeaders, IInv, TickInv, TickOK, FetchTick, Height, Sample
<1>2. hs \in Seq(Block) /\ tick.stored + Len(hs) < tick.sample.n
  BY FetchedLength DEF FetchHeaders, IInv
<1>3. tick' = [tick EXCEPT !.headers = hs]
  BY DEF FetchHeaders
<1> HIDE DEF hs
<1>4. tick' \in FetchTick /\ tick'.pc = "fetch" /\ tick'.headers = hs /\ tick'.sample = tick.sample
  BY <1>1, <1>2, <1>3 DEF FetchTick
<1>5. Len(hs) < tick.sample.n
  BY <1>1, <1>2
<1>6. TickInv'
  BY <1>4, <1>5 DEF TickInv, TickOK, Tick
<1>7. UNCHANGED <<chain, forks, faults, db, mem, fill, crossed>>
  BY DEF FetchHeaders, env
<1> QED
  BY <1>6, <1>7, DbUnchanged, FastStep DEF IInv, EnvInv

LEMMA FailoverSkipStep ==
  ASSUME IInv, FailoverSkip
  PROVE  Inductive
<1>1. tick \in FetchTick
  BY TickShape DEF FailoverSkip, IInv, TickInv, TickOK
<1>2. tick.sample \in Sample /\ tick.stored \in 0 .. MaxHeight
  BY <1>1, FollowerAssumption DEF FetchTick, Height
<1>3. TickInv'
  BY <1>2, SkipOK DEF FailoverSkip, TickInv
<1>4. UNCHANGED <<chain, forks, faults, db, mem, fill, crossed>>
  BY DEF FailoverSkip, env
<1> QED
  BY <1>3, <1>4, DbUnchanged, FastStep DEF IInv, EnvInv

LEMMA HeadersFetchedStep ==
  ASSUME IInv, HeadersFetched
  PROVE  Inductive
<1>1. tick \in FetchTick /\ Len(tick.headers) < tick.sample.n
  BY TickShape DEF HeadersFetched, IInv, TickInv, TickOK
<1>2. /\ tick.sample \in Sample /\ tick.stored - 1 \in Nat /\ tick.headers \in Seq(Block)
      /\ tick.sample.n \in Nat
  BY <1>1, FollowerAssumption DEF FetchTick, Height, Sample
<1>3. /\ Headers \in Seq(Block) /\ Len(Headers) >= 1 /\ Len(Headers) <= tick.sample.n
  <2> DEFINE b == [v |-> tick.sample.v, p |-> tick.sample.p]
  <2>1. b \in Block
    BY <1>2 DEF Sample, Block
  <2> HIDE DEF b
  <2>2. Append(tick.headers, b) \in Seq(Block) /\ Len(Append(tick.headers, b)) = Len(tick.headers) + 1
    BY <1>2, <2>1, AppendProperties
  <2>3. Len(tick.headers) \in Nat
    BY <1>2
  <2> QED
    BY <1>1, <1>2, <2>2, <2>3 DEF Headers, b
<1>4. "parent" \in RewindFor /\ rows \in Table
  BY DEF RewindFor, IInv, DbInv
<1>5. TickInv'
  BY <1>2, <1>3, <1>4, FindAncestorOK, ProcessOK DEF HeadersFetched, TickInv
<1>6. UNCHANGED <<chain, forks, faults, db, mem, fill, crossed>>
  BY DEF HeadersFetched, env
<1> QED
  BY <1>5, <1>6, DbUnchanged, FastStep DEF IInv, EnvInv

(* findAncestor walks down one stored height at a time. *)
LEMMA AncestorStep ==
  ASSUME IInv, AncestorHeader \/ AncestorNoRow
  PROVE  Inductive
<1>1. tick \in WalkTick
  BY TickShape DEF AncestorHeader, AncestorNoRow, IInv, TickInv, TickOK
<1>2. tick.n \in Nat /\ tick.sample \in Sample /\ tick.why \in RewindFor /\ tick.recent \in Table
  BY <1>1 DEF WalkTick
<1>3. TickOK(Ancestor)
  <2>1. Ancestor \in RewindTick /\ Ancestor.pc = "rewind"
    BY <1>2 DEF Ancestor, RewindTick
  <2> QED
    BY <2>1 DEF TickOK, Tick
<1>4. ASSUME tick.n \in DOMAIN tick.recent
      PROVE  TickOK([tick EXCEPT !.n = tick.n - 1])
  <2> DEFINE t == [tick EXCEPT !.n = tick.n - 1]
  <2>1. tick.n - 1 \in Nat
    BY <1>2, <1>4, TableEntries DEF Height
  <2>2. t \in WalkTick /\ t.pc = "ancestor"
    BY <1>1, <2>1 DEF WalkTick
  <2>3. TickOK(t)
    <3> HIDE DEF t
    <3> QED
      BY <2>2 DEF TickOK, Tick
  <2> QED
    BY <2>3
<1>5. TickInv'
  BY <1>3, <1>4 DEF AncestorHeader, AncestorNoRow, TickInv
<1>6. UNCHANGED <<chain, forks, faults, db, mem, fill>>
  BY DEF AncestorHeader, AncestorNoRow, env
<1>7. crossed' \in BOOLEAN
  BY Zenon DEF AncestorHeader, AncestorNoRow, IInv, EnvInv
<1> QED
  BY <1>5, <1>6, <1>7, DbUnchanged, FastStep DEF IInv, EnvInv

LEMMA RewindStep ==
  ASSUME IInv, Rewind
  PROVE  Inductive
<1>1. tick \in RewindTick
  BY TickShape DEF Rewind, IInv, TickInv, TickOK
<1>2. DbStep /\ crossed' \in BOOLEAN
  BY <1>1, RewindTxStep DEF Rewind, IInv
<1>3. tick' \in RewindTick /\ tick'.pc = "reload"
  BY <1>1 DEF Rewind, RewindTick
<1>4. TickInv'
  BY <1>3 DEF TickInv, TickOK, Tick
<1>5. UNCHANGED <<chain, forks, faults, mem, fill>>
  BY DEF Rewind, env
<1> QED
  BY <1>2, <1>4, <1>5, FastStep DEF IInv, EnvInv

LEMMA StartClearedType ==
  ASSUME IInv
  PROVE  StartCleared \in Memory
<1>1. mem \in Memory /\ mem.live \in 0 .. MaxHeight /\ 0 \in 0 .. MaxHeight
  BY MemoryField, FollowerAssumption DEF IInv
<1>2. \A x \in 0 .. MaxHeight : [mem EXCEPT !.live = x] \in Memory
  BY <1>1, MemoryField
<1> QED
  BY <1>1, <1>2 DEF StartCleared

LEMMA RewindReloadStep ==
  ASSUME IInv, RewindReload
  PROVE  Inductive
<1> DEFINE m == ReloadHead(StartCleared, rows)
<1>1. tick \in RewindTick /\ rows \in Table
  BY TickShape DEF RewindReload, IInv, TickInv, TickOK, DbInv
<1>2. tick.sample \in Sample
  BY <1>1 DEF RewindTick
<1>3. m \in Memory /\ m.head \in 0 .. MaxHeight
  BY <1>1, StartClearedType, ReloadHeadType, MemoryField
<1>4. /\ mem' = m
      /\ tick' \in IF tick.why = "behind" THEN {Idle} ELSE CatchUp(tick.sample, m.head, tick.why = "parent")
  BY DEF RewindReload
<1> HIDE DEF m
<1>5. TickInv'
  <2> DEFINE again == tick.why = "parent"
  <2>1. again \in BOOLEAN
    OBVIOUS
  <2>2. CASE tick.why = "behind"
    BY <1>4, <2>2, IdleOK DEF TickInv
  <2>3. CASE tick.why # "behind"
    <3>1. tick' \in CatchUp(tick.sample, m.head, again)
      BY <1>4, <2>3
    <3> HIDE DEF again
    <3> QED
      BY <1>2, <1>3, <2>1, <3>1, CatchUpOK DEF TickInv
  <2> QED
    BY <2>2, <2>3
<1>6. UNCHANGED <<chain, forks, faults, db, fill, crossed>>
  BY DEF RewindReload, env
<1> QED
  BY <1>3, <1>4, <1>5, <1>6, DbUnchanged, FastStep DEF IInv, EnvInv

LEMMA PersistStep ==
  ASSUME IInv, Persist
  PROVE  Inductive
<1>1. tick \in PersistTick /\ \A h \in tick.hole : h.next = 0
  BY TickShape DEF Persist, IInv, TickInv, TickOK
<1>2. DbStep
  BY <1>1, PersistTxStep DEF Persist, IInv
<1>3. tick' \in PublishTick /\ tick'.pc = "publish"
  BY <1>1 DEF Persist, PersistTick, PublishTick
<1>4. TickInv'
  BY <1>3 DEF TickInv, TickOK, Tick
<1>5. UNCHANGED <<chain, forks, faults, mem, fill, crossed>>
  BY DEF Persist, env
<1> QED
  BY <1>2, <1>4, <1>5, FastStep DEF IInv, EnvInv

LEMMA PublishStep ==
  ASSUME IInv, Publish
  PROVE  Inductive
<1> DEFINE a == [mem EXCEPT !.head = tick.sample.n]
           b == [a EXCEPT !.hash = tick.sample.v]
           c == [b EXCEPT !.known = TRUE]
           d == [c EXCEPT !.live = IF c.live = 0 THEN tick.sample.n ELSE c.live]
<1>1. tick.sample.n \in 0 .. MaxHeight /\ tick.sample.v \in Hash \cup {NoHash}
  BY TickShape, FollowerAssumption DEF Publish, IInv, TickInv, TickOK, PublishTick, Sample, Height
<1>2. mem' = d
  BY DEF Publish
<1>3. a \in Memory
  BY <1>1, MemoryField DEF IInv
<1> HIDE DEF a
<1>4. b \in Memory
  BY <1>1, <1>3, MemoryField
<1> HIDE DEF b
<1>5. c \in Memory
  BY <1>4, MemoryField
<1> HIDE DEF c
<1>6. d \in Memory
  BY <1>1, <1>5, MemoryField
<1> HIDE DEF d
<1>7. TickInv'
  BY IdleOK DEF Publish, TickInv
<1>8. UNCHANGED <<chain, forks, faults, db, fill, crossed>>
  BY DEF Publish, env
<1> QED
  BY <1>2, <1>6, <1>7, <1>8, DbUnchanged, FastStep DEF IInv, EnvInv

LEMMA FaultType ==
  ASSUME IInv, Fault
  PROVE  faults' \in 0 .. MaxFaults
  BY FollowerAssumption DEF Fault, IInv, EnvInv

LEMMA TickFailsStep ==
  ASSUME IInv, TickFails
  PROVE  Inductive
<1>1. rows \in Table /\ mem \in Memory
  BY DEF IInv, DbInv
<1>2. mem' \in Memory
  BY <1>1, StartClearedType, ReloadHeadType DEF TickFails, Reloaded
<1>3. faults' \in 0 .. MaxFaults
  BY FaultType DEF TickFails, IInv, EnvInv
<1>4. TickInv'
  BY IdleOK DEF TickFails, TickInv
<1>5. UNCHANGED <<chain, forks, db, fill, crossed>>
  BY DEF TickFails, env
<1> QED
  BY <1>2, <1>3, <1>4, <1>5, DbUnchanged, FastStep DEF IInv, EnvInv

LEMMA AnswerLostStep ==
  ASSUME IInv, AnswerLost
  PROVE  Inductive
<1>1. DbStep /\ crossed' \in BOOLEAN
  <2>1. CASE tick.pc = "rewind" /\ RewindTx
    BY <2>1, TickShape, RewindTxStep DEF IInv, TickInv, TickOK
  <2>2. CASE tick.pc = "persist" /\ PersistTx /\ UNCHANGED crossed
    BY <2>2, TickShape, PersistTxStep DEF IInv, EnvInv, TickInv, TickOK
  <2> QED
    BY <2>1, <2>2 DEF AnswerLost
<1>2. rows' \in Table /\ mem \in Memory
  BY <1>1 DEF DbStep, DbInv, IInv
<1>3. mem' \in Memory
  BY <1>2, ReloadHeadType DEF AnswerLost, Reloaded
<1>4. TickInv'
  BY IdleOK DEF AnswerLost, TickInv
<1>5. faults' \in 0 .. MaxFaults /\ UNCHANGED <<chain, forks, fill>>
  BY FaultType DEF AnswerLost, env
<1> QED
  BY <1>1, <1>3, <1>4, <1>5, FastStep DEF IInv, EnvInv

-----------------------------------------------------------------------------
(* The filler. *)
LEMMA FillerStep ==
  ASSUME IInv, DbStep, FillInv', faults' \in 0 .. MaxFaults, UNCHANGED <<env, mem, tick, crossed>>
  PROVE  Inductive
  BY DEF IInv, Inductive, DbStep, EnvInv, TickInv, env

LEMMA FillIdle ==
  ASSUME fill' = Idle
  PROVE  FillInv'
  BY IdleOK DEF FillInv

LEMMA StartType ==
  ASSUME NEW h \in Hole
  PROVE  Start(h) \in 1 .. MaxHeight + 1 /\ h.from \in 1 .. MaxHeight + 1 /\ h.to \in 0 .. MaxHeight
  BY FollowerAssumption DEF Hole, HoleRecords, Start

(* What pickHole hands on is a hole of the table, apart from its mark. *)
LEMMA FillTargetOK ==
  ASSUME DbInv, NEW h \in holes, Startable(h)
  PROVE  /\ FillTarget(h) \in FetchFill /\ FillTarget(h).pc = "fetch"
         /\ Attempt(FillTarget(h).gen, FillTarget(h).hole)
<1> DEFINE k == IF Blocked(h) THEN [h EXCEPT !.reason = "", !.life = "pending"] ELSE h
           f == FillTarget(h)
<1>1. h \in Hole /\ h.from <= h.to /\ CursorSound(h, Recovered)
  BY DEF DbInv, Stored, NonEmpty, Hole, AllSound
<1>2. k \in Hole /\ k.from = h.from /\ k.to = h.to /\ k.next = h.next
  BY <1>1 DEF Hole, HoleRecords, Lifecycles, Reasons
<1>3. StartHash(h) \in Hash
  <2>1. CASE Start(h) - 1 \in DOMAIN rows
    BY <2>1, TableEntries DEF DbInv, StartHash
  <2>2. CASE Start(h) - 1 \notin DOMAIN rows
    <3>1. h.st \in Hash \cup {NoHash} /\ h.st # NoHash
      BY <1>1, <2>2 DEF Startable, Hole, HoleRecords
    <3> QED
      BY <2>2, <3>1 DEF StartHash
  <2> QED
    BY <2>1, <2>2
<1> HIDE DEF k
<1>4. gen \in Nat
  BY DEF DbInv
<1>5. f \in FetchFill /\ f.pc = "fetch" /\ f.gen = gen /\ f.hole = k
  BY <1>2, <1>3, <1>4 DEF FillTarget, FetchFill, k
<1> HIDE DEF f
<1>6. CursorSound(k, Recovered)
  BY <1>1, <1>2 DEF CursorSound
<1>7. f.gen <= gen /\ f.hole.from <= f.hole.to
  BY <1>1, <1>2, <1>4, <1>5, StartType
<1>8. Attempt(f.gen, f.hole)
  BY <1>5, <1>6, <1>7 DEF Attempt
<1> QED
  BY <1>5, <1>8 DEF f

LEMMA FillPickStep ==
  ASSUME IInv, FillStep
  PROVE  Inductive
<1>1. PICK waiting \in SUBSET MayWait, unexplained \in SUBSET MayBeUnexplained :
        FillPick(waiting, unexplained)
  BY DEF FillStep
<1> DEFINE examined == {h \in holes \ waiting : h.reason # "unsupported_model"}
           able == {h \in examined \ unexplained : Startable(h)}
           picked == {h \in able : \A k \in able : k # h => PickedBefore(h, k)}
           seen == {h \in examined : \A k \in picked : PickedBefore(h, k)}
           stranded == {h \in seen : ~ Blocked(h) /\ Start(h) <= h.to /\ ~ Startable(h)}
           refused == {h \in seen \cap unexplained : Startable(h)}
           marked == {h.from : h \in stranded \cup refused}
           marks == [n \in marked |->
                       IF n \in {h.from : h \in stranded} THEN "no_state" ELSE "replay_discontinuity"]
           target == IF picked = {} THEN Idle ELSE FillTarget(CHOOSE h \in picked : TRUE)
<1>2. /\ fill' = IF DOMAIN marks = {} THEN target
                 ELSE [pc |-> "mark", marks |-> marks, target |-> target]
      /\ UNCHANGED <<env, faults, db, mem, tick, crossed>>
  BY <1>1 DEF FillPick
<1>3. marks \in Marks
  <2>1. stranded \cup refused \subseteq holes
    OBVIOUS
  <2>2. \A h \in holes : h.from \in 0 .. MaxHeight + 1
    BY StartType DEF IInv, DbInv, Stored, NonEmpty, Hole
  <2> HIDE DEF stranded, refused
  <2>3. marked \in SUBSET (0 .. MaxHeight + 1)
    BY <2>1, <2>2
  <2> HIDE DEF marked
  <2>4. marks \in [marked -> Reasons]
    BY DEF Reasons
  <2> QED
    BY <2>3, <2>4 DEF Marks
<1>4. /\ target \in IdleStep \cup FetchFill
      /\ target.pc \in {"idle", "fetch"}
      /\ target.pc = "fetch" => Attempt(target.gen, target.hole)
  <2>1. CASE picked = {}
    BY <2>1 DEF Idle, IdleStep
  <2>2. CASE picked # {}
    <3> DEFINE h == CHOOSE h \in picked : TRUE
    <3>1. h \in picked
      BY <2>2
    <3>2. h \in holes /\ Startable(h) /\ target = FillTarget(h)
      BY <2>2, <3>1
    <3> HIDE DEF h, target
    <3> QED
      BY <3>2, FillTargetOK DEF IInv
  <2> QED
    BY <2>1, <2>2
<1> HIDE DEF marks, target
<1>5. (gen = gen' /\ Recovered = Recovered') /\ \A g, h : Attempt(g, h) => Attempt(g, h)'
  BY <1>2 DEF db, Recovered, Attempt
<1>6. FillInv'
  <2>1. CASE DOMAIN marks = {}
    <3>1. fill' = target
      BY <1>2, <2>1
    <3> QED
      BY <1>4, <1>5, <3>1 DEF FillInv, Fill
  <2>2. CASE DOMAIN marks # {}
    <3>1. fill' = [pc |-> "mark", marks |-> marks, target |-> target]
      BY <1>2, <2>2
    <3>2. fill' \in MarkFill /\ fill'.pc = "mark" /\ fill'.target = target
      BY <1>3, <1>4, <3>1 DEF MarkFill
    <3> QED
      BY <1>4, <1>5, <3>2 DEF FillInv, Fill
  <2> QED
    BY <2>1, <2>2
<1>7. faults' \in 0 .. MaxFaults
  BY <1>2 DEF IInv, EnvInv
<1> QED
  BY <1>2, <1>6, <1>7, DbUnchanged, FillerStep DEF IInv

LEMMA FillMarkStep ==
  ASSUME IInv, FillMark
  PROVE  Inductive
<1>1. fill \in MarkFill
  BY FillShape DEF FillMark, IInv, FillInv
<1>2. fill.marks \in Marks /\ fill.target \in IdleStep \cup FetchFill
  BY <1>1 DEF MarkFill
<1>3. \A n \in DOMAIN fill.marks : fill.marks[n] \in Reasons
  BY <1>2 DEF Marks
<1>4. DbStep
  BY <1>3, MarkStep DEF FillMark, IInv
<1>5. Recovered' = Recovered /\ gen' = gen
  BY DEF FillMark, Recovered
<1>6. \A g, h : Attempt(g, h) => Attempt(g, h)'
  BY <1>5 DEF Attempt
<1>7. fill' = fill.target /\ fill.pc = "mark"
  BY DEF FillMark
<1>8. fill.target.pc \in {"idle", "fetch"}
  BY <1>2 DEF IdleStep, FetchFill
<1>9. FillInv'
  BY <1>2, <1>6, <1>7, <1>8 DEF FillInv, Fill, IInv
<1>10. faults' \in 0 .. MaxFaults /\ UNCHANGED <<env, mem, tick, crossed>>
  BY DEF FillMark, IInv, EnvInv
<1> QED
  BY <1>4, <1>9, <1>10, FillerStep

(* A fetched batch is a run of headers from the first block to replay on,  *)
(* inside the hole.                                                        *)
LEMMA FillBatchOK ==
  ASSUME EnvInv, fill.hole \in Hole, NEW hdrs \in FillBatches
  PROVE  LET h == fill.hole
             e == Max(DOMAIN hdrs)
         IN  /\ hdrs \in Table /\ e \in Nat /\ e <= h.to /\ Start(h) <= e
             /\ DOMAIN hdrs = Start(h) .. e
             /\ \A n \in DOMAIN hdrs : n \in 1 .. Len(chain) /\ hdrs[n] = chain[n]
<1> DEFINE h == fill.hole
           ends == {Start(h) + HeaderBatchSize - 1, h.to, Len(chain)}
           top == Min(ends)
<1>1. /\ Start(h) \in 1 .. MaxHeight + 1 /\ h.to \in 0 .. MaxHeight
      /\ Len(chain) \in 1 .. MaxHeight /\ MaxHeight \in Nat
  BY StartType, FollowerAssumption DEF EnvInv, Height
<1>2. top \in Nat /\ top <= h.to /\ top <= Len(chain)
  <2>1. ends \in SUBSET Int /\ ends # {} /\ 0 \in Int /\ \A x \in ends : 0 <= x
    BY <1>1, FollowerAssumption
  <2>2. h.to \in ends /\ Len(chain) \in ends
    OBVIOUS
  <2> HIDE DEF ends
  <2>3. Min(ends) \in ends /\ \A x \in ends : Min(ends) <= x
    BY <2>1, MinOfBounded
  <2>4. Min(ends) \in Int /\ 0 <= Min(ends) /\ Min(ends) <= h.to /\ Min(ends) <= Len(chain)
    BY <2>1, <2>2, <2>3
  <2> QED
    BY <2>4
<1>3. PICK e \in Start(h) .. top : hdrs = [n \in Start(h) .. e |-> chain[n]]
  BY DEF FillBatches
<1> HIDE DEF top, h
<1>4. e \in Nat /\ Start(h) <= e /\ e <= h.to /\ e <= Len(chain)
  BY <1>1, <1>2, <1>3
<1>5. Start(h) .. e \in SUBSET Height /\ \A n \in Start(h) .. e : n \in 1 .. Len(chain)
  BY <1>1, <1>4 DEF Height
<1>6. hdrs \in [Start(h) .. e -> Block]
  BY <1>3, <1>5, ChainEntries
<1>7. hdrs \in Table /\ DOMAIN hdrs = Start(h) .. e
  BY <1>5, <1>6, TableIntro
<1>8. Max(DOMAIN hdrs) = e
  <2> DEFINE S == Start(h) .. e
  <2>1. S \in SUBSET Int /\ S # {} /\ e \in S /\ e \in Int /\ \A x \in S : x <= e
    BY <1>1, <1>4
  <2> HIDE DEF S
  <2>2. Max(S) \in S /\ \A x \in S : x <= Max(S)
    BY <2>1, MaxOfBounded
  <2>3. Max(S) \in Int /\ Max(S) <= e /\ e <= Max(S)
    BY <2>1, <2>2
  <2>4. Max(S) = e
    BY <2>1, <2>3
  <2> QED
    BY <1>7, <2>4 DEF S
<1>9. \A n \in DOMAIN hdrs : n \in 1 .. Len(chain) /\ hdrs[n] = chain[n]
  BY <1>3, <1>5, <1>7
<1> QED
  BY <1>4, <1>7, <1>8, <1>9 DEF h

LEMMA FillFetchStep ==
  ASSUME IInv, FillFetch
  PROVE  Inductive
<1>1. fill \in FetchFill /\ fill.pc = "fetch" /\ Attempt(fill.gen, fill.hole)
  BY FillShape DEF FillFetch, IInv, FillInv
<1>2. fill.gen \in Nat /\ fill.hole \in Hole /\ rows \in Table
  BY <1>1 DEF FetchFill, IInv, DbInv
<1>3. PICK hdrs \in FillBatches :
        LET e == Max(DOMAIN hdrs)
        IN  fill' = [pc |-> "commit", gen |-> fill.gen, hole |-> fill.hole, next |-> e + 1, rows |-> hdrs,
                     tail |-> IF e = fill.hole.to THEN Restrict(rows, DOMAIN rows \cap {e + 1}) ELSE NoRows]
  BY DEF FillFetch
<1> DEFINE h == fill.hole
           e == Max(DOMAIN hdrs)
           tail == IF e = h.to THEN Restrict(rows, DOMAIN rows \cap {e + 1}) ELSE NoRows
<1>4. /\ hdrs \in Table /\ e \in Nat /\ e <= h.to /\ Start(h) <= e /\ DOMAIN hdrs = Start(h) .. e
  BY <1>2, FillBatchOK DEF IInv
<1>5. tail \in Table
  BY <1>2, RestrictTable, NoRowsTable
<1>6. fill' = [pc |-> "commit", gen |-> fill.gen, hole |-> h, next |-> e + 1, rows |-> hdrs, tail |-> tail]
  BY <1>3
<1> HIDE DEF e, tail
<1>7. /\ fill' \in CommitFill /\ fill'.pc = "commit" /\ fill'.gen = fill.gen /\ fill'.hole = h
      /\ fill'.next = e + 1 /\ fill'.rows = hdrs
  BY <1>2, <1>4, <1>5, <1>6 DEF CommitFill
<1>8. UNCHANGED <<env, faults, db, mem, tick, crossed>>
  BY DEF FillFetch
<1>9. Attempt(fill.gen, h) => Attempt(fill.gen, h)'
  <2>1. fill.gen <= gen /\ gen' = gen /\ Recovered' = Recovered
    BY <1>1, <1>8 DEF Attempt, db, Recovered
  <2> DEFINE g == fill.gen
  <2> QED
    BY <1>1, <1>7, <2>1 DEF Attempt
<1>10. FillInv'
  <2>1. Start(h) \in Nat /\ h.to \in Nat /\ e + 1 - 1 = e
    BY <1>2, <1>4, StartType
  <2>2. Start(h) < e + 1 /\ e + 1 <= h.to + 1
    BY <1>4, <2>1
  <2> QED
    BY <1>1, <1>4, <1>7, <1>9, <2>1, <2>2 DEF FillInv, Fill
<1>11. faults' \in 0 .. MaxFaults
  BY <1>8 DEF IInv, EnvInv
<1> QED
  BY <1>8, <1>10, <1>11, DbUnchanged, FillerStep DEF IInv

LEMMA FillUnsupportedStep ==
  ASSUME IInv, FillUnsupported
  PROVE  Inductive
<1> DEFINE m == [n \in {fill.hole.from} |-> "unsupported_model"]
<1>1. holes' = IF gen = fill.gen THEN MarkHoles(holes, m) ELSE holes
  BY DEF FillUnsupported
<1>2. \A n \in DOMAIN m : m[n] \in Reasons
  BY DEF Reasons
<1> HIDE DEF m
<1>3. UNCHANGED <<rows, gen, live, folded>>
  BY DEF FillUnsupported
<1>4. DbStep
  BY <1>1, <1>2, <1>3, MarkStep, DbUnchanged DEF IInv, db
<1>5. FillInv'
  BY FillIdle DEF FillUnsupported
<1>6. faults' \in 0 .. MaxFaults /\ UNCHANGED <<env, mem, tick, crossed>>
  BY DEF FillUnsupported, IInv, EnvInv
<1> QED
  BY <1>4, <1>5, <1>6, FillerStep

LEMMA FillCommitStep ==
  ASSUME IInv, FillCommit
  PROVE  Inductive
<1>1. DbStep
  BY FillTxStep, DbUnchanged DEF FillCommit, IInv
<1>2. FillInv'
  BY FillIdle DEF FillCommit
<1>3. faults' \in 0 .. MaxFaults /\ UNCHANGED <<env, mem, tick, crossed>>
  BY DEF FillCommit, IInv, EnvInv
<1> QED
  BY <1>1, <1>2, <1>3, FillerStep

LEMMA FillFailsStep ==
  ASSUME IInv, FillFails
  PROVE  Inductive
<1>1. DbStep
  BY FillTxStep, DbUnchanged DEF FillFails, IInv
<1>2. fill.hole \in Hole
  BY FillShape DEF FillFails, IInv, FillInv, FetchFill, CommitFill
<1>3. fill' \in FailedFill /\ fill'.pc = "failed"
  BY <1>2 DEF FillFails, FailedFill
<1>4. FillInv'
  BY <1>3 DEF FillInv, Fill
<1>5. faults' \in 0 .. MaxFaults
  BY FaultType DEF FillFails, IInv, EnvInv
<1>6. UNCHANGED <<env, mem, tick, crossed>>
  BY DEF FillFails
<1> QED
  BY <1>1, <1>4, <1>5, <1>6, FillerStep

LEMMA FillDeferStep ==
  ASSUME IInv, FillDefer
  PROVE  Inductive
<1>1. faults' \in 0 .. MaxFaults /\ UNCHANGED <<env, db, mem, tick, crossed>>
  BY DEF FillDefer, IInv, EnvInv
<1>2. FillInv'
  BY FillIdle DEF FillDefer
<1> QED
  BY <1>1, <1>2, DbUnchanged, FillerStep DEF IInv

LEMMA FillGivesUpStep ==
  ASSUME IInv, FillGivesUp
  PROVE  Inductive
<1>1. UNCHANGED <<rows, gen, live, folded>>
  BY DEF FillGivesUp
<1>2. DbStep
  <2>1. CASE holes' = holes
    BY <1>1, <2>1, DbUnchanged DEF IInv, db
  <2>2. CASE fill.pc = "mark" /\ holes' = MarkHoles(holes, fill.marks)
    <3>1. fill.marks \in Marks
      BY <2>2, FillShape DEF IInv, FillInv, MarkFill
    <3>2. \A n \in DOMAIN fill.marks : fill.marks[n] \in Reasons
      BY <3>1 DEF Marks
    <3> QED
      BY <1>1, <2>2, <3>2, MarkStep DEF IInv
  <2> QED
    BY <2>1, <2>2 DEF FillGivesUp
<1>3. FillInv'
  BY FillIdle DEF FillGivesUp
<1>4. faults' \in 0 .. MaxFaults /\ UNCHANGED <<env, mem, tick, crossed>>
  BY FaultType DEF FillGivesUp
<1> QED
  BY <1>2, <1>3, <1>4, FillerStep

LEMMA FillRetryStep ==
  ASSUME IInv, FillRetry
  PROVE  Inductive
<1>1. DbStep
  BY RetryStep DEF FillRetry, IInv
<1>2. FillInv'
  BY FillIdle DEF FillRetry
<1>3. faults' \in 0 .. MaxFaults /\ UNCHANGED <<env, mem, tick, crossed>>
  BY DEF FillRetry, IInv, EnvInv
<1> QED
  BY <1>1, <1>2, <1>3, FillerStep

-----------------------------------------------------------------------------
(* A stop and a restart. *)
LEMMA CrashStep ==
  ASSUME IInv, Crash
  PROVE  Inductive
<1>1. DbStep /\ FillInv' /\ TickInv' /\ mem' \in Memory
  BY DbUnchanged, FillIdle, IdleOK, DownType DEF Crash, IInv, TickInv
<1>2. faults' \in 0 .. MaxFaults /\ UNCHANGED <<chain, forks, crossed>>
  BY FaultType DEF Crash, env
<1> QED
  BY <1>1, <1>2 DEF IInv, EnvInv, Inductive, DbStep

LEMMA EnsureInitStep ==
  ASSUME IInv, EnsureInit
  PROVE  Inductive
<1>1. rows \in Table /\ live' \in 0 .. MaxHeight
  BY OldestBlockType DEF IInv, DbInv, EnsureInit
<1>2. UNCHANGED <<chain, forks, faults, rows, holes, gen, folded, tick, fill, crossed>>
  BY DEF EnsureInit, env
<1>3. DbStep
  BY <1>1, <1>2 DEF IInv, DbInv, DbStep, Recovered
<1>4. mem' \in Memory
  <2> DEFINE m == [Down EXCEPT !.up = TRUE, !.live = live']
  <2>1. m \in Memory
    BY <1>1, DownType
  <2>2. mem' = ReloadHead(m, rows)
    BY DEF EnsureInit
  <2> HIDE DEF m
  <2> QED
    BY <1>1, <2>1, <2>2, ReloadHeadType
<1> QED
  BY <1>2, <1>3, <1>4, FastStep DEF IInv, EnvInv, TickInv

-----------------------------------------------------------------------------
LEMMA InitHolds == Init => IInv
<1> SUFFICES ASSUME Init PROVE IInv
  OBVIOUS
<1>1. 0 \in Hash /\ 0 \in 0 .. MaxFaults /\ 0 \in Nat /\ 0 \in 0 .. MaxHeight
  BY FollowerAssumption DEF Hash
<1>2. EnvInv
  <2>1. SeedTip \in Nat /\ SeedTip \in Height
    BY FollowerAssumption DEF Height
  <2>2. [v |-> 0, p |-> 0] \in Block
    BY <1>1 DEF Block
  <2>3. chain \in [1 .. SeedTip -> Block]
    BY <2>2 DEF Init
  <2>4. chain \in Seq(Block) /\ Len(chain) = SeedTip
    BY <2>1, <2>3
  <2> QED
    BY <1>1, <2>1, <2>4 DEF Init, EnvInv
<1>3. DbInv
  BY <1>1, NoRowsTable DEF Init, DbInv, Stored, NonEmpty, UniqueStarts, AllSound
<1> QED
  BY <1>2, <1>3, DownType, IdleOK DEF Init, IInv, TickInv, FillInv

LEMMA StepHolds ==
  ASSUME IInv, [Next]_vars
  PROVE  Inductive
<1>1. CASE UNCHANGED vars
  <2>1. UNCHANGED <<chain, forks, faults, crossed, mem, tick, fill, db>>
    BY <1>1 DEF vars, db
  <2> QED
    BY <2>1, DbUnchanged, FastStep DEF IInv, EnvInv, TickInv
<1>2. CASE Mint \/ Reorg
  BY <1>2, ChainStep
<1>3. CASE TickSample
  BY <1>3, TickSampleStep
<1>4. CASE FetchHeaders
  BY <1>4, FetchHeadersStep
<1>5. CASE FailoverSkip
  BY <1>5, FailoverSkipStep
<1>6. CASE HeadersFetched
  BY <1>6, HeadersFetchedStep
<1>7. CASE AncestorHeader \/ AncestorNoRow
  BY <1>7, AncestorStep
<1>8. CASE Rewind
  BY <1>8, RewindStep
<1>9. CASE RewindReload
  BY <1>9, RewindReloadStep
<1>10. CASE Persist
  BY <1>10, PersistStep
<1>11. CASE Publish
  BY <1>11, PublishStep
<1>12. CASE TickFails
  BY <1>12, TickFailsStep
<1>13. CASE AnswerLost
  BY <1>13, AnswerLostStep
<1>14. CASE FillStep
  BY <1>14, FillPickStep
<1>15. CASE FillMark
  BY <1>15, FillMarkStep
<1>16. CASE FillFetch
  BY <1>16, FillFetchStep
<1>17. CASE FillUnsupported
  BY <1>17, FillUnsupportedStep
<1>18. CASE FillCommit
  BY <1>18, FillCommitStep
<1>19. CASE FillRetry
  BY <1>19, FillRetryStep
<1>20. CASE FillDefer
  BY <1>20, FillDeferStep
<1>21. CASE FillFails
  BY <1>21, FillFailsStep
<1>22. CASE FillGivesUp
  BY <1>22, FillGivesUpStep
<1>23. CASE Crash
  BY <1>23, CrashStep
<1>24. CASE EnsureInit
  BY <1>24, EnsureInitStep
<1> QED
  BY <1>1, <1>2, <1>3, <1>4, <1>5, <1>6, <1>7, <1>8, <1>9, <1>10, <1>11, <1>12, <1>13, <1>14,
     <1>15, <1>16, <1>17, <1>18, <1>19, <1>20, <1>21, <1>22, <1>23, <1>24
     DEF Next, FastLoop, Filler

(* The inductive invariant of the follower: besides the types, the ranges  *)
(* of missing_ranges keep different keys, the cursor of each stands on     *)
(* blocks that were recovered, and so does the cursor a fill step works    *)
(* from for as long as its generation is the stored one (withGeneration).  *)
THEOREM Invariant == Spec => []IInv
<1>1. Init => IInv
  BY InitHolds
<1>2. IInv /\ [Next]_vars => IInv'
  BY StepHolds DEF Inductive
<1> QED
  BY <1>1, <1>2, PTL DEF Spec

(* The tables, the Follower struct and the locals of both loops keep their *)
(* types whatever the chain, the calls and the process do; in particular   *)
(* no range is saved empty, and no header is looked up below block 1.      *)
THEOREM TypesHold == Spec => []TypeOK
<1>1. IInv => TypeOK
  BY IInvTypes
<1> QED
  BY <1>1, Invariant, PTL

(* The ranges of missing_ranges always have different first blocks, so no  *)
(* writer but recordHole can break the table's primary key.                *)
THEOREM KeysUnique == Spec => []UniqueStarts(holes)
<1>1. IInv => UniqueStarts(holes)
  BY DEF IInv, DbInv, Stored
<1> QED
  BY <1>1, Invariant, PTL

(* A height that is owed stays owed until it is recovered, over every      *)
(* number of blocks, reorgs, faults and restarts and every catch-up        *)
(* budget: no merge, mark, retry, advance or rewind of the missing ranges  *)
(* loses one (normalizeHoles, advanceHole, rewindHoles).                   *)
THEOREM OwedHeld == Spec => OwedUntilRecovered
<1>1. IInv /\ [Next]_vars =>
        [\A n \in Owed(holes) : n \in Owed(holes') \cup DOMAIN rows' \cup folded']_vars
  BY StepHolds DEF Inductive, DbStep, Recovered
<1> QED
  BY <1>1, Invariant, PTL DEF Spec, OwedUntilRecovered

=============================================================================
