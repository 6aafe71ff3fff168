----------------------------- MODULE RowsProofs -----------------------------
(***************************************************************************)
(* The stored blocks of the follower: no height between two of them is     *)
(* lost (first part), they form one chain, memory knows its head and only  *)
(* a rewind replaces a row (second part).                                  *)
(***************************************************************************)
EXTENDS FollowerProofs

(***************************************************************************)
(* Coverage.  Every height between two stored ones is stored, recovered or *)
(* owed, as long as the reload after a failed tick succeeds.  The tick's   *)
(* own argument needs the head in memory to be stored, the filler's that   *)
(* the block before a hole it works on is.                                 *)
(***************************************************************************)
StoredAt == DOMAIN rows
Covered == Recovered \cup Owed(holes)

(* NothingLost without its maximum and minimum. *)
Between == \A a, b \in StoredAt : \A n \in a .. b : n \in Covered

(* A hole that was begun follows a stored block. *)
Foot(h, F) == IF h.next = 0 THEN h.st = NoHash ELSE h.from - 1 \in F
AllFooted(H, F) == \A h \in H : Foot(h, F)
HolesFooted == AllFooted(holes, StoredAt)

(* Some stored block is at or below n, if any is stored. *)
Anchored(n) == StoredAt = {} \/ \E a \in StoredAt : a <= n

HeadIn ==
    /\ tick.pc # "reload" /\ mem.head # 0 => mem.head \in StoredAt
    /\ tick.pc \notin {"reload", "publish"} /\ mem.up /\ mem.head = 0 => StoredAt = {}

(* What a persist adds reaches down to the head in memory, or lies inside  *)
(* what is stored.                                                         *)
Reaches(head, s, added, hole) ==
    \/ added = {} /\ s.n \in StoredAt
    \/ added = {s.n} /\ StoredAt = {}
    \/ added = {s.n} /\ s.n <= head /\ Anchored(s.n)
    \/ /\ head < s.n /\ head # 0 /\ s.n \in added
       /\ added \subseteq head + 1 .. s.n
       /\ head + 1 .. s.n \subseteq added \cup Owed(hole)

TickCovers(head, t) ==
    /\ t.pc = "fetch" => /\ t.stored = head /\ Anchored(t.sample.n)
                         /\ t.headers = <<>> \/ t.stored + Len(t.headers) < t.sample.n
    /\ t.pc \in {"ancestor", "rewind", "reload"} /\ t.why # "behind" => Anchored(t.sample.n)
    /\ t.pc = "persist" => /\ Reaches(head, t.sample, DOMAIN t.rows, t.hole)
                           /\ \A h \in t.hole : h.st = NoHash
    /\ t.pc = "publish" => t.sample.n \in StoredAt
TickCover == TickCovers(mem.head, tick)

(* The block before the hole of a fill step of the stored generation. *)
Footed(g, h) == g = gen => h.from - 1 \in StoredAt

FillCover ==
    /\ fill.pc \in {"fetch", "commit"} => Footed(fill.gen, fill.hole)
    /\ fill.pc = "mark" /\ fill.target.pc = "fetch" => Footed(fill.target.gen, fill.target.hole)
    /\ fill.pc = "commit" /\ fill.gen = gen => DOMAIN fill.tail \subseteq StoredAt

CInv == Between /\ HolesFooted /\ HeadIn /\ TickCover /\ FillCover

-----------------------------------------------------------------------------
(* The writers of missing_ranges leave every begun hole on a stored block. *)
LEMMA NormalizeFooted ==
  ASSUME NEW G, HoleSet(MaxHeight, Hash, G), NEW F,
         AllFooted(G, F), NEW last
  PROVE  AllFooted(NormalizeLast(G, last), F)
<1> SUFFICES ASSUME NEW e \in NormalizeLast(G, last) PROVE Foot(e, F)
  BY DEF AllFooted
<1>1. PICK h \in G : e.from = h.from /\ e.next = h.next /\ e.st = h.st
  BY NormalizeLastCursors, FollowerAssumption
<1> QED
  BY <1>1 DEF AllFooted, Foot

LEMMA RecordFooted ==
  ASSUME HoleSet(MaxHeight, Hash, holes), NEW F, AllFooted(holes, F),
         NEW h \in Hole, h.next = 0, h.st = NoHash
  PROVE  AllFooted(RecordHole(holes, h), F)
<1> DEFINE G == holes \cup {h}
<1>1. HoleSet(MaxHeight, Hash, G) /\ AllFooted(G, F)
  BY DEF HoleSet, AllFooted, Foot, Hole
<1>2. RecordHole(holes, h) = NormalizeLast(G, h)
  BY DEF RecordHole
<1> HIDE DEF G
<1> QED
  BY <1>1, <1>2, NormalizeFooted

LEMMA MarkFooted ==
  ASSUME HoleSet(MaxHeight, Hash, holes), NEW F, AllFooted(holes, F),
         NEW m, \A n \in DOMAIN m : m[n] \in Reasons
  PROVE  AllFooted(MarkHoles(holes, m), F)
<1> DEFINE Mark(h) == IF h.from \in DOMAIN m
                        THEN [h EXCEPT !.reason = m[h.from], !.life = "blocked"] ELSE h
           G == {Mark(h) : h \in holes}
<1>1. \A h \in holes : /\ Mark(h) \in HoleRecords(MaxHeight, Hash)
                       /\ Mark(h).from = h.from /\ Mark(h).next = h.next /\ Mark(h).st = h.st
  BY DEF HoleSet, HoleRecords, Lifecycles
<1>2. MarkHoles(holes, m) = NormalizeLast(G, NewHole(0, 0, "pending", ""))
  BY DEF MarkHoles, Normalize
<1> HIDE DEF Mark
<1>3. HoleSet(MaxHeight, Hash, G) /\ AllFooted(G, F)
  BY <1>1 DEF HoleSet, AllFooted, Foot
<1> HIDE DEF G
<1> QED
  BY <1>2, <1>3, NormalizeFooted

LEMMA RetryFooted ==
  ASSUME HoleSet(MaxHeight, Hash, holes), NEW F, AllFooted(holes, F), NEW attempted
  PROVE  AllFooted(RecordFillFailure(holes, attempted), F)
<1> DEFINE hit == {h \in holes : h.from <= attempted.from /\ h.to >= attempted.to}
           first == CHOOSE h \in hit : \A k \in hit : h.from <= k.from
           failed == [first EXCEPT !.life = "retrying"]
           G == (holes \ {first}) \cup {failed}
<1>1. CASE hit = {}
  BY <1>1 DEF RecordFillFailure
<1>2. CASE hit # {}
  <2>1. first \in holes
    <3>1. hit \in SUBSET HoleRecords(MaxHeight, Hash)
      BY DEF HoleSet
    <3> HIDE DEF hit
    <3>2. first \in hit
      BY <1>2, <3>1, LowestHole, FollowerAssumption
    <3> QED
      BY <3>2 DEF hit
  <2>2. RecordFillFailure(holes, attempted) = NormalizeLast(G, NewHole(0, 0, "pending", ""))
    BY <1>2 DEF RecordFillFailure, Normalize
  <2> HIDE DEF first
  <2>3. /\ failed \in HoleRecords(MaxHeight, Hash) /\ failed.from = first.from
        /\ failed.next = first.next /\ failed.st = first.st
    BY <2>1 DEF HoleSet, HoleRecords, Lifecycles
  <2> HIDE DEF failed
  <2>4. HoleSet(MaxHeight, Hash, G) /\ AllFooted(G, F)
    BY <2>1, <2>3 DEF HoleSet, AllFooted, Foot
  <2> HIDE DEF G
  <2> QED
    BY <2>2, <2>4, NormalizeFooted
<1> QED
  BY <1>1, <1>2

(* A begun hole that the rewind keeps ends below the ancestor, and so does *)
(* the block before it.                                                    *)
LEMMA RewindFooted ==
  ASSUME HoleSet(MaxHeight, Hash, holes), NEW F, AllFooted(holes, F),
         NEW D, AllSound(holes, D), NEW ancestor \in Nat, NEW E,
         {n \in F : n <= ancestor} \subseteq E
  PROVE  AllFooted(RewindHoles(holes, ancestor), E)
<1> DEFINE reset == {h \in holes : h.next > 0 /\ h.next - 1 > ancestor}
           Reset(h) == [h EXCEPT !.next = 0, !.st = NoHash]
           G == (holes \ reset) \cup {Reset(h) : h \in reset}
<1>1. \A h \in holes : h \in HoleRecords(MaxHeight, Hash) /\ h.from \in Nat /\ h.next \in Nat
  BY DEF HoleSet, HoleRecords
<1>2. \A h \in holes : Reset(h) \in HoleRecords(MaxHeight, Hash) /\ Reset(h).next = 0 /\ Reset(h).st = NoHash
  <2> TAKE h \in holes
  <2>1. Reset(h) = WithCursor(h, 0, NoHash)
    BY DEF WithCursor
  <2>2. 0 \in 0 .. MaxHeight + 1 /\ MaxHeight \in Nat
    BY FollowerAssumption
  <2>3. WithCursor(h, 0, NoHash) \in HoleRecords(MaxHeight, Hash) /\ WithCursor(h, 0, NoHash).next = 0
    BY <1>1, <2>2, WithCursorKeeps
  <2>4. Reset(h).st = NoHash
    BY <1>1 DEF HoleRecords
  <2> HIDE DEF Reset
  <2> QED
    BY <2>1, <2>3, <2>4
<1> HIDE DEF Reset
<1>3. \A h \in holes \ reset : Foot(h, E)
  BY <1>1 DEF AllFooted, Foot, AllSound, CursorSound
<1>4. HoleSet(MaxHeight, Hash, G) /\ AllFooted(G, E)
  BY <1>1, <1>2, <1>3 DEF HoleSet, AllFooted, Foot
<1>5. CASE reset = {}
  <2>1. RewindHoles(holes, ancestor) = holes
    BY <1>5 DEF RewindHoles
  <2> QED
    BY <1>3, <1>5, <2>1 DEF AllFooted
<1>6. CASE reset # {}
  <2>1. RewindHoles(holes, ancestor) = NormalizeLast(G, NewHole(0, 0, "pending", ""))
    BY <1>6 DEF RewindHoles, Normalize, Reset
  <2> HIDE DEF G
  <2> QED
    BY <1>4, <2>1, NormalizeFooted
<1> QED
  BY <1>5, <1>6

LEMMA AdvanceFooted ==
  ASSUME HoleSet(MaxHeight, Hash, holes), NEW F, AllFooted(holes, F),
         NEW h \in Hole, h.from - 1 \in F, h.next > 0
  PROVE  AllFooted(AdvanceHole(holes, h), F)
<1> DEFINE hit == {c \in holes : c.from = h.from /\ c.to >= h.to}
           done == h.next > h.to
           kept == {c \in hit : ~ (done /\ c.to = h.to)}
           Step(c) == [c EXCEPT !.next = h.next, !.st = h.st, !.life = h.life, !.reason = h.reason]
           G == (holes \ hit) \cup {Step(c) : c \in kept}
<1>1. \A c \in kept : /\ Step(c) \in HoleRecords(MaxHeight, Hash)
                      /\ Step(c).from = h.from /\ Step(c).next = h.next
  <2> TAKE c \in kept
  <2>1. c \in HoleRecords(MaxHeight, Hash) /\ c.from = h.from /\ MaxHeight \in Nat
    BY FollowerAssumption DEF HoleSet
  <2>2. /\ h.next \in 0 .. MaxHeight + 1 /\ h.st \in Hash \cup {NoHash}
        /\ h.life \in Lifecycles /\ h.reason \in Reasons
    BY DEF Hole, HoleRecords
  <2>3. Step(c) = Updated(c, h.next, h.st, h.life, h.reason)
    BY DEF Updated
  <2> HIDE DEF Step, kept, hit
  <2>4. ASSUME NEW n \in 0 .. MaxHeight + 1, NEW s \in Hash \cup {NoHash},
               NEW l \in Lifecycles, NEW r \in Reasons
        PROVE  LET g == Updated(c, n, s, l, r)
               IN  g \in HoleRecords(MaxHeight, Hash) /\ g.from = c.from /\ g.next = n
    BY <2>1, UpdatedKeeps
  <2>5. LET g == Updated(c, h.next, h.st, h.life, h.reason)
        IN  g \in HoleRecords(MaxHeight, Hash) /\ g.from = c.from /\ g.next = h.next
    BY <2>2, <2>4
  <2> QED
    BY <2>1, <2>3, <2>5
<1>2. AdvanceHole(holes, h) = NormalizeLast(G, NewHole(0, 0, "pending", ""))
  BY DEF AdvanceHole, Normalize
<1>3. h.next \in Nat
  BY FollowerAssumption DEF Hole, HoleRecords
<1> HIDE DEF Step, kept
<1>4. HoleSet(MaxHeight, Hash, G) /\ AllFooted(G, F)
  BY <1>1, <1>3 DEF HoleSet, AllFooted, Foot
<1> HIDE DEF G
<1> QED
  BY <1>2, <1>4, NormalizeFooted

-----------------------------------------------------------------------------
(* The transactions. *)
LEMMA DbTypes ==
  ASSUME IInv
  PROVE  /\ HoleSet(MaxHeight, Hash, holes) /\ AllSound(holes, Recovered) /\ gen \in Nat
         /\ StoredAt \in SUBSET Nat /\ folded \in SUBSET Nat
<1>1. StoredAt \in SUBSET Height
  BY TableEntries DEF IInv, DbInv, StoredAt
<1> QED
  BY <1>1 DEF IInv, DbInv, Stored, HoleSet, NonEmpty, Height

LEMMA RewindTxCover ==
  ASSUME IInv, Between, HolesFooted, tick \in RewindTick, RewindTx
  PROVE  /\ Between' /\ HolesFooted' /\ gen' = gen + 1
         /\ StoredAt' = {n \in StoredAt : n <= tick.ancestor}
<1> DEFINE a == tick.ancestor
           kept == {n \in StoredAt : n <= a}
<1>1. a \in Nat
  BY DEF RewindTick
<1>2. StoredAt' = kept
  <2>1. rows' = Restrict(rows, kept)
    BY DEF RewindTx, BlocksUpTo, StoredAt
  <2> QED
    BY <2>1, RestrictTable DEF IInv, DbInv, StoredAt
<1>3. gen' = gen + 1 /\ folded' = {n \in folded : n <= a} /\ holes' = RewindHoles(holes, a)
  BY DEF RewindTx
<1>4. DbStep
  BY RewindTxStep DEF IInv
<1>5. Owed(holes) \subseteq Owed(holes') \cup Recovered'
  BY <1>4 DEF DbStep
<1>6. Between'
  <2> SUFFICES ASSUME NEW x \in StoredAt', NEW y \in StoredAt', NEW n \in x .. y
               PROVE  n \in Covered'
    BY DEF Between
  <2>1. x \in StoredAt /\ y \in StoredAt /\ x \in Nat /\ y \in Nat /\ y <= a
    BY <1>2, DbTypes
  <2>2. n <= a /\ n \in Covered
    BY <1>1, <2>1 DEF Between
  <2> QED
    BY <1>2, <1>3, <1>5, <2>2 DEF Covered, Recovered, StoredAt
<1>7. HolesFooted'
  <2>1. {n \in StoredAt : n <= a} \subseteq StoredAt'
    BY <1>2
  <2> HIDE DEF a
  <2>2. AllFooted(RewindHoles(holes, a), StoredAt')
    BY <1>1, <2>1, DbTypes, RewindFooted DEF HolesFooted
  <2> QED
    BY <1>3, <2>2 DEF HolesFooted
<1> QED
  BY <1>2, <1>3, <1>6, <1>7

LEMMA PersistTxCover ==
  ASSUME IInv, CInv, tick.pc = "persist", PersistTx
  PROVE  /\ Between' /\ HolesFooted' /\ gen' = gen
         /\ StoredAt \subseteq StoredAt' /\ tick.sample.n \in StoredAt'
<1> DEFINE n == tick.sample.n
           added == DOMAIN tick.rows
<1>1. tick \in PersistTick
  BY TickShape DEF IInv, TickInv, TickOK
<1>2. /\ tick.rows \in Table /\ tick.hole \in Maybe(Hole) /\ n \in Nat
  BY <1>1 DEF PersistTick, Sample, Height
<1>3. StoredAt' = StoredAt \cup added /\ folded' = folded /\ gen' = gen
  BY <1>2, UpsertTable DEF PersistTx, IInv, DbInv, StoredAt
<1>4. Owed(holes) \cup Owed(tick.hole) \subseteq Owed(holes') /\ HolesFooted'
  <2>1. CASE tick.hole = {}
    <3>1. holes' = holes /\ Owed(tick.hole) = {}
      BY <2>1 DEF PersistTx, Owed
    <3>2. HolesFooted'
      BY <1>3, <3>1 DEF CInv, HolesFooted, AllFooted, Foot
    <3> QED
      BY <3>1, <3>2
  <2>2. CASE tick.hole # {}
    <3> DEFINE h == CHOOSE h \in tick.hole : TRUE
    <3>1. h \in tick.hole
      BY <2>2
    <3>2. tick.hole = {h}
      BY <1>2, <3>1 DEF Maybe
    <3>3. h \in Hole /\ h.next = 0 /\ h.st = NoHash
      BY <1>2, <3>1 DEF Maybe, CInv, TickCover, TickCovers, IInv, TickInv, TickOK
    <3>4. holes' = RecordHole(holes, h)
      BY <2>2 DEF PersistTx
    <3> HIDE DEF h
    <3>5. Owed(tick.hole) = Heights(h)
      BY <3>2 DEF Owed
    <3>6. Owed(holes) \cup Heights(h) \subseteq Owed(holes')
      BY <3>3, <3>4, RecordHolePreserves, FollowerAssumption DEF IInv, DbInv, Hole
    <3>7. AllFooted(holes', StoredAt)
      BY <3>3, <3>4, DbTypes, RecordFooted DEF CInv, HolesFooted
    <3>8. HolesFooted'
      BY <1>3, <3>7 DEF HolesFooted, AllFooted, Foot
    <3> QED
      BY <3>5, <3>6, <3>8
  <2> QED
    BY <2>1, <2>2
<1>5. Covered \cup added \cup Owed(tick.hole) \subseteq Covered'
  BY <1>3, <1>4 DEF Covered, Recovered, StoredAt
<1>6. Reaches(mem.head, tick.sample, added, tick.hole) /\ (mem.head # 0 => mem.head \in StoredAt)
  BY DEF CInv, TickCover, TickCovers, HeadIn
<1>7. n \in StoredAt'
  BY <1>3, <1>6 DEF Reaches
<1>8. Between'
  <2> SUFFICES ASSUME NEW x \in StoredAt', NEW y \in StoredAt', NEW z \in x .. y
               PROVE  z \in Covered'
    BY DEF Between
  <2>1. StoredAt \in SUBSET Nat /\ added \in SUBSET Nat /\ mem.head \in Nat
    BY <1>2, DbTypes, TableEntries, MemoryField DEF Height, IInv
  <2>2. \A p, q \in StoredAt : \A r \in p .. q : r \in Covered'
    BY <1>5 DEF CInv, Between
  <2>3. x \in Nat /\ y \in Nat /\ z \in Nat /\ x <= z /\ z <= y
    BY <1>3, <2>1
  <2> HIDE DEF n, added
  <2>4. CASE added = {}
    BY <1>3, <2>2, <2>4
  <2>5. CASE added = {n} /\ StoredAt = {}
    BY <1>2, <1>3, <1>5, <2>3, <2>5
  <2>6. CASE added = {n} /\ n <= mem.head /\ mem.head # 0 /\ \E p \in StoredAt : p <= n
    <3>1. PICK p \in StoredAt : p <= n
      BY <2>6
    <3>2. mem.head \in StoredAt
      BY <1>6, <2>6
    <3>3. (x \in StoredAt \/ x = n) /\ (y \in StoredAt \/ y = n)
      BY <1>3, <2>6
    <3>4. \E q \in StoredAt : q <= x
      BY <2>1, <2>3, <3>1, <3>3
    <3>5. \E q \in StoredAt : y <= q
      BY <2>1, <2>3, <2>6, <3>2, <3>3
    <3>6. PICK q \in StoredAt, r \in StoredAt : q <= x /\ y <= r
      BY <3>4, <3>5
    <3>7. z \in q .. r
      BY <2>1, <2>3, <3>6
    <3> QED
      BY <2>2, <3>6, <3>7
  <2>7. CASE /\ mem.head < n /\ mem.head # 0 /\ added \subseteq mem.head + 1 .. n
             /\ mem.head + 1 .. n \subseteq added \cup Owed(tick.hole)
    <3>1. mem.head \in StoredAt
      BY <1>6, <2>7
    <3>2. CASE y \in StoredAt
      <4>1. PICK q \in StoredAt : q <= x
        BY <1>3, <2>1, <2>3, <2>7, <3>1
      <4>2. z \in q .. y
        BY <2>1, <2>3, <4>1
      <4> QED
        BY <2>2, <3>2, <4>1, <4>2
    <3>3. CASE y \in added /\ z > mem.head
      <4>1. z \in mem.head + 1 .. n
        BY <1>2, <2>1, <2>3, <2>7, <3>3
      <4> QED
        BY <1>5, <2>7, <4>1
    <3>4. CASE y \in added /\ z <= mem.head
      <4>1. x \in StoredAt
        BY <1>3, <2>1, <2>3, <2>7, <3>4
      <4>2. z \in x .. mem.head
        BY <2>1, <2>3, <3>4
      <4> QED
        BY <2>2, <3>1, <4>1, <4>2
    <3> QED
      BY <1>3, <2>1, <2>3, <3>2, <3>3, <3>4
  <2>8. CASE added = {n} /\ n <= mem.head /\ mem.head = 0
    <3>1. n = 0
      BY <1>2, <2>1, <2>8
    <3>2. n \in Height
      BY <1>1 DEF n, PersistTick, Sample
    <3> QED
      BY <3>1, <3>2 DEF Height
  <2> QED
    BY <1>6, <2>4, <2>5, <2>6, <2>7, <2>8 DEF Reaches, Anchored, n
<1> QED
  BY <1>3, <1>4, <1>7, <1>8

(* The filler stores blocks only above stored ones. *)
Grows == StoredAt \subseteq StoredAt' /\ \A b \in StoredAt' : \E a \in StoredAt : a <= b

LEMMA FillTxCover ==
  ASSUME IInv, CInv, fill.pc = "commit", gen = fill.gen, FillTx
  PROVE  Between' /\ HolesFooted' /\ Grows /\ gen' = gen
<1> DEFINE h == fill.hole
           foot == h.from - 1
           batch == IF mem.live = 0 THEN NoRows ELSE fill.rows
           under == UpsertBlocks(rows, batch)
           e == Max(DOMAIN fill.rows)
           k == WithCursor(h, fill.next, fill.rows[e].v)
           g == [k EXCEPT !.life = "pending"]
<1>1. /\ h \in Hole /\ fill.next \in Nat /\ fill.rows \in Table /\ fill.tail \in Table
  BY FillShape DEF IInv, FillInv, CommitFill
<1>2. /\ DOMAIN fill.rows = Start(h) .. fill.next - 1
      /\ Start(h) < fill.next /\ fill.next <= h.to + 1
      /\ CursorSound(h, Recovered)
  BY DEF IInv, FillInv, Attempt
<1>3. h.from \in 1 .. MaxHeight + 1 /\ h.to \in 0 .. MaxHeight /\ h.next \in 0 .. MaxHeight + 1
  BY <1>1 DEF Hole, HoleRecords
<1>4. /\ Start(h) \in Nat /\ h.from <= Start(h) /\ foot \in Nat /\ foot < h.from
      /\ h.from .. Start(h) - 1 \subseteq Recovered
  BY <1>2, <1>3 DEF Start, CursorSound
<1>5. foot \in StoredAt /\ DOMAIN fill.tail \subseteq StoredAt
  BY DEF CInv, FillCover, Footed
<1>6. rows' = UpsertBlocks(under, fill.tail) /\ gen' = gen
  BY DEF FillTx
<1>7. batch \in Table /\ DOMAIN batch \subseteq DOMAIN fill.rows
  BY <1>1, NoRowsTable
<1> HIDE DEF batch
<1>8. under \in Table /\ DOMAIN under = StoredAt \cup DOMAIN batch
  BY <1>7, UpsertTable DEF IInv, DbInv, StoredAt
<1> HIDE DEF under
<1>9. StoredAt' = StoredAt \cup DOMAIN batch
  <2>1. DOMAIN rows' = DOMAIN under \cup DOMAIN fill.tail
    BY <1>1, <1>6, <1>8, UpsertTable
  <2> QED
    BY <1>5, <1>8, <2>1 DEF StoredAt
<1>10. DbStep
  BY FillTxStep DEF IInv
<1>11. Covered \cup DOMAIN fill.rows \subseteq Covered'
  <2>1. DOMAIN fill.rows \subseteq Recovered'
    <3>1. CASE mem.live = 0
      BY <3>1 DEF FillTx, Recovered
    <3>2. CASE mem.live # 0
      BY <1>9, <3>2 DEF batch, Recovered, StoredAt
    <3> QED
      BY <3>1, <3>2
  <2>2. Recovered \subseteq Recovered' /\ Owed(holes) \subseteq Owed(holes') \cup Recovered'
    BY <1>6, <1>10, DbTypes DEF DbStep
  <2> QED
    BY <2>1, <2>2 DEF Covered
<1>12. foot .. fill.next - 1 \subseteq Covered'
  <2> SUFFICES ASSUME NEW n \in foot .. fill.next - 1
               PROVE  n \in Covered'
    OBVIOUS
  <2>1. n = foot \/ n \in h.from .. Start(h) - 1 \/ n \in DOMAIN fill.rows
    BY <1>1, <1>2, <1>3, <1>4
  <2>2. foot \in Recovered
    BY <1>5 DEF Recovered, StoredAt
  <2> QED
    BY <1>4, <1>11, <2>1, <2>2 DEF Covered
<1>13. DOMAIN batch \in SUBSET Nat /\ \A n \in DOMAIN batch : foot <= n /\ n <= fill.next - 1
  <2>1. \A n \in DOMAIN batch : n \in Start(h) .. fill.next - 1
    BY <1>2, <1>7
  <2> QED
    BY <1>1, <1>3, <1>4, <2>1
<1>14. Grows
  BY <1>4, <1>5, <1>9, <1>13, DbTypes DEF Grows
<1>15. Between'
  <2> SUFFICES ASSUME NEW x \in StoredAt', NEW y \in StoredAt', NEW z \in x .. y
               PROVE  z \in Covered'
    BY DEF Between
  <2>1. \A p, q \in StoredAt : \A r \in p .. q : r \in Covered'
    BY <1>11 DEF CInv, Between
  <2>2. StoredAt \in SUBSET Nat
    BY DbTypes
  <2>3. x \in Nat /\ y \in Nat /\ z \in Nat /\ x <= z /\ z <= y
    BY <1>9, <1>13, <2>2
  <2> HIDE DEF foot
  <2>4. CASE y \in StoredAt
    <3>1. PICK q \in StoredAt : q <= x
      BY <1>5, <1>9, <1>13, <2>2, <2>3
    <3>2. z \in q .. y
      BY <2>2, <2>3, <3>1
    <3> QED
      BY <2>1, <2>4, <3>1, <3>2
  <2>5. CASE y \in DOMAIN batch /\ z >= foot
    <3>1. z \in foot .. fill.next - 1
      BY <1>1, <1>4, <1>13, <2>3, <2>5
    <3> QED
      BY <1>12, <3>1
  <2>6. CASE y \in DOMAIN batch /\ z < foot
    <3>1. x \in StoredAt
      BY <1>4, <1>9, <1>13, <2>3, <2>6
    <3>2. z \in x .. foot
      BY <1>4, <2>3, <2>6
    <3> QED
      BY <1>5, <2>1, <3>1, <3>2
  <2> QED
    BY <1>4, <1>9, <2>3, <2>4, <2>5, <2>6
<1>16. HolesFooted'
  <2>1. /\ fill.next \in 0 .. MaxHeight + 1 /\ MaxHeight \in Nat
    BY <1>1, <1>2, <1>3, FollowerAssumption
  <2>2. fill.rows[e].v \in Hash \cup {NoHash}
    <3> DEFINE S == DOMAIN fill.rows
    <3>1. S \in SUBSET Int /\ S # {} /\ fill.next - 1 \in Int /\ \A n \in S : n <= fill.next - 1
      BY <1>1, <1>2, <1>4
    <3> HIDE DEF S
    <3>2. Max(S) \in S
      BY <3>1, MaxOfBounded
    <3> QED
      BY <1>1, <3>2, TableEntries DEF S
  <2>3. k \in Hole /\ k.from = h.from /\ k.next = fill.next
    <3> HIDE DEF e, h
    <3> QED
      BY <1>1, <2>1, <2>2, WithCursorKeeps DEF Hole
  <2>4. holes' = AdvanceHole(holes, g)
    BY DEF FillTx, WithCursor
  <2> HIDE DEF k
  <2>5. g \in Hole /\ g.from = h.from /\ g.next = fill.next
    BY <2>3 DEF Hole, HoleRecords, Lifecycles
  <2> HIDE DEF g
  <2>6. g.next > 0 /\ g.from - 1 \in StoredAt
    BY <1>1, <1>2, <1>4, <1>5, <2>5
  <2>7. AllFooted(holes', StoredAt)
    BY <2>4, <2>5, <2>6, DbTypes, AdvanceFooted DEF CInv, HolesFooted
  <2> QED
    BY <1>9, <2>7 DEF HolesFooted, AllFooted, Foot
<1> QED
  BY <1>6, <1>14, <1>15, <1>16

-----------------------------------------------------------------------------
(* What the steps of one loop leave of the other's part. *)
LEMMA TickCoverKept ==
  ASSUME IInv, CInv, Grows, UNCHANGED <<mem, tick>>
  PROVE  HeadIn' /\ TickCover'
<1>1. \A n : Anchored(n) => Anchored(n)'
  BY DEF Anchored, Grows
<1>2. StoredAt \subseteq StoredAt' /\ (StoredAt = {} => StoredAt' = {})
  BY DEF Grows
<1>3. HeadIn'
  BY <1>2 DEF CInv, HeadIn
<1>4. tick.pc = "persist" => Reaches(mem.head, tick.sample, DOMAIN tick.rows, tick.hole)'
  <2> DEFINE s == tick.sample
             added == DOMAIN tick.rows
             hole == tick.hole
  <2>1. Anchored(s.n) => Anchored(s.n)'
    BY DEF Anchored, Grows
  <2> QED
    BY <1>2, <2>1 DEF CInv, TickCover, TickCovers, Reaches
<1>5. Anchored(tick.sample.n) => Anchored(tick.sample.n)'
  BY DEF Anchored, Grows
<1>6. TickCover'
  BY <1>2, <1>4, <1>5 DEF CInv, TickCover, TickCovers
<1> QED
  BY <1>3, <1>6

LEMMA FillCoverKept ==
  ASSUME IInv, CInv, UNCHANGED fill,
         gen' = gen + 1 \/ (gen' = gen /\ StoredAt \subseteq StoredAt')
  PROVE  FillCover'
<1>1. gen \in Nat
  BY DbTypes
<1>2. fill.pc \in {"fetch", "commit"} => fill.gen \in Nat /\ fill.gen <= gen
  BY FillShape DEF IInv, FillInv, FetchFill, CommitFill, Attempt
<1>3. fill.pc = "mark" /\ fill.target.pc = "fetch" => fill.target.gen \in Nat /\ fill.target.gen <= gen
  BY FillShape DEF IInv, FillInv, MarkFill, IdleStep, FetchFill, Attempt
<1>4. CASE gen' = gen + 1
  BY <1>1, <1>2, <1>3, <1>4 DEF FillCover, Footed
<1>5. CASE gen' = gen /\ StoredAt \subseteq StoredAt'
  BY <1>5 DEF CInv, FillCover, Footed
<1> QED
  BY <1>4, <1>5

(* Steps that leave rows, folds and generation alone. *)
LEMMA SameRows ==
  ASSUME IInv, CInv, DbStep, UNCHANGED <<rows, folded, gen>>, HolesFooted'
  PROVE  Between' /\ Grows
<1>1. StoredAt' = StoredAt /\ Recovered' = Recovered
  BY DEF StoredAt, Recovered
<1>2. Covered \subseteq Covered'
  BY <1>1 DEF DbStep, Covered
<1>3. \A b \in StoredAt : b <= b
  BY DbTypes
<1> QED
  BY <1>1, <1>2, <1>3 DEF CInv, Between, Grows

LEMMA SameHoles ==
  ASSUME CInv, UNCHANGED <<rows, holes>>
  PROVE  HolesFooted'
  BY DEF CInv, HolesFooted, AllFooted, Foot, StoredAt

-----------------------------------------------------------------------------
(* The records a tick goes through reach down to the head. *)
LEMMA PersistCovers ==
  ASSUME NEW head, NEW s, NEW t, NEW skipped, Reaches(head, s, DOMAIN t, skipped),
         \A h \in skipped : h.st = NoHash
  PROVE  TickCovers(head, [pc |-> "persist", sample |-> s, rows |-> t, hole |-> skipped])
<1> DEFINE p == [pc |-> "persist", sample |-> s, rows |-> t, hole |-> skipped]
<1>1. p.pc = "persist" /\ p.sample = s /\ p.rows = t /\ p.hole = skipped
  OBVIOUS
<1>2. TickCovers(head, p)
  <2> HIDE DEF p
  <2> QED
    BY <1>1 DEF TickCovers
<1> QED
  BY <1>2

LEMMA SeedCovers ==
  ASSUME NEW head, NEW s \in Sample, NEW skipped, Reaches(head, s, {s.n}, skipped),
         \A h \in skipped : h.st = NoHash
  PROVE  TickCovers(head, Seed(s, skipped))
<1> DEFINE t == [n \in {s.n} |-> [v |-> s.v, p |-> s.p]]
<1>1. DOMAIN t = {s.n}
  OBVIOUS
<1> HIDE DEF t
<1>2. TickCovers(head, [pc |-> "persist", sample |-> s, rows |-> t, hole |-> skipped])
  BY <1>1, PersistCovers
<1> QED
  BY <1>2 DEF Seed, t

(* The hole a tick leaves from the head to the sample. *)
LEMMA NewHoleCovers ==
  ASSUME NEW from \in Nat, NEW to \in Int, NEW life, NEW reason
  PROVE  LET skipped == {NewHole(from, to, life, reason)}
         IN  Owed(skipped) = from .. to /\ \A h \in skipped : h.st = NoHash
  BY DEF NewHole, Owed, Heights

LEMMA SkipCovers ==
  ASSUME NEW s \in Sample, NEW head \in 1 .. MaxHeight, Anchored(s.n)
  PROVE  TickCovers(head, Skip(s, head))
<1> DEFINE skipped == {NewHole(head + 1, s.n - 1, "pending", "catch_up_limit")}
<1>1. s.n \in Nat /\ head \in Nat /\ head # 0
  BY DEF Sample, Height
<1>2. Owed(skipped) = head + 1 .. s.n - 1 /\ \A h \in skipped : h.st = NoHash
  <2>1. head + 1 \in Nat /\ s.n - 1 \in Int
    BY <1>1
  <2> QED
    BY <2>1, NewHoleCovers
<1>3. Skip(s, head) = Seed(s, skipped)
  BY DEF Skip
<1> HIDE DEF skipped
<1>4. Reaches(head, s, {s.n}, skipped)
  BY <1>1, <1>2 DEF Reaches
<1> QED
  BY <1>2, <1>3, <1>4, SeedCovers

LEMMA CatchUpCovers ==
  ASSUME NEW s \in Sample, NEW head \in 0 .. MaxHeight, NEW again \in BOOLEAN,
         Anchored(s.n), head = 0 => StoredAt = {}, NEW t \in CatchUp(s, head, again)
  PROVE  TickCovers(head, t)
<1>1. CASE head = 0
  <2>1. Reaches(head, s, {s.n}, {}) /\ t = Seed(s, {})
    BY <1>1 DEF Reaches, CatchUp
  <2> QED
    BY <2>1, SeedCovers
<1>2. CASE head # 0
  <2>1. PICK u \in Unlimited :
          t = IF ~ u /\ OverBudget(s, head) THEN Skip(s, head)
              ELSE [pc |-> "fetch", sample |-> s, stored |-> head, unlimited |-> u,
                    headers |-> <<>>, again |-> again]
    BY <1>2 DEF CatchUp
  <2> DEFINE f == [pc |-> "fetch", sample |-> s, stored |-> head, unlimited |-> u,
                   headers |-> <<>>, again |-> again]
  <2>2. f.pc = "fetch" /\ f.sample = s /\ f.stored = head /\ f.headers = <<>>
    OBVIOUS
  <2>3. TickCovers(head, f)
    <3> HIDE DEF f
    <3> QED
      BY <2>2 DEF TickCovers
  <2>4. head \in 1 .. MaxHeight
    BY <1>2, FollowerAssumption
  <2> QED
    BY <2>1, <2>3, <2>4, SkipCovers
<1> QED
  BY <1>1, <1>2

LEMMA FindAncestorCovers ==
  ASSUME NEW s, NEW from, NEW why, NEW head, why = "behind" \/ Anchored(s.n)
  PROVE  TickCovers(head, FindAncestor(s, from, why))
<1> DEFINE f == FindAncestor(s, from, why)
<1>1. f.pc = "ancestor" /\ f.sample = s /\ f.why = why
  BY DEF FindAncestor
<1>2. TickCovers(head, f)
  <2> HIDE DEF f
  <2> QED
    BY <1>1 DEF TickCovers
<1> QED
  BY <1>2

LEMMA IdleCovers == \A head : TickCovers(head, Idle)
  BY DEF TickCovers, Idle

(* A replay stores, or leaves as a hole, all from the head to the sample.  *)
LEMMA ProcessCovers ==
  ASSUME NEW s \in Sample, NEW hs, NEW head \in 1 .. MaxHeight, Anchored(s.n),
         Len(hs) \in Nat, IF head < s.n THEN Len(hs) = s.n - head ELSE Len(hs) = 1,
         NEW t \in Process(s, hs)
  PROVE  TickCovers(head, t)
<1> DEFINE first == s.n - Len(hs) + 1
           replayed == [n \in first .. s.n |-> hs[n - first + 1]]
           skipped(life, reason) == {NewHole(first, s.n - 1, life, reason)}
<1>1. s.n \in Nat /\ s.n > 0 /\ head \in Nat /\ head # 0
  BY DEF Sample, Height
<1>2. first \in Nat /\ first <= s.n /\ IF head < s.n THEN first = head + 1 ELSE first = s.n
  <2>1. CASE head < s.n
    <3>1. Len(hs) = s.n - head
      BY <2>1
    <3> QED
      BY <1>1, <2>1, <3>1
  <2>2. CASE ~ (head < s.n)
    <3>1. Len(hs) = 1
      BY <2>2
    <3> QED
      BY <1>1, <2>2, <3>1
  <2> QED
    BY <2>1, <2>2
<1>3. DOMAIN replayed = first .. s.n
  OBVIOUS
<1>4. PICK r \in Replays :
        t = CASE r = "ok" -> [pc |-> "persist", sample |-> s, rows |-> replayed, hole |-> {}]
              [] r = "no_state" -> Seed(s, skipped("blocked", r))
              [] r = "unsupported_model" ->
                   Seed(s, IF first < s.n THEN skipped("blocked", r) ELSE {})
              [] r = "replay_discontinuity" -> Seed(s, skipped("pending", r))
  BY DEF Process
<1>5. r \in {"ok", "no_state", "unsupported_model", "replay_discontinuity"}
  BY FollowerAssumption
<1> HIDE DEF first, replayed
<1>6. \A life : /\ Reaches(head, s, {s.n}, skipped(life, r))
                /\ \A h \in skipped(life, r) : h.st = NoHash
  <2> TAKE life
  <2> DEFINE hole == skipped(life, r)
  <2>1. s.n - 1 \in Int
    BY <1>1
  <2>2. Owed(hole) = first .. s.n - 1 /\ \A h \in hole : h.st = NoHash
    BY <1>2, <2>1, NewHoleCovers
  <2> HIDE DEF hole
  <2>3. Reaches(head, s, {s.n}, hole)
    BY <1>1, <1>2, <2>2 DEF Reaches
  <2> QED
    BY <2>2, <2>3 DEF hole
<1>7. first = s.n => Reaches(head, s, {s.n}, {})
  BY <1>1, <1>2 DEF Reaches
<1>8. CASE r = "ok"
  <2>1. t = [pc |-> "persist", sample |-> s, rows |-> replayed, hole |-> {}]
    BY <1>4, <1>8
  <2>2. Reaches(head, s, DOMAIN replayed, {})
    BY <1>1, <1>2, <1>3 DEF Reaches
  <2> QED
    BY <2>1, <2>2, PersistCovers
<1>9. CASE r = "no_state"
  <2>1. t = Seed(s, skipped("blocked", r))
    BY <1>4, <1>9
  <2> HIDE DEF skipped
  <2> QED
    BY <1>6, <2>1, SeedCovers
<1>10. CASE r = "unsupported_model"
  <2>1. t = Seed(s, IF first < s.n THEN skipped("blocked", r) ELSE {})
    BY <1>4, <1>10
  <2>2. CASE first < s.n
    <3>1. t = Seed(s, skipped("blocked", r))
      BY <2>1, <2>2
    <3> HIDE DEF skipped
    <3> QED
      BY <1>6, <3>1, SeedCovers
  <2>3. CASE ~ (first < s.n)
    <3>1. t = Seed(s, {}) /\ first = s.n
      BY <1>1, <1>2, <2>1, <2>3
    <3> QED
      BY <1>7, <3>1, SeedCovers
  <2> QED
    BY <2>2, <2>3
<1>11. CASE r = "replay_discontinuity"
  <2>1. t = Seed(s, skipped("pending", r))
    BY <1>4, <1>11
  <2> HIDE DEF skipped
  <2> QED
    BY <1>6, <2>1, SeedCovers
<1> QED
  BY <1>5, <1>8, <1>9, <1>10, <1>11

-----------------------------------------------------------------------------
(* The fast loop. *)
LEMMA HeadReloaded ==
  ASSUME NEW t \in Table, NEW m \in Memory
  PROVE  /\ ReloadHead(m, t).head \in 0 .. MaxHeight
         /\ IF ReloadHead(m, t).head = 0 THEN DOMAIN t = {} ELSE ReloadHead(m, t).head \in DOMAIN t
  BY ReloadHeadType, LatestBlockType

LEMMA Untouched ==
  ASSUME CInv, UNCHANGED <<rows, holes, folded, gen, mem, tick, fill>>
  PROVE  CInv'
  BY DEF CInv, Between, Covered, Recovered, StoredAt, HolesFooted, AllFooted, Foot, HeadIn, TickCover,
         TickCovers, Reaches, Anchored, FillCover, Footed

LEMMA DbQuiet ==
  ASSUME CInv, UNCHANGED <<rows, holes, folded, gen>>
  PROVE  Between' /\ HolesFooted' /\ StoredAt' = StoredAt /\ gen' = gen
  BY DEF CInv, Between, Covered, Recovered, StoredAt, HolesFooted, AllFooted, Foot

LEMMA QuietTick ==
  ASSUME IInv, CInv, UNCHANGED <<db, fill>>,
         mem'.head # 0 => mem'.head \in StoredAt,
         mem'.head = 0 => StoredAt = {},
         tick'.pc \notin {"reload", "publish"}, TickCovers(mem'.head, tick')
  PROVE  CInv'
<1>1. Between' /\ HolesFooted' /\ StoredAt' = StoredAt /\ gen' = gen
  BY DbQuiet DEF db
<1>2. FillCover'
  BY <1>1, FillCoverKept
<1>3. HeadIn'
  BY <1>1 DEF HeadIn
<1>4. TickCover'
  BY <1>1 DEF TickCover, TickCovers, Reaches, Anchored
<1> QED
  BY <1>1, <1>2, <1>3, <1>4 DEF CInv

(* The places a tick moves to. *)
LEMMA TickPlaces ==
  /\ \A s, skipped : Seed(s, skipped).pc = "persist"
  /\ \A s, stored : Skip(s, stored).pc = "persist"
  /\ \A s, from, why : FindAncestor(s, from, why).pc = "ancestor"
  /\ \A s, stored, again : \A t \in CatchUp(s, stored, again) : t.pc \in {"persist", "fetch"}
  /\ Idle.pc = "idle"
<1>1. \A s, skipped : Seed(s, skipped).pc = "persist"
  BY DEF Seed
<1>2. \A s, stored : Skip(s, stored).pc = "persist"
  BY <1>1 DEF Skip
<1>3. \A s, from, why : FindAncestor(s, from, why).pc = "ancestor"
  BY DEF FindAncestor
<1>4. \A s, stored, again : \A t \in CatchUp(s, stored, again) : t.pc \in {"persist", "fetch"}
  BY <1>1, <1>2 DEF CatchUp
<1> QED
  BY <1>1, <1>2, <1>3, <1>4 DEF Idle

LEMMA ProcessPlace ==
  ASSUME NEW s, NEW hs, NEW t \in Process(s, hs)
  PROVE  t.pc = "persist"
<1> DEFINE first == s.n - Len(hs) + 1
           replayed == [n \in first .. s.n |-> hs[n - first + 1]]
           skipped(life, reason) == {NewHole(first, s.n - 1, life, reason)}
<1>1. PICK r \in Replays :
        t = CASE r = "ok" -> [pc |-> "persist", sample |-> s, rows |-> replayed, hole |-> {}]
              [] r = "no_state" -> Seed(s, skipped("blocked", r))
              [] r = "unsupported_model" ->
                   Seed(s, IF first < s.n THEN skipped("blocked", r) ELSE {})
              [] r = "replay_discontinuity" -> Seed(s, skipped("pending", r))
  BY DEF Process
<1>2. r \in {"ok", "no_state", "unsupported_model", "replay_discontinuity"}
  BY FollowerAssumption
<1> HIDE DEF first, replayed, skipped
<1> QED
  BY <1>1, <1>2, TickPlaces

LEMMA HeadFacts ==
  ASSUME IInv, CInv, tick.pc \notin {"reload", "publish"}, mem.up \/ mem.head # 0
  PROVE  /\ mem.head \in 0 .. MaxHeight
         /\ mem.head # 0 => mem.head \in StoredAt
         /\ mem.head = 0 => StoredAt = {}
  BY MemoryField DEF IInv, CInv, HeadIn

LEMMA TickSampleCover ==
  ASSUME IInv, CInv, TickSample
  PROVE  CInv'
<1>1. PICK n \in 1 .. Len(chain) :
        LET s == [n |-> n, v |-> chain[n].v, p |-> chain[n].p]
            stored == mem.head
        IN  \/ stored = 0 /\ tick' = Seed(s, {})
            \/ /\ n < stored
               /\ tick' = IF n \in DOMAIN rows /\ rows[n].v # s.v
                            THEN FindAncestor(s, n, "behind") ELSE Idle
            \/ /\ n = stored /\ stored > 0 /\ mem.hash = s.v
               /\ tick' = [pc |-> "persist", sample |-> s, rows |-> NoRows, hole |-> {}]
            \/ /\ n = stored /\ stored > 0 /\ mem.hash # s.v
               /\ tick' = FindAncestor(s, stored - 1, "same")
            \/ n > stored /\ stored > 0 /\ tick' \in CatchUp(s, stored, FALSE)
  BY DEF TickSample
<1> DEFINE s == [n |-> n, v |-> chain[n].v, p |-> chain[n].p]
<1>2. n \in Nat /\ s \in Sample /\ s.n = n
  <2>1. chain[n] \in Block
    BY ChainEntries DEF IInv
  <2>2. n \in Height /\ n \in Nat
    BY FollowerAssumption DEF IInv, EnvInv, Height
  <2> QED
    BY <2>1, <2>2 DEF Sample, Block
<1>3. /\ mem.head \in 0 .. MaxHeight /\ (mem.head # 0 => mem.head \in StoredAt)
      /\ (mem.head = 0 => StoredAt = {})
  BY HeadFacts DEF TickSample
<1> HIDE DEF s
<1>4. n >= mem.head => Anchored(n)
  BY <1>2, <1>3 DEF Anchored
<1>5. TickCovers(mem.head, tick') /\ tick'.pc \notin {"reload", "publish"}
  <2>1. CASE mem.head = 0 /\ tick' = Seed(s, {})
    <3>1. Reaches(mem.head, s, {s.n}, {})
      BY <1>2, <1>3, <2>1 DEF Reaches
    <3> QED
      BY <1>2, <2>1, <3>1, SeedCovers, TickPlaces
  <2>2. CASE tick' \in {FindAncestor(s, n, "behind"), Idle}
    BY <2>2, FindAncestorCovers, IdleCovers, TickPlaces
  <2>3. CASE n = mem.head /\ mem.head > 0 /\ tick' = [pc |-> "persist", sample |-> s, rows |-> NoRows, hole |-> {}]
    <3>1. Reaches(mem.head, s, DOMAIN NoRows, {})
      BY <1>2, <1>3, <2>3, NoRowsTable DEF Reaches
    <3> QED
      BY <2>3, <3>1, PersistCovers
  <2>4. CASE n = mem.head /\ tick' = FindAncestor(s, mem.head - 1, "same")
    BY <1>2, <1>3, <1>4, <2>4, FindAncestorCovers, TickPlaces
  <2>5. CASE n > mem.head /\ tick' \in CatchUp(s, mem.head, FALSE)
    <3>1. Anchored(s.n)
      BY <1>2, <1>3, <1>4, <2>5
    <3>2. TickCovers(mem.head, tick')
      BY <1>2, <1>3, <2>5, <3>1, CatchUpCovers
    <3> QED
      BY <2>5, <3>2, TickPlaces
  <2> QED
    BY <1>1, <2>1, <2>2, <2>3, <2>4, <2>5 DEF s
<1>6. UNCHANGED <<db, fill, mem>>
  BY DEF TickSample
<1> QED
  BY <1>3, <1>5, <1>6, QuietTick

(* What the fetch state says, for the three steps that leave it. *)
LEMMA FetchFacts ==
  ASSUME IInv, CInv, tick.pc = "fetch"
  PROVE  /\ tick \in FetchTick /\ tick.sample \in Sample /\ tick.headers \in Seq(Block)
         /\ tick.stored = mem.head /\ mem.head \in 1 .. MaxHeight /\ mem.head \in StoredAt
         /\ Anchored(tick.sample.n)
         /\ tick.headers = <<>> \/ tick.stored + Len(tick.headers) < tick.sample.n
<1>1. tick \in FetchTick
  BY TickShape DEF IInv, TickInv, TickOK
<1>2. tick.stored \in 1 .. MaxHeight /\ tick.sample \in Sample /\ tick.headers \in Seq(Block)
  BY <1>1 DEF FetchTick, Height
<1> QED
  BY <1>1, <1>2 DEF CInv, TickCover, TickCovers, HeadIn

LEMMA FetchHeadersCover ==
  ASSUME IInv, CInv, FetchHeaders, TickInv'
  PROVE  CInv'
<1> DEFINE hs == tick.headers \o SubSeq(chain, NextBatch, BatchEnd)
<1>1. /\ tick \in FetchTick /\ tick.stored = mem.head /\ mem.head \in 1 .. MaxHeight
      /\ mem.head \in StoredAt /\ Anchored(tick.sample.n)
  BY FetchFacts DEF FetchHeaders
<1>2. tick' = [tick EXCEPT !.headers = hs]
  BY DEF FetchHeaders
<1>3. tick.stored + Len(hs) < tick.sample.n
  BY FetchedLength DEF FetchHeaders, IInv
<1> HIDE DEF hs
<1>4. tick'.pc = "fetch" /\ tick'.stored = tick.stored /\ tick'.sample = tick.sample /\ tick'.headers = hs
  BY <1>1, <1>2 DEF FetchTick
<1>5. TickCovers(mem.head, tick')
  BY <1>1, <1>3, <1>4 DEF TickCovers
<1>6. UNCHANGED <<db, fill, mem>> /\ mem.head # 0
  BY <1>1 DEF FetchHeaders
<1> QED
  BY <1>1, <1>4, <1>5, <1>6, QuietTick

LEMMA FailoverSkipCover ==
  ASSUME IInv, CInv, FailoverSkip
  PROVE  CInv'
<1>1. /\ tick.sample \in Sample /\ tick.stored = mem.head /\ mem.head \in 1 .. MaxHeight
      /\ mem.head \in StoredAt /\ Anchored(tick.sample.n)
  BY FetchFacts DEF FailoverSkip
<1>2. tick' = Skip(tick.sample, mem.head) /\ UNCHANGED <<db, fill, mem>> /\ mem.head # 0
  BY <1>1 DEF FailoverSkip
<1>3. TickCovers(mem.head, tick') /\ tick'.pc = "persist"
  BY <1>1, <1>2, SkipCovers, TickPlaces
<1> QED
  BY <1>1, <1>2, <1>3, QuietTick

LEMMA HeadersFetchedCover ==
  ASSUME IInv, CInv, HeadersFetched
  PROVE  CInv'
<1>1. /\ tick.sample \in Sample /\ tick.headers \in Seq(Block)
      /\ tick.stored = mem.head /\ mem.head \in 1 .. MaxHeight
      /\ mem.head \in StoredAt /\ Anchored(tick.sample.n)
      /\ tick.headers = <<>> \/ tick.stored + Len(tick.headers) < tick.sample.n
  BY FetchFacts DEF HeadersFetched
<1>2. Len(Headers) \in Nat /\ Len(Headers) = Len(tick.headers) + 1 /\ Len(tick.headers) \in Nat
  <2> DEFINE b == [v |-> tick.sample.v, p |-> tick.sample.p]
  <2>1. b \in Block
    BY <1>1 DEF Sample, Block
  <2> HIDE DEF b
  <2>2. Len(Append(tick.headers, b)) = Len(tick.headers) + 1
    BY <1>1, <2>1, AppendProperties
  <2> QED
    BY <1>1, <2>2 DEF Headers, b
<1>3. tick.stored + 1 + Len(tick.headers) >= tick.sample.n
  BY DEF HeadersFetched, NextBatch
<1>4. IF mem.head < tick.sample.n THEN Len(Headers) = tick.sample.n - mem.head ELSE Len(Headers) = 1
  <2> DEFINE l == Len(tick.headers)
             n == tick.sample.n
             head == mem.head
  <2>1. n \in Nat /\ head \in Nat /\ l \in Nat
    BY <1>1, <1>2 DEF Sample, Height
  <2>2. l = 0 \/ head + l < n
    BY <1>1
  <2>3. head + 1 + l >= n /\ Len(Headers) = l + 1
    BY <1>1, <1>2, <1>3
  <2> HIDE DEF l, n, head
  <2>4. IF head < n THEN l + 1 = n - head ELSE l + 1 = 1
    BY <2>1, <2>2, <2>3
  <2> QED
    BY <2>3, <2>4 DEF n, head
<1>5. TickCovers(mem.head, tick') /\ tick'.pc \in {"ancestor", "persist"}
  <2>1. CASE tick' = FindAncestor(tick.sample, tick.stored - 1, "parent")
    BY <1>1, <2>1, FindAncestorCovers, TickPlaces
  <2>2. CASE tick' \in Process(tick.sample, Headers)
    BY <1>1, <1>2, <1>4, <2>2, ProcessCovers, ProcessPlace
  <2> QED
    BY <2>1, <2>2 DEF HeadersFetched
<1>6. UNCHANGED <<db, fill, mem>> /\ mem.head # 0
  BY <1>1 DEF HeadersFetched
<1> QED
  BY <1>1, <1>5, <1>6, QuietTick

LEMMA AncestorCover ==
  ASSUME IInv, CInv, AncestorHeader \/ AncestorNoRow
  PROVE  CInv'
<1>1. tick \in WalkTick /\ tick.pc = "ancestor"
  BY TickShape DEF AncestorHeader, AncestorNoRow, IInv, TickInv, TickOK
<1>2. tick.why # "behind" => Anchored(tick.sample.n)
  BY <1>1 DEF CInv, TickCover, TickCovers
<1>3. Ancestor.pc = "rewind" /\ Ancestor.why = tick.why /\ Ancestor.sample = tick.sample
  BY DEF Ancestor
<1>4. TickCovers(mem.head, Ancestor)
  BY <1>2, <1>3 DEF TickCovers
<1> DEFINE lower == [tick EXCEPT !.n = tick.n - 1]
<1>5. lower.pc = "ancestor" /\ lower.why = tick.why /\ lower.sample = tick.sample
  BY <1>1 DEF WalkTick
<1> HIDE DEF lower
<1>6. TickCovers(mem.head, lower)
  BY <1>2, <1>5 DEF TickCovers
<1>7. tick' \in {Ancestor, lower}
  BY DEF AncestorHeader, AncestorNoRow, lower
<1>8. TickCovers(mem.head, tick') /\ tick'.pc \in {"ancestor", "rewind"}
  BY <1>3, <1>4, <1>5, <1>6, <1>7
<1>9. UNCHANGED <<db, fill, mem>>
  BY DEF AncestorHeader, AncestorNoRow
<1>10. Between' /\ HolesFooted' /\ StoredAt' = StoredAt /\ gen' = gen
  BY <1>9, DbQuiet DEF db
<1>11. HeadIn'
  BY <1>1, <1>8, <1>9, <1>10 DEF CInv, HeadIn
<1>12. TickCover'
  BY <1>8, <1>9, <1>10 DEF TickCover, TickCovers, Reaches, Anchored
<1> QED
  BY <1>9, <1>10, <1>11, <1>12, FillCoverKept DEF CInv

(* A rewind keeps the lowest stored block, if it keeps any. *)
LEMMA RewindCover ==
  ASSUME IInv, CInv, Rewind
  PROVE  CInv'
<1>1. tick \in RewindTick /\ tick.ancestor \in Nat /\ tick.sample.n \in Nat
  BY TickShape DEF Rewind, IInv, TickInv, TickOK, RewindTick, Sample, Height
<1>2. /\ Between' /\ HolesFooted' /\ gen' = gen + 1
      /\ StoredAt' = {n \in StoredAt : n <= tick.ancestor}
  BY <1>1, RewindTxCover DEF Rewind, CInv
<1>3. tick'.pc = "reload" /\ tick'.why = tick.why /\ tick'.sample = tick.sample
  BY <1>1 DEF Rewind, RewindTick
<1>4. tick.why # "behind" => Anchored(tick.sample.n)
  BY DEF Rewind, CInv, TickCover, TickCovers
<1>5. tick.why # "behind" => Anchored(tick.sample.n)'
  <2> DEFINE n == tick.sample.n
             a == tick.ancestor
  <2>1. StoredAt \in SUBSET Nat /\ n \in Nat /\ a \in Nat
    BY <1>1, DbTypes
  <2>2. Anchored(n) => StoredAt' = {} \/ \E k \in StoredAt' : k <= n
    <3>1. StoredAt' = {k \in StoredAt : k <= a}
      BY <1>2
    <3> HIDE DEF n, a
    <3>2. ASSUME NEW x \in StoredAt, x <= n, NEW y \in StoredAt'
          PROVE  \E k \in StoredAt' : k <= n
      <4>1. y \in StoredAt /\ y <= a /\ y \in Nat /\ x \in Nat
        BY <2>1, <3>1
      <4>2. CASE x <= a
        BY <3>1, <3>2, <4>2
      <4>3. CASE ~ (x <= a)
        <5>1. y <= n
          BY <2>1, <3>2, <4>1, <4>3
        <5> QED
          BY <5>1
      <4> QED
        BY <4>2, <4>3
    <3> QED
      BY <3>1, <3>2 DEF Anchored
  <2> QED
    BY <1>3, <1>4, <2>2 DEF Anchored
<1>6. TickCover'
  BY <1>3, <1>5 DEF TickCover, TickCovers
<1>7. HeadIn'
  BY <1>3 DEF HeadIn
<1>8. FillCover'
  BY <1>2, FillCoverKept DEF Rewind
<1> QED
  BY <1>2, <1>6, <1>7, <1>8 DEF CInv

LEMMA RewindReloadCover ==
  ASSUME IInv, CInv, RewindReload
  PROVE  CInv'
<1> DEFINE m == ReloadHead(StartCleared, rows)
<1>1. tick \in RewindTick /\ rows \in Table /\ tick.sample \in Sample
  BY TickShape DEF RewindReload, IInv, TickInv, TickOK, DbInv, RewindTick
<1>2. /\ m.head \in 0 .. MaxHeight
      /\ IF m.head = 0 THEN StoredAt = {} ELSE m.head \in StoredAt
  BY <1>1, StartClearedType, HeadReloaded DEF StoredAt
<1>3. /\ mem' = m /\ UNCHANGED <<db, fill>>
      /\ tick' \in IF tick.why = "behind" THEN {Idle} ELSE CatchUp(tick.sample, m.head, tick.why = "parent")
  BY DEF RewindReload
<1> HIDE DEF m
<1>4. TickCovers(m.head, tick') /\ tick'.pc \in {"idle", "persist", "fetch"}
  <2> DEFINE again == tick.why = "parent"
  <2>1. again \in BOOLEAN
    OBVIOUS
  <2>2. CASE tick.why = "behind"
    BY <1>3, <2>2, IdleCovers, TickPlaces
  <2>3. CASE tick.why # "behind"
    <3>1. tick' \in CatchUp(tick.sample, m.head, again)
      BY <1>3, <2>3
    <3>2. Anchored(tick.sample.n)
      BY <2>3 DEF RewindReload, CInv, TickCover, TickCovers
    <3> HIDE DEF again
    <3> QED
      BY <1>1, <1>2, <2>1, <3>1, <3>2, CatchUpCovers, TickPlaces
  <2> QED
    BY <2>2, <2>3
<1> QED
  BY <1>2, <1>3, <1>4, QuietTick

LEMMA PersistCover ==
  ASSUME IInv, CInv, Persist
  PROVE  CInv'
<1>1. /\ Between' /\ HolesFooted' /\ gen' = gen
      /\ StoredAt \subseteq StoredAt' /\ tick.sample.n \in StoredAt'
  BY PersistTxCover DEF Persist
<1>2. tick'.pc = "publish" /\ tick'.sample = tick.sample /\ UNCHANGED <<mem, fill>> /\ tick.pc = "persist"
  BY DEF Persist
<1>3. TickCover'
  BY <1>1, <1>2 DEF TickCover, TickCovers
<1>4. HeadIn'
  BY <1>1, <1>2 DEF CInv, HeadIn
<1> QED
  BY <1>1, <1>2, <1>3, <1>4, FillCoverKept DEF CInv

LEMMA PublishCover ==
  ASSUME IInv, CInv, Publish
  PROVE  CInv'
<1>1. tick.sample.n \in StoredAt /\ tick.sample.n # 0
  <2>1. tick.sample.n \in Height
    BY TickShape DEF Publish, IInv, TickInv, TickOK, PublishTick, Sample
  <2> QED
    BY <2>1 DEF Publish, CInv, TickCover, TickCovers, Height
<1>2. mem'.head = tick.sample.n
  BY DEF Publish, IInv, Memory
<1>3. UNCHANGED <<db, fill>> /\ tick' = Idle
  BY DEF Publish
<1> QED
  BY <1>1, <1>2, <1>3, IdleCovers, TickPlaces, QuietTick

LEMMA TickFailsCover ==
  ASSUME ~ Outage, IInv, CInv, TickFails
  PROVE  CInv'
<1>1. rows \in Table /\ mem \in Memory /\ StartCleared \in Memory
  BY StartClearedType DEF IInv, DbInv
<1>2. mem' \in {ReloadHead(mem, rows), ReloadHead(StartCleared, rows)}
  BY DEF TickFails, Reloaded
<1>3. IF mem'.head = 0 THEN StoredAt = {} ELSE mem'.head \in StoredAt
  BY <1>1, <1>2, HeadReloaded DEF StoredAt
<1>4. UNCHANGED <<db, fill>> /\ tick' = Idle
  BY DEF TickFails
<1> QED
  BY <1>3, <1>4, IdleCovers, TickPlaces, QuietTick

LEMMA AnswerLostCover ==
  ASSUME ~ Outage, IInv, CInv, AnswerLost
  PROVE  CInv'
<1>1. /\ Between' /\ HolesFooted' /\ DbStep
      /\ gen' = gen + 1 \/ (gen' = gen /\ StoredAt \subseteq StoredAt')
  <2>1. CASE tick.pc = "rewind" /\ RewindTx
    <3>1. tick \in RewindTick
      BY <2>1, TickShape DEF IInv, TickInv, TickOK
    <3> QED
      BY <2>1, <3>1, RewindTxCover, RewindTxStep DEF CInv, IInv
  <2>2. CASE tick.pc = "persist" /\ PersistTx
    <3>1. tick \in PersistTick /\ \A h \in tick.hole : h.next = 0
      BY <2>2, TickShape DEF IInv, TickInv, TickOK
    <3> QED
      BY <2>2, <3>1, PersistTxCover, PersistTxStep DEF IInv
  <2> QED
    BY <2>1, <2>2 DEF AnswerLost
<1>2. rows' \in Table /\ mem \in Memory
  BY <1>1 DEF DbStep, DbInv, IInv
<1>3. mem' = ReloadHead(mem, rows') /\ tick' = Idle /\ UNCHANGED fill
  BY DEF AnswerLost, Reloaded
<1>4. IF mem'.head = 0 THEN StoredAt' = {} ELSE mem'.head \in StoredAt'
  BY <1>2, <1>3, HeadReloaded DEF StoredAt
<1>5. HeadIn'
  BY <1>4 DEF HeadIn
<1>6. TickCover'
  BY <1>3, TickPlaces DEF TickCover, TickCovers
<1> QED
  BY <1>1, <1>3, <1>5, <1>6, FillCoverKept DEF CInv

-----------------------------------------------------------------------------
(* The filler. *)
LEMMA FillIdleCover ==
  ASSUME fill' = Idle
  PROVE  FillCover'
  BY IdleOK DEF FillCover

(* Steps of the filler that write at most the holes. *)
LEMMA QuietFill ==
  ASSUME IInv, CInv, DbStep, UNCHANGED <<rows, folded, gen, mem, tick>>, HolesFooted', FillCover'
  PROVE  CInv'
  BY SameRows, TickCoverKept DEF CInv

(* pickHole takes only a hole whose first block follows a stored one. *)
LEMMA TargetFooted ==
  ASSUME IInv, CInv, NEW h \in holes, Startable(h)
  PROVE  FillTarget(h).hole.from - 1 \in StoredAt
<1>1. h \in Hole /\ Foot(h, StoredAt)
  BY DEF CInv, HolesFooted, AllFooted, IInv, DbInv, Stored, NonEmpty, Hole
<1>2. h.from \in Nat /\ h.next \in Nat
  BY <1>1, FollowerAssumption DEF Hole, HoleRecords
<1>3. h.from - 1 \in StoredAt
  <2>1. CASE h.next = 0
    <3>1. h.st = NoHash /\ Start(h) = h.from
      BY <1>1, <1>2, <2>1 DEF Foot, Start
    <3> QED
      BY <3>1 DEF Startable, StoredAt
  <2>2. CASE h.next # 0
    BY <1>1, <2>2 DEF Foot
  <2> QED
    BY <2>1, <2>2
<1>4. FillTarget(h).hole.from = h.from
  BY <1>1 DEF FillTarget, Hole, HoleRecords
<1> QED
  BY <1>3, <1>4

LEMMA FillPickCover ==
  ASSUME IInv, CInv, DbStep, FillStep
  PROVE  CInv'
<1>1. PICK waiting \in SUBSET MayWait, unexplained \in SUBSET MayBeUnexplained :
        FillPick(waiting, unexplained)
  BY DEF FillStep
<1> DEFINE examined == {h \in holes \ waiting : h.reason # "unsupported_model"}
           able == {h \in examined \ unexplained : Startable(h)}
           picked == {h \in able : \A k \in able : k # h => PickedBefore(h, k)}
           seen == {h \in examined : \A k \in picked : PickedBefore(h, k)}
           stranded == {h \in seen : ~ Blocked(h) /\ Start(h) <= h.to /\ ~ Startable(h)}
           refused == {h \in seen \cap unexplained : Startable(h)}
           marks == [n \in {h.from : h \in stranded \cup refused} |->
                       IF n \in {h.from : h \in stranded} THEN "no_state" ELSE "replay_discontinuity"]
           target == IF picked = {} THEN Idle ELSE FillTarget(CHOOSE h \in picked : TRUE)
<1>2. /\ fill' = IF DOMAIN marks = {} THEN target
                 ELSE [pc |-> "mark", marks |-> marks, target |-> target]
      /\ UNCHANGED <<db, mem, tick>>
  BY <1>1 DEF FillPick
<1>3. target.pc \in {"idle", "fetch"} /\ (target.pc = "fetch" => target.hole.from - 1 \in StoredAt)
  <2>1. CASE picked = {}
    BY <2>1, IdleOK
  <2>2. CASE picked # {}
    <3> DEFINE h == CHOOSE h \in picked : TRUE
    <3>1. h \in picked
      BY <2>2
    <3>2. h \in holes /\ Startable(h) /\ target = FillTarget(h)
      BY <2>2, <3>1
    <3> HIDE DEF h, target
    <3> QED
      BY <3>2, FillTargetOK, TargetFooted DEF IInv
  <2> QED
    BY <2>1, <2>2
<1> HIDE DEF marks, target
<1>4. Between' /\ HolesFooted' /\ StoredAt' = StoredAt /\ gen' = gen /\ UNCHANGED <<rows, folded>>
  BY <1>2, DbQuiet DEF db
<1>5. FillCover'
  <2>1. CASE DOMAIN marks = {}
    <3>1. fill' = target
      BY <1>2, <2>1
    <3> QED
      BY <1>3, <1>4, <3>1 DEF FillCover, Footed
  <2>2. CASE DOMAIN marks # {}
    <3>1. fill' = [pc |-> "mark", marks |-> marks, target |-> target]
      BY <1>2, <2>2
    <3>2. fill'.pc = "mark" /\ fill'.target = target
      BY <3>1
    <3> QED
      BY <1>3, <1>4, <3>2 DEF FillCover, Footed
  <2> QED
    BY <2>1, <2>2
<1> QED
  BY <1>2, <1>4, <1>5, QuietFill

LEMMA FillMarkCover ==
  ASSUME IInv, CInv, DbStep, FillMark
  PROVE  CInv'
<1>1. fill \in MarkFill /\ fill.pc = "mark"
  BY FillShape DEF FillMark, IInv, FillInv
<1>2. fill.target \in IdleStep \cup FetchFill /\ \A n \in DOMAIN fill.marks : fill.marks[n] \in Reasons
  BY <1>1 DEF MarkFill, Marks
<1>3. UNCHANGED <<rows, folded, gen, mem, tick>> /\ StoredAt' = StoredAt
  BY DEF FillMark, StoredAt
<1>4. AllFooted(holes', StoredAt)
  BY <1>2, DbTypes, MarkFooted DEF FillMark, CInv, HolesFooted
<1>5. HolesFooted'
  BY <1>3, <1>4 DEF HolesFooted
<1>6. fill.target.pc \in {"idle", "fetch"}
  BY <1>2 DEF IdleStep, FetchFill
<1>7. FillCover'
  BY <1>1, <1>3, <1>6 DEF FillMark, CInv, FillCover, Footed
<1> QED
  BY <1>3, <1>5, <1>7, QuietFill

LEMMA FillFetchCover ==
  ASSUME IInv, CInv, DbStep, FillFetch
  PROVE  CInv'
<1>1. fill \in FetchFill /\ fill.pc = "fetch" /\ rows \in Table
  BY FillShape DEF FillFetch, IInv, FillInv, DbInv
<1>2. PICK hdrs \in FillBatches :
        LET e == Max(DOMAIN hdrs)
        IN  fill' = [pc |-> "commit", gen |-> fill.gen, hole |-> fill.hole, next |-> e + 1, rows |-> hdrs,
                     tail |-> IF e = fill.hole.to THEN Restrict(rows, DOMAIN rows \cap {e + 1}) ELSE NoRows]
  BY DEF FillFetch
<1> DEFINE e == Max(DOMAIN hdrs)
           tail == IF e = fill.hole.to THEN Restrict(rows, DOMAIN rows \cap {e + 1}) ELSE NoRows
<1>3. DOMAIN tail \subseteq StoredAt
  BY <1>1, RestrictTable, NoRowsTable DEF StoredAt
<1>4. fill' = [pc |-> "commit", gen |-> fill.gen, hole |-> fill.hole, next |-> e + 1, rows |-> hdrs, tail |-> tail]
  BY <1>2
<1> HIDE DEF e, tail
<1>5. fill'.pc = "commit" /\ fill'.gen = fill.gen /\ fill'.hole = fill.hole /\ fill'.tail = tail
  BY <1>4
<1>6. UNCHANGED <<db, mem, tick>>
  BY DEF FillFetch
<1>7. HolesFooted' /\ StoredAt' = StoredAt /\ gen' = gen /\ UNCHANGED <<rows, folded>>
  BY <1>6, DbQuiet DEF db
<1>8. FillCover'
  BY <1>1, <1>3, <1>5, <1>7 DEF CInv, FillCover, Footed
<1> QED
  BY <1>6, <1>7, <1>8, QuietFill

LEMMA FillUnsupportedCover ==
  ASSUME IInv, CInv, DbStep, FillUnsupported
  PROVE  CInv'
<1> DEFINE m == [n \in {fill.hole.from} |-> "unsupported_model"]
<1>1. holes' = IF gen = fill.gen THEN MarkHoles(holes, m) ELSE holes
  BY DEF FillUnsupported
<1>2. \A n \in DOMAIN m : m[n] \in Reasons
  BY DEF Reasons
<1> HIDE DEF m
<1>3. UNCHANGED <<rows, folded, gen, mem, tick>> /\ fill' = Idle /\ StoredAt' = StoredAt
  BY DEF FillUnsupported, StoredAt
<1>4. AllFooted(holes', StoredAt)
  BY <1>1, <1>2, DbTypes, MarkFooted DEF CInv, HolesFooted
<1> QED
  BY <1>3, <1>4, FillIdleCover, QuietFill DEF HolesFooted

(* The three steps a batch ends with: committed, refused, or failed with   *)
(* or without having been committed.                                       *)
LEMMA FillEndCover ==
  ASSUME IInv, CInv, DbStep, FillCommit \/ FillFails
  PROVE  CInv'
<1>1. FillCover'
  <2>1. fill'.pc \in {"idle", "failed"}
    BY IdleOK DEF FillCommit, FillFails
  <2> QED
    BY <2>1 DEF FillCover
<1>2. UNCHANGED <<mem, tick>>
  BY DEF FillCommit, FillFails
<1>3. CASE UNCHANGED db
  BY <1>1, <1>2, <1>3, SameHoles, QuietFill DEF db
<1>4. CASE fill.pc = "commit" /\ gen = fill.gen /\ FillTx
  BY <1>1, <1>2, <1>4, FillTxCover, TickCoverKept DEF CInv
<1> QED
  BY <1>3, <1>4 DEF FillCommit, FillFails

LEMMA FillAbandonCover ==
  ASSUME IInv, CInv, DbStep, FillDefer \/ FillGivesUp
  PROVE  CInv'
<1>1. UNCHANGED <<rows, folded, gen, mem, tick>> /\ fill' = Idle /\ StoredAt' = StoredAt
  BY DEF FillDefer, FillGivesUp, db, StoredAt
<1>2. HolesFooted'
  <2>1. CASE holes' = holes
    BY <1>1, <2>1, SameHoles
  <2>2. CASE fill.pc = "mark" /\ holes' = MarkHoles(holes, fill.marks)
    <3>1. fill.marks \in Marks
      BY <2>2, FillShape DEF IInv, FillInv, MarkFill
    <3>2. \A n \in DOMAIN fill.marks : fill.marks[n] \in Reasons
      BY <3>1 DEF Marks
    <3>3. AllFooted(holes', StoredAt)
      BY <2>2, <3>2, DbTypes, MarkFooted DEF CInv, HolesFooted
    <3> QED
      BY <1>1, <3>3 DEF HolesFooted
  <2> QED
    BY <2>1, <2>2 DEF FillDefer, FillGivesUp, db
<1> QED
  BY <1>1, <1>2, FillIdleCover, QuietFill

LEMMA FillRetryCover ==
  ASSUME IInv, CInv, DbStep, FillRetry
  PROVE  CInv'
<1>1. UNCHANGED <<rows, folded, gen, mem, tick>> /\ fill' = Idle /\ StoredAt' = StoredAt
  BY DEF FillRetry, StoredAt
<1>2. AllFooted(holes', StoredAt)
  BY DbTypes, RetryFooted DEF FillRetry, CInv, HolesFooted
<1> QED
  BY <1>1, <1>2, FillIdleCover, QuietFill DEF HolesFooted

-----------------------------------------------------------------------------
LEMMA CrashCover ==
  ASSUME IInv, CInv, Crash
  PROVE  CInv'
<1>1. /\ UNCHANGED <<rows, holes, folded, gen>> /\ mem' = Down /\ tick' = Idle /\ fill' = Idle
  BY DEF Crash, db
<1>2. mem'.head = 0 /\ mem'.up = FALSE
  BY <1>1 DEF Down
<1>3. HeadIn' /\ TickCover'
  BY <1>1, <1>2, TickPlaces DEF HeadIn, TickCover, TickCovers
<1> QED
  BY <1>1, <1>3, DbQuiet, FillIdleCover DEF CInv

LEMMA EnsureInitCover ==
  ASSUME IInv, CInv, EnsureInit, tick.pc = "idle"
  PROVE  CInv'
<1>1. rows \in Table /\ live' \in 0 .. MaxHeight
  BY OldestBlockType DEF IInv, DbInv, EnsureInit
<1>2. UNCHANGED <<rows, holes, folded, gen, tick, fill>>
  BY DEF EnsureInit
<1>3. /\ mem'.head \in 0 .. MaxHeight
      /\ IF mem'.head = 0 THEN StoredAt = {} ELSE mem'.head \in StoredAt
  <2> DEFINE m == [Down EXCEPT !.up = TRUE, !.live = live']
  <2>1. m \in Memory
    BY <1>1, DownType
  <2>2. mem' = ReloadHead(m, rows)
    BY DEF EnsureInit
  <2> HIDE DEF m
  <2> QED
    BY <1>1, <2>1, <2>2, HeadReloaded DEF StoredAt
<1>4. Between' /\ HolesFooted' /\ StoredAt' = StoredAt /\ gen' = gen
  BY <1>2, DbQuiet
<1>5. FillCover'
  BY <1>2, <1>4, FillCoverKept
<1>6. HeadIn'
  BY <1>3, <1>4 DEF HeadIn
<1>7. TickCover'
  BY <1>2 DEF TickCover, TickCovers
<1> QED
  BY <1>2, <1>4, <1>5, <1>6, <1>7 DEF CInv

(* Only a process that is up has a tick in flight. *)
Awake == tick.pc # "idle" => mem.up

LEMMA ReloadKeepsUp ==
  ASSUME NEW m \in Memory, NEW t
  PROVE  ReloadHead(m, t).up = m.up
  BY DEF ReloadHead, Memory

LEMMA StartClearedUp ==
  ASSUME mem \in Memory
  PROVE  StartCleared.up = mem.up
  BY DEF StartCleared, Memory

LEMMA AwakeStep ==
  ASSUME IInv, Awake, [Next]_vars
  PROVE  Awake'
<1>1. CASE tick' = Idle
  BY <1>1, IdleOK DEF Awake
<1>2. CASE UNCHANGED mem /\ (mem.up \/ tick.pc # "idle" \/ tick' = tick)
  BY <1>2 DEF Awake
<1>3. CASE RewindReload
  <2>1. mem \in Memory /\ StartCleared \in Memory
    BY StartClearedType DEF IInv
  <2>2. mem'.up = mem.up
    BY <1>3, <2>1, ReloadKeepsUp, StartClearedUp DEF RewindReload
  <2> QED
    BY <1>3, <2>2 DEF RewindReload, Awake
<1>4. CASE EnsureInit
  BY <1>4 DEF EnsureInit, Awake
<1>5. CASE FastLoop /\ ~ RewindReload /\ ~ Publish
  <2>1. UNCHANGED mem /\ (mem.up \/ tick.pc # "idle")
    BY <1>5 DEF FastLoop, TickSample, FetchHeaders, FailoverSkip, HeadersFetched, AncestorHeader,
                AncestorNoRow, Rewind, Persist
  <2> QED
    BY <1>2, <2>1
<1>6. CASE Publish \/ TickFails \/ AnswerLost \/ Crash
  BY <1>1, <1>6 DEF Publish, TickFails, AnswerLost, Crash
<1>7. CASE UNCHANGED vars \/ Mint \/ Reorg \/ Filler \/ FillDefer \/ FillFails \/ FillGivesUp
  <2>1. UNCHANGED <<mem, tick>>
    BY <1>7 DEF vars, Mint, Reorg, Filler, FillStep, FillPick, FillMark, FillFetch, FillUnsupported,
                FillCommit, FillRetry, FillDefer, FillFails, FillGivesUp
  <2> QED
    BY <1>2, <2>1
<1> QED
  BY <1>3, <1>4, <1>5, <1>6, <1>7 DEF Next

-----------------------------------------------------------------------------
LEMMA CoverInit == Init => CInv /\ Awake
<1> SUFFICES ASSUME Init PROVE CInv /\ Awake
  OBVIOUS
<1>1. StoredAt = {} /\ holes = {} /\ mem = Down /\ tick = Idle /\ fill = Idle
  BY NoRowsTable DEF Init, StoredAt
<1>2. mem.head = 0 /\ mem.up = FALSE /\ tick.pc = "idle" /\ fill.pc = "idle"
  BY <1>1, IdleOK DEF Down
<1> QED
  BY <1>1, <1>2 DEF CInv, Awake, Between, HolesFooted, AllFooted, HeadIn, TickCover, TickCovers, FillCover

LEMMA CoverStep ==
  ASSUME ~ Outage, IInv, CInv, Awake, [Next]_vars
  PROVE  CInv'
<1>1. TickInv' /\ DbStep
  BY StepHolds DEF Inductive, IInv
<1>2. CASE UNCHANGED vars \/ Mint \/ Reorg
  BY <1>2, Untouched DEF vars, Mint, Reorg, db
<1>3. CASE TickSample
  BY <1>3, TickSampleCover
<1>4. CASE FetchHeaders
  BY <1>1, <1>4, FetchHeadersCover
<1>5. CASE FailoverSkip
  BY <1>5, FailoverSkipCover
<1>6. CASE HeadersFetched
  BY <1>6, HeadersFetchedCover
<1>7. CASE AncestorHeader \/ AncestorNoRow
  BY <1>7, AncestorCover
<1>8. CASE Rewind
  BY <1>8, RewindCover
<1>9. CASE RewindReload
  BY <1>9, RewindReloadCover
<1>10. CASE Persist
  BY <1>10, PersistCover
<1>11. CASE Publish
  BY <1>11, PublishCover
<1>12. CASE TickFails
  BY <1>12, TickFailsCover
<1>13. CASE AnswerLost
  BY <1>13, AnswerLostCover
<1>14. CASE FillStep
  BY <1>1, <1>14, FillPickCover
<1>15. CASE FillMark
  BY <1>1, <1>15, FillMarkCover
<1>16. CASE FillFetch
  BY <1>1, <1>16, FillFetchCover
<1>17. CASE FillUnsupported
  BY <1>1, <1>17, FillUnsupportedCover
<1>18. CASE FillCommit \/ FillFails
  BY <1>1, <1>18, FillEndCover
<1>19. CASE FillRetry
  BY <1>1, <1>19, FillRetryCover
<1>20. CASE FillDefer \/ FillGivesUp
  BY <1>1, <1>20, FillAbandonCover
<1>21. CASE Crash
  BY <1>21, CrashCover
<1>22. CASE EnsureInit
  <2>1. tick.pc = "idle"
    BY <1>22 DEF EnsureInit, Awake
  <2> QED
    BY <1>22, <2>1, EnsureInitCover
<1> QED
  BY <1>2, <1>3, <1>4, <1>5, <1>6, <1>7, <1>8, <1>9, <1>10, <1>11, <1>12, <1>13, <1>14, <1>15,
     <1>16, <1>17, <1>18, <1>19, <1>20, <1>21, <1>22
     DEF Next, FastLoop, Filler

LEMMA BetweenIsNothingLost ==
  ASSUME IInv, Between
  PROVE  NothingLost
<1> SUFFICES ASSUME DOMAIN rows # {}, NEW n \in OldestBlock(rows) .. LatestBlock(rows)
             PROVE  n \in DOMAIN rows \cup Owed(holes) \cup folded
  BY DEF NothingLost
<1>1. rows \in Table
  BY DEF IInv, DbInv
<1>2. LatestBlock(rows) \in StoredAt /\ OldestBlock(rows) \in StoredAt
  BY <1>1, LatestBlockType, OldestBlockType DEF StoredAt
<1> QED
  BY <1>2 DEF Between, Covered, Recovered, StoredAt

(* No block between the oldest and the newest stored one is ever lost: it  *)
(* is stored, folded, or part of a recorded missing range, for every       *)
(* number of blocks, reorgs, faults and restarts, every catch-up budget    *)
(* and every outcome of a replay, as long as the reload that follows a     *)
(* failed tick (fail, reloadHeadLocked) is not itself refused.             *)
THEOREM NothingLostHolds == ~ Outage /\ Spec => []NothingLost
<1>1. Init => IInv /\ CInv /\ Awake
  BY InitHolds, CoverInit
<1>2. ASSUME ~ Outage
      PROVE  IInv /\ CInv /\ Awake /\ [Next]_vars => (IInv /\ CInv /\ Awake)'
  BY <1>2, StepHolds, CoverStep, AwakeStep DEF Inductive
<1>3. IInv /\ CInv => NothingLost
  BY BetweenIsNothingLost DEF CInv
<1>4. CASE Outage
  BY <1>4
<1>5. CASE ~ Outage
  <2>1. IInv /\ CInv /\ Awake /\ [Next]_vars => (IInv /\ CInv /\ Awake)'
    BY <1>2, <1>5
  <2> QED
    BY <1>1, <1>3, <2>1, PTL DEF Spec
<1> QED
  BY <1>4, <1>5

-----------------------------------------------------------------------------
(***************************************************************************)
(* Links.  The stored blocks form one chain, memory knows its head, and    *)
(* only a rewind replaces a row, until a rewind crosses a hole.  The       *)
(* argument is that a missing range is bounded by stored blocks and no two *)
(* touch, so that each writer's batch ends against the rows it was checked *)
(* with.                                                                   *)
(***************************************************************************)
(* Tables and missing ranges. *)
Linear(t) == \A n \in DOMAIN t : n + 1 \in DOMAIN t => t[n + 1].p = t[n].v
Extends(u, t) == \A n \in DOMAIN t : n \in DOMAIN u /\ u[n] = t[n]

(* u adds blocks only between blocks of t. *)
Inside(u, t) ==
    /\ Extends(u, t)
    /\ \A n \in DOMAIN u \ DOMAIN t : \E a, b \in DOMAIN t : a < n /\ n < b

(* There is a height between the two ranges that neither has. *)
Apart(h, k) == h.to + 1 < k.from \/ k.to + 1 < h.from
Separate(H) == \A h, k \in H : h = k \/ Apart(h, k)

(* Stored blocks at both ends and none where the range is to be filled. *)
Gap(h, t) ==
    /\ h.from - 1 \in DOMAIN t /\ h.to + 1 \in DOMAIN t
    /\ h.next <= h.to
    /\ \A n \in Start(h) .. h.to : n \notin DOMAIN t
Gaps(H, t) == \A h \in H : Gap(h, t)

(* Ranges that differ at most in their mark, lifecycle and replay state. *)
Same(h, k) == h.from = k.from /\ h.to = k.to /\ h.next = k.next
Alike(G, H) == \A g \in G : \E h \in H : Same(g, h)

-----------------------------------------------------------------------------
(* Ranges that do not touch are left as they are by normalizeHoles. *)
LEMMA NormalizeSeparate ==
  ASSUME NEW G, HoleSet(MaxHeight, Hash, G), Separate(NonEmpty(G)), NEW last
  PROVE  NormalizeLast(G, last) = NonEmpty(G)
<1> DEFINE N == NonEmpty(G)
<1>1. \A h \in N : /\ h \in HoleRecords(MaxHeight, Hash) /\ h.from <= h.to
                   /\ h.from \in Int /\ h.to \in Int /\ h.next \in Int
  BY DEF NonEmpty, HoleSet, HoleRecords
<1>2. HoleSet(MaxHeight, Hash, N) /\ MaxHeight \in Nat
  BY <1>1, FollowerAssumption DEF HoleSet
<1>3. Separate(N) /\ NormalizeLast(G, last) = {Merged(Group(N, s, last), s) : s \in {h \in N : Opens(N, h, last)}}
  BY DEF NormalizeLast
<1> HIDE DEF N
<1>4. ASSUME NEW h \in N PROVE Opens(N, h, last)
  <2> SUFFICES ASSUME NEW k \in N, SameRun(N, k, h, last) PROVE h.from > k.to + 1
    BY DEF Opens
  <2>1. k.from <= h.from /\ k # h
    BY <1>2, BeforeOrders DEF SameRun
  <2>2. Apart(h, k)
    BY <1>3, <2>1 DEF Separate
  <2> QED
    BY <1>1, <2>1, <2>2 DEF Apart
<1>5. ASSUME NEW s \in N PROVE Merged(Group(N, s, last), s) = s
  <2>1. Group(N, s, last) = {s}
    BY <1>4 DEF Group
  <2> DEFINE lead == CHOOSE h \in {s} : h.from = s.from /\ \A k \in {s} : k.from = s.from => k.next <= h.next
  <2>2. lead = s
    BY <1>1
  <2>3. Max({h.to : h \in {s}}) = s.to
    <3>1. {h.to : h \in {s}} = {s.to} /\ {s.to} \in SUBSET Int /\ {s.to} # {} /\ s.to \in Int /\ \A x \in {s.to} : x <= s.to
      BY <1>1
    <3>2. Max({s.to}) \in {s.to}
      BY <3>1, MaxOfBounded, Zenon
    <3> QED
      BY <3>1, <3>2
  <2>4. Merged({s}, s) = [from |-> s.from, to |-> Max({h.to : h \in {s}}), next |-> lead.next, st |-> lead.st,
           life |-> IF \E h \in {s} : h.life = "retrying" THEN "retrying" ELSE s.life,
           reason |-> s.reason]
    BY DEF Merged
  <2> HIDE DEF lead
  <2>5. (IF \E h \in {s} : h.life = "retrying" THEN "retrying" ELSE s.life) = s.life
    OBVIOUS
  <2>6. Merged({s}, s) = [from |-> s.from, to |-> s.to, next |-> s.next, st |-> s.st,
                          life |-> s.life, reason |-> s.reason]
    BY <2>2, <2>3, <2>4, <2>5
  <2>7. s = [from |-> s.from, to |-> s.to, next |-> s.next, st |-> s.st,
             life |-> s.life, reason |-> s.reason]
    BY <1>1 DEF HoleRecords
  <2> QED
    BY <2>1, <2>6, <2>7
<1>6. {h \in N : Opens(N, h, last)} = N
  BY <1>4
<1>7. NormalizeLast(G, last) = N
  BY <1>3, <1>5, <1>6
<1> QED
  BY <1>7 DEF N

(* Editing ranges without moving them keeps them apart and in their gaps. *)
LEMMA UnmovedSeparate ==
  ASSUME NEW H, Separate(H), NEW G, UniqueStarts(G),
         \A g \in G : \E h \in H : g.from = h.from /\ g.to = h.to,
         \A h \in H : h.from <= h.to /\ h.from \in Int /\ h.to \in Int
  PROVE  Separate(G) /\ G = NonEmpty(G)
<1>1. \A g \in G : \E h \in H : g.from = h.from /\ g.to = h.to
  OBVIOUS
<1>2. ASSUME NEW g \in G, NEW k \in G, g # k PROVE Apart(g, k)
  <2>1. PICK a \in H : g.from = a.from /\ g.to = a.to
    BY <1>1
  <2>2. PICK b \in H : k.from = b.from /\ k.to = b.to
    BY <1>1
  <2>3. g.from # k.from
    BY <1>2 DEF UniqueStarts
  <2>4. Apart(a, b)
    BY <2>1, <2>2, <2>3 DEF Separate
  <2> QED
    BY <2>1, <2>2, <2>4 DEF Apart
<1>3. G = NonEmpty(G)
  BY <1>1 DEF NonEmpty
<1> QED
  BY <1>2, <1>3 DEF Separate

LEMMA AlikeGaps ==
  ASSUME NEW H, NEW G, Alike(G, H), NEW t, Gaps(H, t)
  PROVE  Gaps(G, t)
<1> SUFFICES ASSUME NEW g \in G PROVE Gap(g, t)
  BY DEF Gaps
<1>1. PICK h \in H : Same(g, h) /\ Gap(h, t)
  BY DEF Alike, Gaps
<1>2. Start(g) = Start(h)
  BY <1>1 DEF Same, Start
<1> QED
  BY <1>1, <1>2 DEF Gap, Same

(* The marks and the retry lifecycle move nothing. *)
LEMMA MarkAlike ==
  ASSUME Stored(MaxHeight, Hash, holes), Separate(holes),
         NEW m, \A n \in DOMAIN m : m[n] \in Reasons
  PROVE  LET G == MarkHoles(holes, m)
         IN  Separate(G) /\ Alike(G, holes) /\ Alike(holes, G)
<1> DEFINE Mark(h) == IF h.from \in DOMAIN m
                        THEN [h EXCEPT !.reason = m[h.from], !.life = "blocked"] ELSE h
           G == {Mark(h) : h \in holes}
           last == NewHole(0, 0, "pending", "")
<1>1. \A h \in holes : /\ Mark(h) \in HoleRecords(MaxHeight, Hash) /\ Same(Mark(h), h)
                       /\ h.from <= h.to /\ h.from \in Int /\ h.to \in Int
  <2> TAKE h \in holes
  <2>1. h \in HoleRecords(MaxHeight, Hash) /\ h.from <= h.to
    BY DEF Stored, NonEmpty
  <2>2. Mark(h) \in HoleRecords(MaxHeight, Hash)
    BY <2>1 DEF HoleRecords, Lifecycles
  <2>3. Mark(h).from = h.from /\ Mark(h).to = h.to /\ Mark(h).next = h.next
    BY <2>1 DEF HoleRecords
  <2> QED
    BY <2>1, <2>2, <2>3 DEF HoleRecords, Same
<1>2. MarkHoles(holes, m) = NormalizeLast(G, last)
  BY DEF MarkHoles, Normalize
<1> HIDE DEF Mark, last
<1>3. HoleSet(MaxHeight, Hash, G) /\ UniqueStarts(G)
  BY <1>1 DEF HoleSet, UniqueStarts, Stored, Same
<1>4. Alike(G, holes) /\ Alike(holes, G)
  <2>1. \A h \in holes : Same(h, Mark(h))
    BY <1>1 DEF Same
  <2> QED
    BY <1>1, <2>1 DEF Alike
<1> HIDE DEF G
<1>5. Separate(G) /\ G = NonEmpty(G)
  <2>1. \A g \in G : \E h \in holes : g.from = h.from /\ g.to = h.to
    BY <1>4 DEF Alike, Same
  <2> QED
    BY <1>1, <1>3, <2>1, UnmovedSeparate
<1>6. NormalizeLast(G, last) = G
  BY <1>3, <1>5, NormalizeSeparate
<1> QED
  BY <1>2, <1>4, <1>5, <1>6

LEMMA RetryAlike ==
  ASSUME Stored(MaxHeight, Hash, holes), Separate(holes), NEW attempted
  PROVE  LET G == RecordFillFailure(holes, attempted)
         IN  Separate(G) /\ Alike(G, holes) /\ Alike(holes, G)
<1> DEFINE hit == {h \in holes : h.from <= attempted.from /\ h.to >= attempted.to}
           first == CHOOSE h \in hit : \A k \in hit : h.from <= k.from
           failed == [first EXCEPT !.life = "retrying"]
           G == (holes \ {first}) \cup {failed}
           last == NewHole(0, 0, "pending", "")
<1>1. CASE hit = {}
  <2>1. RecordFillFailure(holes, attempted) = holes
    BY <1>1 DEF RecordFillFailure
  <2> QED
    BY <2>1 DEF Alike, Same
<1>2. CASE hit # {}
  <2>1. first \in holes
    <3>1. hit \in SUBSET HoleRecords(MaxHeight, Hash) /\ MaxHeight \in Nat
      BY FollowerAssumption DEF Stored, NonEmpty
    <3> HIDE DEF hit
    <3>2. first \in hit
      BY <1>2, <3>1, LowestHole
    <3> QED
      BY <3>2 DEF hit
  <2>2. RecordFillFailure(holes, attempted) = NormalizeLast(G, last)
    BY <1>2 DEF RecordFillFailure, Normalize
  <2> HIDE DEF first, last
  <2>3. /\ failed \in HoleRecords(MaxHeight, Hash)
        /\ Same(failed, first) /\ Same(first, failed)
    BY <2>1 DEF Stored, NonEmpty, HoleRecords, Lifecycles, Same
  <2> HIDE DEF failed
  <2>4. HoleSet(MaxHeight, Hash, G) /\ UniqueStarts(G)
    BY <2>1, <2>3 DEF HoleSet, UniqueStarts, Stored, NonEmpty, Same
  <2>5. Alike(G, holes) /\ Alike(holes, G)
    BY <2>1, <2>3 DEF Alike, Same
  <2>6. \A h \in holes : h.from <= h.to /\ h.from \in Int /\ h.to \in Int
    BY DEF Stored, NonEmpty, HoleRecords
  <2> HIDE DEF G
  <2>7. Separate(G) /\ G = NonEmpty(G)
    <3>1. \A g \in G : \E h \in holes : g.from = h.from /\ g.to = h.to
      BY <2>5 DEF Alike, Same
    <3> QED
      BY <2>4, <2>6, <3>1, UnmovedSeparate
  <2>8. NormalizeLast(G, last) = G
    BY <2>4, <2>7, NormalizeSeparate
  <2> QED
    BY <2>2, <2>5, <2>7, <2>8
<1> QED
  BY <1>1, <1>2

-----------------------------------------------------------------------------
(* The newest block of a table. *)
LEMMA LatestBounds ==
  ASSUME NEW t \in Table
  PROVE  \A n \in DOMAIN t : n <= LatestBlock(t)
<1> SUFFICES ASSUME NEW n \in DOMAIN t PROVE n <= LatestBlock(t)
  OBVIOUS
<1> DEFINE S == DOMAIN t
<1>1. S \in SUBSET Int /\ S # {} /\ MaxHeight \in Int /\ \A x \in S : x <= MaxHeight
  BY TableEntries, FollowerAssumption DEF Height
<1>2. LatestBlock(t) = Max(S)
  BY DEF LatestBlock
<1>3. n \in S
  OBVIOUS
<1> HIDE DEF S
<1> QED
  BY <1>1, <1>2, <1>3, MaxOfBounded

LEMMA LatestIs ==
  ASSUME NEW t \in Table, NEW n \in DOMAIN t, \A k \in DOMAIN t : k <= n
  PROVE  LatestBlock(t) = n
<1>1. LatestBlock(t) \in DOMAIN t
  BY LatestBlockType
<1>2. LatestBlock(t) <= n /\ n <= LatestBlock(t)
  BY <1>1, LatestBounds
<1>3. n \in Int /\ LatestBlock(t) \in Int
  BY <1>1, TableEntries DEF Height
<1> QED
  BY <1>2, <1>3

LEMMA LatestInside ==
  ASSUME NEW t \in Table, NEW u \in Table, Inside(u, t)
  PROVE  LatestBlock(u) = LatestBlock(t)
<1>1. CASE DOMAIN t = {}
  BY <1>1 DEF Inside, LatestBlock
<1>2. CASE DOMAIN t # {}
  <2> DEFINE n == LatestBlock(t)
  <2>1. n \in DOMAIN t /\ \A k \in DOMAIN t : k <= n
    BY <1>2, LatestBlockType, LatestBounds
  <2>2. \A k \in DOMAIN u : k \in Int
    BY TableEntries DEF Height
  <2>3. \A k \in DOMAIN t : k \in Int
    BY TableEntries DEF Height
  <2> HIDE DEF n
  <2>4. n \in DOMAIN u
    BY <2>1 DEF Inside, Extends
  <2>5. \A k \in DOMAIN u : k <= n
    BY <2>1, <2>2, <2>3 DEF Inside
  <2>6. LatestBlock(u) = n
    BY <2>4, <2>5, LatestIs
  <2> QED
    BY <2>6 DEF n
<1> QED
  BY <1>1, <1>2

-----------------------------------------------------------------------------
(* The inductive invariant.  The chain's blocks link, and a block's hash   *)
(* is not lower than its parent's; a sample is a block the nodes reported, *)
(* so that one with the latest hash still lies on the chain.               *)
ChainInv ==
    \A n \in 1 .. Len(chain) :
        /\ chain[n].v <= forks /\ chain[n].p <= chain[n].v
        /\ n > 1 => chain[n].p = chain[n - 1].v

Reported(s) == s.v <= forks /\ s.p <= s.v /\ (s.v = forks => s.n <= Len(chain))
SampleInv == tick.pc # "idle" => Reported(tick.sample)

(* The database: one chain of rows, every range in a gap of its own. *)
DbLink == Linear(rows) /\ Separate(holes) /\ Gaps(holes, rows)

HeadIs(n, v) == n = LatestBlock(rows) /\ (n # 0 => rows[n].v = v)

HeadLink(m, t) ==
    /\ t.pc # "idle" => m.up
    /\ m.up /\ t.pc \notin {"publish", "reload"} => HeadIs(m.head, m.hash)

(* What a catch-up after a rewind to block a relies on, as it no longer    *)
(* compares the parent of its first header: a chain that has the sampled   *)
(* block goes through the stored block a.                                  *)
Returns(a, s) ==
    /\ a + 1 < s.n
    /\ a + 1 <= Len(chain) /\ chain[a + 1].v <= s.v => chain[a + 1].p = rows[a].v

Fetching(m, t) ==
    /\ t.stored = m.head /\ m.head # 0 /\ m.head + Len(t.headers) < t.sample.n
    /\ t.again =>
         /\ Returns(m.head, t.sample)
         /\ t.headers # <<>> /\ t.headers[1].v <= t.sample.v => t.headers[1].p = m.hash
    /\ \A i \in 1 .. Len(t.headers) : t.headers[i].p <= t.headers[i].v

Walking(t) ==
    /\ Extends(rows, t.recent)
    /\ t.why = "same" => t.n < t.sample.n
    /\ t.why = "parent" => t.n + 1 < t.sample.n

Rewinding(t) ==
    /\ IF t.ancestor \in DOMAIN rows THEN t.why = "parent" => Returns(t.ancestor, t.sample)
       ELSE \A n \in DOMAIN rows : n > t.ancestor
    /\ t.why # "behind" => t.ancestor < t.sample.n
    /\ t.pc = "reload" => \A n \in DOMAIN rows : n <= t.ancestor

(* What a persist adds continues the stored head: nothing, the first       *)
(* block, every block up to the sample, or the sample above a range.       *)
Continues(m, s, t, hole) ==
    \/ DOMAIN t = {} /\ hole = {} /\ m.head # 0 /\ s.n = m.head /\ s.v = m.hash
    \/ DOMAIN t = {s.n} /\ hole = {} /\ m.head = 0
    \/ /\ m.head # 0 /\ m.head < s.n /\ hole = {}
       /\ DOMAIN t = m.head + 1 .. s.n /\ t[m.head + 1].p = m.hash
    \/ /\ m.head # 0 /\ m.head < s.n /\ hole # {}
       /\ DOMAIN t = {s.n} /\ (m.head + 1 = s.n => t[s.n].p = m.hash)
       /\ \A h \in hole : h.from = m.head + 1 /\ h.to = s.n - 1 /\ h.next = 0

Persisting(m, t) ==
    /\ Continues(m, t.sample, t.rows, t.hole) /\ Linear(t.rows)
    /\ t.sample.n \in DOMAIN t.rows => t.rows[t.sample.n].v = t.sample.v

PlaceLink(m, t) ==
    /\ t.pc = "fetch" => Fetching(m, t)
    /\ t.pc = "ancestor" => Walking(t)
    /\ t.pc \in {"rewind", "reload"} => Rewinding(t)
    /\ t.pc = "persist" => Persisting(m, t)
    /\ t.pc = "publish" => HeadIs(t.sample.n, t.sample.v)

(* A fill step of the stored generation works on a range that is still     *)
(* there, from the block it was picked with.                               *)
FollowsOn(h, hash) == Start(h) - 1 \in DOMAIN rows => rows[Start(h) - 1].v = hash
Begun(g, h, hash) == g = gen => (\E c \in holes : Same(c, h)) /\ FollowsOn(h, hash)

Committing(f) ==
    /\ Linear(f.rows)
    /\ Begun(f.gen, f.hole, f.rows[Start(f.hole)].p)
    /\ f.gen = gen =>
         /\ Extends(rows, f.tail)
         /\ f.next = f.hole.to + 1 => rows[f.hole.to + 1].p = f.rows[f.hole.to].v

FillLink ==
    /\ fill.pc = "fetch" => Begun(fill.gen, fill.hole, fill.hash)
    /\ fill.pc = "mark" /\ fill.target.pc = "fetch" =>
         Begun(fill.target.gen, fill.target.hole, fill.target.hash)
    /\ fill.pc = "commit" => Committing(fill)

LinkInv == DbLink /\ HeadLink(mem, tick) /\ PlaceLink(mem, tick) /\ FillLink
LInv == ChainInv /\ SampleInv /\ (~ crossed => LinkInv)

(* What a step does unless it crosses a hole: the invariant is kept, and a *)
(* row is replaced or removed only with the generation bumped.             *)
LinkStep == LinkInv' /\ (gen' = gen => Extends(rows', rows))

-----------------------------------------------------------------------------
(* The transactions. *)
LEMMA LinkTypes ==
  ASSUME IInv
  PROVE  /\ rows \in Table /\ gen \in Nat /\ Stored(MaxHeight, Hash, holes)
         /\ \A n \in DOMAIN rows : n \in 1 .. MaxHeight /\ n \in Nat
         /\ \A h \in holes : /\ h \in Hole /\ h.from <= h.to
                             /\ h.from \in Nat /\ h.to \in Nat /\ h.next \in Nat /\ Start(h) \in Nat
                             /\ h.from <= Start(h)
<1>1. rows \in Table /\ gen \in Nat /\ Stored(MaxHeight, Hash, holes)
  BY DEF IInv, DbInv
<1>2. \A n \in DOMAIN rows : n \in 1 .. MaxHeight /\ n \in Nat
  BY <1>1, TableEntries, FollowerAssumption DEF Height
<1>3. \A h \in holes : h \in Hole /\ h.from <= h.to
  BY <1>1 DEF Stored, NonEmpty, Hole
<1>4. \A h \in Hole : h.from \in Nat /\ h.to \in Nat /\ h.next \in Nat
  BY FollowerAssumption DEF Hole, HoleRecords
<1>5. \A h \in holes : Start(h) \in Nat /\ h.from <= Start(h)
  BY <1>3, <1>4 DEF Start
<1> QED
  BY <1>1, <1>2, <1>3, <1>4, <1>5

(* A rewind that crosses no range leaves them all, below the ancestor. *)
LEMMA RewindTxLink ==
  ASSUME IInv, DbLink, tick \in RewindTick, RewindTx, ~ crossed'
  PROVE  /\ DbLink' /\ gen' = gen + 1
         /\ DOMAIN rows' = {n \in DOMAIN rows : n <= tick.ancestor}
         /\ Extends(rows, rows')
<1> DEFINE a == tick.ancestor
           kept == {n \in DOMAIN rows : n <= a}
<1>1. a \in Nat
  BY DEF RewindTick
<1>2. rows' = [n \in kept |-> rows[n]] /\ gen' = gen + 1 /\ holes' = RewindHoles(holes, a)
  BY DEF RewindTx, BlocksUpTo, Restrict
<1>3. \A h \in holes : h.to < a
  <2>1. \A h \in holes : ~ (h.to >= a)
    BY DEF RewindTx
  <2> QED
    BY <1>1, <2>1, LinkTypes
<1> HIDE DEF a
<1>4. \A h \in holes : Gap(h, rows) /\ h.next \in Nat /\ h.from \in Nat /\ h.to \in Nat /\ h.from <= h.to
  BY LinkTypes DEF DbLink, Gaps
<1>5. holes' = holes
  <2>1. {h \in holes : h.next > 0 /\ h.next - 1 > a} = {}
    BY <1>1, <1>3, <1>4 DEF Gap
  <2> QED
    BY <1>2, <2>1 DEF RewindHoles
<1>6. DOMAIN rows' = kept /\ \A n \in kept : rows'[n] = rows[n]
  BY <1>2
<1>7. Linear(rows')
  BY <1>6 DEF DbLink, Linear
<1>8. Gaps(holes, rows')
  <2> SUFFICES ASSUME NEW h \in holes PROVE Gap(h, rows')
    BY DEF Gaps
  <2>1. h.from - 1 <= a /\ h.to + 1 <= a
    BY <1>1, <1>3, <1>4
  <2> QED
    BY <1>4, <1>6, <2>1 DEF Gap
<1>9. Extends(rows, rows')
  BY <1>6 DEF Extends
<1>10. DbLink'
  BY <1>5, <1>7, <1>8 DEF DbLink
<1> QED
  BY <1>2, <1>6, <1>9, <1>10 DEF a

(* What persist adds lies above every stored block and every range.  The   *)
(* new range, if any, starts just above the old head.                      *)
LEMMA PersistTxLink ==
  ASSUME IInv, LinkInv, tick.pc = "persist", PersistTx
  PROVE  /\ DbLink' /\ gen' = gen /\ Extends(rows', rows)
         /\ LatestBlock(rows') = tick.sample.n /\ rows'[tick.sample.n].v = tick.sample.v
         /\ \A h \in holes : /\ h \in holes'
                             /\ \A n \in DOMAIN rows' \ DOMAIN rows : h.to + 1 < n
<1> DEFINE s == tick.sample
           new == tick.rows
           head == mem.head
<1>1. /\ tick \in PersistTick /\ s.n \in Nat /\ s.n >= 1 /\ new \in Table
      /\ tick.hole \in SUBSET Hole /\ head \in Nat
  <2>1. tick \in PersistTick
    BY TickShape DEF IInv, TickInv, TickOK
  <2>2. s \in Sample /\ new \in Table /\ tick.hole \in SUBSET Hole
    BY <2>1 DEF PersistTick, Maybe
  <2>3. head \in Nat
    BY MemoryField, FollowerAssumption DEF IInv
  <2> QED
    BY <2>1, <2>2, <2>3, FollowerAssumption DEF Sample, Height
<1>2. /\ Continues(mem, s, new, tick.hole) /\ Linear(new)
      /\ s.n \in DOMAIN new => new[s.n].v = s.v
  BY DEF LinkInv, PlaceLink, Persisting
<1>3. /\ head = LatestBlock(rows) /\ (head # 0 => rows[head].v = mem.hash)
      /\ Linear(rows) /\ Separate(holes) /\ Gaps(holes, rows)
  <2>1. tick.pc # "idle" /\ tick.pc \notin {"publish", "reload"}
    OBVIOUS
  <2> QED
    BY <2>1, Zenon DEF LinkInv, HeadLink, HeadIs, DbLink
<1>4. /\ rows \in Table /\ \A n \in DOMAIN rows : n \in Nat /\ n >= 1 /\ n <= head
      /\ IF head = 0 THEN DOMAIN rows = {} ELSE head \in DOMAIN rows
  BY <1>3, LinkTypes, LatestBounds, LatestBlockType
<1>5. gen' = gen /\ rows' = UpsertBlocks(rows, new)
  BY DEF PersistTx
<1>6. /\ rows' \in Table /\ DOMAIN rows' = DOMAIN rows \cup DOMAIN new
      /\ \A n \in DOMAIN rows' : rows'[n] = IF n \in DOMAIN new THEN new[n] ELSE rows[n]
  <2>1. rows' \in Table /\ DOMAIN rows' = DOMAIN rows \cup DOMAIN new
    BY <1>1, <1>4, <1>5, UpsertTable
  <2> QED
    BY <1>5, <2>1 DEF UpsertBlocks
<1>7. \A n \in DOMAIN new : n \in Nat /\ head < n /\ n <= s.n
  <2>1. \A n \in DOMAIN new : n \in Nat
    BY <1>1, TableEntries, FollowerAssumption DEF Height
  <2> QED
    BY <1>1, <1>2, <2>1 DEF Continues
<1>8. head # 0 /\ head + 1 \in DOMAIN new => new[head + 1].p = mem.hash
  BY <1>1, <1>2 DEF Continues
<1>9. IF DOMAIN new = {} THEN head # 0 /\ s.n = head /\ s.v = mem.hash ELSE s.n \in DOMAIN new
  BY <1>1, <1>2 DEF Continues
<1> HIDE DEF s, new, head
<1>10. Extends(rows', rows)
  BY <1>4, <1>6, <1>7 DEF Extends
<1>11. Linear(rows')
  <2> SUFFICES ASSUME NEW n \in DOMAIN rows', n + 1 \in DOMAIN rows'
               PROVE  rows'[n + 1].p = rows'[n].v
    BY DEF Linear
  <2>1. CASE n \in DOMAIN new /\ n + 1 \in DOMAIN new
    BY <1>2, <1>6, <2>1 DEF Linear
  <2>2. CASE n \notin DOMAIN new /\ n + 1 \notin DOMAIN new
    BY <1>3, <1>6, <2>2 DEF Linear
  <2>3. CASE n \notin DOMAIN new /\ n + 1 \in DOMAIN new
    <3>1. n \in DOMAIN rows /\ n = head /\ head # 0
      BY <1>1, <1>4, <1>6, <1>7, <2>3
    <3> QED
      BY <1>3, <1>6, <1>8, <2>3, <3>1
  <2>4. CASE n \in DOMAIN new /\ n + 1 \notin DOMAIN new
    BY <1>1, <1>4, <1>6, <1>7, <2>4
  <2> QED
    BY <2>1, <2>2, <2>3, <2>4
<1>12. LatestBlock(rows') = s.n /\ rows'[s.n].v = s.v
  <2>1. s.n \in DOMAIN rows' /\ rows'[s.n].v = s.v
    BY <1>2, <1>3, <1>4, <1>6, <1>9
  <2>2. \A n \in DOMAIN rows' : n <= s.n
    BY <1>1, <1>4, <1>6, <1>7, <1>9
  <2> QED
    BY <1>6, <2>1, <2>2, LatestIs
<1>13. \A h \in holes : /\ h.from \in Nat /\ h.to \in Nat /\ h.next \in Nat /\ Start(h) \in Nat /\ h.from <= h.to
                        /\ h.to + 1 <= head /\ Gap(h, rows)
  BY <1>3, <1>4, LinkTypes DEF Gaps, Gap
<1>14. \A h \in holes : Gap(h, rows') /\ \A n \in DOMAIN rows' \ DOMAIN rows : h.to + 1 < n
  BY <1>1, <1>4, <1>6, <1>7, <1>13 DEF Gap
<1>15. CASE tick.hole = {}
  <2>1. holes' = holes
    BY <1>15 DEF PersistTx
  <2> QED
    BY <1>3, <1>5, <1>10, <1>11, <1>12, <1>14, <2>1 DEF DbLink, Gaps, s
<1>16. CASE tick.hole # {}
  <2> DEFINE k == CHOOSE h \in tick.hole : TRUE
             G == holes \cup {k}
  <2>1. k \in tick.hole
    BY <1>16
  <2>2. holes' = NormalizeLast(G, k)
    BY <1>16 DEF PersistTx, RecordHole
  <2> HIDE DEF k
  <2>3. /\ k \in Hole /\ k.from = head + 1 /\ k.to = s.n - 1 /\ k.next = 0
        /\ DOMAIN new = {s.n} /\ head # 0 /\ head < s.n
    BY <1>1, <1>2, <1>16, <2>1 DEF Continues, head
  <2>4. HoleSet(MaxHeight, Hash, G)
    BY <2>3, LinkTypes DEF HoleSet, Stored, NonEmpty, Hole
  <2>5. Separate(NonEmpty(G))
    <3>1. \A h \in holes : Apart(h, k) /\ Apart(k, h)
      BY <1>1, <1>13, <2>3 DEF Apart
    <3> QED
      BY <1>3, <3>1 DEF Separate, NonEmpty
  <2>6. holes' = NonEmpty(G)
    BY <2>2, <2>4, <2>5, NormalizeSeparate
  <2>7. k.from <= k.to => Gap(k, rows')
    <3>1. Start(k) = head + 1
      BY <1>1, <2>3 DEF Start
    <3>2. k.from - 1 \in DOMAIN rows' /\ k.to + 1 \in DOMAIN rows'
      BY <1>1, <1>4, <1>6, <2>3
    <3>3. \A n \in head + 1 .. s.n - 1 : n \notin DOMAIN rows'
      BY <1>1, <1>4, <1>6, <2>3
    <3>4. k.next <= k.to
      BY <1>1, <2>3
    <3> QED
      BY <2>3, <3>1, <3>2, <3>3, <3>4 DEF Gap
  <2>8. \A h \in holes : h \in holes'
    BY <1>13, <2>6 DEF NonEmpty
  <2>9. Gaps(holes', rows')
    BY <1>14, <2>6, <2>7 DEF Gaps, NonEmpty
  <2> QED
    BY <1>5, <1>10, <1>11, <1>12, <1>14, <2>5, <2>6, <2>8, <2>9 DEF DbLink, s
<1> QED
  BY <1>15, <1>16

(* A batch of the stored generation fills the lower end of its gap: it     *)
(* continues the block before it and, when it is the last one, is          *)
(* continued by the block after it.                                        *)
LEMMA FillTxLink ==
  ASSUME IInv, DbLink, FillLink, fill.pc = "commit", gen = fill.gen, FillTx
  PROVE  DbLink' /\ gen' = gen /\ Inside(rows', rows)
<1> DEFINE h == fill.hole
           t == fill.rows
           b == fill.next
           base == IF mem.live = 0 THEN NoRows ELSE t
           under == UpsertBlocks(rows, base)
           e == Max(DOMAIN t)
           g == Updated(h, b, t[e].v, "pending", h.reason)
<1>1. fill \in CommitFill /\ h \in Hole /\ t \in Table /\ fill.tail \in Table /\ b \in Nat
  BY FillShape DEF IInv, FillInv, CommitFill
<1>2. DOMAIN t = Start(h) .. b - 1 /\ Start(h) < b /\ b <= h.to + 1
  BY DEF IInv, FillInv
<1>3. PICK c \in holes : Same(c, h)
  BY DEF FillLink, Committing, Begun
<1>4. /\ Linear(t) /\ FollowsOn(h, t[Start(h)].p) /\ Extends(rows, fill.tail)
      /\ b = h.to + 1 => rows[h.to + 1].p = t[h.to].v
  BY DEF FillLink, Committing, Begun
<1>5. /\ rows \in Table /\ Linear(rows) /\ Separate(holes) /\ Gaps(holes, rows)
      /\ Stored(MaxHeight, Hash, holes)
  BY LinkTypes DEF DbLink
<1>6. /\ h.from = c.from /\ h.to = c.to /\ h.next = c.next /\ Start(h) = Start(c)
      /\ h.from \in Nat /\ h.to \in Nat /\ Start(h) \in Nat /\ h.from <= Start(h)
  BY <1>3, LinkTypes DEF Same, Start
<1>7. /\ h.from - 1 \in DOMAIN rows /\ h.to + 1 \in DOMAIN rows
      /\ \A n \in Start(h) .. h.to : n \notin DOMAIN rows
  BY <1>3, <1>5, <1>6 DEF Gaps, Gap
<1>8. base \in Table /\ DOMAIN base \subseteq DOMAIN t /\ \A n \in DOMAIN base : base[n] = t[n]
  BY <1>1, NoRowsTable
<1>9. gen' = gen /\ rows' = UpsertBlocks(under, fill.tail)
  BY DEF FillTx
<1>10. \A n \in DOMAIN t : n \in Nat /\ Start(h) <= n /\ n <= b - 1 /\ n <= h.to /\ n \notin DOMAIN rows
  BY <1>1, <1>2, <1>6, <1>7
<1>11. \A n \in DOMAIN rows : n \in Nat
  BY LinkTypes
<1> HIDE DEF base
<1>12. /\ rows' \in Table /\ DOMAIN rows' = DOMAIN rows \cup DOMAIN base
       /\ \A n \in DOMAIN rows' : rows'[n] = IF n \in DOMAIN rows THEN rows[n] ELSE t[n]
  <2>1. under \in Table /\ DOMAIN under = DOMAIN rows \cup DOMAIN base
    BY <1>5, <1>8, UpsertTable
  <2>2. \A n \in DOMAIN under : under[n] = IF n \in DOMAIN base THEN base[n] ELSE rows[n]
    BY <2>1 DEF UpsertBlocks
  <2> HIDE DEF under
  <2>3. rows' \in Table /\ DOMAIN rows' = DOMAIN under \cup DOMAIN fill.tail
    BY <1>1, <1>9, <2>1, UpsertTable
  <2>4. \A n \in DOMAIN rows' : rows'[n] = IF n \in DOMAIN fill.tail THEN fill.tail[n] ELSE under[n]
    BY <1>9, <2>3 DEF UpsertBlocks
  <2> QED
    BY <1>4, <1>8, <1>10, <2>1, <2>2, <2>3, <2>4 DEF Extends
<1>13. Inside(rows', rows)
  <2>1. Extends(rows', rows)
    BY <1>12 DEF Extends
  <2>2. \A n \in DOMAIN rows' \ DOMAIN rows : h.from - 1 < n /\ n < h.to + 1
    BY <1>6, <1>8, <1>10, <1>12
  <2> QED
    BY <1>7, <2>1, <2>2 DEF Inside
<1>14. Linear(rows')
  <2> SUFFICES ASSUME NEW n \in DOMAIN rows', n + 1 \in DOMAIN rows'
               PROVE  rows'[n + 1].p = rows'[n].v
    BY DEF Linear
  <2>1. CASE n \notin DOMAIN rows /\ n + 1 \notin DOMAIN rows
    BY <1>4, <1>8, <1>12, <2>1 DEF Linear
  <2>2. CASE n \in DOMAIN rows /\ n + 1 \in DOMAIN rows
    BY <1>5, <1>12, <2>2 DEF Linear
  <2>3. CASE n \in DOMAIN rows /\ n + 1 \notin DOMAIN rows
    <3>1. n + 1 = Start(h)
      BY <1>6, <1>7, <1>8, <1>10, <1>11, <1>12, <2>3
    <3>2. n = Start(h) - 1
      BY <1>6, <1>11, <2>3, <3>1
    <3> QED
      BY <1>4, <1>12, <2>3, <3>1, <3>2 DEF FollowsOn
  <2>4. CASE n \notin DOMAIN rows /\ n + 1 \in DOMAIN rows
    <3>1. n \in DOMAIN t /\ n \in Nat /\ n <= b - 1 /\ Start(h) <= n /\ n <= h.to
      BY <1>8, <1>10, <1>12, <2>4
    <3>2. ~(n + 1 <= h.to)
      BY <1>6, <1>7, <2>4, <3>1
    <3>3. n = h.to /\ b = h.to + 1
      BY <1>1, <1>2, <1>6, <3>1, <3>2
    <3> QED
      BY <1>4, <1>12, <2>4, <3>1, <3>3
  <2> QED
    BY <2>1, <2>2, <2>3, <2>4
<1>15. g \in HoleRecords(MaxHeight, Hash) /\ g.from = h.from /\ g.to = h.to /\ g.next = b
  <2>1. e \in DOMAIN t
    <3> DEFINE S == DOMAIN t
    <3>1. S \in SUBSET Int /\ S # {} /\ h.to \in Int /\ \A x \in S : x <= h.to
      BY <1>1, <1>2, <1>6, <1>10
    <3> HIDE DEF S
    <3>2. Max(S) \in S
      BY <3>1, MaxOfBounded
    <3> QED
      BY <3>2 DEF S
  <2>2. t[e].v \in Hash \cup {NoHash}
    BY <1>1, <2>1, TableEntries
  <2>3. b \in 0 .. MaxHeight + 1 /\ h.reason \in Reasons /\ "pending" \in Lifecycles
        /\ MaxHeight \in Nat /\ h \in HoleRecords(MaxHeight, Hash)
    BY <1>1, <1>2, <1>6, FollowerAssumption DEF Hole, HoleRecords, Lifecycles
  <2> DEFINE v == t[e].v
             r == h.reason
  <2> HIDE DEF v, r, e, h, t, b
  <2>4. v \in Hash \cup {NoHash} /\ r \in Reasons
    BY <2>2, <2>3 DEF v, r
  <2> QED
    BY <2>3, <2>4, UpdatedKeeps DEF v, r
<1>16. holes' = AdvanceHole(holes, g)
  BY <1>1 DEF FillTx, Updated, Hole, HoleRecords
<1> HIDE DEF g, e, t, b
<1> DEFINE Step(k) == Updated(k, g.next, g.st, g.life, g.reason)
           left == {k \in {c} : ~ (g.next > g.to /\ k.to = g.to)}
           G == (holes \ {c}) \cup {Step(k) : k \in left}
           last == NewHole(0, 0, "pending", "")
<1>17. holes' = NormalizeLast(G, last)
  <2>1. {k \in holes : k.from = g.from /\ k.to >= g.to} = {c}
    BY <1>3, <1>5, <1>6, <1>15, LinkTypes DEF Stored, UniqueStarts
  <2> QED
    BY <1>16, <2>1 DEF AdvanceHole, Normalize, Updated
<1>18. Step(c) \in HoleRecords(MaxHeight, Hash) /\ Step(c).from = c.from /\ Step(c).to = c.to /\ Step(c).next = b
  <2>1. /\ c \in HoleRecords(MaxHeight, Hash) /\ MaxHeight \in Nat
        /\ g.next \in 0 .. MaxHeight + 1 /\ g.st \in Hash \cup {NoHash}
        /\ g.life \in Lifecycles /\ g.reason \in Reasons
    BY <1>5, <1>15, FollowerAssumption DEF HoleRecords, Stored, NonEmpty
  <2> DEFINE n == g.next
             st == g.st
             l == g.life
             r == g.reason
  <2> HIDE DEF n, st, l, r
  <2>2. n \in 0 .. MaxHeight + 1 /\ st \in Hash \cup {NoHash} /\ l \in Lifecycles /\ r \in Reasons
    BY <2>1 DEF n, st, l, r
  <2>3. LET k == Updated(c, n, st, l, r)
        IN  k \in HoleRecords(MaxHeight, Hash) /\ k.from = c.from /\ k.to = c.to /\ k.next = n
    BY <2>1, <2>2, UpdatedKeeps
  <2> QED
    BY <1>15, <2>3 DEF n, st, l, r
<1> HIDE DEF last, Step
<1>19. HoleSet(MaxHeight, Hash, G) /\ UniqueStarts(G)
  BY <1>3, <1>5, <1>18 DEF HoleSet, UniqueStarts, Stored, NonEmpty
<1>20. Separate(G) /\ G = NonEmpty(G)
  <2>1. \A k \in G : \E a \in holes : k.from = a.from /\ k.to = a.to
    BY <1>3, <1>18
  <2>2. \A a \in holes : a.from <= a.to /\ a.from \in Int /\ a.to \in Int
    BY LinkTypes
  <2> HIDE DEF G
  <2> QED
    BY <1>5, <1>19, <2>1, <2>2, UnmovedSeparate
<1>21. holes' = G
  <2> HIDE DEF G
  <2> QED
    BY <1>17, <1>19, <1>20, NormalizeSeparate
<1>22. \A k \in holes \ {c} : Gap(k, rows')
  <2> TAKE k \in holes \ {c}
  <2>1. /\ k.from \in Nat /\ k.to \in Nat /\ Start(k) \in Nat /\ k.from <= Start(k) /\ Gap(k, rows)
        /\ k.from <= k.to
    BY <1>5, LinkTypes DEF Gaps
  <2>2. Apart(k, c)
    BY <1>5 DEF Separate
  <2>3. \A n \in Start(k) .. k.to : n \notin DOMAIN t
    BY <1>6, <1>10, <2>1, <2>2 DEF Apart
  <2> QED
    BY <1>8, <1>12, <2>1, <2>3 DEF Gap
<1>23. b <= h.to => Gap(Step(c), rows')
  <2> SUFFICES ASSUME b <= h.to PROVE Gap(Step(c), rows')
    OBVIOUS
  <2>1. Start(Step(c)) = b
    BY <1>1, <1>2, <1>6, <1>18 DEF Start, b
  <2>2. \A n \in b .. h.to : n \notin DOMAIN rows /\ n \notin DOMAIN t
    BY <1>1, <1>2, <1>6, <1>7 DEF b, t
  <2> QED
    BY <1>6, <1>7, <1>8, <1>12, <1>18, <2>1, <2>2 DEF Gap
<1>24. Gaps(holes', rows')
  <2> SUFFICES ASSUME NEW k \in G PROVE Gap(k, rows')
    BY <1>21 DEF Gaps
  <2>1. CASE k \in holes \ {c}
    BY <1>22, <2>1
  <2>2. CASE k = Step(c) /\ c \in left
    <3>1. ~ (b > h.to)
      BY <1>6, <1>15, <2>2
    <3>2. b <= h.to
      BY <1>1, <1>6, <3>1 DEF b
    <3> QED
      BY <1>23, <2>2, <3>2
  <2> QED
    BY <2>1, <2>2
<1> QED
  BY <1>9, <1>13, <1>14, <1>20, <1>21, <1>24 DEF DbLink

-----------------------------------------------------------------------------
(* What each loop knows survives the other loop's steps. *)
LEMMA PlaceFacts ==
  ASSUME IInv
  PROVE  /\ tick.pc \in {"rewind", "reload"} => tick.ancestor \in Nat
         /\ mem.head \in 0 .. MaxHeight /\ mem.head \in Nat
         /\ tick.pc # "idle" => tick.sample \in Sample /\ tick.sample.n \in Nat
<1>1. tick.pc \in {"rewind", "reload"} => tick.ancestor \in Nat
  BY TickShape DEF IInv, TickInv, TickOK, RewindTick
<1>2. mem.head \in 0 .. MaxHeight /\ mem.head \in Nat
  BY MemoryField, FollowerAssumption DEF IInv
<1>3. tick.pc # "idle" => tick.sample \in Sample
  <2>1. \A t \in IdleStep : t.pc = "idle"
    BY DEF IdleStep
  <2>2. \A t \in FetchTick \cup WalkTick \cup RewindTick \cup PersistTick \cup PublishTick : t.sample \in Sample
    BY DEF FetchTick, WalkTick, RewindTick, PersistTick, PublishTick
  <2> QED
    BY <2>1, <2>2 DEF IInv, TickInv, TickOK, Tick
<1>4. \A x \in Sample : x.n \in Nat
  BY FollowerAssumption DEF Sample, Height
<1> QED
  BY <1>1, <1>2, <1>3, <1>4

LEMMA PlaceKept ==
  ASSUME IInv, LinkInv, UNCHANGED <<mem, tick>>, rows' \in Table, Inside(rows', rows),
         \A a \in DOMAIN rows : tick.pc # "idle" /\ Returns(a, tick.sample) => Returns(a, tick.sample)'
  PROVE  HeadLink(mem, tick)' /\ PlaceLink(mem, tick)'
<1>1. rows \in Table /\ (\A n \in DOMAIN rows : n \in Nat) /\ (\A n \in DOMAIN rows' : n \in Nat)
  BY LinkTypes, TableEntries, FollowerAssumption DEF Height
<1>2. \A n, v : HeadIs(n, v) => HeadIs(n, v)'
  <2> SUFFICES ASSUME NEW n, NEW v, HeadIs(n, v) PROVE HeadIs(n, v)'
    OBVIOUS
  <2>1. n = LatestBlock(rows')
    BY <1>1, LatestInside DEF HeadIs
  <2>2. n # 0 => n \in DOMAIN rows /\ rows[n].v = v
    BY <1>1, LatestBlockType DEF HeadIs
  <2> QED
    BY <2>1, <2>2 DEF HeadIs, Inside, Extends
<1>3. HeadLink(mem, tick)'
  BY <1>2, Zenon DEF LinkInv, HeadLink
<1>4. tick.pc = "fetch" => Fetching(mem, tick)'
  <2> SUFFICES ASSUME tick.pc = "fetch" PROVE Fetching(mem, tick)'
    OBVIOUS
  <2>1. Fetching(mem, tick)
    BY DEF LinkInv, PlaceLink
  <2>2. mem.head \in DOMAIN rows
    <3>1. mem.up
      BY DEF LinkInv, HeadLink
    <3>2. HeadIs(mem.head, mem.hash)
      BY <3>1 DEF LinkInv, HeadLink
    <3> QED
      BY <1>1, <2>1, <3>2, LatestBlockType DEF HeadIs, Fetching
  <2>3. Returns(mem.head, tick.sample) => Returns(mem.head, tick.sample)'
    <3> DEFINE a == mem.head
    <3>1. a \in DOMAIN rows /\ a' = a /\ tick.pc # "idle"
      BY <2>2
    <3>2. \A b \in DOMAIN rows : Returns(b, tick.sample) => Returns(b, tick.sample)'
      BY <3>1
    <3> QED
      BY <3>1, <3>2 DEF Returns
  <2> QED
    BY <2>1, <2>3 DEF Fetching
<1>5. tick.pc = "ancestor" => Walking(tick)'
  BY DEF LinkInv, PlaceLink, Walking, Inside, Extends
<1>6. tick.pc \in {"rewind", "reload"} => Rewinding(tick)'
  <2> SUFFICES ASSUME tick.pc \in {"rewind", "reload"} PROVE Rewinding(tick)'
    OBVIOUS
  <2> DEFINE a == tick.ancestor
  <2>1. Rewinding(tick) /\ a \in Nat
    BY PlaceFacts DEF LinkInv, PlaceLink
  <2>2. CASE a \in DOMAIN rows
    <3>1. a \in DOMAIN rows'
      BY <2>2 DEF Inside, Extends
    <3>2. Returns(a, tick.sample) => Returns(a, tick.sample)'
      <4>1. \A b \in DOMAIN rows : Returns(b, tick.sample) => Returns(b, tick.sample)'
        OBVIOUS
      <4> QED
        BY <2>2, <4>1 DEF Returns
    <3>3. tick.pc = "reload" => \A n \in DOMAIN rows' : n <= a
      BY <1>1, <2>1 DEF Rewinding, Inside
    <3> QED
      BY <2>1, <2>2, <3>1, <3>2, <3>3 DEF Rewinding
  <2>3. CASE a \notin DOMAIN rows
    <3>1. \A n \in DOMAIN rows' : n > a
      BY <1>1, <2>1, <2>3 DEF Rewinding, Inside
    <3>2. a \notin DOMAIN rows'
      BY <2>1, <3>1
    <3>3. tick.pc = "reload" => \A n \in DOMAIN rows' : n <= a
      BY <1>1, <2>1 DEF Rewinding, Inside
    <3> QED
      BY <2>1, <3>1, <3>2, <3>3 DEF Rewinding
  <2> QED
    BY <2>2, <2>3
<1>7. tick.pc = "persist" => Persisting(mem, tick)'
  BY DEF LinkInv, PlaceLink, Persisting, Continues, Linear
<1>8. tick.pc = "publish" => HeadIs(tick.sample.n, tick.sample.v)'
  <2>1. tick.pc = "publish" => HeadIs(tick.sample.n, tick.sample.v)
    BY DEF LinkInv, PlaceLink
  <2> QED
    BY <1>2, <2>1 DEF HeadIs
<1> QED
  BY <1>3, <1>4, <1>5, <1>6, <1>7, <1>8 DEF PlaceLink

LEMMA FillKept ==
  ASSUME IInv, LinkInv, UNCHANGED fill,
         \/ gen' = gen + 1
         \/ /\ gen' = gen /\ Extends(rows', rows)
            /\ \A h \in holes : /\ \E k \in holes' : Same(k, h)
                                /\ \A n \in DOMAIN rows' \ DOMAIN rows : h.to + 1 < n
  PROVE  FillLink'
<1>1. gen \in Nat /\ \A g \in Nat : g <= gen => g # gen + 1
  BY LinkTypes
<1>2. ASSUME NEW g, NEW h, NEW c \in holes, Same(c, h), g = gen', g = gen
      PROVE  /\ \E k \in holes' : Same(k, h)
             /\ h.to + 1 \in DOMAIN rows /\ h.to + 1 \in DOMAIN rows' /\ rows'[h.to + 1] = rows[h.to + 1]
             /\ Start(h) - 1 \in DOMAIN rows' => /\ Start(h) - 1 \in DOMAIN rows
                                                 /\ rows'[Start(h) - 1] = rows[Start(h) - 1]
  <2>1. Extends(rows', rows) /\ \A n \in DOMAIN rows' \ DOMAIN rows : c.to + 1 < n
    BY <1>1, <1>2
  <2>2. PICK k \in holes' : Same(k, c)
    BY <1>1, <1>2
  <2>3. h.from = c.from /\ h.to = c.to /\ Start(h) = Start(c) /\ Same(k, h)
    BY <1>2, <2>2 DEF Same, Start
  <2>4. Gap(c, rows) /\ c.to \in Nat /\ Start(c) \in Nat /\ c.from \in Nat /\ c.from <= c.to
    BY LinkTypes DEF LinkInv, DbLink, Gaps
  <2>5. ~ (c.to + 1 < Start(c) - 1)
    BY <2>4 DEF Start
  <2>6. h.to + 1 \in DOMAIN rows
    BY <2>3, <2>4 DEF Gap
  <2>7. Start(h) - 1 \in DOMAIN rows' => Start(h) - 1 \in DOMAIN rows
    BY <2>1, <2>3, <2>5
  <2> QED
    BY <2>1, <2>3, <2>6, <2>7 DEF Extends
<1>3. ASSUME NEW g \in Nat, g <= gen, NEW h, NEW hash, Begun(g, h, hash)
      PROVE  Begun(g, h, hash)'
  <2> SUFFICES ASSUME g = gen' PROVE (\E c \in holes' : Same(c, h)) /\ FollowsOn(h, hash)'
    BY DEF Begun
  <2>1. g = gen
    BY <1>1, <1>3
  <2>2. PICK c \in holes : Same(c, h)
    BY <1>3, <2>1 DEF Begun
  <2>3. FollowsOn(h, hash)
    BY <1>3, <2>1 DEF Begun
  <2> QED
    BY <1>2, <2>1, <2>2, <2>3 DEF FollowsOn
<1>4. /\ fill.pc \in {"fetch", "commit"} => fill.gen \in Nat /\ fill.gen <= gen
      /\ fill.pc = "mark" /\ fill.target.pc = "fetch" => fill.target.gen \in Nat /\ fill.target.gen <= gen
  BY FillShape DEF IInv, FillInv, FetchFill, CommitFill, MarkFill, IdleStep, Attempt
<1>5. fill.pc = "fetch" => Begun(fill.gen, fill.hole, fill.hash)'
  <2> SUFFICES ASSUME fill.pc = "fetch" PROVE Begun(fill.gen, fill.hole, fill.hash)'
    OBVIOUS
  <2>1. Begun(fill.gen, fill.hole, fill.hash)
    BY DEF LinkInv, FillLink
  <2> DEFINE g == fill.gen
             h == fill.hole
             x == fill.hash
  <2>2. g \in Nat /\ g <= gen
    BY <1>4
  <2> QED
    BY <1>3, <2>1, <2>2 DEF Begun, FollowsOn
<1>6. fill.pc = "mark" /\ fill.target.pc = "fetch" =>
        Begun(fill.target.gen, fill.target.hole, fill.target.hash)'
  BY <1>3, <1>4 DEF LinkInv, FillLink, Begun, FollowsOn
<1>7. fill.pc = "commit" => Committing(fill)'
  <2> SUFFICES ASSUME fill.pc = "commit" PROVE Committing(fill)'
    OBVIOUS
  <2>1. Committing(fill)
    BY DEF LinkInv, FillLink
  <2>2. Begun(fill.gen, fill.hole, fill.rows[Start(fill.hole)].p)'
    BY <1>3, <1>4, <2>1 DEF Committing, Begun, FollowsOn
  <2>3. ASSUME fill.gen = gen'
        PROVE  /\ Extends(rows', fill.tail)
               /\ fill.next = fill.hole.to + 1 => rows'[fill.hole.to + 1].p = fill.rows[fill.hole.to].v
    <3>1. fill.gen = gen /\ Extends(rows', rows)
      BY <1>1, <1>4, <2>3
    <3>2. PICK c \in holes : Same(c, fill.hole)
      BY <2>1, <3>1 DEF Committing, Begun
    <3>3. rows'[fill.hole.to + 1] = rows[fill.hole.to + 1]
      BY <1>2, <2>3, <3>1, <3>2
    <3> QED
      BY <2>1, <3>1, <3>3 DEF Committing, Extends
  <2> QED
    BY <2>1, <2>2, <2>3 DEF Committing, Linear
<1> QED
  BY <1>5, <1>6, <1>7 DEF FillLink

-----------------------------------------------------------------------------
(* The records a tick goes through continue the stored head. *)
LEMMA IdlePlace == \A m : PlaceLink(m, Idle)
  BY DEF PlaceLink, Idle

LEMMA PersistPlace ==
  ASSUME NEW m, NEW s, NEW t, NEW hole, Continues(m, s, t, hole), Linear(t),
         s.n \in DOMAIN t => t[s.n].v = s.v
  PROVE  PlaceLink(m, [pc |-> "persist", sample |-> s, rows |-> t, hole |-> hole])
<1> DEFINE p == [pc |-> "persist", sample |-> s, rows |-> t, hole |-> hole]
<1>1. p.pc = "persist" /\ p.sample = s /\ p.rows = t /\ p.hole = hole
  OBVIOUS
<1> HIDE DEF p
<1>2. PlaceLink(m, p)
  BY <1>1 DEF PlaceLink, Persisting
<1> QED
  BY <1>2 DEF p

LEMMA SeedPlace ==
  ASSUME NEW m, NEW s \in Sample, NEW hole,
         \/ hole = {} /\ m.head = 0
         \/ hole = {} /\ m.head # 0 /\ m.head \in Nat /\ m.head + 1 = s.n /\ s.p = m.hash
         \/ /\ hole # {} /\ m.head # 0 /\ m.head < s.n /\ (m.head + 1 = s.n => s.p = m.hash)
            /\ \A h \in hole : h.from = m.head + 1 /\ h.to = s.n - 1 /\ h.next = 0
  PROVE  PlaceLink(m, Seed(s, hole))
<1> DEFINE t == [n \in {s.n} |-> [v |-> s.v, p |-> s.p]]
<1>1. DOMAIN t = {s.n} /\ t[s.n].v = s.v /\ t[s.n].p = s.p
  OBVIOUS
<1>2. s.n \in Nat /\ s.n + 1 # s.n
  BY FollowerAssumption DEF Sample, Height
<1> HIDE DEF t
<1>3. Linear(t)
  BY <1>1, <1>2 DEF Linear
<1>4. Continues(m, s, t, hole)
  <2>1. CASE hole = {} /\ m.head = 0
    BY <1>1, <2>1 DEF Continues
  <2>2. CASE hole = {} /\ m.head # 0 /\ m.head \in Nat /\ m.head + 1 = s.n /\ s.p = m.hash
    <3>1. m.head + 1 .. s.n = {s.n} /\ m.head < s.n
      BY <1>2, <2>2
    <3> QED
      BY <1>1, <2>2, <3>1 DEF Continues
  <2>3. CASE hole # {}
    BY <1>1, <2>3 DEF Continues
  <2> QED
    BY <2>1, <2>2, <2>3
<1>5. PlaceLink(m, [pc |-> "persist", sample |-> s, rows |-> t, hole |-> hole])
  BY <1>1, <1>3, <1>4, PersistPlace
<1> QED
  BY <1>5 DEF Seed, t

LEMMA SkipPlace ==
  ASSUME NEW m, NEW s \in Sample, m.head \in Nat, m.head # 0, m.head < s.n, OverBudget(s, m.head)
  PROVE  PlaceLink(m, Skip(s, m.head))
<1> DEFINE hole == {NewHole(m.head + 1, s.n - 1, "pending", "catch_up_limit")}
<1>1. hole # {} /\ \A h \in hole : h.from = m.head + 1 /\ h.to = s.n - 1 /\ h.next = 0
  BY DEF NewHole
<1>2. m.head + 1 # s.n
  <2>1. s.n \in Nat /\ s.n - m.head > HeaderBatchSize * MaxCatchUpBatches
    BY FollowerAssumption DEF OverBudget, Sample, Height
  <2>2. HeaderBatchSize * MaxCatchUpBatches \in Nat /\ HeaderBatchSize * MaxCatchUpBatches >= 1
    BY FollowerAssumption
  <2> QED
    BY <2>1, <2>2
<1> HIDE DEF hole
<1>3. PlaceLink(m, Seed(s, hole))
  BY <1>1, <1>2, SeedPlace
<1> QED
  BY <1>3 DEF Skip, hole

LEMMA CatchUpPlace ==
  ASSUME NEW m, NEW s \in Sample, NEW again \in BOOLEAN, m.head \in Nat,
         m.head # 0 => m.head < s.n /\ (again => Returns(m.head, s)),
         NEW t \in CatchUp(s, m.head, again)
  PROVE  PlaceLink(m, t)
<1>1. CASE m.head = 0
  <2>1. t = Seed(s, {})
    BY <1>1 DEF CatchUp
  <2> QED
    BY <1>1, <2>1, SeedPlace
<1>2. CASE m.head # 0
  <2>1. PICK u \in Unlimited :
          t = IF ~ u /\ OverBudget(s, m.head) THEN Skip(s, m.head)
              ELSE [pc |-> "fetch", sample |-> s, stored |-> m.head, unlimited |-> u,
                    headers |-> <<>>, again |-> again]
    BY <1>2 DEF CatchUp
  <2>2. CASE ~ u /\ OverBudget(s, m.head)
    BY <1>2, <2>1, <2>2, SkipPlace
  <2>3. CASE ~ (~ u /\ OverBudget(s, m.head))
    <3>1. /\ t.pc = "fetch" /\ t.sample = s /\ t.stored = m.head /\ t.headers = <<>> /\ t.again = again
      BY <2>1, <2>3
    <3>2. Fetching(m, t)
      BY <1>2, <3>1 DEF Fetching
    <3> QED
      BY <3>1, <3>2 DEF PlaceLink
  <2> QED
    BY <2>2, <2>3
<1> QED
  BY <1>1, <1>2

LEMMA WalkPlace ==
  ASSUME NEW m, NEW s, NEW from, NEW why, why = "same" => from < s.n, why = "parent" => from + 1 < s.n
  PROVE  PlaceLink(m, FindAncestor(s, from, why))
<1> DEFINE w == FindAncestor(s, from, why)
<1>1. w.pc = "ancestor" /\ w.sample = s /\ w.n = from /\ w.why = why
      /\ w.recent = RecentBlocks(rows, MaxReorgDepth + 1)
  BY DEF FindAncestor
<1>2. Extends(rows, RecentBlocks(rows, MaxReorgDepth + 1))
  BY DEF RecentBlocks, Restrict, Extends
<1> HIDE DEF w
<1>3. PlaceLink(m, w)
  BY <1>1, <1>2 DEF PlaceLink, Walking
<1> QED
  BY <1>3 DEF w

LEMMA ReplayPlace ==
  ASSUME NEW m, NEW s \in Sample, NEW hs \in Seq(Block), m.head \in Nat, m.head # 0, m.head < s.n,
         Len(hs) = s.n - m.head, VerifyChain(hs), hs[1].p = m.hash,
         hs[Len(hs)].v = s.v, hs[Len(hs)].p = s.p, NEW t \in Process(s, hs)
  PROVE  PlaceLink(m, t)
<1> DEFINE first == s.n - Len(hs) + 1
           replayed == [n \in first .. s.n |-> hs[n - first + 1]]
           skipped(life, reason) == {NewHole(first, s.n - 1, life, reason)}
<1>1. s.n \in Nat /\ Len(hs) \in Nat /\ Len(hs) >= 1 /\ first = m.head + 1
  BY FollowerAssumption DEF Sample, Height
<1>2. PICK r \in Replays :
        t = CASE r = "ok" -> [pc |-> "persist", sample |-> s, rows |-> replayed, hole |-> {}]
              [] r = "no_state" -> Seed(s, skipped("blocked", r))
              [] r = "unsupported_model" ->
                   Seed(s, IF first < s.n THEN skipped("blocked", r) ELSE {})
              [] r = "replay_discontinuity" -> Seed(s, skipped("pending", r))
  BY DEF Process
<1>3. r \in {"ok", "no_state", "unsupported_model", "replay_discontinuity"}
  BY FollowerAssumption
<1>4. \A life, reason : skipped(life, reason) # {} /\ \A h \in skipped(life, reason) :
                            h.from = m.head + 1 /\ h.to = s.n - 1 /\ h.next = 0
  BY <1>1 DEF NewHole
<1>5. m.head + 1 = s.n => s.p = m.hash
  <2>1. m.head + 1 = s.n => Len(hs) = 1
    BY <1>1
  <2> QED
    BY <2>1
<1>6. DOMAIN replayed = m.head + 1 .. s.n /\ \A n \in DOMAIN replayed : replayed[n] = hs[n - m.head]
  <2>1. \A n \in first .. s.n : n - first + 1 = n - m.head
    BY <1>1
  <2> QED
    BY <1>1, <2>1
<1>7. ASSUME NEW hole, hole = {} \/ \E life, reason : hole = skipped(life, reason),
             hole = {} => m.head + 1 = s.n
      PROVE  PlaceLink(m, Seed(s, hole))
  <2>1. CASE hole = {}
    BY <1>5, <1>7, <2>1, SeedPlace
  <2>2. CASE hole # {}
    <3>1. \A h \in hole : h.from = m.head + 1 /\ h.to = s.n - 1 /\ h.next = 0
      BY <1>4, <1>7, <2>2
    <3> QED
      BY <1>5, <2>2, <3>1, SeedPlace
  <2> QED
    BY <2>1, <2>2
<1> HIDE DEF replayed, first
<1>12. ASSUME NEW n \in DOMAIN replayed, NEW i, i = n - m.head
       PROVE  replayed[n] = hs[i]
  BY <1>6, <1>12
<1>8. CASE r = "ok"
  <2>1. t = [pc |-> "persist", sample |-> s, rows |-> replayed, hole |-> {}]
    BY <1>2, <1>8
  <2>2. \A n \in DOMAIN replayed : n \in Nat /\ n - m.head \in 1 .. Len(hs)
    BY <1>1, <1>6
  <2>3. ASSUME NEW n \in DOMAIN replayed, NEW k \in DOMAIN replayed, k = n + 1
        PROVE  replayed[k].p = replayed[n].v
    <3> DEFINE i == k - m.head
               j == n - m.head
    <3>1. i \in 2 .. Len(hs) /\ j = i - 1
      BY <1>1, <2>2, <2>3
    <3>2. hs[i].p = hs[j].v
      BY <3>1 DEF VerifyChain
    <3>3. replayed[k] = hs[i] /\ replayed[n] = hs[j]
      BY <1>12
    <3> QED
      BY <3>2, <3>3
  <2>4. s.n \in DOMAIN replayed /\ replayed[s.n].v = s.v /\ m.head + 1 \in DOMAIN replayed
        /\ replayed[m.head + 1].p = m.hash
    <3>1. s.n \in DOMAIN replayed /\ m.head + 1 \in DOMAIN replayed /\ s.n - m.head = Len(hs) /\ m.head + 1 - m.head = 1
      BY <1>1, <1>6
    <3>2. replayed[s.n] = hs[Len(hs)]
      BY <1>12, <3>1
    <3>3. replayed[m.head + 1] = hs[1]
      <4> DEFINE k == m.head + 1
      <4>1. k \in DOMAIN replayed /\ 1 = k - m.head
        BY <3>1
      <4> HIDE DEF k
      <4>2. replayed[k] = hs[1]
        BY <1>12, <4>1
      <4> QED
        BY <4>2 DEF k
    <3> QED
      BY <3>1, <3>2, <3>3
  <2>5. Continues(m, s, replayed, {})
    BY <1>6, <2>4 DEF Continues
  <2>6. Linear(replayed)
    BY <2>3 DEF Linear
  <2> QED
    BY <2>1, <2>4, <2>5, <2>6, PersistPlace
<1>9. CASE r = "no_state"
  BY <1>2, <1>4, <1>7, <1>9
<1>10. CASE r = "unsupported_model"
  <2> DEFINE hole == IF first < s.n THEN skipped("blocked", r) ELSE {}
  <2>1. t = Seed(s, hole)
    BY <1>2, <1>10
  <2>2. hole = {} \/ \E life, reason : hole = skipped(life, reason)
    OBVIOUS
  <2>3. hole = {} => m.head + 1 = s.n
    BY <1>1, <1>4
  <2> QED
    BY <1>7, <2>1, <2>2, <2>3
<1>11. CASE r = "replay_discontinuity"
  BY <1>2, <1>4, <1>7, <1>11
<1> QED
  BY <1>3, <1>8, <1>9, <1>10, <1>11

-----------------------------------------------------------------------------
(* The fast loop. *)
LEMMA RowsSame ==
  ASSUME UNCHANGED rows
  PROVE  Extends(rows', rows) /\ Inside(rows', rows)
  BY DEF Extends, Inside

LEMMA QuietLink ==
  ASSUME IInv, LinkInv, UNCHANGED <<chain, db, fill>>,
         mem'.up => HeadIs(mem'.head, mem'.hash),
         tick'.pc # "idle" => mem'.up,
         PlaceLink(mem', tick')
  PROVE  LinkStep
<1>1. rows' = rows /\ holes' = holes /\ gen' = gen /\ chain' = chain
  BY DEF db
<1>2. DbLink'
  BY <1>1 DEF LinkInv, DbLink, Gaps, Gap, Separate
<1>3. HeadLink(mem, tick)'
  BY <1>1 DEF HeadLink, HeadIs
<1>4. PlaceLink(mem, tick)'
  BY <1>1 DEF PlaceLink, Fetching, Walking, Rewinding, Persisting, HeadIs, Returns, Continues
<1>5. FillLink'
  <2>1. \A h \in holes : /\ \E k \in holes' : Same(k, h)
                         /\ \A n \in DOMAIN rows' \ DOMAIN rows : h.to + 1 < n
    BY <1>1 DEF Same
  <2> QED
    BY <1>1, <2>1, RowsSame, FillKept
<1> QED
  BY <1>1, <1>2, <1>3, <1>4, <1>5, RowsSame DEF LinkStep, LinkInv

LEMMA HeadKnown ==
  ASSUME IInv, LinkInv, mem.up, tick.pc \notin {"publish", "reload"}
  PROVE  /\ HeadIs(mem.head, mem.hash) /\ rows \in Table /\ mem.head \in 0 .. MaxHeight
         /\ mem.head # 0 => mem.head \in DOMAIN rows /\ rows[mem.head].v = mem.hash
<1>1. HeadIs(mem.head, mem.hash)
  BY DEF LinkInv, HeadLink
<1> QED
  BY <1>1, LinkTypes, LatestBlockType, PlaceFacts DEF HeadIs

LEMMA TickSampleLink ==
  ASSUME IInv, LinkInv, TickSample
  PROVE  LinkStep
<1>1. PICK n \in 1 .. Len(chain) :
        LET s == [n |-> n, v |-> chain[n].v, p |-> chain[n].p]
            stored == mem.head
        IN  \/ stored = 0 /\ tick' = Seed(s, {})
            \/ /\ n < stored
               /\ tick' = IF n \in DOMAIN rows /\ rows[n].v # s.v
                            THEN FindAncestor(s, n, "behind") ELSE Idle
            \/ /\ n = stored /\ stored > 0 /\ mem.hash = s.v
               /\ tick' = [pc |-> "persist", sample |-> s, rows |-> NoRows, hole |-> {}]
            \/ /\ n = stored /\ stored > 0 /\ mem.hash # s.v
               /\ tick' = FindAncestor(s, stored - 1, "same")
            \/ n > stored /\ stored > 0 /\ tick' \in CatchUp(s, stored, FALSE)
  BY DEF TickSample
<1> DEFINE s == [n |-> n, v |-> chain[n].v, p |-> chain[n].p]
<1>2. mem.up /\ tick.pc = "idle" /\ UNCHANGED <<chain, db, mem, fill>>
  BY DEF TickSample, env
<1>3. HeadIs(mem.head, mem.hash) /\ mem.head \in Nat
  <2>1. tick.pc \notin {"publish", "reload"}
    BY <1>2
  <2> QED
    BY <1>2, <2>1, HeadKnown, PlaceFacts
<1>4. n \in Nat /\ s \in Sample /\ s.n = n
  <2>1. n \in Height /\ n \in Nat
    BY FollowerAssumption DEF IInv, EnvInv, Height
  <2>2. chain[n] \in Block
    BY ChainEntries DEF IInv
  <2> QED
    BY <2>1, <2>2 DEF Sample, Block
<1> HIDE DEF s
<1>5. PlaceLink(mem, tick')
  <2>1. CASE mem.head = 0 /\ tick' = Seed(s, {})
    BY <1>4, <2>1, SeedPlace
  <2>2. CASE tick' = FindAncestor(s, n, "behind")
    BY <2>2, WalkPlace
  <2>3. CASE tick' = Idle
    BY <2>3, IdlePlace
  <2>4. CASE /\ n = mem.head /\ mem.head > 0 /\ mem.hash = s.v
             /\ tick' = [pc |-> "persist", sample |-> s, rows |-> NoRows, hole |-> {}]
    <3>1. DOMAIN NoRows = {} /\ Linear(NoRows)
      BY NoRowsTable DEF Linear
    <3>2. Continues(mem, s, NoRows, {})
      BY <1>3, <1>4, <2>4, <3>1 DEF Continues
    <3> QED
      BY <2>4, <3>1, <3>2, PersistPlace
  <2>5. CASE n = mem.head /\ mem.head > 0 /\ tick' = FindAncestor(s, mem.head - 1, "same")
    BY <1>3, <1>4, <2>5, WalkPlace
  <2>6. CASE n > mem.head /\ mem.head > 0 /\ tick' \in CatchUp(s, mem.head, FALSE)
    BY <1>3, <1>4, <2>6, CatchUpPlace
  <2> QED
    BY <1>1, <2>1, <2>2, <2>3, <2>4, <2>5, <2>6 DEF s
<1> QED
  BY <1>2, <1>3, <1>5, QuietLink

LEMMA FetchKnown ==
  ASSUME IInv, LinkInv, tick.pc = "fetch"
  PROVE  /\ tick \in FetchTick /\ tick.sample \in Sample /\ tick.headers \in Seq(Block) /\ tick.again \in BOOLEAN
         /\ Fetching(mem, tick) /\ HeadIs(mem.head, mem.hash) /\ mem.up
         /\ mem.head \in Nat /\ mem.head \in DOMAIN rows /\ rows[mem.head].v = mem.hash
         /\ tick.sample.n \in Nat /\ Len(tick.headers) \in Nat
<1>1. tick \in FetchTick
  BY TickShape DEF IInv, TickInv, TickOK
<1>2. tick.sample \in Sample /\ tick.headers \in Seq(Block) /\ tick.again \in BOOLEAN
  BY <1>1, Zenon DEF FetchTick
<1>3. Fetching(mem, tick) /\ mem.up
  BY DEF LinkInv, PlaceLink, HeadLink
<1>4. /\ HeadIs(mem.head, mem.hash) /\ mem.head \in Nat
      /\ mem.head # 0 => mem.head \in DOMAIN rows /\ rows[mem.head].v = mem.hash
  BY <1>3, HeadKnown, PlaceFacts
<1> QED
  BY <1>1, <1>2, <1>3, <1>4, PlaceFacts DEF Fetching

(* The first header a catch-up fetches after a rewind continues the        *)
(* ancestor, unless the chain has moved to another branch since.           *)
LEMMA FetchHeadersLink ==
  ASSUME IInv, LinkInv, ChainInv, FetchHeaders
  PROVE  LinkStep
<1> DEFINE old == tick.headers
           more == SubSeq(chain, NextBatch, BatchEnd)
           hs == old \o more
           f == [tick EXCEPT !.headers = hs]
<1>1. /\ tick \in FetchTick /\ old \in Seq(Block) /\ Fetching(mem, tick) /\ mem.up
      /\ HeadIs(mem.head, mem.hash) /\ mem.head \in Nat /\ rows[mem.head].v = mem.hash
      /\ tick.sample.n \in Nat /\ Len(old) \in Nat
  BY FetchKnown DEF FetchHeaders
<1>2. tick' = f /\ UNCHANGED <<chain, db, mem, fill>> /\ NextBatch < tick.sample.n /\ BatchEnd <= Len(chain)
  BY DEF FetchHeaders, env
<1>3. hs \in Seq(Block) /\ tick.stored + Len(hs) < tick.sample.n
  BY FetchedLength DEF FetchHeaders, IInv
<1>4. NextBatch = mem.head + 1 + Len(old) /\ NextBatch \in Nat /\ NextBatch >= 1
  BY <1>1 DEF Fetching, NextBatch
<1>5. BatchEnd \in Int /\ Len(chain) \in Nat
  <2> DEFINE ends == {NextBatch + HeaderBatchSize - 1, tick.sample.n - 1}
  <2>1. ends \in SUBSET Int /\ ends # {} /\ -1 \in Int /\ \A x \in ends : -1 <= x
    <3>1. HeaderBatchSize \in Nat
      BY FollowerAssumption
    <3>2. NextBatch + HeaderBatchSize - 1 \in Int /\ -1 <= NextBatch + HeaderBatchSize - 1
      BY <1>4, <3>1
    <3>3. tick.sample.n - 1 \in Int /\ -1 <= tick.sample.n - 1
      <4>1. tick.sample.n \in Nat
        BY <1>1
      <4> QED
        BY <4>1
    <3> QED
      BY <3>2, <3>3
  <2>2. Min(ends) \in ends
    <3> HIDE DEF ends
    <3> QED
      BY <2>1, MinOfBounded
  <2> QED
    BY <2>1, <2>2 DEF BatchEnd, IInv, EnvInv, Height
<1>6. /\ Len(hs) = Len(old) + Len(more) /\ Len(more) \in Nat
      /\ \A i \in 1 .. Len(old) : hs[i] = old[i]
      /\ \A i \in 1 .. Len(more) : /\ hs[Len(old) + i] = chain[NextBatch + i - 1]
                                   /\ NextBatch + i - 1 \in 1 .. Len(chain)
  <2>1. \A i \in NextBatch .. BatchEnd : chain[i] \in Block
    BY <1>2, <1>4, <1>5, ChainEntries DEF IInv
  <2>2. /\ more \in Seq(Block)
        /\ Len(more) = IF NextBatch <= BatchEnd THEN BatchEnd - NextBatch + 1 ELSE 0
        /\ \A i \in 1 .. BatchEnd - NextBatch + 1 : more[i] = chain[NextBatch + i - 1]
    BY <1>4, <1>5, <2>1, SubSeqProperties
  <2>3. \A i \in 1 .. Len(more) : more[i] = chain[NextBatch + i - 1] /\ NextBatch + i - 1 \in 1 .. Len(chain)
    BY <1>2, <1>4, <1>5, <2>2
  <2>4. Len(more) \in Nat
    BY <1>4, <1>5, <2>2
  <2> HIDE DEF more, old
  <2>5. Len(old \o more) = Len(old) + Len(more)
    BY <1>1, <2>2, ConcatProperties, Zenon
  <2>6. \A i \in 1 .. Len(old) + Len(more) : (old \o more)[i] = IF i <= Len(old) THEN old[i] ELSE more[i - Len(old)]
    BY <1>1, <2>2, ConcatProperties, Zenon
  <2>7. \A i \in 1 .. Len(old) : hs[i] = old[i]
    BY <1>1, <2>4, <2>6
  <2>8. \A i \in 1 .. Len(more) : hs[Len(old) + i] = more[i]
    BY <1>1, <2>4, <2>6
  <2> QED
    BY <2>3, <2>4, <2>5, <2>7, <2>8
<1>7. /\ f.pc = "fetch" /\ f.sample = tick.sample /\ f.stored = tick.stored /\ f.again = tick.again
      /\ f.headers = hs
  BY <1>1, <1>2 DEF FetchTick, FetchHeaders
<1> HIDE DEF f, hs, more
<1>8. \A i \in 1 .. Len(hs) : hs[i].p <= hs[i].v
  <2> TAKE i \in 1 .. Len(hs)
  <2>1. CASE i <= Len(old)
    BY <1>1, <1>6, <2>1 DEF Fetching
  <2>2. CASE i > Len(old)
    <3> DEFINE j == i - Len(old)
    <3>1. j \in 1 .. Len(more) /\ Len(old) + j = i
      BY <1>1, <1>6, <2>2
    <3>2. hs[Len(old) + j] = chain[NextBatch + j - 1] /\ NextBatch + j - 1 \in 1 .. Len(chain)
      BY <1>6, <3>1
    <3> QED
      BY <3>1, <3>2 DEF ChainInv
  <2> QED
    BY <1>1, <1>6, <2>1, <2>2
<1>9. ASSUME tick.again, hs # <<>>, hs[1].v <= tick.sample.v
      PROVE  hs[1].p = mem.hash
  <2>1. CASE old # <<>>
    <3>1. hs[1] = old[1]
      BY <1>1, <1>6, <2>1
    <3> QED
      BY <1>1, <1>9, <2>1, <3>1 DEF Fetching
  <2>2. CASE old = <<>>
    <3>1. Len(old) = 0 /\ Len(hs) \in Nat /\ Len(hs) # 0
      BY <1>3, <1>9, <2>2
    <3>2. NextBatch = mem.head + 1 /\ 1 \in 1 .. Len(more)
      BY <1>1, <1>4, <1>6, <3>1
    <3>3. hs[Len(old) + 1] = chain[NextBatch + 1 - 1] /\ NextBatch + 1 - 1 \in 1 .. Len(chain)
      BY <1>6, <3>2
    <3>4. hs[1] = chain[mem.head + 1] /\ mem.head + 1 <= Len(chain)
      BY <1>1, <1>5, <3>1, <3>2, <3>3
    <3>5. Returns(mem.head, tick.sample)
      BY <1>1, <1>9 DEF Fetching
    <3> QED
      BY <1>1, <1>9, <3>4, <3>5 DEF Returns
  <2> QED
    BY <2>1, <2>2
<1>10. Fetching(mem, f)
  BY <1>1, <1>3, <1>7, <1>8, <1>9 DEF Fetching
<1>11. PlaceLink(mem, f)
  BY <1>7, <1>10 DEF PlaceLink
<1> QED
  BY <1>1, <1>2, <1>11, QuietLink

LEMMA FailoverSkipLink ==
  ASSUME IInv, LinkInv, FailoverSkip
  PROVE  LinkStep
<1>1. /\ tick.sample \in Sample /\ Fetching(mem, tick) /\ HeadIs(mem.head, mem.hash) /\ mem.up
      /\ mem.head \in Nat /\ tick.sample.n \in Nat /\ Len(tick.headers) \in Nat
  BY FetchKnown DEF FailoverSkip
<1>2. /\ tick' = Skip(tick.sample, tick.stored) /\ OverBudget(tick.sample, tick.stored)
      /\ UNCHANGED <<chain, db, mem, fill>>
  BY DEF FailoverSkip, env
<1>3. tick.stored = mem.head /\ mem.head # 0 /\ mem.head < tick.sample.n
  BY <1>1 DEF Fetching
<1>4. PlaceLink(mem, tick')
  BY <1>1, <1>2, <1>3, SkipPlace
<1> QED
  BY <1>1, <1>2, <1>4, QuietLink

(* Verified headers lead down from the sampled block, so that none has a   *)
(* later hash: the catch-up after a rewind fetched the branch of the       *)
(* sample, which goes through the ancestor.                                *)
LEMMA VerifiedBelow ==
  ASSUME NEW hs \in Seq(Block), Len(hs) >= 1, VerifyChain(hs),
         \A i \in 1 .. Len(hs) : hs[i].p <= hs[i].v
  PROVE  hs[1].v <= hs[Len(hs)].v
<1> DEFINE top == hs[Len(hs)].v
           J == {i \in 1 .. Len(hs) : hs[i].v > top}
<1>1. \A i \in 1 .. Len(hs) : hs[i].v \in Nat /\ hs[i].p \in Nat
  <2>1. \A x \in Block : x.v \in Nat /\ x.p \in Nat
    BY FollowerAssumption DEF Block, Hash
  <2> QED
    BY <2>1, ElementOfSeq
<1>2. Len(hs) \in Nat /\ top \in Nat
  BY <1>1
<1>3. J = {}
  <2> SUFFICES ASSUME J # {} PROVE FALSE
    OBVIOUS
  <2>1. J \in SUBSET Int /\ Len(hs) \in Int /\ \A i \in J : i <= Len(hs)
    BY <1>2
  <2> DEFINE j == Max(J)
  <2>2. j \in J /\ \A i \in J : i <= j
    <3> HIDE DEF J
    <3> QED
      BY <2>1, MaxOfBounded
  <2> HIDE DEF j
  <2>3. j \in 1 .. Len(hs) /\ hs[j].v > top /\ j # Len(hs)
    BY <1>2, <2>2
  <2> DEFINE k == j + 1
  <2>4. k \in 2 .. Len(hs) /\ k - 1 = j /\ k \in 1 .. Len(hs)
    BY <1>2, <2>3
  <2>5. k \notin J
    BY <2>2, <2>3
  <2> HIDE DEF k
  <2>6. hs[k].p = hs[j].v
    BY <2>4 DEF VerifyChain
  <2>7. ~ (hs[k].v > top) /\ hs[k].p <= hs[k].v
    BY <2>4, <2>5
  <2> HIDE DEF top
  <2> QED
    BY <1>1, <1>2, <2>3, <2>4, <2>6, <2>7
<1> QED
  BY <1>1, <1>2, <1>3

LEMMA HeadersFetchedLink ==
  ASSUME IInv, LinkInv, SampleInv, HeadersFetched
  PROVE  LinkStep
<1> DEFINE s == tick.sample
           old == tick.headers
           b == [v |-> s.v, p |-> s.p]
           hs == Append(old, b)
<1>1. /\ s \in Sample /\ old \in Seq(Block) /\ tick.again \in BOOLEAN
      /\ Fetching(mem, tick) /\ HeadIs(mem.head, mem.hash) /\ mem.up
      /\ mem.head \in Nat /\ s.n \in Nat /\ Len(old) \in Nat
  BY FetchKnown DEF HeadersFetched
<1>2. /\ UNCHANGED <<chain, db, mem, fill>> /\ NextBatch >= s.n
      /\ IF ~ tick.again /\ hs[1].p # mem.hash
           THEN tick' = FindAncestor(s, tick.stored - 1, "parent")
           ELSE VerifyChain(hs) /\ tick' \in Process(s, hs)
  BY DEF HeadersFetched, Headers, env
<1>3. /\ tick.stored = mem.head /\ mem.head # 0 /\ mem.head < s.n /\ s.n = mem.head + 1 + Len(old)
  <2>1. NextBatch = tick.stored + 1 + Len(old)
    BY DEF NextBatch
  <2>2. tick.stored = mem.head /\ mem.head # 0 /\ mem.head + Len(old) < s.n
    BY <1>1 DEF Fetching
  <2> HIDE DEF s, old
  <2> QED
    BY <1>1, <1>2, <2>1, <2>2
<1>4. b \in Block /\ b.v = s.v /\ b.p = s.p
  BY <1>1 DEF Sample, Block
<1>5. s.p <= s.v
  BY DEF SampleInv, Reported, HeadersFetched
<1>6. /\ tick.again => mem.head + 1 < s.n /\ (old # <<>> /\ old[1].v <= s.v => old[1].p = mem.hash)
      /\ \A i \in 1 .. Len(old) : old[i].p <= old[i].v
  BY <1>1 DEF Fetching, Returns
<1> HIDE DEF s, old, b
<1>7. /\ hs \in Seq(Block) /\ Len(hs) = Len(old) + 1 /\ hs[Len(hs)] = b
      /\ \A i \in 1 .. Len(old) : hs[i] = old[i]
  BY <1>1, <1>4, AppendProperties
<1> HIDE DEF hs
<1>8. CASE ~ tick.again /\ hs[1].p # mem.hash
  <2>1. mem.head - 1 + 1 < s.n
    BY <1>1, <1>3
  <2>2. PlaceLink(mem, tick')
    BY <1>2, <1>3, <1>8, <2>1, WalkPlace
  <2> QED
    BY <1>1, <1>2, <2>2, QuietLink
<1>9. CASE ~ (~ tick.again /\ hs[1].p # mem.hash)
  <2>1. VerifyChain(hs) /\ tick' \in Process(s, hs)
    BY <1>2, <1>9
  <2>2. \A i \in 1 .. Len(hs) : hs[i].p <= hs[i].v
    <3> TAKE i \in 1 .. Len(hs)
    <3>1. CASE i \in 1 .. Len(old)
      BY <1>6, <1>7, <3>1
    <3>2. CASE i = Len(hs)
      BY <1>4, <1>5, <1>7, <3>2
    <3> QED
      BY <1>1, <1>7, <3>1, <3>2
  <2>3. hs[1].p = mem.hash
    <3>1. CASE ~ tick.again
      BY <1>9, <3>1
    <3>2. CASE tick.again
      <4>1. Len(old) >= 1 /\ old # <<>>
        BY <1>1, <1>3, <1>6, <3>2
      <4>2. hs[1] = old[1]
        BY <1>1, <1>7, <4>1
      <4>3. hs[1].v <= s.v
        <5>1. Len(hs) >= 1
          BY <1>1, <1>7
        <5>2. hs[1].v <= hs[Len(hs)].v
          BY <1>7, <2>1, <2>2, <5>1, VerifiedBelow
        <5> QED
          BY <1>4, <1>7, <5>2
      <4> QED
        BY <1>6, <3>2, <4>1, <4>2, <4>3
    <3> QED
      BY <3>1, <3>2
  <2>4. Len(hs) = s.n - mem.head
    BY <1>1, <1>3, <1>7
  <2>5. PlaceLink(mem, tick')
    BY <1>1, <1>3, <1>4, <1>7, <2>1, <2>3, <2>4, ReplayPlace
  <2> QED
    BY <1>1, <1>2, <2>5, QuietLink
<1> QED
  BY <1>8, <1>9

(* The walk stops on a stored block the nodes still report, or, unless a   *)
(* block is stored below it, where nothing is.                             *)
LEMMA AncestorLink ==
  ASSUME IInv, LinkInv, ChainInv, AncestorHeader \/ AncestorNoRow, ~ crossed'
  PROVE  LinkStep
<1> DEFINE n == tick.n
           s == tick.sample
           rec == tick.recent
           back == [tick EXCEPT !.n = n - 1]
<1>1. tick.pc = "ancestor" /\ UNCHANGED <<chain, db, mem, fill>>
  BY DEF AncestorHeader, AncestorNoRow, env
<1>2. /\ tick \in WalkTick /\ n \in Nat /\ s.n \in Nat /\ tick.why \in RewindFor /\ rec \in Table
      /\ Len(chain) \in Nat
  <2>1. tick \in WalkTick
    BY <1>1, TickShape DEF IInv, TickInv, TickOK
  <2>2. n \in Nat /\ s.n \in Nat /\ tick.why \in RewindFor /\ rec \in Table
    BY <1>1, <2>1, PlaceFacts DEF WalkTick
  <2> QED
    BY <2>1, <2>2, FollowerAssumption DEF IInv, EnvInv, Height
<1>3. Walking(tick) /\ mem.up /\ HeadIs(mem.head, mem.hash)
  <2>1. mem.up /\ Walking(tick)
    BY <1>1 DEF LinkInv, HeadLink, PlaceLink
  <2> QED
    BY <1>1, <2>1, HeadKnown
<1>4. /\ Extends(rows, rec) /\ (tick.why = "same" => n < s.n) /\ (tick.why = "parent" => n + 1 < s.n)
  BY <1>3 DEF Walking
<1>5. /\ back.pc = "ancestor" /\ back.sample = s /\ back.n = n - 1 /\ back.recent = rec
      /\ back.why = tick.why
  BY <1>1, <1>2 DEF WalkTick
<1>6. /\ Ancestor.pc = "rewind" /\ Ancestor.sample = s /\ Ancestor.ancestor = n
      /\ Ancestor.why = tick.why
  BY DEF Ancestor
<1> HIDE DEF back
<1>7. PlaceLink(mem, back)
  <2>1. Walking(back)
    BY <1>2, <1>4, <1>5 DEF Walking
  <2> QED
    BY <1>5, <2>1 DEF PlaceLink
<1>8. tick.why # "behind" => n < s.n
  BY <1>2, <1>4 DEF RewindFor
<1>9. ASSUME IF n \in DOMAIN rows THEN tick.why = "parent" => Returns(n, s)
             ELSE \A k \in DOMAIN rows : k > n
      PROVE  PlaceLink(mem, Ancestor)
  <2>1. Rewinding(Ancestor)
    BY <1>6, <1>8, <1>9 DEF Rewinding
  <2> QED
    BY <1>6, <2>1 DEF PlaceLink
<1>10. PlaceLink(mem, tick')
  <2>1. CASE AncestorHeader
    <3>1. /\ n \in DOMAIN rec /\ n <= Len(chain)
          /\ tick' = IF chain[n].v = rec[n].v THEN Ancestor ELSE back
      BY <2>1 DEF AncestorHeader, HeaderAt, back
    <3>2. CASE chain[n].v = rec[n].v
      <4>1. n \in DOMAIN rows /\ rows[n].v = chain[n].v /\ n >= 1
        BY <1>2, <1>4, <3>1, <3>2, TableEntries DEF Extends, Height
      <4> DEFINE k == n + 1
      <4>2. k \in Nat /\ k > 1 /\ k - 1 = n
        BY <1>2, <4>1
      <4>3. k <= Len(chain) => chain[k].p = rows[n].v
        <5> SUFFICES ASSUME k <= Len(chain) PROVE chain[k].p = rows[n].v
          OBVIOUS
        <5>1. k \in 1 .. Len(chain)
          BY <1>2, <4>2
        <5> HIDE DEF k
        <5>2. chain[k].p = chain[k - 1].v
          BY <4>2, <5>1 DEF ChainInv
        <5> QED
          BY <4>1, <4>2, <5>2
      <4>4. tick.why = "parent" => Returns(n, s)
        BY <1>4, <4>3 DEF Returns
      <4> QED
        BY <1>9, <3>1, <3>2, <4>1, <4>4
    <3>3. CASE chain[n].v # rec[n].v
      BY <1>7, <3>1, <3>3
    <3> QED
      BY <3>2, <3>3
  <2>2. CASE AncestorNoRow
    <3>1. tick' = Ancestor /\ ~ (\E k \in DOMAIN rows : k <= n)
      BY <2>2 DEF AncestorNoRow
    <3>2. \A k \in DOMAIN rows : k > n /\ k # n
      BY <1>2, <3>1, LinkTypes
    <3> QED
      BY <1>9, <3>1, <3>2
  <2> QED
    BY <2>1, <2>2
<1> QED
  BY <1>1, <1>3, <1>10, QuietLink

LEMMA RewindLink ==
  ASSUME IInv, LinkInv, Rewind, ~ crossed'
  PROVE  LinkStep
<1> DEFINE a == tick.ancestor
           t == [tick EXCEPT !.pc = "reload"]
<1>1. tick.pc = "rewind" /\ RewindTx /\ tick' = t /\ UNCHANGED <<chain, mem, fill>>
  BY DEF Rewind, env
<1>2. tick \in RewindTick /\ a \in Nat
  BY <1>1, TickShape, PlaceFacts DEF IInv, TickInv, TickOK
<1>3. DbLink'
  BY <1>1, <1>2, RewindTxLink DEF LinkInv
<1>4. gen' = gen + 1 /\ DOMAIN rows' = {n \in DOMAIN rows : n <= a} /\ Extends(rows, rows')
  BY <1>1, <1>2, RewindTxLink DEF LinkInv
<1>5. t.pc = "reload" /\ t.sample = tick.sample /\ t.ancestor = a /\ t.why = tick.why
  BY <1>2 DEF RewindTick
<1>6. mem.up /\ Rewinding(tick)
  BY <1>1 DEF LinkInv, HeadLink, PlaceLink
<1>7. (\A n \in DOMAIN rows : n \in Nat) /\ gen \in Nat
  BY LinkTypes
<1> HIDE DEF t
<1>8. Rewinding(tick)'
  <2>1. CASE a \in DOMAIN rows
    <3>1. a \in DOMAIN rows' /\ rows'[a] = rows[a]
      BY <1>2, <1>4, <2>1 DEF Extends
    <3> DEFINE s == tick.sample
    <3>2. tick.why = "parent" => a + 1 < s.n /\ (a + 1 <= Len(chain) /\ chain[a + 1].v <= s.v => chain[a + 1].p = rows'[a].v)
      BY <1>6, <2>1, <3>1 DEF Rewinding, Returns
    <3>3. tick'.why = tick.why /\ tick'.sample = s /\ tick'.ancestor = a /\ tick'.pc = "reload" /\ chain' = chain
      BY <1>1, <1>5
    <3>4. tick.why # "behind" => a < s.n
      BY <1>6 DEF Rewinding
    <3> HIDE DEF s, a
    <3>5. Rewinding(tick)'
      BY <1>4, <3>1, <3>2, <3>3, <3>4 DEF Rewinding, Returns
    <3> QED
      BY <3>5
  <2>2. CASE a \notin DOMAIN rows
    <3>1. DOMAIN rows' = {}
      <4>1. \A n \in DOMAIN rows : n > a /\ ~ (n <= a)
        BY <1>2, <1>6, <1>7, <2>2 DEF Rewinding
      <4> QED
        BY <1>4, <4>1
    <3>2. tick'.why = tick.why /\ tick'.sample = tick.sample /\ tick'.ancestor = a
      BY <1>1, <1>5
    <3>3. Rewinding(tick)'
      BY <1>6, <3>1, <3>2 DEF Rewinding
    <3> QED
      BY <3>3
  <2> QED
    BY <2>1, <2>2
<1>9. PlaceLink(mem, tick)'
  <2>1. tick'.pc = "reload" /\ Rewinding(tick)'
    BY <1>1, <1>5, <1>8
  <2> QED
    BY <2>1 DEF PlaceLink
<1>10. HeadLink(mem, tick)'
  BY <1>1, <1>5, <1>6 DEF HeadLink
<1>11. FillLink'
  BY <1>1, <1>4, FillKept
<1>12. gen' # gen
  BY <1>4, <1>7
<1> QED
  BY <1>3, <1>9, <1>10, <1>11, <1>12 DEF LinkStep, LinkInv

LEMMA ReloadKnows ==
  ASSUME NEW m \in Memory, NEW t \in Table
  PROVE  LET r == ReloadHead(m, t)
         IN  /\ r.up = m.up /\ r.head = LatestBlock(t)
             /\ r.head # 0 => t[r.head].v = r.hash
<1> DEFINE last == LatestBlock(t)
           hash == IF last = 0 THEN NoHash ELSE t[last].v
           r == [m EXCEPT !.head = last, !.known = FALSE, !.hash = hash]
<1>1. ReloadHead(m, t) = r
  BY DEF ReloadHead
<1>2. last # 0 => t[last].v = hash
  OBVIOUS
<1> HIDE DEF last, hash
<1>3. r.up = m.up /\ r.head = last /\ r.hash = hash
  BY DEF Memory
<1> HIDE DEF r
<1> QED
  BY <1>1, <1>2, <1>3 DEF last

LEMMA ClearedUp ==
  ASSUME IInv
  PROVE  StartCleared.up = mem.up
  BY DEF StartCleared, IInv, Memory

(* After a rewind the reloaded head is the ancestor, or nothing is left.   *)
LEMMA RewindReloadLink ==
  ASSUME IInv, LinkInv, RewindReload
  PROVE  LinkStep
<1> DEFINE m == ReloadHead(StartCleared, rows)
           a == tick.ancestor
           s == tick.sample
           again == tick.why = "parent"
<1>1. tick.pc = "reload" /\ mem' = m /\ UNCHANGED <<chain, db, fill>>
      /\ tick' \in IF tick.why = "behind" THEN {Idle} ELSE CatchUp(s, m.head, again)
  BY DEF RewindReload, env
<1>2. a \in Nat /\ s \in Sample /\ rows \in Table /\ (\A n \in DOMAIN rows : n \in Nat)
  BY <1>1, PlaceFacts, LinkTypes
<1>3. mem.up /\ Rewinding(tick)
  BY <1>1 DEF LinkInv, HeadLink, PlaceLink
<1>4. m.up /\ HeadIs(m.head, m.hash) /\ m.head = LatestBlock(rows)
  <2>1. StartCleared \in Memory /\ StartCleared.up = mem.up
    BY StartClearedType, ClearedUp
  <2> QED
    BY <1>2, <1>3, <2>1, ReloadKnows DEF HeadIs
<1> HIDE DEF m
<1>5. m.head \in Nat /\ (m.head # 0 => m.head = a /\ a \in DOMAIN rows)
  <2>1. m.head \in Nat /\ IF m.head = 0 THEN DOMAIN rows = {} ELSE m.head \in DOMAIN rows
    BY <1>2, <1>4, LatestBlockType, FollowerAssumption
  <2>2. \A n \in DOMAIN rows : n <= a
    BY <1>1, <1>3 DEF Rewinding
  <2>3. a \notin DOMAIN rows => \A n \in DOMAIN rows : n > a
    BY <1>3 DEF Rewinding
  <2>4. CASE a \in DOMAIN rows
    BY <1>2, <1>4, <2>1, <2>2, <2>4, LatestIs
  <2>5. CASE a \notin DOMAIN rows
    <3>1. \A n \in DOMAIN rows : n <= a /\ n > a /\ n \in Nat
      BY <1>2, <2>2, <2>3, <2>5
    <3> HIDE DEF a
    <3>2. DOMAIN rows = {}
      BY <1>2, <3>1
    <3> QED
      BY <2>1, <3>2
  <2> QED
    BY <2>4, <2>5
<1>6. PlaceLink(mem', tick')
  <2>1. CASE tick' = Idle
    BY <2>1, IdlePlace
  <2>2. CASE tick.why # "behind" /\ tick' \in CatchUp(s, m.head, again)
    <3>1. m.head # 0 => m.head < s.n /\ (again => Returns(m.head, s))
      BY <1>3, <1>5, <2>2 DEF Rewinding
    <3>2. again \in BOOLEAN
      OBVIOUS
    <3> HIDE DEF again
    <3> QED
      BY <1>1, <1>2, <1>5, <2>2, <3>1, <3>2, CatchUpPlace
  <2> QED
    BY <1>1, <2>1, <2>2
<1> QED
  BY <1>1, <1>4, <1>6, QuietLink

LEMMA PersistLink ==
  ASSUME IInv, LinkInv, Persist
  PROVE  LinkStep
<1> DEFINE s == tick.sample
<1>1. /\ tick.pc = "persist" /\ PersistTx /\ tick' = [pc |-> "publish", sample |-> s]
      /\ UNCHANGED <<chain, mem, fill>>
  BY DEF Persist, env
<1>2. /\ DbLink' /\ gen' = gen /\ Extends(rows', rows)
      /\ LatestBlock(rows') = s.n /\ rows'[s.n].v = s.v
      /\ \A h \in holes : h \in holes' /\ \A n \in DOMAIN rows' \ DOMAIN rows : h.to + 1 < n
  BY <1>1, PersistTxLink
<1>3. \A h \in holes : \E k \in holes' : Same(k, h)
  BY <1>2 DEF Same
<1>4. FillLink'
  BY <1>1, <1>2, <1>3, FillKept
<1>5. tick'.pc = "publish" /\ tick'.sample = s /\ mem'.up
  BY <1>1 DEF LinkInv, HeadLink
<1>6. HeadLink(mem, tick)'
  BY <1>5 DEF HeadLink
<1>7. PlaceLink(mem, tick)'
  BY <1>2, <1>5 DEF PlaceLink, HeadIs
<1> QED
  BY <1>2, <1>4, <1>6, <1>7 DEF LinkStep, LinkInv

LEMMA PublishLink ==
  ASSUME IInv, LinkInv, Publish
  PROVE  LinkStep
<1>1. /\ tick.pc = "publish" /\ tick' = Idle /\ UNCHANGED <<chain, db, fill>>
      /\ mem' = [mem EXCEPT !.head = tick.sample.n, !.hash = tick.sample.v, !.known = TRUE,
                            !.live = IF @ = 0 THEN tick.sample.n ELSE @]
  BY DEF Publish, env
<1>2. mem'.head = tick.sample.n /\ mem'.hash = tick.sample.v
  BY <1>1 DEF IInv, Memory
<1>3. HeadIs(tick.sample.n, tick.sample.v)
  BY <1>1 DEF LinkInv, PlaceLink
<1>4. tick'.pc = "idle"
  BY <1>1 DEF Idle
<1> QED
  BY <1>1, <1>2, <1>3, <1>4, IdlePlace, QuietLink

(* Unless the database is out, a failed tick reloads what it committed.    *)
LEMMA TickFailsLink ==
  ASSUME ~ Outage, IInv, LinkInv, TickFails
  PROVE  LinkStep
<1>1. /\ tick' = Idle /\ UNCHANGED <<chain, db, fill>>
      /\ mem' \in {ReloadHead(mem, rows), ReloadHead(StartCleared, rows)}
  BY DEF TickFails, Reloaded, env
<1>2. mem \in Memory /\ StartCleared \in Memory /\ rows \in Table
  BY StartClearedType, LinkTypes DEF IInv
<1>3. HeadIs(mem'.head, mem'.hash)
  BY <1>1, <1>2, ReloadKnows DEF HeadIs
<1>4. tick'.pc = "idle"
  BY <1>1 DEF Idle
<1> QED
  BY <1>1, <1>3, <1>4, IdlePlace, QuietLink

LEMMA AnswerLostLink ==
  ASSUME ~ Outage, IInv, LinkInv, AnswerLost, ~ crossed'
  PROVE  LinkStep
<1>1. tick' = Idle /\ mem' = ReloadHead(mem, rows') /\ UNCHANGED <<chain, fill>>
  BY DEF AnswerLost, Reloaded, env
<1>2. mem \in Memory /\ rows' \in Table
  BY AnswerLostStep DEF IInv, Inductive, DbInv
<1>3. HeadIs(mem.head, mem.hash)'
  BY <1>1, <1>2, ReloadKnows DEF HeadIs
<1>4. tick'.pc = "idle"
  BY <1>1 DEF Idle
<1>5. HeadLink(mem, tick)' /\ PlaceLink(mem, tick)'
  BY <1>3, <1>4 DEF HeadLink, PlaceLink
<1>6. CASE tick.pc = "rewind" /\ RewindTx
  <2>1. tick \in RewindTick
    BY <1>6, TickShape DEF IInv, TickInv, TickOK
  <2>2. DbLink' /\ gen' = gen + 1
    BY <1>6, <2>1, RewindTxLink DEF LinkInv
  <2>3. FillLink' /\ gen' # gen
    BY <1>1, <2>2, FillKept, LinkTypes
  <2> QED
    BY <1>5, <2>2, <2>3 DEF LinkStep, LinkInv
<1>7. CASE tick.pc = "persist" /\ PersistTx
  <2>1. /\ DbLink' /\ gen' = gen /\ Extends(rows', rows)
        /\ \A h \in holes : h \in holes' /\ \A n \in DOMAIN rows' \ DOMAIN rows : h.to + 1 < n
    BY <1>7, PersistTxLink
  <2>2. \A h \in holes : \E k \in holes' : Same(k, h)
    BY <2>1 DEF Same
  <2>3. FillLink'
    BY <1>1, <2>1, <2>2, FillKept
  <2> QED
    BY <1>5, <2>1, <2>3 DEF LinkStep, LinkInv
<1> QED
  BY <1>6, <1>7 DEF AnswerLost

-----------------------------------------------------------------------------
(* The filler. *)
LEMMA FillerQuiet ==
  ASSUME IInv, LinkInv, UNCHANGED <<chain, mem, tick, rows, gen>>,
         Separate(holes'), Alike(holes', holes), FillLink'
  PROVE  LinkStep
<1>1. rows' = rows /\ gen' = gen /\ chain' = chain /\ UNCHANGED <<mem, tick>>
  OBVIOUS
<1>2. DbLink'
  <2>1. Linear(rows) /\ Gaps(holes, rows)
    BY DEF LinkInv, DbLink
  <2>2. Gaps(holes', rows)
    BY <2>1, AlikeGaps
  <2> QED
    BY <1>1, <2>1, <2>2 DEF DbLink
<1>3. HeadLink(mem, tick)' /\ PlaceLink(mem, tick)'
  <2>1. \A a \in DOMAIN rows : tick.pc # "idle" /\ Returns(a, tick.sample) => Returns(a, tick.sample)'
    BY <1>1 DEF Returns
  <2>2. rows' \in Table
    BY <1>1, LinkTypes
  <2> QED
    BY <1>1, <2>1, <2>2, RowsSame, PlaceKept
<1> QED
  BY <1>1, <1>2, <1>3, RowsSame DEF LinkStep, LinkInv

LEMMA IdleFill ==
  ASSUME fill' = Idle \/ fill'.pc = "failed"
  PROVE  FillLink'
<1>1. fill'.pc \in {"idle", "failed"}
  BY DEF Idle
<1> QED
  BY <1>1 DEF FillLink

LEMMA SameHolesLink ==
  ASSUME IInv, LinkInv, holes' = holes
  PROVE  Separate(holes') /\ Alike(holes', holes) /\ Alike(holes, holes')
  BY DEF LinkInv, DbLink, Alike, Same

LEMMA MarkedHoles ==
  ASSUME IInv, LinkInv, NEW m, \A n \in DOMAIN m : m[n] \in Reasons, holes' = MarkHoles(holes, m)
  PROVE  Separate(holes') /\ Alike(holes', holes) /\ Alike(holes, holes')
<1>1. Stored(MaxHeight, Hash, holes) /\ Separate(holes)
  BY LinkTypes DEF LinkInv, DbLink
<1> QED
  BY <1>1, MarkAlike

LEMMA BegunKept ==
  ASSUME UNCHANGED <<rows, gen>>, Alike(holes, holes'), NEW g, NEW h, NEW x, Begun(g, h, x)
  PROVE  Begun(g, h, x)'
<1> SUFFICES ASSUME g = gen PROVE (\E c \in holes' : Same(c, h)) /\ FollowsOn(h, x)'
  BY DEF Begun
<1>1. PICK c \in holes : Same(c, h)
  BY DEF Begun
<1>2. PICK k \in holes' : Same(c, k)
  BY DEF Alike
<1>3. FollowsOn(h, x)'
  BY DEF Begun, FollowsOn
<1> QED
  BY <1>1, <1>2, <1>3 DEF Same

(* What pickHole hands on is a range of the table, from the row before it. *)
LEMMA TargetBegun ==
  ASSUME IInv, NEW h \in holes
  PROVE  LET f == FillTarget(h)
         IN  f.pc = "fetch" /\ Begun(f.gen, f.hole, f.hash)
<1> DEFINE k == IF Blocked(h) THEN [h EXCEPT !.reason = "", !.life = "pending"] ELSE h
           f == FillTarget(h)
<1>1. f.pc = "fetch" /\ f.hole = k /\ f.hash = StartHash(h)
  BY DEF FillTarget
<1>2. k.from = h.from /\ k.to = h.to /\ k.next = h.next
  BY LinkTypes DEF Hole, HoleRecords
<1> HIDE DEF k, f
<1>3. Same(h, k) /\ Start(k) = Start(h)
  BY <1>2 DEF Same, Start
<1>4. FollowsOn(k, StartHash(h))
  BY <1>3 DEF FollowsOn, StartHash
<1>5. Begun(f.gen, k, StartHash(h))
  BY <1>3, <1>4 DEF Begun
<1> QED
  BY <1>1, <1>5 DEF f

LEMMA FillPickLink ==
  ASSUME IInv, LinkInv, FillStep
  PROVE  LinkStep
<1>1. PICK waiting \in SUBSET MayWait, unexplained \in SUBSET MayBeUnexplained :
        FillPick(waiting, unexplained)
  BY DEF FillStep
<1> DEFINE examined == {h \in holes \ waiting : h.reason # "unsupported_model"}
           able == {h \in examined \ unexplained : Startable(h)}
           picked == {h \in able : \A k \in able : k # h => PickedBefore(h, k)}
           seen == {h \in examined : \A k \in picked : PickedBefore(h, k)}
           stranded == {h \in seen : ~ Blocked(h) /\ Start(h) <= h.to /\ ~ Startable(h)}
           refused == {h \in seen \cap unexplained : Startable(h)}
           marks == [n \in {h.from : h \in stranded \cup refused} |->
                       IF n \in {h.from : h \in stranded} THEN "no_state" ELSE "replay_discontinuity"]
           target == IF picked = {} THEN Idle ELSE FillTarget(CHOOSE h \in picked : TRUE)
<1>2. /\ fill' = IF DOMAIN marks = {} THEN target
                 ELSE [pc |-> "mark", marks |-> marks, target |-> target]
      /\ UNCHANGED <<db, mem, tick, chain>>
  BY <1>1 DEF FillPick, env
<1>3. /\ target.pc \in {"idle", "fetch"}
      /\ target.pc = "fetch" => Begun(target.gen, target.hole, target.hash)
  <2>1. CASE picked = {}
    BY <2>1 DEF Idle
  <2>2. CASE picked # {}
    <3> DEFINE h == CHOOSE h \in picked : TRUE
    <3>1. h \in picked
      BY <2>2
    <3>2. h \in holes /\ target = FillTarget(h)
      BY <2>2, <3>1
    <3> HIDE DEF h, target
    <3> QED
      BY <3>2, TargetBegun
  <2> QED
    BY <2>1, <2>2
<1> HIDE DEF marks, target
<1>4. rows' = rows /\ gen' = gen /\ holes' = holes
  BY <1>2 DEF db
<1>5. \/ fill' = target
      \/ fill'.pc = "mark" /\ fill'.target = target
  BY <1>2
<1>6. ASSUME target.pc = "fetch", NEW g, g = target.gen, NEW h, h = target.hole, NEW x, x = target.hash
      PROVE  Begun(g, h, x)'
  <2>1. Begun(g, h, x)
    BY <1>3, <1>6
  <2>2. Alike(holes, holes') /\ UNCHANGED <<rows, gen>>
    BY <1>4, SameHolesLink
  <2> QED
    BY <2>1, <2>2, BegunKept
<1>7. ASSUME fill' = target PROVE FillLink'
  <2>1. target.pc = "fetch" => Begun(fill.gen, fill.hole, fill.hash)'
    BY <1>6, <1>7 DEF Begun, FollowsOn
  <2> QED
    BY <1>3, <1>7, <2>1 DEF FillLink
<1>8. ASSUME fill'.pc = "mark", fill'.target = target PROVE FillLink'
  <2>1. target.pc = "fetch" => Begun(fill.target.gen, fill.target.hole, fill.target.hash)'
    BY <1>6, <1>8 DEF Begun, FollowsOn
  <2> QED
    BY <1>3, <1>8, <2>1 DEF FillLink
<1>9. Separate(holes') /\ Alike(holes', holes)
  BY <1>4, SameHolesLink
<1> QED
  BY <1>2, <1>4, <1>5, <1>7, <1>8, <1>9, FillerQuiet

LEMMA FillMarkLink ==
  ASSUME IInv, LinkInv, FillMark
  PROVE  LinkStep
<1>1. /\ fill.pc = "mark" /\ fill' = fill.target /\ holes' = MarkHoles(holes, fill.marks)
      /\ UNCHANGED <<chain, rows, gen, mem, tick>>
  BY DEF FillMark, env
<1>2. fill.target \in IdleStep \cup FetchFill /\ \A n \in DOMAIN fill.marks : fill.marks[n] \in Reasons
  <2>1. fill \in MarkFill
    BY <1>1, FillShape DEF IInv, FillInv
  <2> QED
    BY <2>1 DEF MarkFill, Marks
<1>3. Separate(holes') /\ Alike(holes', holes) /\ Alike(holes, holes')
  BY <1>1, <1>2, MarkedHoles
<1>4. fill.target.pc \in {"idle", "fetch"}
  BY <1>2 DEF IdleStep, FetchFill
<1> DEFINE f == fill.target
<1>5. f.pc = "fetch" => Begun(f.gen, f.hole, f.hash)
  BY <1>1 DEF LinkInv, FillLink
<1>6. ASSUME f.pc = "fetch", NEW g, g = f.gen, NEW h, h = f.hole, NEW x, x = f.hash
      PROVE  Begun(g, h, x)'
  <2>1. Begun(g, h, x)
    BY <1>5, <1>6
  <2>2. UNCHANGED <<rows, gen>>
    BY <1>1
  <2> QED
    BY <1>3, <2>1, <2>2, BegunKept
<1>7. f.pc = "fetch" => Begun(fill.gen, fill.hole, fill.hash)'
  BY <1>1, <1>6 DEF Begun, FollowsOn
<1>8. FillLink'
  BY <1>1, <1>4, <1>7 DEF FillLink
<1> QED
  BY <1>1, <1>3, <1>8, FillerQuiet

(* A batch that passed the checks of fillBatch follows its first block and *)
(* is followed by the stored block after the range.                        *)
LEMMA FillFetchLink ==
  ASSUME IInv, LinkInv, ChainInv, FillFetch
  PROVE  LinkStep
<1>1. fill.pc = "fetch" /\ UNCHANGED <<chain, db, mem, tick>>
  BY DEF FillFetch, env
<1>2. PICK hdrs \in FillBatches :
        LET e == Max(DOMAIN hdrs)
        IN  /\ Links(hdrs, fill.hole)
            /\ fill' = [pc |-> "commit", gen |-> fill.gen, hole |-> fill.hole, next |-> e + 1, rows |-> hdrs,
                        tail |-> IF e = fill.hole.to THEN Restrict(rows, DOMAIN rows \cap {e + 1}) ELSE NoRows]
  BY DEF FillFetch
<1> DEFINE h == fill.hole
           e == Max(DOMAIN hdrs)
           tail == IF e = h.to THEN Restrict(rows, DOMAIN rows \cap {e + 1}) ELSE NoRows
<1>3. h \in Hole /\ h.to \in Nat /\ Start(h) \in Nat
  <2>1. fill \in FetchFill
    BY <1>1, FillShape DEF IInv, FillInv
  <2>2. h \in Hole
    BY <2>1 DEF FetchFill
  <2> QED
    BY <2>2, StartType, FollowerAssumption
<1>4. /\ e \in Nat /\ e <= h.to /\ Start(h) <= e /\ DOMAIN hdrs = Start(h) .. e
      /\ \A n \in DOMAIN hdrs : n \in 1 .. Len(chain) /\ hdrs[n] = chain[n]
  BY <1>3, FillBatchOK DEF IInv
<1>5. /\ fill' = [pc |-> "commit", gen |-> fill.gen, hole |-> h, next |-> e + 1, rows |-> hdrs, tail |-> tail]
      /\ hdrs[Start(h)].p = fill.hash
      /\ e = h.to /\ e + 1 \in DOMAIN rows => rows[e + 1].p = hdrs[e].v
  BY <1>2 DEF Links
<1>6. Extends(rows, tail)
  BY NoRowsTable DEF Extends, Restrict
<1> HIDE DEF e, tail
<1>7. Linear(hdrs)
  <2> SUFFICES ASSUME NEW n \in DOMAIN hdrs, NEW k \in DOMAIN hdrs, k = n + 1
               PROVE  hdrs[k].p = hdrs[n].v
    BY DEF Linear
  <2>1. k \in 1 .. Len(chain) /\ k > 1 /\ n = k - 1
    BY <1>4
  <2>2. chain[k].p = chain[k - 1].v
    BY <2>1 DEF ChainInv
  <2> QED
    BY <1>4, <2>1, <2>2
<1>8. rows' = rows /\ gen' = gen /\ holes' = holes
  BY <1>1 DEF db
<1>9. Begun(fill.gen, h, fill.hash)
  BY <1>1 DEF LinkInv, FillLink
<1>10. ASSUME fill.gen = gen, e + 1 = h.to + 1
       PROVE  rows[h.to + 1].p = hdrs[h.to].v
  <2>1. PICK c \in holes : Same(c, h)
    BY <1>9, <1>10 DEF Begun
  <2>2. h.to + 1 \in DOMAIN rows
    BY <2>1 DEF LinkInv, DbLink, Gaps, Gap, Same
  <2>3. e = h.to
    BY <1>3, <1>4, <1>10
  <2> QED
    BY <1>5, <2>2, <2>3
<1>11. /\ fill'.pc = "commit" /\ fill'.gen = fill.gen /\ fill'.hole = h /\ fill'.next = e + 1
       /\ fill'.rows = hdrs /\ fill'.tail = tail
  BY <1>5
<1>12. Begun(fill.gen, h, hdrs[Start(h)].p)
  BY <1>5, <1>9
<1> HIDE DEF h
<1>13. Committing(fill)'
  BY <1>6, <1>7, <1>8, <1>10, <1>11, <1>12 DEF Committing, Begun, FollowsOn, Linear, Extends, Start
<1>14. FillLink'
  BY <1>11, <1>13 DEF FillLink
<1>15. Separate(holes') /\ Alike(holes', holes)
  BY <1>8, SameHolesLink
<1> QED
  BY <1>1, <1>8, <1>14, <1>15, FillerQuiet

LEMMA FillUnsupportedLink ==
  ASSUME IInv, LinkInv, FillUnsupported
  PROVE  LinkStep
<1> DEFINE m == [n \in {fill.hole.from} |-> "unsupported_model"]
<1>1. /\ holes' = IF gen = fill.gen THEN MarkHoles(holes, m) ELSE holes
      /\ fill' = Idle /\ UNCHANGED <<chain, rows, gen, mem, tick>>
  BY DEF FillUnsupported, env
<1>2. \A n \in DOMAIN m : m[n] \in Reasons
  BY DEF Reasons
<1> HIDE DEF m
<1>3. Separate(holes') /\ Alike(holes', holes)
  BY <1>1, <1>2, SameHolesLink, MarkedHoles
<1> QED
  BY <1>1, <1>3, IdleFill, FillerQuiet

(* The transaction of a batch, or of a batch whose answer is lost.         *)
LEMMA FillTxStepLink ==
  ASSUME IInv, LinkInv, fill.pc = "commit", gen = fill.gen, FillTx, UNCHANGED <<chain, mem, tick>>,
         fill' = Idle \/ fill'.pc = "failed", rows' \in Table
  PROVE  LinkStep
<1>1. DbLink' /\ gen' = gen /\ Inside(rows', rows)
  BY FillTxLink DEF LinkInv
<1>2. Extends(rows', rows)
  BY <1>1 DEF Inside
<1>3. \A a \in DOMAIN rows : tick.pc # "idle" /\ Returns(a, tick.sample) => Returns(a, tick.sample)'
  BY <1>2 DEF Returns, Extends
<1>4. HeadLink(mem, tick)' /\ PlaceLink(mem, tick)'
  BY <1>1, <1>3, PlaceKept
<1> QED
  BY <1>1, <1>2, <1>4, IdleFill DEF LinkStep, LinkInv

LEMMA FillEndsLink ==
  ASSUME IInv, LinkInv, FillCommit \/ FillFails \/ FillDefer
  PROVE  LinkStep
<1>1. UNCHANGED <<chain, mem, tick>> /\ (fill' = Idle \/ fill'.pc = "failed")
  BY DEF FillCommit, FillFails, FillDefer, env
<1>2. rows' \in Table
  BY FillCommitStep, FillFailsStep, FillDeferStep DEF Inductive, IInv, DbInv
<1>3. CASE UNCHANGED db
  <2>1. UNCHANGED <<rows, gen, holes>>
    BY <1>3 DEF db
  <2> QED
    BY <1>1, <2>1, IdleFill, SameHolesLink, FillerQuiet
<1>4. CASE fill.pc = "commit" /\ gen = fill.gen /\ FillTx
  BY <1>1, <1>2, <1>4, FillTxStepLink
<1> QED
  BY <1>3, <1>4 DEF FillCommit, FillFails, FillDefer

LEMMA FillGivesUpLink ==
  ASSUME IInv, LinkInv, FillGivesUp \/ FillRetry
  PROVE  LinkStep
<1>1. fill' = Idle /\ UNCHANGED <<chain, rows, gen, mem, tick>>
  BY DEF FillGivesUp, FillRetry, env
<1>2. CASE holes' = holes
  BY <1>1, <1>2, IdleFill, SameHolesLink, FillerQuiet
<1>3. CASE fill.pc = "mark" /\ holes' = MarkHoles(holes, fill.marks)
  <2>1. \A n \in DOMAIN fill.marks : fill.marks[n] \in Reasons
    <3>1. fill \in MarkFill
      BY <1>3, FillShape DEF IInv, FillInv
    <3> QED
      BY <3>1 DEF MarkFill, Marks
  <2> DEFINE m == fill.marks
  <2>2. holes' = MarkHoles(holes, m)
    BY <1>3
  <2> HIDE DEF m
  <2>3. Separate(holes') /\ Alike(holes', holes)
    BY <2>1, <2>2, MarkedHoles DEF m
  <2> QED
    BY <1>1, <2>3, IdleFill, FillerQuiet
<1>4. CASE holes' = RecordFillFailure(holes, fill.hole)
  <2>1. Stored(MaxHeight, Hash, holes) /\ Separate(holes)
    BY LinkTypes DEF LinkInv, DbLink
  <2>2. Separate(holes') /\ Alike(holes', holes)
    BY <1>4, <2>1, RetryAlike
  <2> QED
    BY <1>1, <2>2, IdleFill, FillerQuiet
<1> QED
  BY <1>2, <1>3, <1>4 DEF FillGivesUp, FillRetry

-----------------------------------------------------------------------------
(* The chain, and the process's stops and starts. *)
LEMMA LongerChain ==
  ASSUME EnvInv, Mint
  PROVE  /\ Len(chain) \in Nat /\ Len(chain') = Len(chain) + 1 /\ forks' = forks /\ forks \in Nat
         /\ \A n \in 1 .. Len(chain) : chain'[n] = chain[n]
         /\ LET b == chain'[Len(chain) + 1] IN b.v = forks /\ b.p = chain[Len(chain)].v
<1> DEFINE b == [v |-> forks, p |-> chain[Len(chain)].v]
<1>1. chain \in Seq(Block) /\ Len(chain) \in 1 .. MaxHeight /\ forks \in Hash
  BY DEF EnvInv, Height
<1>2. b \in Block /\ b.v = forks /\ b.p = chain[Len(chain)].v
  BY <1>1, ChainEntries DEF Block
<1>3. chain' = Append(chain, b) /\ forks' = forks
  BY DEF Mint
<1> HIDE DEF b
<1>4. /\ Len(chain') = Len(chain) + 1 /\ chain'[Len(chain) + 1] = b
      /\ \A n \in 1 .. Len(chain) : chain'[n] = chain[n]
  BY <1>1, <1>2, <1>3, AppendProperties
<1> QED
  BY <1>1, <1>2, <1>3, <1>4, FollowerAssumption DEF Hash

LEMMA ForkedChain ==
  ASSUME EnvInv, Reorg
  PROVE  /\ Len(chain) \in Nat /\ forks \in Nat /\ forks' = forks + 1
         /\ \E k \in 1 .. Len(chain) - 1 :
              /\ Len(chain') = k + 1 /\ \A n \in 1 .. k : chain'[n] = chain[n]
              /\ LET b == chain'[k + 1] IN b.v = forks + 1 /\ b.p = chain[k].v
<1>1. chain \in Seq(Block) /\ Len(chain) \in 1 .. MaxHeight /\ forks \in Hash
  BY DEF EnvInv, Height
<1>2. PICK k \in 1 .. Len(chain) - 1 :
        chain' = Append(SubSeq(chain, 1, k), [v |-> forks + 1, p |-> chain[k].v])
  BY DEF Reorg
<1> DEFINE b == [v |-> forks + 1, p |-> chain[k].v]
           c == SubSeq(chain, 1, k)
<1>3. b \in Block /\ b.v = forks + 1 /\ b.p = chain[k].v /\ forks' = forks + 1 /\ forks \in Nat
  <2>1. forks + 1 \in Hash /\ forks' = forks + 1 /\ forks \in Nat
    BY <1>1, FollowerAssumption DEF Reorg, Hash
  <2>2. chain[k].v \in Hash
    BY <1>1, <1>2, ChainEntries
  <2> QED
    BY <2>1, <2>2 DEF Block
<1>4. c \in Seq(Block) /\ Len(c) = k /\ \A n \in 1 .. k : c[n] = chain[n]
  BY <1>1, <1>2, ChainEntries, SubSeqProperties
<1>5. chain' = Append(c, b)
  BY <1>2
<1> HIDE DEF b, c
<1>6. Len(chain') = k + 1 /\ chain'[k + 1] = b /\ \A n \in 1 .. k : chain'[n] = chain[n]
  BY <1>3, <1>4, <1>5, AppendProperties
<1> QED
  BY <1>1, <1>2, <1>3, <1>6

LEMMA ChainGrows ==
  ASSUME IInv, ChainInv, Mint \/ Reorg
  PROVE  ChainInv'
<1>1. CASE Mint
  <2> DEFINE top == Len(chain) + 1
  <2>1. /\ Len(chain) \in Nat /\ Len(chain) >= 1 /\ Len(chain') = top /\ forks' = forks /\ forks \in Nat
        /\ \A n \in 1 .. Len(chain) : chain'[n] = chain[n] /\ chain[n].v \in Nat
        /\ chain'[top].v = forks /\ chain'[top].p = chain[Len(chain)].v
    BY <1>1, LongerChain, ChainEntries, FollowerAssumption DEF IInv, EnvInv, Height, Hash
  <2> SUFFICES ASSUME NEW n \in 1 .. top
               PROVE  /\ chain'[n].v <= forks' /\ chain'[n].p <= chain'[n].v
                      /\ n > 1 => chain'[n].p = chain'[n - 1].v
    BY <2>1 DEF ChainInv
  <2>2. CASE n = top
    <3>1. n - 1 = Len(chain) /\ n - 1 \in 1 .. Len(chain)
      BY <2>1, <2>2
    <3> QED
      BY <2>1, <2>2, <3>1 DEF ChainInv
  <2>3. CASE n # top
    <3>1. n \in 1 .. Len(chain) /\ (n > 1 => n - 1 \in 1 .. Len(chain))
      BY <2>1, <2>3
    <3> QED
      BY <2>1, <3>1 DEF ChainInv
  <2> QED
    BY <2>2, <2>3
<1>2. CASE Reorg
  <2>1. PICK k \in 1 .. Len(chain) - 1 :
          /\ Len(chain') = k + 1 /\ \A n \in 1 .. k : chain'[n] = chain[n]
          /\ chain'[k + 1].v = forks + 1 /\ chain'[k + 1].p = chain[k].v
    BY <1>2, ForkedChain DEF IInv
  <2>2. /\ Len(chain) \in Nat /\ forks \in Nat /\ forks' = forks + 1
        /\ \A n \in 1 .. Len(chain) : chain[n].v \in Nat /\ chain[n].p \in Nat
    <3>1. \A x \in Block : x.v \in Nat /\ x.p \in Nat
      BY FollowerAssumption DEF Block, Hash
    <3> QED
      BY <1>2, <3>1, ForkedChain, ChainEntries DEF IInv
  <2> DEFINE top == k + 1
  <2> SUFFICES ASSUME NEW n \in 1 .. top
               PROVE  /\ chain'[n].v <= forks' /\ chain'[n].p <= chain'[n].v
                      /\ n > 1 => chain'[n].p = chain'[n - 1].v
    BY <2>1 DEF ChainInv
  <2>3. CASE n = top
    <3>1. n - 1 = k /\ k \in 1 .. k /\ k \in 1 .. Len(chain)
      BY <2>1, <2>2, <2>3
    <3>2. chain[k].v <= forks
      BY <3>1 DEF ChainInv
    <3> QED
      BY <2>1, <2>2, <2>3, <3>1, <3>2
  <2>4. CASE n # top
    <3>1. n \in 1 .. k /\ n \in 1 .. Len(chain) /\ (n > 1 => n - 1 \in 1 .. k)
      BY <2>1, <2>2, <2>4
    <3>2. chain[n].v <= forks /\ chain[n].p <= chain[n].v /\ (n > 1 => chain[n].p = chain[n - 1].v)
      BY <3>1 DEF ChainInv
    <3> QED
      BY <2>1, <2>2, <3>1, <3>2
  <2> QED
    BY <2>3, <2>4
<1> QED
  BY <1>1, <1>2

(* A block produced above an ancestor has a later hash than the sample, or *)
(* the sample was on the branch that it prolongs.                          *)
LEMMA ReturnsKept ==
  ASSUME IInv, SampleInv, Mint \/ Reorg, tick.pc # "idle",
         NEW a \in DOMAIN rows, Returns(a, tick.sample)
  PROVE  Returns(a, tick.sample)'
<1> DEFINE s == tick.sample
           k == a + 1
<1>1. /\ rows' = rows /\ tick' = tick
      /\ a \in Nat /\ s.n \in Nat /\ s.v \in Nat /\ Reported(s) /\ k \in Nat /\ k >= 1
  <2>1. a \in Nat /\ s \in Sample /\ s.n \in Nat
    BY LinkTypes, PlaceFacts
  <2>2. s.v \in Nat
    BY <2>1, FollowerAssumption DEF Sample, Hash
  <2>3. UNCHANGED <<db, tick>>
    BY DEF Mint, Reorg
  <2> QED
    BY <2>1, <2>2, <2>3 DEF db, SampleInv
<1>2. a + 1 < s.n /\ (k <= Len(chain) /\ chain[k].v <= s.v => chain[k].p = rows[a].v)
  BY DEF Returns
<1>3. s.v <= forks /\ (s.v = forks => s.n <= Len(chain))
  BY <1>1 DEF Reported
<1> SUFFICES ASSUME k <= Len(chain'), chain'[k].v <= s.v PROVE chain'[k].p = rows[a].v
  BY <1>1, <1>2 DEF Returns
<1>4. CASE Mint
  <2>1. /\ Len(chain) \in Nat /\ Len(chain') = Len(chain) + 1 /\ forks' = forks /\ forks \in Nat
        /\ \A n \in 1 .. Len(chain) : chain'[n] = chain[n]
        /\ chain'[Len(chain) + 1].v = forks
    BY <1>4, LongerChain DEF IInv
  <2>2. k \in 1 .. Len(chain)
    BY <1>1, <1>2, <1>3, <2>1
  <2> QED
    BY <1>2, <2>1, <2>2
<1>5. CASE Reorg
  <2>1. PICK j \in 1 .. Len(chain) - 1 :
          /\ Len(chain') = j + 1 /\ \A n \in 1 .. j : chain'[n] = chain[n]
          /\ chain'[j + 1].v = forks + 1
    BY <1>5, ForkedChain DEF IInv
  <2>2. Len(chain) \in Nat /\ forks \in Nat
    BY <1>5, ForkedChain DEF IInv
  <2>3. k \in 1 .. j /\ k <= Len(chain)
    BY <1>1, <1>3, <2>1, <2>2
  <2> QED
    BY <1>2, <2>1, <2>3
<1> QED
  BY <1>4, <1>5

LEMMA StoreSame ==
  ASSUME IInv, LinkInv, UNCHANGED <<rows, holes, gen>>
  PROVE  DbLink' /\ (UNCHANGED fill => FillLink') /\ Extends(rows', rows) /\ Inside(rows', rows)
<1>1. DbLink'
  BY DEF LinkInv, DbLink, Gaps, Gap, Separate
<1>2. \A h \in holes : /\ \E k \in holes' : Same(k, h)
                       /\ \A n \in DOMAIN rows' \ DOMAIN rows : h.to + 1 < n
  BY DEF Same
<1>3. UNCHANGED fill => FillLink'
  BY <1>2, RowsSame, FillKept
<1> QED
  BY <1>1, <1>3, RowsSame

LEMMA ChainLink ==
  ASSUME IInv, LinkInv, SampleInv, Mint \/ Reorg
  PROVE  LinkStep
<1>1. UNCHANGED <<rows, holes, gen, mem, tick, fill>>
  BY DEF Mint, Reorg, db
<1>2. rows' \in Table
  BY <1>1, LinkTypes
<1>3. HeadLink(mem, tick)' /\ PlaceLink(mem, tick)'
  BY <1>1, <1>2, ReturnsKept, StoreSame, PlaceKept
<1> QED
  BY <1>1, <1>3, StoreSame DEF LinkStep, LinkInv

LEMMA CrashLink ==
  ASSUME IInv, LinkInv, Crash
  PROVE  LinkStep
<1>1. UNCHANGED <<rows, holes, gen>> /\ mem' = Down /\ tick' = Idle /\ fill' = Idle
  BY DEF Crash, db
<1>2. ~ mem'.up /\ tick'.pc = "idle"
  BY <1>1 DEF Down, Idle
<1>3. HeadLink(mem, tick)' /\ PlaceLink(mem, tick)'
  BY <1>2 DEF HeadLink, PlaceLink
<1> QED
  BY <1>1, <1>3, StoreSame, IdleFill DEF LinkStep, LinkInv

LEMMA EnsureInitLink ==
  ASSUME IInv, LinkInv, EnsureInit
  PROVE  LinkStep
<1> DEFINE m == [Down EXCEPT !.up = TRUE, !.live = live']
<1>1. UNCHANGED <<rows, holes, gen, tick, fill>> /\ mem' = ReloadHead(m, rows) /\ ~ mem.up
  BY DEF EnsureInit
<1>2. tick'.pc = "idle"
  BY <1>1 DEF LinkInv, HeadLink
<1>3. m \in Memory
  BY EnsureInitStep, DownType DEF Inductive, IInv, DbInv
<1> HIDE DEF m
<1>4. HeadIs(mem.head, mem.hash)'
  BY <1>1, <1>3, ReloadKnows, LinkTypes DEF HeadIs
<1>5. HeadLink(mem, tick)' /\ PlaceLink(mem, tick)'
  BY <1>2, <1>4 DEF HeadLink, PlaceLink
<1> QED
  BY <1>1, <1>5, StoreSame DEF LinkStep, LinkInv

LEMMA StutterLink ==
  ASSUME IInv, LinkInv, UNCHANGED vars
  PROVE  LinkStep
<1>1. UNCHANGED <<chain, db, fill, mem, tick>>
  BY DEF vars, db
<1>2. UNCHANGED <<rows, holes, gen>>
  BY <1>1 DEF db
<1>3. HeadLink(mem, tick)' /\ PlaceLink(mem, tick)'
  <2>1. \A a \in DOMAIN rows : tick.pc # "idle" /\ Returns(a, tick.sample) => Returns(a, tick.sample)'
    BY <1>1, <1>2 DEF Returns
  <2>2. rows' \in Table
    BY <1>2, LinkTypes
  <2> QED
    BY <1>1, <1>2, <2>1, <2>2, StoreSame, PlaceKept
<1> QED
  BY <1>1, <1>2, <1>3, StoreSame DEF LinkStep, LinkInv

-----------------------------------------------------------------------------
LEMMA CatchUpSample ==
  ASSUME NEW s, NEW n, NEW again, NEW t \in CatchUp(s, n, again)
  PROVE  t.sample = s
<1>1. \A h : Seed(s, h).sample = s
  BY DEF Seed
<1>2. Skip(s, n).sample = s
  BY <1>1 DEF Skip
<1> QED
  BY <1>1, <1>2 DEF CatchUp

(* A tick keeps its sample to its end. *)
LEMMA TickKeepsSample ==
  ASSUME IInv, FastLoop \/ TickFails \/ AnswerLost, ~ TickSample
  PROVE  UNCHANGED env /\ (tick' = Idle \/ (tick.pc # "idle" /\ tick'.sample = tick.sample))
<1>1. \A s, h : Seed(s, h).sample = s
  BY DEF Seed
<1>2. \A s, n, again : \A t \in CatchUp(s, n, again) : t.sample = s
  BY CatchUpSample
<1>3. \A s, hs : \A t \in Process(s, hs) : t.sample = s
  <2> TAKE s, hs
  <2> TAKE t \in Process(s, hs)
  <2> DEFINE first == s.n - Len(hs) + 1
             replayed == [n \in first .. s.n |-> hs[n - first + 1]]
             skipped(life, reason) == {NewHole(first, s.n - 1, life, reason)}
  <2>1. PICK r \in Replays :
          t = CASE r = "ok" -> [pc |-> "persist", sample |-> s, rows |-> replayed, hole |-> {}]
                [] r = "no_state" -> Seed(s, skipped("blocked", r))
                [] r = "unsupported_model" ->
                     Seed(s, IF first < s.n THEN skipped("blocked", r) ELSE {})
                [] r = "replay_discontinuity" -> Seed(s, skipped("pending", r))
    BY DEF Process
  <2>2. r \in {"ok", "no_state", "unsupported_model", "replay_discontinuity"}
    BY FollowerAssumption
  <2> HIDE DEF replayed, first
  <2> QED
    BY <1>1, <2>1, <2>2
<1>4. \A s, n, why : FindAncestor(s, n, why).sample = s
  BY DEF FindAncestor
<1>5. CASE FetchHeaders
  <2>1. tick \in FetchTick
    BY <1>5, TickShape DEF FetchHeaders, IInv, TickInv, TickOK
  <2> DEFINE hs == tick.headers \o SubSeq(chain, NextBatch, BatchEnd)
  <2>2. tick' = [tick EXCEPT !.headers = hs] /\ tick.pc = "fetch" /\ UNCHANGED env
    BY <1>5 DEF FetchHeaders
  <2> HIDE DEF hs
  <2>3. [tick EXCEPT !.headers = hs].sample = tick.sample
    BY <2>1 DEF FetchTick
  <2> QED
    BY <2>2, <2>3
<1>6. CASE FailoverSkip
  BY <1>1, <1>6 DEF FailoverSkip, Skip
<1>7. CASE HeadersFetched
  BY <1>3, <1>4, <1>7 DEF HeadersFetched
<1>8. CASE AncestorHeader \/ AncestorNoRow
  <2>1. tick \in WalkTick
    BY <1>8, TickShape DEF AncestorHeader, AncestorNoRow, IInv, TickInv, TickOK
  <2>2. tick' = Ancestor \/ tick' = [tick EXCEPT !.n = tick.n - 1]
    BY <1>8 DEF AncestorHeader, AncestorNoRow
  <2>3. Ancestor.sample = tick.sample /\ [tick EXCEPT !.n = tick.n - 1].sample = tick.sample
    BY <2>1 DEF Ancestor, WalkTick
  <2> QED
    BY <1>8, <2>2, <2>3 DEF AncestorHeader, AncestorNoRow
<1>9. CASE Rewind
  <2>1. tick \in RewindTick
    BY <1>9, TickShape DEF Rewind, IInv, TickInv, TickOK
  <2>2. [tick EXCEPT !.pc = "reload"].sample = tick.sample
    BY <2>1 DEF RewindTick
  <2> QED
    BY <1>9, <2>2 DEF Rewind
<1>10. CASE RewindReload
  <2>1. /\ tick.pc = "reload" /\ UNCHANGED env
        /\ tick' \in IF tick.why = "behind" THEN {Idle}
                     ELSE CatchUp(tick.sample, ReloadHead(StartCleared, rows).head, tick.why = "parent")
    BY <1>10 DEF RewindReload
  <2> QED
    BY <1>2, <2>1
<1>11. CASE Persist
  BY <1>11 DEF Persist
<1>12. CASE Publish \/ TickFails \/ AnswerLost
  BY <1>12 DEF Publish, TickFails, AnswerLost, env
<1> QED
  BY <1>5, <1>6, <1>7, <1>8, <1>9, <1>10, <1>11, <1>12 DEF FastLoop

LEMMA SampleReported ==
  ASSUME IInv, ChainInv, TickSample
  PROVE  UNCHANGED env /\ (tick' = Idle \/ Reported(tick'.sample))
<1>1. PICK n \in 1 .. Len(chain) :
        LET s == [n |-> n, v |-> chain[n].v, p |-> chain[n].p]
            stored == mem.head
        IN  \/ tick' = Seed(s, {})
            \/ tick' = Idle
            \/ \E k, why : tick' = FindAncestor(s, k, why)
            \/ tick' = [pc |-> "persist", sample |-> s, rows |-> NoRows, hole |-> {}]
            \/ tick' \in CatchUp(s, stored, FALSE)
  BY DEF TickSample
<1> DEFINE s == [n |-> n, v |-> chain[n].v, p |-> chain[n].p]
<1>2. Reported(s)
  BY DEF ChainInv, Reported
<1> DEFINE same == [pc |-> "persist", sample |-> s, rows |-> NoRows, hole |-> {}]
<1>3. \/ tick' = Seed(s, {}) \/ tick' = Idle \/ tick' = same \/ \E k, why : tick' = FindAncestor(s, k, why)
      \/ tick' \in CatchUp(s, mem.head, FALSE)
  BY <1>1
<1>4. same.sample = s
  OBVIOUS
<1> HIDE DEF s, same
<1>5. tick' = Idle \/ tick'.sample = s
  <2>1. \A h : Seed(s, h).sample = s
    BY DEF Seed
  <2>2. \A t \in CatchUp(s, mem.head, FALSE) : t.sample = s
    BY CatchUpSample
  <2>3. \A k, why : FindAncestor(s, k, why).sample = s
    BY DEF FindAncestor
  <2> QED
    <3>1. CASE tick' = Seed(s, {})
      BY <2>1, <3>1
    <3>2. CASE tick' = same
      BY <1>4, <3>2
    <3>3. CASE \E k, why : tick' = FindAncestor(s, k, why)
      BY <2>3, <3>3
    <3>4. CASE tick' \in CatchUp(s, mem.head, FALSE)
      BY <2>2, <3>4
    <3> QED
      BY <1>3, <3>1, <3>2, <3>3, <3>4
<1> QED
  BY <1>2, <1>5 DEF TickSample

LEMMA EnvHolds ==
  ASSUME IInv, ChainInv, SampleInv, [Next]_vars
  PROVE  ChainInv' /\ SampleInv'
<1>1. CASE Mint \/ Reorg
  <2>1. ASSUME tick.pc # "idle" PROVE Reported(tick.sample)'
    <3> DEFINE s == tick.sample
    <3>1. Reported(s) /\ s.n \in Nat /\ s.v \in Nat /\ tick' = tick
      <4>1. s \in Sample /\ s.n \in Nat
        BY <2>1, PlaceFacts
      <4> QED
        BY <1>1, <2>1, <4>1, FollowerAssumption DEF SampleInv, Mint, Reorg, Sample, Hash
    <3>2. CASE Mint
      BY <3>1, <3>2, LongerChain DEF Reported, IInv
    <3>3. CASE Reorg
      BY <3>1, <3>3, ForkedChain DEF Reported, IInv
    <3> QED
      BY <1>1, <3>2, <3>3
  <2>2. tick' = tick
    BY <1>1 DEF Mint, Reorg
  <2> QED
    BY <1>1, <2>1, <2>2, ChainGrows DEF SampleInv
<1>2. ASSUME UNCHANGED env, tick' = Idle \/ Reported(tick'.sample)
      PROVE  ChainInv' /\ SampleInv'
  <2>1. ChainInv'
    BY <1>2 DEF ChainInv, env
  <2>2. SampleInv'
    BY <1>2 DEF SampleInv, Reported, Idle, env
  <2> QED
    BY <2>1, <2>2
<1>3. CASE TickSample
  BY <1>2, <1>3, SampleReported
<1>4. CASE (FastLoop \/ TickFails \/ AnswerLost) /\ ~ TickSample
  BY <1>2, <1>4, TickKeepsSample DEF SampleInv
<1>5. CASE UNCHANGED <<env, tick>>
  <2>1. ChainInv' /\ SampleInv'
    BY <1>5 DEF ChainInv, SampleInv, Reported, env
  <2> QED
    BY <2>1
<1>6. CASE Crash
  BY <1>2, <1>6 DEF Crash
<1>7. CASE Filler \/ FillDefer \/ FillFails \/ FillGivesUp \/ EnsureInit
  <2>1. Filler => UNCHANGED <<env, tick>>
    BY DEF Filler, FillStep, FillPick, FillMark, FillFetch, FillUnsupported, FillCommit, FillRetry
  <2>2. FillDefer \/ FillFails \/ FillGivesUp \/ EnsureInit => UNCHANGED <<env, tick>>
    BY DEF FillDefer, FillFails, FillGivesUp, EnsureInit
  <2> QED
    BY <1>5, <1>7, <2>1, <2>2
<1>8. CASE UNCHANGED vars
  BY <1>5, <1>8 DEF vars, env
<1> QED
  BY <1>1, <1>3, <1>4, <1>6, <1>7, <1>8 DEF Next

(* Once crossed, always crossed. *)
LEMMA CrossedStays ==
  ASSUME IInv, [Next]_vars, crossed
  PROVE  crossed'
<1>1. CASE AncestorNoRow \/ Rewind \/ AnswerLost
  BY <1>1 DEF AncestorNoRow, Rewind, AnswerLost, RewindTx
<1>2. CASE FastLoop /\ ~ (AncestorNoRow \/ Rewind)
  BY <1>2 DEF FastLoop, TickSample, FetchHeaders, FailoverSkip, HeadersFetched, AncestorHeader,
     RewindReload, Persist, Publish
<1>3. CASE Filler \/ FillDefer \/ FillFails \/ FillGivesUp
  BY <1>3 DEF Filler, FillStep, FillPick, FillMark, FillFetch, FillUnsupported, FillCommit, FillRetry,
     FillDefer, FillFails, FillGivesUp
<1>4. CASE Mint \/ Reorg \/ TickFails \/ Crash \/ EnsureInit \/ UNCHANGED vars
  BY <1>4 DEF Mint, Reorg, TickFails, Crash, EnsureInit, vars
<1> QED
  BY <1>1, <1>2, <1>3, <1>4 DEF Next

LEMMA LinkHolds ==
  ASSUME ~ Outage, IInv, LInv, [Next]_vars
  PROVE  LInv' /\ (~ crossed' => LinkStep)
<1>1. ChainInv /\ SampleInv /\ ChainInv' /\ SampleInv'
  BY EnvHolds DEF LInv
<1>2. ASSUME ~ crossed' PROVE LinkStep
  <2>1. LinkInv
    BY <1>2, CrossedStays DEF LInv
  <2>2. CASE UNCHANGED vars
    BY <2>1, <2>2, StutterLink
  <2>3. CASE Mint \/ Reorg
    BY <1>1, <2>1, <2>3, ChainLink
  <2>4. CASE FastLoop
    <3>1. CASE TickSample
      BY <2>1, <3>1, TickSampleLink
    <3>2. CASE FetchHeaders
      BY <1>1, <2>1, <3>2, FetchHeadersLink
    <3>3. CASE FailoverSkip
      BY <2>1, <3>3, FailoverSkipLink
    <3>4. CASE HeadersFetched
      BY <1>1, <2>1, <3>4, HeadersFetchedLink
    <3>5. CASE AncestorHeader \/ AncestorNoRow
      BY <1>1, <1>2, <2>1, <3>5, AncestorLink
    <3>6. CASE Rewind
      BY <1>2, <2>1, <3>6, RewindLink
    <3>7. CASE RewindReload
      BY <2>1, <3>7, RewindReloadLink
    <3>8. CASE Persist
      BY <2>1, <3>8, PersistLink
    <3>9. CASE Publish
      BY <2>1, <3>9, PublishLink
    <3> QED
      BY <2>4, <3>1, <3>2, <3>3, <3>4, <3>5, <3>6, <3>7, <3>8, <3>9 DEF FastLoop
  <2>5. CASE TickFails
    BY <2>1, <2>5, TickFailsLink
  <2>6. CASE AnswerLost
    BY <1>2, <2>1, <2>6, AnswerLostLink
  <2>7. CASE FillStep
    BY <2>1, <2>7, FillPickLink
  <2>8. CASE FillMark
    BY <2>1, <2>8, FillMarkLink
  <2>9. CASE FillFetch
    BY <1>1, <2>1, <2>9, FillFetchLink
  <2>10. CASE FillUnsupported
    BY <2>1, <2>10, FillUnsupportedLink
  <2>11. CASE FillCommit \/ FillFails \/ FillDefer
    BY <2>1, <2>11, FillEndsLink
  <2>12. CASE FillGivesUp \/ FillRetry
    BY <2>1, <2>12, FillGivesUpLink
  <2>13. CASE Crash
    BY <2>1, <2>13, CrashLink
  <2>14. CASE EnsureInit
    BY <2>1, <2>14, EnsureInitLink
  <2> QED
    BY <2>2, <2>3, <2>4, <2>5, <2>6, <2>7, <2>8, <2>9, <2>10, <2>11, <2>12, <2>13, <2>14 DEF Next, Filler
<1>3. LInv'
  BY <1>1, <1>2 DEF LInv, LinkStep
<1> QED
  BY <1>2, <1>3

LEMMA LinkInit == Init => LInv
<1> SUFFICES ASSUME Init PROVE LInv
  OBVIOUS
<1>1. /\ chain = [n \in 1 .. SeedTip |-> [v |-> 0, p |-> 0]] /\ forks = 0 /\ rows = NoRows /\ holes = {}
      /\ mem = Down /\ tick = Idle /\ fill = Idle
  BY DEF Init
<1>2. tick.pc = "idle" /\ fill.pc = "idle" /\ ~ mem.up /\ DOMAIN rows = {}
  BY <1>1, NoRowsTable DEF Idle, Down
<1>3. SeedTip \in Nat /\ Len(chain) = SeedTip
  BY <1>1, FollowerAssumption
<1>4. ChainInv
  <2> SUFFICES ASSUME NEW n \in 1 .. SeedTip
               PROVE  /\ chain[n].v <= forks /\ chain[n].p <= chain[n].v
                      /\ n > 1 => chain[n].p = chain[n - 1].v
    BY <1>3 DEF ChainInv
  <2>1. \A k \in 1 .. SeedTip : chain[k].v = 0 /\ chain[k].p = 0
    BY <1>1
  <2>2. n > 1 => n - 1 \in 1 .. SeedTip
    BY <1>3
  <2> QED
    BY <1>1, <2>1, <2>2
<1>5. DbLink
  BY <1>1, <1>2 DEF DbLink, Linear, Separate, Gaps
<1> QED
  BY <1>2, <1>4, <1>5 DEF LInv, LinkInv, SampleInv, HeadLink, PlaceLink, FillLink

(* The inductive invariant, unless the database is out when a tick fails.  *)
LEMMA LinkInvariant == ~ Outage /\ Spec => [](IInv /\ LInv)
<1>1. Init => IInv /\ LInv
  BY InitHolds, LinkInit
<1>2. CASE Outage
  BY <1>2
<1>3. CASE ~ Outage
  <2>1. IInv /\ LInv /\ [Next]_vars => (IInv /\ LInv)'
    BY <1>3, StepHolds, LinkHolds DEF Inductive
  <2> QED
    BY <1>1, <2>1, PTL DEF Spec
<1> QED
  BY <1>2, <1>3

(* The stored blocks form one chain wherever they are adjacent, over every *)
(* number of blocks, reorgs, faults and restarts and whatever the two      *)
(* loops had fetched before they took the chain lock (verifyChain, the     *)
(* parent check of tickWith, fillBatch, holeTail, withGeneration), until a *)
(* rewind crosses a missing range.                                         *)
THEOREM RowsLinked == ~ Outage /\ Spec => []Linked
<1>1. IInv /\ LInv => Linked
  BY DEF LInv, LinkInv, DbLink, Linear, Linked, RowsLink
<1> QED
  BY <1>1, LinkInvariant, PTL

(* Memory's head is the newest stored block with its hash whenever no tick *)
(* is between its transaction and its publish or reload (publish, fail,    *)
(* reloadHeadLocked), until a rewind crosses a missing range.              *)
THEOREM HeadIsStored == ~ Outage /\ Spec => []HeadStored
<1>1. IInv /\ LInv => HeadStored
  BY Zenon DEF LInv, LinkInv, HeadLink, HeadIs, HeadStored
<1> QED
  BY <1>1, LinkInvariant, PTL

(* No writer but a rewind, which bumps the generation, replaces or removes *)
(* a stored block (bumpGeneration, withGeneration).                        *)
THEOREM RowsKept == ~ Outage /\ Spec => RowsStable
<1>1. CASE Outage
  BY <1>1
<1>2. CASE ~ Outage
  <2>1. IInv /\ LInv /\ [Next]_vars =>
          [~ crossed' /\ gen' = gen => \A n \in DOMAIN rows : n \in DOMAIN rows' /\ rows'[n] = rows[n]]_vars
    BY <1>2, LinkHolds DEF LinkStep, Extends
  <2> QED
    BY <1>2, <2>1, LinkInvariant, PTL DEF Spec, RowsStable
<1> QED
  BY <1>1, <1>2
=============================================================================
