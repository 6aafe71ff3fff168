---------------------------- MODULE RepairProofs ----------------------------
(***************************************************************************)
(* The poster-gas repair for any rows, bucket width, batch sizes and       *)
(* limits: the durable cursor passes only blocks that were read, rewound   *)
(* or tried as often as they may be, and a finished pass gave up on none   *)
(* before every sweep it is allowed.                                       *)
(***************************************************************************)
EXTENDS Repair, FiniteSetTheorems, NaturalsInduction, WellFoundedInduction, TLAPS

Cursor == [next : Nat, done : BOOLEAN, skipped : SUBSET Lacking0, sweeps : 0 .. MaxSweeps - 1]
Flight == [on : BOOLEAN, gen : Nat, targets : SUBSET Lacking0, next : Nat]
Attempts == [block : Nat, count : 0 .. MaxAttempts]
Largest == Max({HeaderBatch, MinBatch})

-----------------------------------------------------------------------------
(* The inductive invariant. *)
TypeInv ==
    /\ lacking \subseteq Lacking0 /\ gone \subseteq Lacking0
    /\ cursor \in Cursor /\ Cardinality(cursor.skipped) <= MaxSkipped
    /\ frontier \in Nat /\ generation \in Nat /\ step \in Flight
    /\ narrow \in 0 .. Largest /\ attempts \in Attempts /\ tries \in [Lacking0 -> Nat]

(* The step in flight has every owed row from the cursor to where it will  *)
(* leave it.                                                               *)
StepInv ==
    step.on => /\ ~ cursor.done /\ step.targets # {} /\ Cardinality(step.targets) <= Largest
               /\ \A b \in step.targets : cursor.next <= b /\ b < step.next
               /\ \A b \in Owed : cursor.next <= b /\ b < step.next => b \in step.targets

(* While the pass runs nothing but a rewind takes an owed row away, and    *)
(* pruning stays out of its region (pinRepair).                            *)
RowsInv ==
    ~ cursor.done => /\ Owed \subseteq lacking
                     /\ frontier <= Frontier0 \/ frontier <= Boundary

(* What was passed over was tried, and lies above a row that will be swept *)
(* again: the next sweep begins below everything still owed.               *)
Tried(b, sweeps) == tries[b] >= MaxAttempts * sweeps
PassInv ==
    /\ \A b \in Owed : Tried(b, cursor.sweeps)
    /\ \A b \in Owed : b < cursor.next => /\ Tried(b, cursor.sweeps + 1)
                                          /\ \E s \in cursor.skipped : s <= b
    /\ \A s \in cursor.skipped : s < cursor.next
    /\ cursor.done => \A b \in Owed : Tried(b, MaxSweeps)

(* The attempts counted are reads of that block in this sweep. *)
AttemptInv ==
    /\ attempts.block \in Owed => tries[attempts.block] >= MaxAttempts * cursor.sweeps + attempts.count
    /\ attempts.count >= MaxAttempts => attempts.block < cursor.next

IInv == TypeInv /\ StepInv /\ RowsInv /\ PassInv /\ AttemptInv

-----------------------------------------------------------------------------
(* Finite sets of naturals have a least and a greatest element, and a      *)
(* smallest part of every size.                                            *)
Below == {pair \in Nat \X Nat : pair[1] < pair[2]}

LEMMA LeastNat ==
  ASSUME NEW S \in SUBSET Nat, S # {}
  PROVE  \E m \in S : \A k \in S : m <= k
<1>1. IsWellFoundedOn(Below, Nat)
  BY NatLessThanWellFounded, Zenon DEF OpToRel, Below
<1>2. PICK m \in S : \A k \in S : ~ (<<k, m>> \in Below)
  BY <1>1, WFMin
<1>3. \A k \in S : ~ (k < m)
  BY <1>2 DEF Below
<1> QED
  BY <1>3

LEMMA MinIsLeast ==
  ASSUME NEW S \in SUBSET Nat, S # {}
  PROVE  Min(S) \in S /\ \A x \in S : Min(S) <= x
<1>1. \E m \in S : \A x \in S : m <= x
  BY LeastNat
<1> QED
  BY <1>1 DEF Min

LEMMA MaxIsGreatest ==
  ASSUME NEW top \in Nat, NEW S \in SUBSET (0 .. top), S # {}
  PROVE  Max(S) \in S /\ \A x \in S : x <= Max(S)
<1> DEFINE D == {top - x : x \in S}
<1>1. D \in SUBSET Nat /\ D # {}
  <2>1. \A x \in S : top - x \in Nat
    OBVIOUS
  <2>2. PICK x \in S : TRUE
    OBVIOUS
  <2>3. top - x \in D
    OBVIOUS
  <2> QED
    BY <2>1, <2>3
<1>2. PICK m \in D : \A k \in D : m <= k
  BY <1>1, LeastNat
<1>3. PICK y \in S : m = top - y
  OBVIOUS
<1>4. \A x \in S : y >= x
  <2> TAKE x \in S
  <2>1. top - x \in D
    OBVIOUS
  <2>2. top - y <= top - x
    BY <2>1, <1>2, <1>3
  <2> QED
    BY <2>2
<1> QED
  BY <1>3, <1>4 DEF Max

(* The first k rows of a finite set, for every k it has rows for. *)
FirstOf(s, t) == t \in SUBSET s /\ \A x \in t, y \in s \ t : x < y

LEMMA FirstExtended ==
  ASSUME NEW s \in SUBSET Nat, IsFiniteSet(s), NEW t, FirstOf(s, t), s # t
  PROVE  \E u : FirstOf(s, u) /\ Cardinality(u) = Cardinality(t) + 1
<1> DEFINE rest == s \ t
<1>1. rest \in SUBSET Nat /\ rest # {}
  BY DEF FirstOf
<1>2. PICK m \in rest : \A y \in rest : m <= y
  BY <1>1, LeastNat
<1> DEFINE u == t \cup {m}
<1>3. IsFiniteSet(t)
  BY FS_Subset DEF FirstOf
<1>4. Cardinality(u) = Cardinality(t) + 1
  BY <1>2, <1>3, FS_AddElement
<1>5. ASSUME NEW x \in u, NEW y \in s \ u  PROVE x < y
  <2>1. y \in rest /\ y # m /\ m \in Nat /\ y \in Nat
    BY <1>5, <1>2, <1>1
  <2>2. m < y
    BY <2>1, <1>2
  <2> QED
    BY <2>1, <2>2, <1>5 DEF FirstOf
<1>6. u \in SUBSET s
  BY <1>2 DEF FirstOf
<1> QED
  BY <1>4, <1>5, <1>6 DEF FirstOf

LEMMA FirstExists ==
  ASSUME NEW s \in SUBSET Nat, IsFiniteSet(s), NEW k \in 0 .. Cardinality(s)
  PROVE  \E t : FirstOf(s, t) /\ Cardinality(t) = k
<1> DEFINE Has(j) == \E t : FirstOf(s, t) /\ Cardinality(t) = j
           Lacks == {j \in 0 .. Cardinality(s) : ~ Has(j)}
<1>0. Cardinality(s) \in Nat
  BY FS_CardinalityType
<1>1. SUFFICES ASSUME Lacks # {}  PROVE FALSE
  OBVIOUS
<1>2. Lacks \in SUBSET Nat
  BY <1>0
<1>3. PICK m \in Lacks : \A j \in Lacks : m <= j
  BY <1>1, <1>2, LeastNat
<1>4. Has(0)
  <2>1. FirstOf(s, {})
    BY DEF FirstOf
  <2> QED
    BY <2>1, FS_EmptySet
<1>5. m \in 1 .. Cardinality(s)
  BY <1>0, <1>3, <1>4
<1>6. m - 1 \in 0 .. Cardinality(s) /\ m - 1 \notin Lacks
  BY <1>0, <1>3, <1>5
<1>7. PICK t : FirstOf(s, t) /\ Cardinality(t) = m - 1
  BY <1>6
<1>8. s # t
  BY <1>0, <1>5, <1>7
<1>9. Has(m)
  BY <1>5, <1>7, <1>8, FirstExtended
<1> QED
  BY <1>3, <1>9

LEMMA LeastIsFirst ==
  ASSUME NEW s \in SUBSET Nat, IsFiniteSet(s), NEW n \in Nat
  PROVE  /\ FirstOf(s, Least(s, n)) /\ Cardinality(Least(s, n)) <= n
         /\ n > 0 /\ s # {} => Least(s, n) # {}
<1> DEFINE k == Min({n, Cardinality(s)})
<1>1. Cardinality(s) \in Nat
  BY FS_CardinalityType
<1>2. k \in {n, Cardinality(s)} /\ k <= n /\ k <= Cardinality(s)
  <2>1. {n, Cardinality(s)} \in SUBSET Nat /\ {n, Cardinality(s)} # {}
    BY <1>1
  <2> QED
    BY <2>1, MinIsLeast
<1>3. k \in 0 .. Cardinality(s)
  BY <1>1, <1>2
<1>4. PICK t : FirstOf(s, t) /\ Cardinality(t) = k
  BY <1>3, FirstExists
<1>5. /\ Least(s, n) \in SUBSET s /\ Cardinality(Least(s, n)) = k
      /\ \A x \in Least(s, n), y \in s \ Least(s, n) : x < y
  BY <1>4, Zenon DEF Least, FirstOf
<1>6. n > 0 /\ s # {} => k # 0
  BY <1>1, <1>2, FS_EmptySet
<1> QED
  BY <1>2, <1>5, <1>6, FS_EmptySet DEF FirstOf

-----------------------------------------------------------------------------
(* Arithmetic. *)
LEMMA Monotone ==
  ASSUME NEW w \in Nat, NEW p \in Nat, NEW q \in Nat, p <= q
  PROVE  w * p <= w * q
<1>1. w * q = w * p + w * (q - p)
  OBVIOUS
<1>2. w * (q - p) \in Nat
  OBVIOUS
<1> QED
  BY <1>1, <1>2

(* A bucket's start is not before an instant that starts a bucket. *)
LEMMA FloorStays ==
  ASSUME NEW w \in Nat \ {0}, NEW base \in Nat, base % w = 0, NEW b \in Nat, base <= b
  PROVE  base <= b - (b % w)
<1> DEFINE p == base \div w
           q == b \div w
<1>1. p \in Nat /\ base = w * p
  OBVIOUS
<1>2. q \in Nat /\ b % w \in Nat /\ b % w < w /\ b = w * q + (b % w)
  OBVIOUS
<1>3. b < w * (q + 1)
  BY <1>2
<1> HIDE DEF p, q
<1>4. p <= q
  <2>1. SUFFICES ASSUME q + 1 <= p  PROVE FALSE
    BY <1>1, <1>2
  <2>2. q + 1 \in Nat /\ p \in Nat /\ w \in Nat
    BY <1>1, <1>2
  <2>3. w * (q + 1) <= w * p
    BY <2>1, <2>2, Monotone
  <2>4. w * (q + 1) \in Nat
    BY <2>2
  <2> QED
    BY <2>3, <2>4, <1>1, <1>3
<1>5. w * p <= w * q
  BY <1>1, <1>2, <1>4, Monotone
<1> QED
  BY <1>1, <1>2, <1>5

(* Reads counted: a sweep more, an attempt more, and the cap on the count. *)
LEMMA Reckoned ==
  ASSUME NEW most \in Nat \ {0}, NEW limit \in Nat \ {0}, NEW sweeps \in 0 .. limit - 1, NEW t \in Nat
  PROVE  /\ most * sweeps \in Nat /\ most * limit \in Nat
         /\ most * (sweeps + 1) = most * sweeps + most
         /\ most * (sweeps + 1) <= most * limit
<1>1. most * (sweeps + 1) <= most * limit
  BY Monotone
<1> QED
  BY <1>1

-----------------------------------------------------------------------------
(* The constants and the operators on them. *)
LEMMA Constants ==
  ASSUME RepairAssumption
  PROVE  /\ Head \in Nat /\ Boundary \in Nat /\ Frontier0 \in Nat /\ Boundary % Width = 0
         /\ Width \in Nat \ {0} /\ HeaderBatch \in Nat \ {0} /\ MinBatch \in Nat \ {0}
         /\ MaxAttempts \in Nat \ {0} /\ MaxSweeps \in Nat \ {0} /\ MaxSkipped \in Nat \ {0}
         /\ Lacking0 \in SUBSET (0 .. Head) /\ Lacking0 \in SUBSET Nat /\ IsFiniteSet(Lacking0)
<1>1. Lacking0 \in SUBSET (1 .. Head) /\ IsFiniteSet(1 .. Head)
  <2>1. Lacking0 \in SUBSET (1 .. Head) /\ Head \in Int /\ 1 \in Int
    BY DEF RepairAssumption
  <2> QED
    BY <2>1, FS_Interval
<1>2. IsFiniteSet(Lacking0)
  BY <1>1, FS_Subset
<1> QED
  BY <1>1, <1>2 DEF RepairAssumption

LEMMA MaxOfTwo ==
  ASSUME NEW a \in Nat, NEW b \in Nat
  PROVE  Max({a, b}) \in {a, b} /\ a <= Max({a, b}) /\ b <= Max({a, b})
<1>1. {a, b} \in SUBSET (0 .. a + b) /\ {a, b} # {}
  OBVIOUS
<1>2. a + b \in Nat
  OBVIOUS
<1> QED
  BY <1>1, <1>2, MaxIsGreatest

LEMMA MinOfTwo ==
  ASSUME NEW a \in Nat, NEW b \in Nat
  PROVE  Min({a, b}) \in {a, b} /\ Min({a, b}) <= a /\ Min({a, b}) <= b
<1>1. {a, b} \in SUBSET Nat /\ {a, b} # {}
  OBVIOUS
<1> QED
  BY <1>1, MinIsLeast

LEMMA SizesPositive ==
  ASSUME RepairAssumption, TypeInv, NEW n \in Sizes
  PROVE  n \in 1 .. Largest /\ Largest \in Nat
<1>1. HeaderBatch \in Nat \ {0} /\ MinBatch \in Nat \ {0}
  BY Constants
<1>2. Largest \in Nat /\ HeaderBatch <= Largest /\ MinBatch <= Largest
  BY <1>1, MaxOfTwo DEF Largest
<1>3. narrow \in 0 .. Largest
  BY DEF TypeInv
<1> DEFINE spare == {HeaderBatch} \cup {Max({avail, MinBatch}) : avail \in 0..(HeaderBatch - 1)}
<1>4. \A m \in spare : m \in 1 .. Largest
  <2> TAKE m \in spare
  <2>1. CASE m = HeaderBatch
    BY <2>1, <1>1, <1>2
  <2>2. CASE \E avail \in 0..(HeaderBatch - 1) : m = Max({avail, MinBatch})
    <3>1. PICK avail \in 0..(HeaderBatch - 1) : m = Max({avail, MinBatch})
      BY <2>2
    <3>2. avail \in Nat /\ avail <= HeaderBatch
      BY <1>1
    <3>3. m \in {avail, MinBatch} /\ MinBatch <= m
      BY <3>1, <3>2, <1>1, MaxOfTwo
    <3> QED
      BY <3>2, <3>3, <1>1, <1>2
  <2> QED
    BY <2>1, <2>2
<1>5. PICK m \in spare : n = IF narrow > 0 THEN Min({narrow, m}) ELSE m
  BY Zenon DEF Sizes
<1>6. m \in 1 .. Largest
  BY <1>4, <1>5
<1>7. n \in 1 .. Largest
  <2> HIDE DEF spare
  <2>1. CASE narrow > 0
    <3>1. m \in Nat /\ narrow \in Nat
      BY <1>2, <1>3, <1>6
    <3>2. n \in {narrow, m}
      BY <2>1, <3>1, <1>5, MinOfTwo
    <3> QED
      BY <2>1, <3>2, <1>3, <1>6
  <2>2. CASE ~ (narrow > 0)
    BY <2>2, <1>5, <1>6
  <2> QED
    BY <2>1, <2>2
<1> QED
  BY <1>2, <1>7

(* BlocksMissingPosterGas: the lowest rows from the cursor on, none left   *)
(* out below the highest of them.                                          *)
LEMMA ListedLow ==
  ASSUME RepairAssumption, TypeInv, NEW n \in Sizes
  PROVE  /\ Listed(n) \in SUBSET lacking /\ IsFiniteSet(Listed(n)) /\ Cardinality(Listed(n)) <= Largest
         /\ \A b \in Listed(n) : cursor.next <= b
         /\ Listed(n) # {} =>
              /\ Max(Listed(n)) \in Nat /\ \A b \in Listed(n) : b <= Max(Listed(n))
              /\ \A b \in lacking : cursor.next <= b /\ b <= Max(Listed(n)) => b \in Listed(n)
<1> DEFINE rest == {b \in lacking : b >= cursor.next}
           first == Listed(n)
<1>1. n \in 1 .. Largest /\ Largest \in Nat
  BY SizesPositive
<1>2. /\ rest \in SUBSET Lacking0 /\ rest \in SUBSET Nat /\ rest \in SUBSET (0 .. Head)
      /\ Head \in Nat /\ cursor.next \in Nat
  BY Constants DEF TypeInv, Cursor
<1>3. IsFiniteSet(rest)
  BY <1>2, Constants, FS_Subset
<1>4. FirstOf(rest, first) /\ Cardinality(first) <= n
  <2> HIDE DEF rest
  <2>1. FirstOf(rest, Least(rest, n)) /\ Cardinality(Least(rest, n)) <= n
    BY <1>1, <1>2, <1>3, LeastIsFirst
  <2> QED
    BY <2>1, Zenon DEF Listed, rest
<1>5. first \in SUBSET rest /\ \A x \in first, y \in rest \ first : x < y
  BY <1>4, Zenon DEF FirstOf
<1>6. IsFiniteSet(first)
  <2> HIDE DEF rest, first
  <2> QED
    BY <1>3, <1>5, FS_Subset
<1>7. Cardinality(first) <= Largest
  <2>1. Cardinality(first) \in Nat
    BY <1>6, FS_CardinalityType
  <2> QED
    BY <2>1, <1>1, <1>4
<1>8. ASSUME first # {}
      PROVE  /\ Max(first) \in Nat /\ \A b \in first : b <= Max(first)
             /\ \A b \in lacking : cursor.next <= b /\ b <= Max(first) => b \in first
  <2>1. Max(first) \in first /\ \A b \in first : b <= Max(first)
    <3>1. first \in SUBSET (0 .. Head)
      BY <1>2, <1>5
    <3> HIDE DEF first
    <3> QED
      BY <3>1, <1>8, <1>2, MaxIsGreatest
  <2>2. ASSUME NEW b \in lacking, cursor.next <= b, b <= Max(first), b \notin first  PROVE FALSE
    <3>1. b \in rest /\ b \in Nat /\ Max(first) \in Nat
      BY <2>1, <2>2, <1>2, <1>5
    <3>2. Max(first) < b
      BY <3>1, <2>1, <2>2, <1>5
    <3> QED
      BY <3>1, <3>2, <2>2
  <2> QED
    BY <2>1, <2>2, <1>2, <1>5
<1>9. \A b \in first : b \in lacking /\ cursor.next <= b
  BY <1>2, <1>5
<1> QED
  BY <1>6, <1>7, <1>8, <1>9

(* The buckets of an owed row were whole when the pass began and pruning   *)
(* keeps out of its region: it is read, never left for being backfilled or *)
(* stale.                                                                  *)
LEMMA OwedRepairable ==
  ASSUME RepairAssumption, IInv, ~ cursor.done, NEW rows, NEW b \in Owed, b \in rows
  PROVE  b \in Repairable(rows)
<1>1. b \in Nat /\ Boundary <= b /\ Frontier0 <= b - (b % Width)
  BY Constants DEF Owed
<1>2. Boundary <= b - (b % Width)
  BY <1>1, Constants, FloorStays
<1>3. frontier <= Frontier0 \/ frontier <= Boundary
  BY DEF IInv, RowsInv
<1>4. b % Width \in Nat /\ frontier \in Nat
  BY <1>1, Constants DEF IInv, TypeInv
<1>5. ~ (b - (b % Width) < frontier)
  BY <1>1, <1>2, <1>3, <1>4, Constants
<1> QED
  BY <1>1, <1>5, Constants DEF Repairable, Backfilled, Stale

-----------------------------------------------------------------------------
(* The steps keep the invariant. *)
LEMMA AtFirst ==
  ASSUME RepairAssumption, Init
  PROVE  IInv
<1>1. cursor \in Cursor /\ step \in Flight /\ attempts \in Attempts /\ tries \in [Lacking0 -> Nat]
  <2>1. 0 \in 0 .. MaxSweeps - 1 /\ 0 \in 0 .. MaxAttempts
    BY Constants
  <2> QED
    BY <2>1 DEF Init, Cursor, Flight, Attempts, None, NoAttempts
<1>2. 0 \in 0 .. Largest
  BY Constants, MaxOfTwo DEF Largest
<1>3. TypeInv
  BY <1>1, <1>2, Constants, FS_EmptySet DEF Init, TypeInv
<1>4. \A b \in Owed : tries[b] >= MaxAttempts * cursor.sweeps
  <2>1. MaxAttempts * 0 = 0
    BY Constants
  <2> QED
    BY <2>1 DEF Init, Owed
<1>5. ~ step.on /\ ~ cursor.done /\ cursor.next = 0 /\ cursor.skipped = {} /\ attempts.count = 0
  BY DEF Init, None, NoAttempts
<1>6. \A b \in Owed : b \in lacking /\ ~ (b < cursor.next)
  BY <1>5, Constants DEF Init, Owed
<1>7. frontier <= Frontier0
  BY Constants DEF Init
<1>8. PassInv
  BY <1>4, <1>5, <1>6 DEF PassInv, Tried
<1>9. AttemptInv
  <2>1. ASSUME attempts.block \in Owed
        PROVE  tries[attempts.block] >= MaxAttempts * cursor.sweeps + attempts.count
    <3>1. tries[attempts.block] >= MaxAttempts * cursor.sweeps
      BY <2>1, <1>4
    <3>2. MaxAttempts * cursor.sweeps \in Nat
      BY Constants DEF Init
    <3> QED
      BY <3>1, <3>2, <1>5
  <2> QED
    BY <2>1, <1>5, Constants DEF AttemptInv
<1> QED
  BY <1>3, <1>5, <1>6, <1>7, <1>8, <1>9, Zenon DEF IInv, StepInv, RowsInv

(* widen: the full batch and no attempts counted. *)
LEMMA Widened ==
  ASSUME RepairAssumption
  PROVE  NoAttempts \in Attempts /\ NoAttempts.count = 0 /\ 0 \in 0 .. Largest
<1>1. 0 \in 0 .. MaxAttempts
  BY Constants
<1>2. Largest \in Nat
  BY Constants, MaxOfTwo DEF Largest
<1> QED
  BY <1>1, <1>2 DEF NoAttempts, Attempts

(* Nothing listed from the cursor on: every owed row lies behind it. *)
LEMMA AllPassed ==
  ASSUME RepairAssumption, IInv, ~ cursor.done, {b \in lacking : b >= cursor.next} = {}, NEW b \in Owed
  PROVE  b < cursor.next
<1>1. b \in lacking /\ b \in Nat /\ cursor.next \in Nat
  BY Constants DEF IInv, RowsInv, TypeInv, Cursor, Owed
<1> QED
  BY <1>1

LEMMA SweepEndsKeeps ==
  ASSUME RepairAssumption, IInv, SweepEnds
  PROVE  IInv'
<1>1. ~ step.on /\ ~ cursor.done /\ {b \in lacking : b >= cursor.next} = {} /\ Swept
  BY DEF SweepEnds
<1>2. UNCHANGED <<lacking, frontier, generation, step, tries, gone>>
  BY DEF SweepEnds, history, environment
<1>3. Owed' = Owed
  BY <1>2 DEF Owed
<1>4. \A b \in Owed : tries[b] >= MaxAttempts * (cursor.sweeps + 1) /\ \E s \in cursor.skipped : s <= b
  BY <1>1, AllPassed DEF IInv, PassInv, Tried
<1>5. CASE cursor.skipped = {} \/ cursor.sweeps + 1 >= MaxSweeps
  <2>1. cursor' = [cursor EXCEPT !.done = TRUE] /\ UNCHANGED <<narrow, attempts>>
    BY <1>1, <1>5, Zenon DEF Swept
  <2>2. /\ cursor'.next = cursor.next /\ cursor'.skipped = cursor.skipped
        /\ cursor'.sweeps = cursor.sweeps /\ cursor'.done /\ cursor' \in Cursor
    BY <2>1 DEF IInv, TypeInv, Cursor
  <2>3. TypeInv'
    BY <1>2, <2>1, <2>2 DEF IInv, TypeInv
  <2>4. \A b \in Owed : tries[b] >= MaxAttempts * MaxSweeps
    <3>1. cursor.skipped # {} => cursor.sweeps + 1 = MaxSweeps
      <4>1. cursor.sweeps \in 0 .. MaxSweeps - 1
        BY DEF IInv, TypeInv, Cursor
      <4> QED
        BY <4>1, <1>5, Constants
    <3> QED
      BY <3>1, <1>4
  <2>5. PassInv'
    BY <1>2, <1>3, <2>2, <2>4 DEF IInv, PassInv, Tried
  <2>6. AttemptInv'
    BY <1>2, <1>3, <2>1, <2>2 DEF IInv, AttemptInv
  <2> QED
    BY <1>1, <1>2, <2>2, <2>3, <2>5, <2>6, Zenon DEF IInv, StepInv, RowsInv
<1>6. CASE ~ (cursor.skipped = {} \/ cursor.sweeps + 1 >= MaxSweeps)
  <2>1. /\ cursor' = [cursor EXCEPT !.next = Min(cursor.skipped), !.skipped = {}, !.sweeps = @ + 1]
        /\ narrow' = 0 /\ attempts' = NoAttempts
    BY <1>1, <1>6, Zenon DEF Swept, Widen
  <2>2. Min(cursor.skipped) \in Nat /\ \A s \in cursor.skipped : Min(cursor.skipped) <= s
    <3>1. cursor.skipped \in SUBSET Nat /\ cursor.skipped # {}
      BY <1>6, Constants DEF IInv, TypeInv, Cursor
    <3> QED
      BY <3>1, MinIsLeast
  <2>3. cursor.sweeps \in 0 .. MaxSweeps - 1 /\ cursor.sweeps + 1 \in 0 .. MaxSweeps - 1
    BY <1>6, Constants DEF IInv, TypeInv, Cursor
  <2>4. /\ cursor'.next = Min(cursor.skipped) /\ cursor'.skipped = {}
        /\ cursor'.sweeps = cursor.sweeps + 1 /\ ~ cursor'.done /\ cursor' \in Cursor
    BY <2>1, <2>2, <2>3, <1>1 DEF IInv, TypeInv, Cursor
  <2>5. attempts' \in Attempts /\ attempts'.count = 0 /\ narrow' \in 0 .. Largest
    BY <2>1, Widened
  <2>6. TypeInv'
    BY <1>2, <2>4, <2>5, FS_EmptySet, Constants DEF IInv, TypeInv
  <2>7. \A b \in Owed : ~ (b < cursor'.next)
    <3> TAKE b \in Owed
    <3>1. PICK s \in cursor.skipped : s <= b
      BY <1>4
    <3>2. b \in Nat /\ s \in Nat
      BY Constants DEF IInv, TypeInv, Cursor, Owed
    <3> QED
      BY <3>1, <3>2, <2>2, <2>4
  <2>8. \A b \in Owed' : tries'[b] >= MaxAttempts * cursor'.sweeps
    BY <1>2, <1>3, <1>4, <2>4
  <2>9. PassInv'
    BY <1>3, <2>4, <2>7, <2>8 DEF PassInv, Tried
  <2>10. AttemptInv'
    <3>1. ASSUME attempts'.block \in Owed'
          PROVE  tries'[attempts'.block] >= MaxAttempts * cursor'.sweeps + attempts'.count
      <4>1. tries'[attempts'.block] >= MaxAttempts * cursor'.sweeps
        BY <3>1, <2>8
      <4>2. MaxAttempts * cursor'.sweeps \in Nat
        BY <2>3, <2>4, Constants
      <4> QED
        BY <4>1, <4>2, <2>5
    <3> QED
      BY <3>1, <2>5, Constants DEF AttemptInv
  <2>11. RowsInv'
    BY <1>1, <1>2, <1>3, Zenon DEF IInv, RowsInv
  <2> QED
    BY <1>1, <1>2, <2>6, <2>9, <2>10, <2>11, Zenon DEF IInv, StepInv
<1> QED
  BY <1>5, <1>6

(* repairStep passes no owed row: it stops only at rows of other regions. *)
LEMMA PassOverKeeps ==
  ASSUME RepairAssumption, IInv, PassOver
  PROVE  IInv'
<1>1. PICK n \in Sizes : /\ Listed(n) # {} /\ Repairable(Listed(n)) = {}
                         /\ cursor' = [cursor EXCEPT !.next = Max(Listed(n)) + 1]
  BY Zenon DEF PassOver
<1>2. ~ step.on /\ ~ cursor.done
      /\ UNCHANGED <<lacking, frontier, generation, step, narrow, attempts, tries, gone>>
  BY DEF PassOver, history, environment
<1>3. PICK top \in Nat : top = Max(Listed(n))
  BY <1>1, ListedLow DEF IInv
<1>4. /\ cursor'.next = top + 1 /\ cursor'.skipped = cursor.skipped /\ cursor'.sweeps = cursor.sweeps
      /\ cursor'.done = cursor.done /\ cursor' \in Cursor
  BY <1>1, <1>3 DEF IInv, TypeInv, Cursor
<1>5. cursor.next < cursor'.next /\ cursor.next \in Nat
  <2>1. PICK b \in Listed(n) : TRUE
    BY <1>1
  <2>2. cursor.next <= b /\ b <= top /\ b \in lacking
    BY <1>1, <1>3, ListedLow DEF IInv
  <2>3. b \in Nat /\ cursor.next \in Nat
    BY <2>2, Constants DEF IInv, TypeInv, Cursor
  <2> QED
    BY <2>2, <2>3, <1>4
<1>6. Owed' = Owed
  BY <1>2 DEF Owed
<1>7. ASSUME NEW b \in Owed, b < cursor'.next  PROVE b < cursor.next
  <2>1. b \in lacking /\ b \in Nat
    BY <1>2, Constants DEF IInv, RowsInv, Owed
  <2>2. SUFFICES ASSUME cursor.next <= b  PROVE FALSE
    BY <2>1, <1>5
  <2>3. b <= top
    BY <1>7, <1>4, <2>1
  <2>4. b \in Listed(n)
    BY <2>1, <2>2, <2>3, <1>1, <1>3, ListedLow DEF IInv
  <2>5. b \in Repairable(Listed(n))
    BY <2>4, <1>2, OwedRepairable
  <2> QED
    BY <2>5, <1>1
<1>8. TypeInv'
  BY <1>2, <1>4 DEF IInv, TypeInv
<1>9. PassInv'
  <2>1. \A b \in Owed : b < cursor'.next => b < cursor.next
    BY <1>7
  <2>2. \A s \in cursor'.skipped : s < cursor'.next
    <3> TAKE s \in cursor'.skipped
    <3>1. s < cursor.next /\ s \in Nat
      BY <1>4, Constants DEF IInv, PassInv, TypeInv, Cursor
    <3> QED
      BY <3>1, <1>5, <1>4
  <2> QED
    BY <2>1, <2>2, <1>2, <1>4, <1>6 DEF IInv, PassInv, Tried
<1>10. AttemptInv'
  <2>1. attempts.count >= MaxAttempts => attempts.block < cursor'.next
    BY <1>5, <1>4 DEF IInv, AttemptInv, TypeInv, Attempts
  <2> QED
    BY <2>1, <1>2, <1>4, <1>6 DEF IInv, AttemptInv
<1>11. RowsInv' /\ StepInv'
  BY <1>2, <1>4, <1>6, Zenon DEF IInv, RowsInv, StepInv
<1> QED
  BY <1>8, <1>9, <1>10, <1>11 DEF IInv

LEMMA RepairListKeeps ==
  ASSUME RepairAssumption, IInv, RepairList
  PROVE  IInv'
<1>1. PICK n \in Sizes :
        /\ Repairable(Listed(n)) # {}
        /\ step' = [on |-> TRUE, gen |-> generation, targets |-> Repairable(Listed(n)),
                    next |-> Max(Listed(n)) + 1]
  BY Zenon DEF RepairList
<1>2. /\ ~ cursor.done
      /\ UNCHANGED <<lacking, cursor, frontier, generation, narrow, attempts, tries, gone>>
  BY DEF RepairList, history, environment
<1> DEFINE targets == Repairable(Listed(n))
<1>3. targets \in SUBSET Listed(n) /\ Listed(n) # {}
  BY <1>1 DEF Repairable
<1>4. PICK top \in Nat : top = Max(Listed(n))
  BY <1>1, <1>3, ListedLow DEF IInv
<1>5. targets \in SUBSET Lacking0 /\ generation \in Nat
  BY <1>1, <1>3, ListedLow DEF IInv, TypeInv
<1>6. Cardinality(targets) <= Largest
  <2>1. IsFiniteSet(Listed(n)) /\ Cardinality(Listed(n)) <= Largest
    BY <1>1, ListedLow DEF IInv
  <2>2. Cardinality(targets) <= Cardinality(Listed(n))
    BY <2>1, <1>3, FS_Subset
  <2>3. Cardinality(targets) \in Nat /\ Cardinality(Listed(n)) \in Nat /\ Largest \in Nat
    BY <1>1, <1>3, <2>1, FS_Subset, FS_CardinalityType, SizesPositive DEF IInv
  <2> QED
    BY <2>1, <2>2, <2>3
<1>7. \A b \in targets : cursor.next <= b /\ b < top + 1
  <2> TAKE b \in targets
  <2>1. cursor.next <= b /\ b <= top
    BY <1>1, <1>3, <1>4, ListedLow DEF IInv
  <2>2. b \in Nat
    BY <1>5, Constants
  <2> QED
    BY <2>1, <2>2
<1>8. ASSUME NEW b \in Owed, cursor.next <= b, b < top + 1  PROVE b \in targets
  <2>1. b \in lacking /\ b \in Nat
    BY <1>2, Constants DEF IInv, RowsInv, Owed
  <2>2. b <= top
    BY <2>1, <1>8
  <2>3. b \in Listed(n)
    BY <2>1, <2>2, <1>8, <1>1, <1>3, <1>4, ListedLow DEF IInv
  <2> QED
    BY <2>3, <1>2, OwedRepairable
<1> HIDE DEF targets
<1>9. step' = [on |-> TRUE, gen |-> generation, targets |-> targets, next |-> top + 1]
  BY <1>1, <1>4, Zenon DEF targets
<1>10. step' \in Flight /\ step'.targets = targets /\ step'.next = top + 1 /\ step'.on
  BY <1>5, <1>9 DEF Flight
<1>11. targets # {}
  BY <1>1 DEF targets
<1>12. Owed' = Owed
  BY <1>2 DEF Owed
<1>13. StepInv'
  BY <1>2, <1>6, <1>7, <1>8, <1>10, <1>11, <1>12 DEF StepInv
<1>14. TypeInv'
  BY <1>2, <1>10 DEF IInv, TypeInv
<1>15. RowsInv' /\ PassInv' /\ AttemptInv'
  BY <1>2, <1>12 DEF IInv, RowsInv, PassInv, AttemptInv, Tried
<1> QED
  BY <1>13, <1>14, <1>15 DEF IInv

(* The commit takes what it read off the rows owed, and the cursor leaves  *)
(* none behind; a refused commit leaves everything where it was.           *)
LEMMA RepairCommitKeeps ==
  ASSUME RepairAssumption, IInv, RepairCommit
  PROVE  IInv'
<1>1. step.on /\ ~ cursor.done /\ narrow' = 0 /\ attempts' = NoAttempts /\ step' = None
      /\ UNCHANGED <<frontier, generation, tries>>
  BY DEF RepairCommit, Widen, IInv, StepInv
<1>2. attempts' \in Attempts /\ attempts'.count = 0 /\ narrow' \in 0 .. Largest
  BY <1>1, Widened
<1>3. step' \in Flight /\ ~ step'.on
  BY <1>1 DEF None, Flight
<1>4. CASE UNCHANGED <<lacking, gone, cursor>>
  <2>1. Owed' = Owed
    BY <1>4 DEF Owed
  <2>2. TypeInv'
    BY <1>1, <1>2, <1>3, <1>4 DEF IInv, TypeInv
  <2>3. RowsInv' /\ PassInv' /\ StepInv'
    BY <1>1, <1>3, <1>4, <2>1 DEF IInv, RowsInv, PassInv, StepInv, Tried
  <2>4. AttemptInv'
    <3>1. ASSUME attempts'.block \in Owed'
          PROVE  tries'[attempts'.block] >= MaxAttempts * cursor'.sweeps + attempts'.count
      <4>1. tries'[attempts'.block] >= MaxAttempts * cursor'.sweeps
        BY <3>1, <2>3 DEF PassInv, Tried
      <4>2. MaxAttempts * cursor'.sweeps \in Nat
        BY <1>4, Constants DEF IInv, TypeInv, Cursor
      <4> QED
        BY <4>1, <4>2, <1>2
    <3> QED
      BY <3>1, <1>2, Constants DEF AttemptInv
  <2> QED
    BY <2>2, <2>3, <2>4 DEF IInv
<1>5. CASE /\ lacking' = lacking \ step.targets
           /\ gone' = gone \cup step.targets
           /\ cursor' = [cursor EXCEPT !.next = step.next]
  <2>1. step.next \in Nat /\ step.targets \in SUBSET Lacking0 /\ cursor.next \in Nat
    BY DEF IInv, TypeInv, Flight, Cursor
  <2>2. /\ cursor'.next = step.next /\ cursor'.skipped = cursor.skipped
        /\ cursor'.sweeps = cursor.sweeps /\ ~ cursor'.done /\ cursor' \in Cursor
    BY <1>1, <1>5, <2>1 DEF IInv, TypeInv, Cursor
  <2>3. Owed' = Owed \ step.targets
    BY <1>5 DEF Owed
  <2>4. cursor.next < step.next
    <3>1. PICK b \in step.targets : cursor.next <= b /\ b < step.next
      BY <1>1 DEF IInv, StepInv
    <3>2. b \in Nat
      BY <2>1, Constants
    <3> QED
      BY <3>1, <3>2, <2>1
  <2>5. \A b \in Owed' : b \in Owed /\ (b < cursor'.next => b < cursor.next)
    <3> TAKE b \in Owed'
    <3>1. b \in Owed /\ b \notin step.targets /\ b \in Nat
      BY <2>3, Constants DEF Owed
    <3> QED
      BY <3>1, <2>1, <2>2, <1>1 DEF IInv, StepInv
  <2>6. TypeInv'
    BY <1>1, <1>2, <1>3, <1>5, <2>1, <2>2 DEF IInv, TypeInv
  <2>7. RowsInv' /\ StepInv'
    BY <1>1, <1>3, <1>5, <2>2, <2>3 DEF IInv, RowsInv, StepInv
  <2>8. \A s \in cursor'.skipped : s < cursor'.next
    <3> TAKE s \in cursor'.skipped
    <3>1. s < cursor.next /\ s \in Nat
      BY <2>2, Constants DEF IInv, PassInv, TypeInv, Cursor
    <3> QED
      BY <3>1, <2>1, <2>2, <2>4
  <2>9. PassInv'
    BY <1>1, <2>2, <2>5, <2>8 DEF IInv, PassInv, Tried
  <2>10. AttemptInv'
    <3>1. ASSUME attempts'.block \in Owed'
          PROVE  tries'[attempts'.block] >= MaxAttempts * cursor'.sweeps + attempts'.count
      <4>1. tries'[attempts'.block] >= MaxAttempts * cursor'.sweeps
        BY <3>1, <2>9 DEF PassInv, Tried
      <4>2. MaxAttempts * cursor'.sweeps \in Nat
        BY <2>2, Constants DEF Cursor
      <4> QED
        BY <4>1, <4>2, <1>2
    <3> QED
      BY <3>1, <1>2, Constants DEF AttemptInv
  <2> QED
    BY <2>6, <2>7, <2>9, <2>10 DEF IInv
<1> QED
  BY <1>4, <1>5 DEF RepairCommit

-----------------------------------------------------------------------------
LEMMA RewindKeeps ==
  ASSUME RepairAssumption, IInv, Rewind
  PROVE  IInv'
<1>1. PICK ancestor \in Boundary..(Head - 1) :
        /\ lacking' = {b \in lacking : b <= ancestor}
        /\ gone' = gone \cup {b \in lacking : b > ancestor}
  BY Zenon DEF Rewind
<1>2. generation' = generation + 1 /\ UNCHANGED <<cursor, frontier, step, narrow, attempts, tries>>
  BY DEF Rewind
<1>3. Owed' \in SUBSET Owed
  BY <1>1 DEF Owed
<1>4. ~ cursor.done => Owed' \in SUBSET lacking'
  <2> SUFFICES ASSUME ~ cursor.done, NEW b \in Owed'  PROVE b \in lacking'
    OBVIOUS
  <2>1. b \in lacking
    BY <1>3 DEF IInv, RowsInv
  <2>2. b \notin gone'
    BY DEF Owed
  <2>3. b \in Nat /\ ancestor \in Nat
    BY <2>1, Constants DEF IInv, TypeInv
  <2> QED
    BY <2>1, <2>2, <2>3, <1>1
<1>5. TypeInv'
  <2>1. lacking' \subseteq Lacking0 /\ gone' \subseteq Lacking0 /\ generation' \in Nat
    BY <1>1, <1>2 DEF IInv, TypeInv
  <2> QED
    BY <2>1, <1>2 DEF IInv, TypeInv
<1>6. RowsInv'
  BY <1>2, <1>4 DEF IInv, RowsInv
<1>7. StepInv' /\ PassInv' /\ AttemptInv'
  BY <1>2, <1>3 DEF IInv, StepInv, PassInv, AttemptInv, Tried
<1> QED
  BY <1>5, <1>6, <1>7 DEF IInv

(* pinRepair: while the pass runs pruning takes no row of its region and   *)
(* moves no frontier above it.                                             *)
LEMMA PruneKeeps ==
  ASSUME RepairAssumption, IInv, Prune
  PROVE  IInv'
<1>1. PICK before \in 1 .. Head : /\ lacking' = {b \in lacking : b >= Cutoff(before)}
                                  /\ frontier' = Max({frontier, Cutoff(before)})
  BY Zenon DEF Prune
<1>2. UNCHANGED <<cursor, generation, step, narrow, attempts, tries, gone>>
  BY DEF Prune, history
<1>3. Cutoff(before) \in Nat /\ (~ cursor.done => Cutoff(before) <= Boundary)
  BY Constants DEF Cutoff
<1>4. frontier' \in {frontier, Cutoff(before)} /\ frontier' \in Nat
  <2>1. frontier \in Nat
    BY DEF IInv, TypeInv
  <2> QED
    BY <2>1, <1>1, <1>3, MaxOfTwo
<1>5. Owed' = Owed
  BY <1>2 DEF Owed
<1>6. ~ cursor.done => Owed \in SUBSET lacking'
  <2> SUFFICES ASSUME ~ cursor.done, NEW b \in Owed  PROVE b \in lacking'
    OBVIOUS
  <2>1. b \in lacking /\ b \in Nat /\ Boundary <= b
    BY Constants DEF IInv, RowsInv, Owed
  <2> QED
    BY <2>1, <1>1, <1>3, Constants
<1>7. TypeInv'
  BY <1>1, <1>2, <1>4 DEF IInv, TypeInv
<1>8. RowsInv'
  BY <1>2, <1>3, <1>4, <1>5, <1>6 DEF IInv, RowsInv
<1>9. StepInv' /\ PassInv' /\ AttemptInv'
  BY <1>2, <1>5 DEF IInv, StepInv, PassInv, AttemptInv, Tried
<1> QED
  BY <1>7, <1>8, <1>9 DEF IInv

LEMMA CrashKeeps ==
  ASSUME RepairAssumption, IInv, Crash
  PROVE  IInv'
<1>1. /\ step' = None /\ narrow' = 0 /\ attempts' = NoAttempts
      /\ UNCHANGED <<lacking, cursor, frontier, generation, tries, gone>>
  BY DEF Crash, Widen, history
<1>2. attempts' \in Attempts /\ attempts'.count = 0 /\ narrow' \in 0 .. Largest
  BY <1>1, Widened
<1>3. step' \in Flight /\ ~ step'.on
  BY <1>1 DEF None, Flight
<1>4. Owed' = Owed
  BY <1>1 DEF Owed
<1>5. TypeInv'
  BY <1>1, <1>2, <1>3 DEF IInv, TypeInv
<1>6. RowsInv' /\ PassInv' /\ StepInv'
  BY <1>1, <1>3, <1>4 DEF IInv, RowsInv, PassInv, StepInv, Tried
<1>7. AttemptInv'
  <2>1. ASSUME attempts'.block \in Owed'
        PROVE  tries'[attempts'.block] >= MaxAttempts * cursor'.sweeps + attempts'.count
    <3>1. tries'[attempts'.block] >= MaxAttempts * cursor'.sweeps
      BY <2>1, <1>6 DEF PassInv, Tried
    <3>2. MaxAttempts * cursor'.sweeps \in Nat
      BY <1>1, Constants DEF IInv, TypeInv, Cursor
    <3> QED
      BY <3>1, <3>2, <1>2
  <2> QED
    BY <2>1, <1>2, Constants DEF AttemptInv
<1> QED
  BY <1>5, <1>6, <1>7 DEF IInv

-----------------------------------------------------------------------------
(* repairFailed: a failing batch is halved; a failing block is counted and *)
(* passed over once it was tried as often as a sweep may.                  *)
Counted(first) == (IF attempts.block = first THEN attempts.count ELSE 0) + 1

LEMMA OneLeft ==
  ASSUME NEW S, IsFiniteSet(S), NEW x \in S, ~ (Cardinality(S) > 1), NEW y \in S
  PROVE  x = y
<1>1. Cardinality(S) \in Nat /\ Cardinality(S) # 0
  BY FS_CardinalityType, FS_EmptySet
<1>2. Cardinality(S) = 1
  BY <1>1
<1> QED
  BY <1>2, FS_Singleton

(* The read that failed counts for the block, also at the cap of tries.    *)
LEMMA CountedTried ==
  ASSUME RepairAssumption, IInv, NEW first \in Lacking0, cursor.next <= first,
         tries' = [tries EXCEPT ![first] = IF @ < MaxAttempts * MaxSweeps THEN @ + 1 ELSE @]
  PROVE  /\ Counted(first) \in 1 .. MaxAttempts
         /\ tries' \in [Lacking0 -> Nat]
         /\ \A b \in Lacking0 : tries'[b] >= tries[b]
         /\ first \in Owed => tries'[first] >= MaxAttempts * cursor.sweeps + Counted(first)
<1>1. /\ MaxAttempts \in Nat \ {0} /\ MaxSweeps \in Nat \ {0} /\ cursor.sweeps \in 0 .. MaxSweeps - 1
      /\ attempts.count \in 0 .. MaxAttempts /\ tries \in [Lacking0 -> Nat] /\ first \in Nat
      /\ cursor.next \in Nat
  BY Constants DEF IInv, TypeInv, Cursor, Attempts
<1>2. Counted(first) \in 1 .. MaxAttempts
  <2>1. attempts.block = first => attempts.count < MaxAttempts
    BY <1>1 DEF IInv, AttemptInv
  <2> QED
    BY <2>1, <1>1 DEF Counted
<1> DEFINE base == MaxAttempts * cursor.sweeps
           cap == MaxAttempts * MaxSweeps
<1>3. base \in Nat /\ cap \in Nat /\ base + MaxAttempts <= cap
  BY <1>1, Reckoned
<1>4. first \in Owed => tries[first] + 1 >= base + Counted(first)
  <2>1. SUFFICES ASSUME first \in Owed  PROVE tries[first] + 1 >= base + Counted(first)
    OBVIOUS
  <2>2. tries[first] \in Nat /\ tries[first] >= base
    BY <2>1, <1>1 DEF IInv, PassInv, Tried
  <2>3. attempts.block = first => tries[first] >= base + attempts.count
    BY <2>1 DEF IInv, AttemptInv
  <2> HIDE DEF base
  <2> QED
    BY <2>2, <2>3, <1>1, <1>3 DEF Counted
<1> HIDE DEF base, cap
<1>5. tries' = [tries EXCEPT ![first] = IF @ < cap THEN @ + 1 ELSE @]
  BY Zenon DEF cap
<1>6. tries' \in [Lacking0 -> Nat] /\ \A b \in Lacking0 : tries'[b] >= tries[b]
  BY <1>1, <1>5
<1>7. first \in Owed => tries'[first] >= base + Counted(first)
  <2>1. tries'[first] = IF tries[first] < cap THEN tries[first] + 1 ELSE tries[first]
    BY <1>1, <1>5
  <2>2. tries[first] \in Nat
    BY <1>1
  <2> QED
    BY <2>1, <2>2, <1>1, <1>2, <1>3, <1>4
<1> QED
  BY <1>2, <1>6, <1>7 DEF base

LEMMA RepairFailedKeeps ==
  ASSUME RepairAssumption, IInv, RepairFailed
  PROVE  IInv'
<1>1. /\ step.on /\ ~ cursor.done /\ step' = None
      /\ UNCHANGED <<lacking, frontier, generation, gone>>
  BY DEF RepairFailed, IInv, StepInv
<1>2. step' \in Flight /\ ~ step'.on
  BY <1>1 DEF None, Flight
<1>3. Owed' = Owed
  BY <1>1 DEF Owed
<1>4. /\ step.targets \in SUBSET Lacking0 /\ step.targets \in SUBSET Nat /\ step.targets # {}
      /\ IsFiniteSet(step.targets)
  <2>1. step.targets \in SUBSET Lacking0 /\ step.targets # {}
    BY <1>1 DEF IInv, TypeInv, Flight, StepInv
  <2> QED
    BY <2>1, Constants, FS_Subset
<1>5. CASE Cardinality(step.targets) > 1
  <2>1. narrow' = Cardinality(step.targets) \div 2 /\ UNCHANGED <<cursor, attempts, tries>>
    BY <1>5, Zenon DEF RepairFailed
  <2>2. narrow' \in 0 .. Largest
    <3>1. Cardinality(step.targets) \in Nat /\ Cardinality(step.targets) <= Largest
      BY <1>1, <1>4, FS_CardinalityType DEF IInv, StepInv
    <3>2. Largest \in Nat
      BY Constants, MaxOfTwo DEF Largest
    <3> QED
      BY <3>1, <3>2, <2>1
  <2>3. TypeInv'
    BY <1>1, <1>2, <2>1, <2>2 DEF IInv, TypeInv
  <2>4. RowsInv' /\ PassInv' /\ AttemptInv' /\ StepInv'
    BY <1>1, <1>2, <1>3, <2>1 DEF IInv, RowsInv, PassInv, AttemptInv, StepInv, Tried
  <2> QED
    BY <2>3, <2>4 DEF IInv
<1>6. CASE ~ (Cardinality(step.targets) > 1)
  <2>1. PICK first : first = Min(step.targets)
    OBVIOUS
  <2>2. /\ attempts' = [block |-> first, count |-> Counted(first)]
        /\ tries' = [tries EXCEPT ![first] = IF @ < MaxAttempts * MaxSweeps THEN @ + 1 ELSE @]
        /\ cursor' = IF ~GiveUp(first) THEN cursor
                     ELSE [cursor EXCEPT !.next = first + 1,
                                         !.skipped = IF Cardinality(@) < MaxSkipped
                                                     THEN @ \cup {first} ELSE @]
        /\ UNCHANGED narrow
    BY <1>6, <2>1, Zenon DEF RepairFailed, Counted
  <2>3. first \in step.targets
    BY <1>4, <2>1, MinIsLeast
  <2>4. first \in Lacking0 /\ first \in Nat /\ cursor.next <= first /\ first < step.next
    BY <1>1, <1>4, <2>3 DEF IInv, StepInv
  <2>5. /\ Counted(first) \in 1 .. MaxAttempts
        /\ tries' \in [Lacking0 -> Nat]
        /\ \A b \in Lacking0 : tries'[b] >= tries[b]
        /\ first \in Owed => tries'[first] >= MaxAttempts * cursor.sweeps + Counted(first)
    BY <2>2, <2>4, CountedTried
  <2>6. attempts' \in Attempts /\ attempts'.block = first /\ attempts'.count = Counted(first)
    <3>1. Counted(first) \in 0 .. MaxAttempts
      BY <2>5, Constants
    <3> QED
      BY <3>1, <2>2, <2>4 DEF Attempts
  <2>7. /\ MaxAttempts * cursor.sweeps \in Nat
        /\ MaxAttempts * (cursor.sweeps + 1) = MaxAttempts * cursor.sweeps + MaxAttempts
    <3>1. cursor.sweeps \in 0 .. MaxSweeps - 1
      BY DEF IInv, TypeInv, Cursor
    <3> QED
      BY <3>1, Constants, Reckoned
  <2>8. \A b \in Owed : b \in Lacking0 /\ b \in Nat /\ tries[b] \in Nat /\ tries'[b] \in Nat
    BY <2>5, Constants DEF Owed, IInv, TypeInv
  <2>9. \A b \in Owed : tries'[b] >= MaxAttempts * cursor.sweeps
    <3> TAKE b \in Owed
    <3>1. tries[b] >= MaxAttempts * cursor.sweeps /\ tries'[b] >= tries[b]
      BY <2>5, <2>8 DEF IInv, PassInv, Tried
    <3> QED
      BY <3>1, <2>7, <2>8
  <2>10. ASSUME NEW b \in Owed, b < cursor.next
         PROVE  tries'[b] >= MaxAttempts * (cursor.sweeps + 1) /\ \E s \in cursor.skipped : s <= b
    <3>1. /\ tries[b] >= MaxAttempts * (cursor.sweeps + 1) /\ tries'[b] >= tries[b]
          /\ \E s \in cursor.skipped : s <= b
      BY <2>5, <2>8, <2>10 DEF IInv, PassInv, Tried
    <3>2. MaxAttempts * (cursor.sweeps + 1) \in Nat
      BY <2>7, Constants
    <3> QED
      BY <3>1, <3>2, <2>8
  <2>11. CASE ~ GiveUp(first)
    <3>1. cursor' = cursor
      BY <2>2, <2>11
    <3>2. TypeInv'
      BY <1>1, <1>2, <2>2, <2>5, <2>6, <3>1 DEF IInv, TypeInv
    <3>3. PassInv'
      BY <1>1, <1>3, <2>9, <2>10, <3>1 DEF IInv, PassInv, Tried
    <3>4. ~ (attempts'.count >= MaxAttempts)
      BY <2>6, <2>11 DEF GiveUp, Counted
    <3>5. AttemptInv'
      BY <1>3, <2>5, <2>6, <3>1, <3>4 DEF AttemptInv
    <3>6. RowsInv' /\ StepInv'
      BY <1>1, <1>2, <1>3, <3>1 DEF IInv, RowsInv, StepInv
    <3> QED
      BY <3>2, <3>3, <3>5, <3>6 DEF IInv
  <2>12. CASE GiveUp(first)
    <3>1. PICK skipped : skipped = IF Cardinality(cursor.skipped) < MaxSkipped
                                   THEN cursor.skipped \cup {first} ELSE cursor.skipped
      OBVIOUS
    <3>2. cursor' = [cursor EXCEPT !.next = first + 1, !.skipped = skipped]
      BY <2>2, <2>12, <3>1
    <3>3. /\ cursor.skipped \in SUBSET Lacking0 /\ IsFiniteSet(cursor.skipped)
          /\ Cardinality(cursor.skipped) <= MaxSkipped /\ Cardinality(cursor.skipped) \in Nat
          /\ cursor.next \in Nat
      <4>1. cursor.skipped \in SUBSET Lacking0 /\ Cardinality(cursor.skipped) <= MaxSkipped
            /\ cursor.next \in Nat
        BY DEF IInv, TypeInv, Cursor
      <4> QED
        BY <4>1, Constants, FS_Subset, FS_CardinalityType
    <3>4. skipped \in SUBSET Lacking0 /\ Cardinality(skipped) <= MaxSkipped
      <4>1. CASE Cardinality(cursor.skipped) < MaxSkipped
        <5>1. skipped = cursor.skipped \cup {first}
          BY <3>1, <4>1
        <5>2. Cardinality(skipped) = IF first \in cursor.skipped THEN Cardinality(cursor.skipped)
                                     ELSE Cardinality(cursor.skipped) + 1
          BY <5>1, <3>3, FS_AddElement
        <5> QED
          BY <5>1, <5>2, <4>1, <3>3, <2>4, Constants
      <4>2. CASE ~ (Cardinality(cursor.skipped) < MaxSkipped)
        BY <4>2, <3>1, <3>3
      <4> QED
        BY <4>1, <4>2
    <3>5. /\ cursor'.next = first + 1 /\ cursor'.skipped = skipped
          /\ cursor'.sweeps = cursor.sweeps /\ cursor'.done = cursor.done /\ cursor' \in Cursor
      <4>1. cursor \in Cursor
        BY DEF IInv, TypeInv
      <4>2. first + 1 \in Nat /\ skipped \in SUBSET Lacking0
        BY <2>4, <3>4
      <4>3. /\ cursor'.next = first + 1 /\ cursor'.skipped = skipped
            /\ cursor'.sweeps = cursor.sweeps /\ cursor'.done = cursor.done
        BY <3>2, <4>1 DEF Cursor
      <4>4. cursor' \in Cursor
        BY <3>2, <4>1, <4>2, Zenon DEF Cursor
      <4> QED
        BY <4>3, <4>4
    <3>6. cursor.skipped \in SUBSET skipped /\ \E s \in skipped : s <= first
      <4>1. CASE Cardinality(cursor.skipped) < MaxSkipped
        BY <4>1, <3>1, <2>4
      <4>2. CASE ~ (Cardinality(cursor.skipped) < MaxSkipped)
        <5>1. skipped = cursor.skipped /\ cursor.skipped # {}
          BY <4>2, <3>1, <3>3, FS_EmptySet, Constants
        <5>2. PICK s \in cursor.skipped : TRUE
          BY <5>1
        <5>3. s < cursor.next /\ s \in Nat
          BY <3>3, Constants DEF IInv, PassInv
        <5> QED
          BY <5>1, <5>3, <3>3, <2>4
      <4> QED
        BY <4>1, <4>2
    <3>7. \A b \in Owed : b < cursor'.next => b < cursor.next \/ b = first
      <4> SUFFICES ASSUME NEW b \in Owed, b < cursor'.next, ~ (b < cursor.next)  PROVE b = first
        OBVIOUS
      <4>1. b \in Nat /\ step.next \in Nat
        BY <2>8 DEF IInv, TypeInv, Flight
      <4>2. cursor.next <= b /\ b < step.next
        BY <4>1, <3>3, <3>5, <2>4
      <4>3. b \in step.targets
        BY <4>2, <1>1 DEF IInv, StepInv
      <4> QED
        BY <4>3, <2>3, <1>4, <1>6, OneLeft
    <3>8. first \in Owed => tries'[first] >= MaxAttempts * (cursor.sweeps + 1)
      <4>1. Counted(first) = MaxAttempts
        BY <2>5, <2>12, Constants DEF GiveUp, Counted
      <4> QED
        BY <4>1, <2>5, <2>7
    <3>9. \A b \in Owed : b < cursor'.next => /\ tries'[b] >= MaxAttempts * (cursor'.sweeps + 1)
                                             /\ \E s \in cursor'.skipped : s <= b
      BY <2>10, <3>5, <3>6, <3>7, <3>8
    <3>10. \A s \in cursor'.skipped : s < cursor'.next
      <4> TAKE s \in cursor'.skipped
      <4>1. s = first \/ s \in cursor.skipped
        BY <3>1, <3>5
      <4>2. s \in cursor.skipped => s < cursor.next /\ s \in Nat
        BY <3>3, Constants DEF IInv, PassInv
      <4> QED
        BY <4>1, <4>2, <3>3, <3>5, <2>4
    <3>11. PassInv'
      BY <1>1, <1>3, <2>9, <3>5, <3>9, <3>10 DEF PassInv, Tried
    <3>12. TypeInv'
      BY <1>1, <1>2, <2>2, <2>5, <2>6, <3>4, <3>5 DEF IInv, TypeInv
    <3>13. AttemptInv'
      BY <1>3, <2>4, <2>5, <2>6, <3>5 DEF AttemptInv
    <3>14. RowsInv' /\ StepInv'
      BY <1>1, <1>2, <1>3, <3>5 DEF IInv, RowsInv, StepInv
    <3> QED
      BY <3>11, <3>12, <3>13, <3>14 DEF IInv
  <2> QED
    BY <2>11, <2>12
<1> QED
  BY <1>5, <1>6

-----------------------------------------------------------------------------
LEMMA StepKeeps ==
  ASSUME RepairAssumption, IInv, [Next]_vars
  PROVE  IInv'
<1>1. CASE UNCHANGED vars
  <2>1. Owed' = Owed
    BY <1>1 DEF vars, Owed
  <2> QED
    BY <1>1, <2>1 DEF vars, IInv, TypeInv, StepInv, RowsInv, PassInv, AttemptInv, Tried
<1>2. CASE SweepEnds
  BY <1>2, SweepEndsKeeps
<1>3. CASE PassOver
  BY <1>3, PassOverKeeps
<1>4. CASE RepairList
  BY <1>4, RepairListKeeps
<1>5. CASE RepairCommit
  BY <1>5, RepairCommitKeeps
<1>6. CASE RepairFailed
  BY <1>6, RepairFailedKeeps
<1>7. CASE Rewind
  BY <1>7, RewindKeeps
<1>8. CASE Prune
  BY <1>8, PruneKeeps
<1>9. CASE Crash
  BY <1>9, CrashKeeps
<1>10. CASE Done
  BY <1>10, <1>1 DEF Done
<1> QED
  BY <1>1, <1>2, <1>3, <1>4, <1>5, <1>6, <1>7, <1>8, <1>9, <1>10 DEF Next, RepairStep

LEMMA Follows ==
  ASSUME RepairAssumption, IInv
  PROVE  TypeOK /\ PassedMeansTried /\ DoneMeansTried
<1>1. TypeOK
  BY DEF IInv, TypeInv, TypeOK, Cursor, Flight, Attempts, Largest
<1> QED
  BY <1>1 DEF IInv, PassInv, Tried, PassedMeansTried, DoneMeansTried

(* However steps, outages, rewinds, prunes, crashes and failing commits    *)
(* interleave, the forward-only cursor passes only rows that were read, or *)
(* rewound, or tried on their own maxRepairAttempts times in every sweep   *)
(* so far (repairStep, repairFailed, repairSwept, pruneCutoff).            *)
THEOREM RepairTried ==
  ASSUME RepairAssumption
  PROVE  Spec => [](TypeOK /\ PassedMeansTried)
<1>1. Init => IInv
  BY AtFirst
<1>2. IInv /\ [Next]_vars => IInv'
  BY StepKeeps
<1>3. IInv => TypeOK /\ PassedMeansTried
  BY Follows
<1> QED
  BY <1>1, <1>2, <1>3, PTL DEF Spec

(* A finished pass gave up only on rows it tried in every sweep it may     *)
(* make, also when more blocks failed than the cursor remembers.           *)
THEOREM RepairGaveUpLate ==
  ASSUME RepairAssumption
  PROVE  Spec => []DoneMeansTried
<1>1. Init => IInv
  BY AtFirst
<1>2. IInv /\ [Next]_vars => IInv'
  BY StepKeeps
<1>3. IInv => DoneMeansTried
  BY Follows
<1> QED
  BY <1>1, <1>2, <1>3, PTL DEF Spec
=============================================================================
