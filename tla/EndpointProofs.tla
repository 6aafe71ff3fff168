--------------------------- MODULE EndpointProofs ---------------------------
(***************************************************************************)
(* One RPC endpoint for any number of workers, slots and requests: a wave  *)
(* of 429s costs one step, the batch cap grows only after a quiet          *)
(* interval, nothing leaves a metered endpoint during a cooldown, and a    *)
(* list that ends well has every item answered.                            *)
(***************************************************************************)
EXTENDS Throttle, Sequences, FiniteSetTheorems, SequenceTheorems, TLAPS

(* The endpoint's log scans, a component of their own. *)
CONSTANTS Scans, To, MaxLogRange, Limits, MaxMoves
VARIABLES logRange, calm, limit, moves, scan
Logs == INSTANCE LogRange

States == {"rest", "chunk", "slot", "check", "go", "wire"}
InHand == {"check", "go", "wire"}
Items0 == 0 .. Items
Tries == 0 .. MaxAttempts - 1
Times == 0 .. MaxTime
Work == [pc : States, start : Items0, cur : Items0, end : Items0, size : Items0, attempts : Tries, sentAt : Times]
Ends == 0 .. Items + 1
Answers == SUBSET (1 .. Items)
List == [on : BOOLEAN, next : Items0, width : Items0, failedAt : Ends, out : Answers]

-----------------------------------------------------------------------------
(* The inductive invariant. *)
TypeInv ==
    /\ batchCap \in 1 .. MaxCap /\ backoff \in MinBackoff .. MaxBackoff
    /\ now \in Times /\ blockedUntil \in Times /\ limits \in Nat
    /\ lastLimit \in 0 .. now /\ lastRecovery \in 0 .. now

(* A worker's chunk lies in its range, and what it sent it sent before. *)
Chunked(k, time) ==
    /\ k.start <= k.cur /\ k.cur <= k.end /\ k.sentAt <= time
    /\ k.pc # "rest" => k.cur < k.end
    /\ k.pc \in {"slot", "check", "go", "wire"} => k.size \in 1 .. (k.end - k.cur)
WorkInv == work \in [Workers -> Work] /\ \A w \in Workers : Chunked(work[w], now)

(* No more workers hold a send slot than there are. *)
SlotInv == IsFiniteSet(Held) /\ Cardinality(Held) <= Slots

(* With one slot, whoever is past the check left no cooldown behind. *)
CoolInv ==
    Slots = 1 => \A w \in Workers : /\ work[w].pc = "go" => blockedUntil <= now
                                    /\ work[w].pc = "wire" => blockedUntil <= work[w].sentAt

(* The requests of a wave left before the cooldown they ran into. *)
WaveInv == wave \subseteq OnWire /\ \A w \in wave : work[w].sentAt < blockedUntil

(* Every item a worker took below the lowest failure is answered, or some  *)
(* worker of the list still has it.                                        *)
Covers(k, i) == k.pc # "rest" /\ k.cur < i /\ i <= k.end
Covered(b, l, W, i) == i \in b.out \/ \E w \in Crew(l) : Covers(W[w], i)
Listed(b, l, W) ==
    /\ b.on => b.width > 0
    /\ ~ b.on => \A w \in Crew(l) : W[w].pc = "rest"
    /\ b.failedAt # NoFailure => b.failedAt <= b.next
    /\ \A w \in Crew(l) : W[w].pc # "rest" => W[w].start <= b.next
    /\ \A i \in 1 .. b.next : i <= b.failedAt => Covered(b, l, W, i)
BatchInv == batch \in [Lists -> List] /\ \A l \in Lists : Listed(batch[l], l, work)

IInv == TypeInv /\ WorkInv /\ SlotInv /\ CoolInv /\ WaveInv /\ BatchInv

-----------------------------------------------------------------------------
(* The numbers. *)
LEMMA MinTwo ==
  ASSUME NEW a \in Int, NEW b \in Int
  PROVE  Min({a, b}) = IF a <= b THEN a ELSE b
<1> DEFINE S == {a, b}
           m == IF a <= b THEN a ELSE b
<1>1. m \in S /\ \A x \in S : m <= x
  OBVIOUS
<1>2. \A n \in S : (\A x \in S : n <= x) => n = m
  OBVIOUS
<1>3. (CHOOSE n \in S : \A x \in S : n <= x) = m
  BY <1>1, <1>2
<1> QED
  BY <1>3 DEF Min

LEMMA MaxTwo ==
  ASSUME NEW a \in Int, NEW b \in Int
  PROVE  Max({a, b}) = IF a >= b THEN a ELSE b
<1> DEFINE S == {a, b}
           m == IF a >= b THEN a ELSE b
<1>1. m \in S /\ \A x \in S : m >= x
  OBVIOUS
<1>2. \A n \in S : (\A x \in S : n >= x) => n = m
  OBVIOUS
<1>3. (CHOOSE n \in S : \A x \in S : n >= x) = m
  BY <1>1, <1>2
<1> QED
  BY <1>3 DEF Max

LEMMA ChunkSizeBound ==
  ASSUME NEW cap \in Nat, NEW left \in Nat \ {0}
  PROVE  ChunkSize(cap, left) \in 1 .. left
<1>1. Max({cap, 1}) = IF cap >= 1 THEN cap ELSE 1
  BY MaxTwo
<1> DEFINE m == Max({cap, 1})
<1>2. m \in Nat \ {0}
  BY <1>1
<1> HIDE DEF m
<1>3. Min({m, left}) = IF m <= left THEN m ELSE left
  BY <1>2, MinTwo
<1>4. ChunkSize(cap, left) = Min({m, left})
  BY DEF ChunkSize, m
<1> QED
  BY <1>2, <1>3, <1>4

LEMMA HalfBound ==
  ASSUME NEW n \in Nat
  PROVE  n \div 2 \in Nat /\ n \div 2 <= n
  OBVIOUS

(* observe's new cap: no smaller, and larger only after a quiet interval. *)
LEMMA RecoveredBound ==
  ASSUME ThrottleAssumption, TypeInv
  PROVE  /\ Recovered \in batchCap .. MaxCap
         /\ Recovered > batchCap => now >= Quiet + lastLimit
<1>1. batchCap \in Nat /\ MaxCap \in Nat /\ batchCap <= MaxCap /\ now \in Nat /\ Quiet \in Nat
      /\ lastLimit \in Nat /\ lastRecovery \in Nat
  BY DEF ThrottleAssumption, TypeInv, Times
<1>2. Max({lastLimit, lastRecovery}) = IF lastLimit >= lastRecovery THEN lastLimit ELSE lastRecovery
  BY <1>1, MaxTwo
<1>3. Recovers => now >= Quiet + lastLimit
  BY <1>1, <1>2 DEF Recovers
<1>4. Recovered \in batchCap .. MaxCap /\ (~ Recovers => Recovered = batchCap)
  BY <1>1 DEF Recovered, Least
<1> QED
  BY <1>1, <1>3, <1>4

LEMMA ShrunkBound ==
  ASSUME ThrottleAssumption, TypeInv, NEW items \in Nat
  PROVE  Shrunk(items) \in 1 .. Recovered
<1>1. Recovered \in Nat /\ Recovered >= 1
  BY RecoveredBound DEF ThrottleAssumption, TypeInv
<1> DEFINE half == items \div 2
<1>2. half \in Nat
  BY HalfBound
<1> HIDE DEF half
<1>3. Max({half, 1}) = IF half >= 1 THEN half ELSE 1
  BY <1>2, MaxTwo
<1>4. Shrunk(items) = Least(Recovered, Max({half, 1}))
  BY DEF Shrunk, half
<1> QED
  BY <1>1, <1>2, <1>3, <1>4 DEF Least

-----------------------------------------------------------------------------
(* One worker moves. *)
LEMMA WorkMoves ==
  ASSUME WorkInv, NEW w \in Workers, NEW k \in Work, work' = [work EXCEPT ![w] = k]
  PROVE  /\ work' \in [Workers -> Work]
         /\ work'[w] = k /\ \A v \in Workers \ {w} : work'[v] = work[v]
<1>1. work' \in [Workers -> Work]
  BY Zenon DEF WorkInv
<1> QED
  BY <1>1 DEF WorkInv

(* The slots: who holds one, takes one, gives one back. *)
LEMMA HeldStays ==
  ASSUME SlotInv, NEW w \in Workers, \A v \in Workers \ {w} : work'[v] = work[v],
         work'[w].pc \in InHand <=> work[w].pc \in InHand
  PROVE  SlotInv' /\ Held' = Held
<1>1. Held' = Held
  BY DEF Held, InHand, Unslotted
<1> QED
  BY <1>1 DEF SlotInv

LEMMA HeldGrows ==
  ASSUME ThrottleAssumption, SlotInv, NEW w \in Workers, \A v \in Workers \ {w} : work'[v] = work[v],
         work[w].pc \notin InHand, work'[w].pc \in InHand, Unslotted(w) \/ Cardinality(Held) < Slots
  PROVE  SlotInv'
<1>4. CASE Unslotted(w)
  <2>1. Held' = Held
    BY <1>4 DEF Held, InHand, Unslotted
  <2> QED
    BY <2>1 DEF SlotInv
<1> SUFFICES ASSUME ~ Unslotted(w), Cardinality(Held) < Slots
             PROVE  SlotInv'
  BY <1>4
<1>1. Held' = Held \cup {w} /\ w \notin Held
  BY DEF Held, InHand, Unslotted
<1>2. IsFiniteSet(Held \cup {w}) /\ Cardinality(Held \cup {w}) = Cardinality(Held) + 1
        /\ Cardinality(Held) \in Nat
  BY <1>1, FS_AddElement, FS_CardinalityType DEF SlotInv
<1>3. Cardinality(Held) + 1 <= Slots
  BY <1>2 DEF ThrottleAssumption
<1> QED
  BY <1>1, <1>2, <1>3 DEF SlotInv

LEMMA HeldShrinks ==
  ASSUME ThrottleAssumption, SlotInv, NEW w \in Workers, \A v \in Workers \ {w} : work'[v] = work[v],
         work[w].pc \in InHand, work'[w].pc \notin InHand
  PROVE  SlotInv'
<1>1. Held' = Held \ {w}
  BY DEF Held, InHand, Unslotted
<1>2. IsFiniteSet(Held \ {w}) /\ Cardinality(Held \ {w}) <= Cardinality(Held)
        /\ Cardinality(Held) \in Nat /\ Cardinality(Held \ {w}) \in Nat
  BY FS_Subset, FS_CardinalityType DEF SlotInv
<1>3. Cardinality(Held \ {w}) <= Slots
  BY <1>2 DEF ThrottleAssumption, SlotInv
<1> QED
  BY <1>1, <1>2, <1>3 DEF SlotInv

LEMMA OneHolds ==
  ASSUME SlotInv, Slots = 1, NEW v \in Held, NEW w \in Held
  PROVE  v = w
<1>1. Cardinality(Held) \in Nat /\ IsFiniteSet(Held) /\ Cardinality(Held) <= 1
  BY FS_CardinalityType DEF SlotInv
<1>2. Cardinality(Held) # 0
  BY <1>1, FS_EmptySet
<1>3. Cardinality(Held) = 1
  BY <1>1, <1>2
<1>4. PICK x : Held = {x}
  BY <1>1, <1>3, FS_Singleton
<1> QED
  BY <1>4

LEMMA RestingTyped ==
  ASSUME ThrottleAssumption, NEW time \in Nat
  PROVE  Resting \in Work /\ Resting.pc = "rest" /\ Chunked(Resting, time)
<1>1. "rest" \in States /\ 0 \in Items0 /\ 0 \in Tries
  BY DEF States, Items0, Tries, ThrottleAssumption
<1>2. Resting.pc = "rest" /\ Resting.start = 0 /\ Resting.cur = 0 /\ Resting.end = 0 /\ Resting.sentAt = 0
  BY DEF Resting
<1>3. 0 \in Times
  BY DEF Times, ThrottleAssumption
<1>4. Resting \in Work
  BY <1>1, <1>3, Zenon DEF Resting, Work
<1> QED
  BY <1>2, <1>4 DEF Chunked

(* A worker's fields. *)
LEMMA WorkFields ==
  ASSUME ThrottleAssumption, NEW k \in Work
  PROVE  /\ k.pc \in States /\ k.cur \in Nat /\ k.end \in Nat /\ k.size \in Nat /\ k.attempts \in Nat
         /\ k.sentAt \in Nat /\ k.end <= Items /\ k.cur <= Items /\ k.attempts < MaxAttempts
         /\ k.start \in Items0 /\ k.start \in Nat
<1>1. k.pc \in States /\ k.cur \in Items0 /\ k.end \in Items0 /\ k.size \in Items0 /\ k.attempts \in Tries
      /\ k.sentAt \in Times /\ k.start \in Items0
  BY DEF Work
<1> QED
  BY <1>1 DEF Items0, Tries, Times, ThrottleAssumption

(* A worker and its list. *)
LEMMA ListOf ==
  ASSUME ThrottleAssumption, BatchInv, NEW w \in Workers
  PROVE  /\ Of[w] \in Lists /\ w \in Crew(Of[w]) /\ batch[Of[w]] \in List
         /\ Listed(batch[Of[w]], Of[w], work) /\ Holds[Of[w]] \in Nat
         /\ (work[w].pc # "rest" => batch[Of[w]].on)
<1>1. Of[w] \in Lists /\ Holds[Of[w]] \in Nat /\ w \in Crew(Of[w])
  BY DEF ThrottleAssumption, Crew
<1>2. batch[Of[w]] \in List /\ Listed(batch[Of[w]], Of[w], work)
  BY <1>1 DEF BatchInv
<1> QED
  BY <1>1, <1>2 DEF Listed

(* One worker and its list move. *)
LEMMA ListMoves ==
  ASSUME ThrottleAssumption, BatchInv, NEW w \in Workers, \A v \in Workers \ {w} : work'[v] = work[v],
         NEW b \in List, batch' = [batch EXCEPT ![Of[w]] = b], Listed(b, Of[w], work')
  PROVE  BatchInv'
<1>1. batch' \in [Lists -> List] /\ Of[w] \in Lists
  BY ListOf DEF BatchInv
<1>2. ASSUME NEW l \in Lists
      PROVE  Listed(batch'[l], l, work')
  <2>1. CASE l = Of[w]
    <3>1. batch'[l] = b
      BY <1>1, <2>1 DEF BatchInv
    <3> QED
      BY <2>1, <3>1
  <2>2. CASE l # Of[w]
    <3>1. batch'[l] = batch[l] /\ Listed(batch[l], l, work)
      BY <1>2, <2>2 DEF BatchInv
    <3>2. \A v \in Crew(l) : work'[v] = work[v]
      BY <2>2 DEF Crew
    <3> QED
      BY <3>1, <3>2 DEF Listed, Covered
  <2> QED
    BY <2>1, <2>2
<1> QED
  BY <1>1, <1>2 DEF BatchInv

(* A worker that goes on with its range leaves the list as it is. *)
LEMMA CoverStays ==
  ASSUME ThrottleAssumption, BatchInv, batch' = batch, NEW w \in Workers,
         \A v \in Workers \ {w} : work'[v] = work[v],
         work[w].pc # "rest", work'[w].start = work[w].start,
         \A i \in Nat : Covers(work[w], i) => Covers(work'[w], i)
  PROVE  BatchInv'
<1> DEFINE l == Of[w]
           b == batch[l]
<1>1. l \in Lists /\ b \in List /\ b.on /\ Listed(b, l, work) /\ b.next \in Items0
  BY ListOf DEF List
<1>2. \A i \in 1 .. b.next : i \in Nat
  BY <1>1 DEF Items0
<1>3. \A i \in 1 .. b.next : Covered(b, l, work, i) => Covered(b, l, work', i)
  <2> SUFFICES ASSUME NEW i \in 1 .. b.next, NEW v \in Crew(l), Covers(work[v], i)
               PROVE  Covers(work'[v], i)
    BY DEF Covered
  <2>1. i \in Nat /\ v \in Workers
    BY <1>2 DEF Crew
  <2> QED
    BY <2>1
<1> HIDE DEF b
<1>6. ASSUME NEW v \in Crew(l), work'[v].pc # "rest"
      PROVE  work'[v].start <= b.next
  BY <1>1, <1>6 DEF Listed, Crew
<1>4. Listed(b, l, work')
  BY <1>1, <1>3, <1>6 DEF Listed
<1>5. batch' = [batch EXCEPT ![Of[w]] = b]
  BY <1>1 DEF b, BatchInv
<1> QED
  BY <1>1, <1>4, <1>5, ListMoves

(* chunk, slot, check, go: a worker on its way to the wire. *)
LEMMA Onward ==
  ASSUME ThrottleAssumption, IInv, NEW w \in Workers, NEW k \in Work, work' = [work EXCEPT ![w] = k],
         work[w].pc \in {"chunk", "slot", "check", "go"}, k.pc # "rest",
         k.start = work[w].start, k.cur = work[w].cur, k.end = work[w].end, Chunked(k, now),
         UNCHANGED <<endpoint, client, now, batch, limits, wave>>, SlotInv',
         Slots = 1 => /\ k.pc = "go" => blockedUntil <= now
                      /\ k.pc = "wire" => blockedUntil <= k.sentAt
  PROVE  IInv' /\ WaveStep /\ CapStep
<1>1. work' \in [Workers -> Work] /\ work'[w] = k /\ \A v \in Workers \ {w} : work'[v] = work[v]
  BY WorkMoves DEF IInv
<1>2. TypeInv' /\ CapStep
  BY DEF IInv, TypeInv, endpoint, client, CapStep
<1>3. WorkInv'
  <2>1. \A v \in Workers : Chunked(work'[v], now)
    BY <1>1 DEF IInv, WorkInv
  <2> QED
    BY <1>1, <2>1 DEF WorkInv
<1>4. CoolInv'
  BY <1>1 DEF IInv, CoolInv, client
<1>5. WaveInv'
  BY <1>1 DEF IInv, WaveInv, OnWire, client
<1>6. BatchInv'
  BY <1>1, CoverStays DEF IInv, Covers
<1>7. WaveStep
  BY <1>1 DEF WaveStep, IInv, WaveInv, OnWire
<1> QED
  BY <1>2, <1>3, <1>4, <1>5, <1>6, <1>7 DEF IInv

-----------------------------------------------------------------------------
(* The actions. *)
LEMMA StepChunk ==
  ASSUME ThrottleAssumption, IInv, NEW w \in Workers, Chunk(w)
  PROVE  IInv' /\ WaveStep /\ CapStep
<1>1. work[w] \in Work /\ work[w].pc = "chunk" /\ Chunked(work[w], now)
  BY DEF IInv, WorkInv, Chunk
<1>2. UNCHANGED <<endpoint, client, now, batch, limits, wave>>
  BY DEF Chunk
<1>3. PICK size \in Items0 :
        /\ size \in 1 .. (work[w].end - work[w].cur)
        /\ work' = [work EXCEPT ![w].pc = "slot", ![w].size = size]
  <2>1. work[w].end - work[w].cur \in Nat \ {0} /\ work[w].end - work[w].cur <= Items /\ Items \in Nat
    BY <1>1, WorkFields DEF Chunked, ThrottleAssumption
  <2>2. Widest(Of[w]) \in Nat
    <3>1. batchCap \in Nat /\ Holds[Of[w]] \in Nat
      BY ListOf DEF IInv, TypeInv, ThrottleAssumption
    <3> QED
      BY <3>1 DEF Widest, Least
  <2> DEFINE left == work[w].end - work[w].cur
             size == ChunkSize(Widest(Of[w]), left)
  <2>3. work' = [work EXCEPT ![w].pc = "slot", ![w].size = size]
    BY DEF Chunk
  <2> HIDE DEF left
  <2>4. size \in 1 .. left
    BY <2>1, <2>2, ChunkSizeBound DEF left
  <2> HIDE DEF size
  <2>5. size \in Items0
    BY <2>1, <2>4 DEF left, Items0
  <2> QED
    BY <2>3, <2>4, <2>5 DEF left
<1> DEFINE k == [work[w] EXCEPT !.pc = "slot", !.size = size]
<1>4. "slot" \in States
  BY DEF States
<1>5. k \in Work
  BY <1>1, <1>3, <1>4, Zenon DEF Work
<1>6. k.pc = "slot"
  BY <1>1 DEF Work
<1>7. k.size = size
  BY <1>1 DEF Work
<1>8. k.cur = work[w].cur /\ k.end = work[w].end /\ k.sentAt = work[w].sentAt /\ k.start = work[w].start
  BY <1>1 DEF Work
<1>9. work' = [work EXCEPT ![w] = k]
  BY <1>3
<1> HIDE DEF k
<1>10. Chunked(k, now)
  BY <1>1, <1>3, <1>6, <1>7, <1>8 DEF Chunked
<1>11. work'[w] = k /\ \A v \in Workers \ {w} : work'[v] = work[v]
  BY <1>5, <1>9, WorkMoves DEF IInv
<1>12. SlotInv'
  BY <1>1, <1>6, <1>11, HeldStays DEF IInv, InHand
<1> QED
  BY <1>1, <1>2, <1>5, <1>6, <1>8, <1>9, <1>10, <1>12, Onward

LEMMA StepSlot ==
  ASSUME ThrottleAssumption, IInv, NEW w \in Workers, Slot(w)
  PROVE  IInv' /\ WaveStep /\ CapStep
<1>1. work[w] \in Work /\ work[w].pc = "slot" /\ Chunked(work[w], now)
  BY DEF IInv, WorkInv, Slot
<1>2. UNCHANGED <<endpoint, client, now, batch, limits, wave>> /\ (Unslotted(w) \/ Cardinality(Held) < Slots)
  BY DEF Slot
<1> DEFINE k == [work[w] EXCEPT !.pc = "check"]
<1>4. "check" \in States
  BY DEF States
<1>5. k \in Work
  BY <1>1, <1>4, Zenon DEF Work
<1>6. k.pc = "check"
  BY <1>1 DEF Work
<1>7. /\ k.cur = work[w].cur /\ k.end = work[w].end /\ k.sentAt = work[w].sentAt /\ k.size = work[w].size
      /\ k.start = work[w].start
  BY <1>1 DEF Work
<1>8. work' = [work EXCEPT ![w] = k]
  BY DEF Slot
<1> HIDE DEF k
<1>9. Chunked(k, now)
  BY <1>1, <1>6, <1>7 DEF Chunked
<1>10. work'[w] = k /\ \A v \in Workers \ {w} : work'[v] = work[v]
  BY <1>5, <1>8, WorkMoves DEF IInv
<1>11. SlotInv'
  BY <1>1, <1>2, <1>6, <1>10, HeldGrows DEF IInv, InHand
<1> QED
  BY <1>1, <1>2, <1>5, <1>6, <1>7, <1>8, <1>9, <1>11, Onward

LEMMA StepCheck ==
  ASSUME ThrottleAssumption, IInv, NEW w \in Workers, Check(w)
  PROVE  IInv' /\ WaveStep /\ CapStep
<1>1. work[w] \in Work /\ work[w].pc = "check" /\ Chunked(work[w], now)
  BY DEF IInv, WorkInv, Check
<1>2. UNCHANGED <<endpoint, client, now, batch, limits, wave>> /\ blockedUntil <= now
  BY DEF Check, Cooled, IInv, TypeInv, Times
<1> DEFINE k == [work[w] EXCEPT !.pc = "go"]
<1>4. "go" \in States
  BY DEF States
<1>5. k \in Work
  BY <1>1, <1>4, Zenon DEF Work
<1>6. k.pc = "go"
  BY <1>1 DEF Work
<1>7. /\ k.cur = work[w].cur /\ k.end = work[w].end /\ k.sentAt = work[w].sentAt /\ k.size = work[w].size
      /\ k.start = work[w].start
  BY <1>1 DEF Work
<1>8. work' = [work EXCEPT ![w] = k]
  BY DEF Check
<1> HIDE DEF k
<1>9. Chunked(k, now)
  BY <1>1, <1>6, <1>7 DEF Chunked
<1>10. work'[w] = k /\ \A v \in Workers \ {w} : work'[v] = work[v]
  BY <1>5, <1>8, WorkMoves DEF IInv
<1>11. SlotInv'
  BY <1>1, <1>6, <1>10, HeldStays DEF IInv, InHand
<1> QED
  BY <1>1, <1>2, <1>5, <1>6, <1>7, <1>8, <1>9, <1>11, Onward

(* A request leaves with the time it leaves at.  With one slot nobody      *)
(* could open a cooldown since its holder checked.                         *)
LEMMA StepLeave ==
  ASSUME ThrottleAssumption, IInv, NEW w \in Workers, Leave(w)
  PROVE  IInv' /\ WaveStep /\ CapStep
<1>1. work[w] \in Work /\ work[w].pc = "go" /\ Chunked(work[w], now) /\ now \in Times
  BY DEF IInv, WorkInv, TypeInv, Leave
<1>2. UNCHANGED <<endpoint, client, now, batch, limits, wave>>
  BY DEF Leave
<1>3. Slots = 1 => blockedUntil <= now
  BY <1>1 DEF IInv, CoolInv
<1> DEFINE k == [work[w] EXCEPT !.pc = "wire", !.sentAt = now]
<1>4. "wire" \in States
  BY DEF States
<1>5. k \in Work
  BY <1>1, <1>4, Zenon DEF Work
<1>6. k.pc = "wire"
  BY <1>1 DEF Work
<1>7. k.sentAt = now
  BY <1>1 DEF Work
<1>8. k.cur = work[w].cur /\ k.end = work[w].end /\ k.size = work[w].size /\ k.start = work[w].start
  BY <1>1 DEF Work
<1>9. work' = [work EXCEPT ![w] = k]
  BY DEF Leave
<1> HIDE DEF k
<1>10. Chunked(k, now)
  BY <1>1, <1>6, <1>7, <1>8 DEF Chunked, Times
<1>11. work'[w] = k /\ \A v \in Workers \ {w} : work'[v] = work[v]
  BY <1>5, <1>9, WorkMoves DEF IInv
<1>12. SlotInv'
  BY <1>1, <1>6, <1>11, HeldStays DEF IInv, InHand
<1> QED
  BY <1>1, <1>2, <1>3, <1>5, <1>6, <1>7, <1>8, <1>9, <1>10, <1>12, Onward
-----------------------------------------------------------------------------
(* An answer comes in: its slot is free and its request is off the wire;   *)
(* with one slot nothing else is past the check.                           *)
LEMMA Lands ==
  ASSUME ThrottleAssumption, IInv, NEW w \in Workers, NEW k \in Work, work' = [work EXCEPT ![w] = k],
         work[w].pc = "wire", k.pc \in {"rest", "chunk"}, Chunked(k, now), now' = now
  PROVE  /\ WorkInv' /\ SlotInv' /\ CoolInv' /\ OnWire' = OnWire \ {w}
         /\ work'[w] = k /\ \A v \in Workers \ {w} : work'[v] = work[v]
<1>1. work' \in [Workers -> Work] /\ work'[w] = k /\ \A v \in Workers \ {w} : work'[v] = work[v]
  BY WorkMoves DEF IInv
<1>2. WorkInv'
  BY <1>1 DEF IInv, WorkInv
<1>3. SlotInv'
  BY <1>1, HeldShrinks DEF IInv, InHand
<1>4. CoolInv'
  <2>1. ASSUME Slots = 1, NEW v \in Workers, work'[v].pc \in {"go", "wire"}
        PROVE  FALSE
    <3>1. v # w
      BY <1>1, <2>1
    <3>2. v \in Held /\ w \in Held
      BY <1>1, <2>1, <3>1 DEF Held, Unslotted
    <3> QED
      BY <2>1, <3>1, <3>2, OneHolds DEF IInv
  <2> QED
    BY <2>1 DEF CoolInv
<1>5. OnWire' = OnWire \ {w}
  BY <1>1 DEF OnWire
<1> QED
  BY <1>1, <1>2, <1>3, <1>4, <1>5

(* The fields of the list. *)
LEMMA ListFields ==
  ASSUME NEW b \in List
  PROVE  b.next \in Items0 /\ b.out \in Answers /\ b.failedAt \in Ends /\ b.width \in Items0 /\ b.on \in BOOLEAN
  BY Zenon DEF List

LEMMA ListAnswered ==
  ASSUME NEW b \in List, NEW o \in Answers
  PROVE  /\ [b EXCEPT !.out = o] \in List /\ [b EXCEPT !.out = o].out = o
         /\ [b EXCEPT !.out = o].on = b.on /\ [b EXCEPT !.out = o].next = b.next
         /\ [b EXCEPT !.out = o].width = b.width /\ [b EXCEPT !.out = o].failedAt = b.failedAt
<1> DEFINE c == [b EXCEPT !.out = o]
<1>1. c \in List
  BY Zenon DEF List
<1>2. c.out = o
  BY Zenon DEF List
<1>3. c.on = b.on
  BY Zenon DEF List
<1>4. c.next = b.next
  BY Zenon DEF List
<1>5. c.width = b.width
  BY Zenon DEF List
<1>6. c.failedAt = b.failedAt
  BY Zenon DEF List
<1> QED
  BY <1>1, <1>2, <1>3, <1>4, <1>5, <1>6

LEMMA ListFailed ==
  ASSUME NEW b \in List, NEW f \in Ends
  PROVE  /\ [b EXCEPT !.failedAt = f] \in List /\ [b EXCEPT !.failedAt = f].failedAt = f
         /\ [b EXCEPT !.failedAt = f].on = b.on /\ [b EXCEPT !.failedAt = f].next = b.next
         /\ [b EXCEPT !.failedAt = f].width = b.width /\ [b EXCEPT !.failedAt = f].out = b.out
<1> DEFINE c == [b EXCEPT !.failedAt = f]
<1>1. c \in List
  BY Zenon DEF List
<1>2. c.failedAt = f
  BY Zenon DEF List
<1>3. c.on = b.on
  BY Zenon DEF List
<1>4. c.next = b.next
  BY Zenon DEF List
<1>5. c.width = b.width
  BY Zenon DEF List
<1>6. c.out = b.out
  BY Zenon DEF List
<1> QED
  BY <1>1, <1>2, <1>3, <1>4, <1>5, <1>6

(* A chunk answered: its items are, and the worker goes on with the rest.  *)
LEMMA DoneKeeps ==
  ASSUME ThrottleAssumption, IInv, NEW w \in Workers, work[w].pc = "wire", Done(w)
  PROVE  /\ \E k \in Work : /\ work' = [work EXCEPT ![w] = k]
                            /\ k.pc \in {"rest", "chunk"} /\ Chunked(k, now)
         /\ BatchInv'
<1> DEFINE l == Of[w]
           b == batch[l]
<1>1. /\ work[w] \in Work /\ Chunked(work[w], now) /\ now \in Nat
      /\ l \in Lists /\ b \in List /\ b.on /\ Listed(b, l, work) /\ w \in Crew(l)
  BY ListOf DEF IInv, WorkInv, TypeInv, Times
<1> DEFINE cur == work[w].cur + work[w].size
           got == (work[w].cur + 1) .. cur
<1>2. /\ cur \in Items0 /\ cur <= work[w].end /\ work[w].cur \in Nat /\ work[w].end \in Nat
      /\ cur \in Nat /\ work[w].end <= Items /\ Items \in Nat
  BY <1>1, WorkFields DEF Chunked, Items0, ThrottleAssumption
<1>3. batch' = [batch EXCEPT ![l].out = b.out \cup got]
  BY DEF Done
<1>4. \E k \in Work : /\ work' = [work EXCEPT ![w] = k]
                      /\ k.pc \in {"rest", "chunk"} /\ Chunked(k, now)
                      /\ (k.pc # "rest" => k.start = work[w].start)
                      /\ \A i \in Nat : Covers(work[w], i) => i \in got \/ Covers(k, i)
  <2>1. CASE cur = work[w].end
    <3>1. work' = [work EXCEPT ![w] = Resting]
      BY <2>1 DEF Done
    <3>2. \A i \in Nat : Covers(work[w], i) => i \in got
      BY <1>2, <2>1 DEF Covers
    <3> QED
      BY <1>1, <3>1, <3>2, RestingTyped
  <2>2. CASE cur # work[w].end
    <3> DEFINE k == [work[w] EXCEPT !.pc = "chunk", !.cur = cur, !.attempts = 0]
    <3>1. work' = [work EXCEPT ![w] = k]
      BY <2>2 DEF Done
    <3>2. \A i \in Nat : Covers(work[w], i) => i \in got \/ (cur < i /\ i <= work[w].end)
      BY <1>2 DEF Covers
    <3>3. "chunk" \in States /\ 0 \in Tries
      BY DEF States, Tries, ThrottleAssumption
    <3> HIDE DEF cur
    <3>4. k \in Work
      BY <1>1, <1>2, <3>3, Zenon DEF Work
    <3>5. k.pc = "chunk"
      BY <1>1, Zenon DEF Work
    <3>6. k.cur = cur
      BY <1>1, Zenon DEF Work
    <3>7. k.end = work[w].end
      BY <1>1, Zenon DEF Work
    <3>8. k.sentAt = work[w].sentAt
      BY <1>1, Zenon DEF Work
    <3>11. k.start = work[w].start /\ work[w].start \in Nat /\ work[w].start <= cur
      <4>1. work[w].start \in Nat /\ work[w].size \in Nat /\ work[w].start <= work[w].cur
        BY <1>1, WorkFields DEF Chunked
      <4>2. work[w].start <= cur
        BY <1>2, <4>1 DEF cur
      <4> HIDE DEF cur
      <4>3. k.start = work[w].start
        BY <1>1, Zenon DEF Work
      <4> QED
        BY <4>1, <4>2, <4>3
    <3> HIDE DEF k, got
    <3>9. Chunked(k, now)
      BY <1>1, <1>2, <2>2, <3>5, <3>6, <3>7, <3>8, <3>11 DEF Chunked
    <3>10. \A i \in Nat : Covers(work[w], i) => i \in got \/ Covers(k, i)
      BY <3>2, <3>5, <3>6, <3>7 DEF Covers
    <3> QED
      BY <3>1, <3>4, <3>5, <3>9, <3>10, <3>11
  <2> QED
    BY <2>1, <2>2
<1>5. PICK k \in Work : /\ work' = [work EXCEPT ![w] = k]
                        /\ k.pc \in {"rest", "chunk"} /\ Chunked(k, now)
                        /\ (k.pc # "rest" => k.start = work[w].start)
                        /\ \A i \in Nat : Covers(work[w], i) => i \in got \/ Covers(k, i)
  BY <1>4
<1>6. work'[w] = k /\ \A v \in Workers \ {w} : work'[v] = work[v]
  BY <1>5, WorkMoves DEF IInv
<1>7. got \subseteq 1 .. Items
  BY <1>2
<1> HIDE DEF got
<1>8. b.out \cup got \in Answers
  BY <1>1, <1>7, ListFields DEF Answers
<1> DEFINE c == [b EXCEPT !.out = b.out \cup got]
<1>9. /\ c \in List /\ c.out = b.out \cup got /\ c.on = b.on /\ c.next = b.next
      /\ c.width = b.width /\ c.failedAt = b.failedAt
  BY <1>1, <1>8, ListAnswered
<1>10. batch' = [batch EXCEPT ![Of[w]] = c]
  BY <1>1, <1>3 DEF IInv, BatchInv
<1> HIDE DEF c, b
<1>11. ASSUME NEW i \in 1 .. b.next, i <= b.failedAt
       PROVE  i \in b.out \cup got \/ \E v \in Crew(l) : Covers(work'[v], i)
  <2>1. i \in Nat
    BY <1>1, ListFields DEF Items0
  <2>2. i \in b.out \/ \E v \in Crew(l) : Covers(work[v], i)
    BY <1>1, <1>11 DEF Listed, Covered
  <2>3. CASE Covers(work[w], i)
    BY <1>1, <1>5, <1>6, <2>1, <2>3
  <2>4. ASSUME NEW v \in Crew(l) \ {w}, Covers(work[v], i)
        PROVE  Covers(work'[v], i)
    BY <1>6, <2>4 DEF Crew
  <2> QED
    BY <2>2, <2>3, <2>4
<1>14. ASSUME NEW v \in Crew(l), work'[v].pc # "rest"
       PROVE  work'[v].start <= b.next
  <2>1. CASE v = w
    BY <1>1, <1>5, <1>14, <2>1 DEF Listed
  <2>2. CASE v # w
    BY <1>1, <1>6, <1>14, <2>2 DEF Listed, Crew
  <2> QED
    BY <2>1, <2>2
<1>12. Listed(c, Of[w], work')
  BY <1>1, <1>9, <1>11, <1>14 DEF Listed, Covered
<1>13. BatchInv'
  BY <1>6, <1>9, <1>10, <1>12, ListMoves DEF IInv
<1> QED
  BY <1>5, <1>13

(* A range lost: what lies below the lowest start of a lost range is still *)
(* covered.                                                                *)
LEMMA FailKeeps ==
  ASSUME ThrottleAssumption, IInv, NEW w \in Workers, work[w].pc # "rest", Fail(w)
  PROVE  work' = [work EXCEPT ![w] = Resting] /\ BatchInv'
<1> DEFINE l == Of[w]
           b == batch[l]
           at == work[w].start
           f == Least(b.failedAt, at)
<1>1. /\ work[w] \in Work /\ Chunked(work[w], now) /\ now \in Nat
      /\ l \in Lists /\ b \in List /\ b.on /\ Listed(b, l, work) /\ w \in Crew(l)
  BY ListOf DEF IInv, WorkInv, TypeInv, Times
<1>2. at \in Nat /\ at \in Items0 /\ work[w].cur \in Nat /\ at <= work[w].cur /\ Items \in Nat
  BY <1>1, WorkFields DEF Chunked, ThrottleAssumption
<1>3. b.failedAt \in Ends /\ b.failedAt \in Nat /\ b.next \in Nat
  BY <1>1, <1>2, ListFields DEF Ends, Items0
<1>4. f \in Ends /\ f \in Nat /\ f <= b.failedAt /\ f <= at
  BY <1>2, <1>3 DEF Ends, Items0, Least
<1> HIDE DEF f
<1> DEFINE c == [b EXCEPT !.failedAt = f]
<1>5. /\ c \in List /\ c.failedAt = f /\ c.on = b.on /\ c.next = b.next /\ c.width = b.width /\ c.out = b.out
  BY <1>1, <1>4, ListFailed
<1>6. batch' = [batch EXCEPT ![Of[w]] = c] /\ work' = [work EXCEPT ![w] = Resting]
  <2>1. batch' = [batch EXCEPT ![l].failedAt = Least(@, at)] /\ work' = [work EXCEPT ![w] = Resting]
    BY DEF Fail
  <2> QED
    BY <2>1, <1>1 DEF IInv, BatchInv, f
<1> HIDE DEF c, b, at
<1>7. Resting \in Work
  BY <1>1, RestingTyped
<1>8. work'[w] = Resting /\ \A v \in Workers \ {w} : work'[v] = work[v]
  BY <1>6, <1>7, WorkMoves DEF IInv
<1>9. ASSUME NEW i \in 1 .. b.next, i <= f
      PROVE  i \in b.out \/ \E v \in Crew(l) : Covers(work'[v], i)
  <2>1. i \in Nat /\ i <= b.failedAt /\ i <= at
    BY <1>2, <1>3, <1>4, <1>9
  <2>2. i \in b.out \/ \E v \in Crew(l) : Covers(work[v], i)
    BY <1>1, <1>9, <2>1 DEF Listed, Covered
  <2>3. ~ Covers(work[w], i)
    BY <1>2, <2>1 DEF Covers
  <2>4. ASSUME NEW v \in Crew(l), Covers(work[v], i)
        PROVE  Covers(work'[v], i)
    <3>1. v # w /\ v \in Workers
      BY <2>3, <2>4 DEF Crew
    <3> QED
      BY <1>8, <2>4, <3>1
  <2> QED
    BY <2>2, <2>4
<1>11. ASSUME NEW v \in Crew(l), work'[v].pc # "rest"
       PROVE  work'[v].start <= b.next
  <2>1. v # w /\ v \in Workers
    BY <1>7, <1>8, <1>11, RestingTyped, <1>1 DEF Crew
  <2> QED
    BY <1>1, <1>8, <1>11, <2>1 DEF Listed
<1>12. at <= b.next /\ (f # NoFailure => f <= b.next)
  <2>1. at <= b.next
    BY <1>1 DEF Listed, at
  <2> QED
    BY <1>1, <1>2, <1>3, <2>1 DEF Listed, f, Least
<1>10. Listed(c, Of[w], work')
  BY <1>1, <1>5, <1>9, <1>11, <1>12 DEF Listed, Covered
<1> QED
  BY <1>5, <1>6, <1>8, <1>10, ListMoves DEF IInv

(* The wave after one of its requests, or another, came back. *)
LEMMA WaveShrinks ==
  ASSUME IInv, NEW w \in Workers, OnWire' = OnWire \ {w}, \A v \in Workers \ {w} : work'[v] = work[v],
         wave' = wave \ {w}, blockedUntil' = blockedUntil
  PROVE  WaveInv'
  BY DEF IInv, WaveInv, OnWire

(* The back-off as an answer leaves it: a request of the wave does not     *)
(* move it.                                                                *)
LEMMA BackoffKept ==
  ASSUME ThrottleAssumption, IInv, NEW w \in Workers, ResetBackoff(w)
  PROVE  backoff' \in MinBackoff .. MaxBackoff /\ (w \in wave => backoff' = backoff)
<1>1. w \in wave => work[w].sentAt < blockedUntil
  BY DEF IInv, WaveInv
<1>2. work[w].sentAt \in Nat /\ blockedUntil \in Nat
  BY WorkFields DEF IInv, WorkInv, TypeInv, Times
<1> QED
  BY <1>1, <1>2 DEF ResetBackoff, IInv, TypeInv, ThrottleAssumption

LEMMA StepAnswered ==
  ASSUME ThrottleAssumption, IInv, NEW w \in Workers, Answered(w)
  PROVE  IInv' /\ WaveStep /\ CapStep
<1>1. TypeInv /\ work[w].pc = "wire" /\ Done(w) /\ ResetBackoff(w) /\ wave' = wave \ {w}
      /\ UNCHANGED <<now, blockedUntil, lastLimit, limits>>
      /\ batchCap' = Recovered /\ lastRecovery' \in {now, lastRecovery}
  BY DEF IInv, Answered
<1>2. BatchInv'
  BY <1>1, DoneKeeps
<1>3. PICK k \in Work : work' = [work EXCEPT ![w] = k] /\ k.pc \in {"rest", "chunk"} /\ Chunked(k, now)
  BY <1>1, DoneKeeps
<1>4. /\ WorkInv' /\ SlotInv' /\ CoolInv' /\ OnWire' = OnWire \ {w}
      /\ work'[w] = k /\ \A v \in Workers \ {w} : work'[v] = work[v]
  BY <1>1, <1>3, Lands
<1>5. WaveInv'
  BY <1>1, <1>4, WaveShrinks
<1>6. Recovered \in batchCap .. MaxCap /\ (Recovered > batchCap => now >= Quiet + lastLimit)
  BY <1>1, RecoveredBound
<1>7. backoff' \in MinBackoff .. MaxBackoff /\ (w \in wave => backoff' = backoff)
  BY <1>1, BackoffKept
<1>8. TypeInv'
  BY <1>1, <1>6, <1>7 DEF TypeInv, Times, ThrottleAssumption
<1>9. WaveStep
  BY <1>1, <1>4, <1>6, <1>7 DEF WaveStep, IInv, WaveInv, OnWire, TypeInv, ThrottleAssumption
<1>10. CapStep
  BY <1>1, <1>6 DEF CapStep
<1> QED
  BY <1>2, <1>4, <1>5, <1>8, <1>9, <1>10 DEF IInv

(* A worker whose request was refused goes back to cutting its range. *)
LEMMA Retries ==
  ASSUME ThrottleAssumption, IInv, NEW w \in Workers, work[w].pc = "wire", NEW k \in Work,
         work' = [work EXCEPT ![w] = k], k.pc = "chunk", k.cur = work[w].cur, k.end = work[w].end,
         k.sentAt = work[w].sentAt, k.start = work[w].start, batch' = batch
  PROVE  Chunked(k, now) /\ BatchInv'
<1>1. Chunked(k, now)
  BY DEF IInv, WorkInv, Chunked
<1>2. work'[w] = k /\ \A v \in Workers \ {w} : work'[v] = work[v]
  BY WorkMoves DEF IInv
<1>3. BatchInv'
  BY <1>2, CoverStays DEF IInv, Covers
<1> QED
  BY <1>1, <1>3

LEMMA StepTooLarge ==
  ASSUME ThrottleAssumption, IInv, NEW w \in Workers, TooLarge(w)
  PROVE  IInv' /\ WaveStep /\ CapStep
<1>1. TypeInv /\ work[w].pc = "wire" /\ ResetBackoff(w) /\ wave' = wave \ {w}
      /\ UNCHANGED <<now, blockedUntil, limits>> /\ lastRecovery' \in {now, lastRecovery}
  BY DEF IInv, TooLarge
<1>2. work[w] \in Work /\ work[w].size \in Nat
  BY WorkFields DEF IInv, WorkInv
<1>3. Recovered \in batchCap .. MaxCap /\ (Recovered > batchCap => now >= Quiet + lastLimit)
  BY <1>1, RecoveredBound
<1>4. /\ batchCap' \in 1 .. Recovered /\ lastLimit' \in {now, lastLimit}
      /\ BatchInv'
      /\ (work'[w].pc = "chunk" /\ work'[w].cur = work[w].cur) \/ batchCap' >= batchCap
      /\ \E k \in Work : work' = [work EXCEPT ![w] = k] /\ k.pc \in {"rest", "chunk"} /\ Chunked(k, now)
  <2>1. CASE work[w].size > 1
    <3>1. batchCap' = Shrunk(work[w].size) /\ lastLimit' = now /\ batch' = batch
      BY <2>1 DEF TooLarge
    <3>2. work' = [work EXCEPT ![w].pc = "chunk"]
      BY <2>1 DEF TooLarge
    <3>3. batchCap' \in 1 .. Recovered
      BY <1>1, <1>2, <3>1, ShrunkBound
    <3> DEFINE k == [work[w] EXCEPT !.pc = "chunk"]
    <3>4. "chunk" \in States
      BY DEF States
    <3>5. k \in Work
      BY <1>2, <3>4, Zenon DEF Work
    <3>6. /\ k.pc = "chunk" /\ k.cur = work[w].cur /\ k.end = work[w].end /\ k.sentAt = work[w].sentAt
          /\ k.start = work[w].start
      BY <1>2 DEF Work
    <3>7. work' = [work EXCEPT ![w] = k]
      BY <3>2
    <3> HIDE DEF k
    <3>8. Chunked(k, now) /\ BatchInv'
      BY <1>1, <3>1, <3>5, <3>6, <3>7, Retries
    <3>9. work'[w] = k
      BY <3>5, <3>7, WorkMoves DEF IInv
    <3> QED
      BY <3>1, <3>3, <3>5, <3>6, <3>7, <3>8, <3>9
  <2>2. CASE ~ (work[w].size > 1)
    <3>1. batchCap' = Recovered /\ lastLimit' = lastLimit /\ Done(w)
      BY <2>2 DEF TooLarge
    <3>2. Recovered \in 1 .. Recovered /\ Recovered >= batchCap
      BY <1>1, <1>3 DEF TypeInv, ThrottleAssumption
    <3> QED
      BY <1>1, <3>1, <3>2, DoneKeeps
  <2> QED
    BY <2>1, <2>2
<1>5. PICK k \in Work : work' = [work EXCEPT ![w] = k] /\ k.pc \in {"rest", "chunk"} /\ Chunked(k, now)
  BY <1>4
<1>6. /\ WorkInv' /\ SlotInv' /\ CoolInv' /\ OnWire' = OnWire \ {w}
      /\ work'[w] = k /\ \A v \in Workers \ {w} : work'[v] = work[v]
  BY <1>1, <1>5, Lands
<1>7. WaveInv'
  BY <1>1, <1>6, WaveShrinks
<1>8. backoff' \in MinBackoff .. MaxBackoff /\ (w \in wave => backoff' = backoff)
  BY <1>1, BackoffKept
<1>9. TypeInv'
  BY <1>1, <1>3, <1>4, <1>8 DEF TypeInv, Times, ThrottleAssumption
<1>10. WaveStep
  <2> SUFFICES ASSUME NEW v \in wave, work[v].pc = "wire", work'[v].pc # "wire"
               PROVE  /\ backoff' = backoff /\ blockedUntil' = blockedUntil
                      /\ limits' # limits \/ work'[v].pc # "chunk" \/ work'[v].cur # work[v].cur
                         => batchCap' >= batchCap
    BY DEF WaveStep
  <2>1. v = w
    BY <1>6 DEF IInv, WaveInv, OnWire
  <2> QED
    BY <1>1, <1>4, <1>8, <2>1
<1>11. CapStep
  BY <1>1, <1>3, <1>4 DEF CapStep, TypeInv, ThrottleAssumption
<1> QED
  BY <1>4, <1>6, <1>7, <1>9, <1>10, <1>11 DEF IInv

(* A 429: the first of a wave opens a cooldown that every request now on   *)
(* the wire left before.                                                   *)
LEMMA StepLimited ==
  ASSUME ThrottleAssumption, IInv, NEW w \in Workers, Limited(w)
  PROVE  IInv' /\ WaveStep /\ CapStep
<1>1. TypeInv /\ work[w].pc = "wire" /\ now' = now /\ lastLimit' = now /\ lastRecovery' = lastRecovery
      /\ now + backoff <= MaxTime /\ limits' = limits + 1
  BY DEF IInv, Limited
<1>2. work[w] \in Work /\ work[w].sentAt \in Nat /\ work[w].attempts \in Nat
  BY WorkFields DEF IInv, WorkInv
<1>3. /\ BatchInv'
      /\ \E k \in Work : work' = [work EXCEPT ![w] = k] /\ k.pc \in {"rest", "chunk"} /\ Chunked(k, now)
  <2>1. CASE work[w].attempts + 1 >= MaxAttempts
    <3>1. Fail(w)
      BY <2>1 DEF Limited
    <3>2. now \in Nat
      BY <1>1 DEF TypeInv, Times
    <3> QED
      BY <1>1, <3>1, <3>2, FailKeeps, RestingTyped
  <2>2. CASE ~ (work[w].attempts + 1 >= MaxAttempts)
    <3>1. PICK attempts \in Tries : work' = [work EXCEPT ![w].pc = "chunk", ![w].attempts = attempts]
      <4>1. work[w].attempts + 1 \in Tries
        BY <1>2, <2>2 DEF Tries, ThrottleAssumption
      <4>2. work' = [work EXCEPT ![w].pc = "chunk", ![w].attempts = work[w].attempts + 1]
        BY <2>2 DEF Limited
      <4> QED
        BY <4>1, <4>2
    <3>2. batch' = batch
      BY <2>2 DEF Limited
    <3> DEFINE k == [work[w] EXCEPT !.pc = "chunk", !.attempts = attempts]
    <3>3. "chunk" \in States
      BY DEF States
    <3>4. k \in Work
      BY <1>2, <3>1, <3>3, Zenon DEF Work
    <3>5. k.pc = "chunk"
      BY <1>2 DEF Work
    <3>6. k.cur = work[w].cur /\ k.end = work[w].end
      BY <1>2 DEF Work
    <3>7. k.sentAt = work[w].sentAt /\ k.start = work[w].start
      BY <1>2 DEF Work
    <3>8. work' = [work EXCEPT ![w] = k]
      BY <3>1
    <3> HIDE DEF k
    <3>9. Chunked(k, now) /\ BatchInv'
      BY <1>1, <3>2, <3>4, <3>5, <3>6, <3>7, <3>8, Retries
    <3> QED
      BY <3>4, <3>5, <3>8, <3>9
  <2> QED
    BY <2>1, <2>2
<1>4. PICK k \in Work : work' = [work EXCEPT ![w] = k] /\ k.pc \in {"rest", "chunk"} /\ Chunked(k, now)
  BY <1>3
<1>5. /\ WorkInv' /\ SlotInv' /\ CoolInv' /\ OnWire' = OnWire \ {w}
      /\ work'[w] = k /\ \A v \in Workers \ {w} : work'[v] = work[v]
  BY <1>1, <1>4, Lands
<1>6. CASE Fresh(w)
  <2>1. /\ blockedUntil' = now + backoff /\ backoff' = Least(2 * backoff, MaxBackoff)
        /\ batchCap' \in {Max({batchCap \div 2, MinCap}), batchCap}
        /\ batchCap' # batchCap => batchCap > MinCap
        /\ wave' = OnWire \ {w}
    BY <1>6 DEF Limited, Halved
  <2>2. batchCap' \in 1 .. batchCap
    <3>1. batchCap \in Nat \ {0} /\ MinCap \in Nat \ {0} /\ batchCap \div 2 \in Nat /\ batchCap \div 2 <= batchCap
      BY <1>1, HalfBound DEF TypeInv, ThrottleAssumption
    <3> DEFINE half == batchCap \div 2
    <3> HIDE DEF half
    <3>2. half \in Nat /\ half <= batchCap
      BY <3>1 DEF half
    <3>3. Max({half, MinCap}) = IF half >= MinCap THEN half ELSE MinCap
      BY <3>1, <3>2, MaxTwo
    <3>4. batchCap' \in {Max({half, MinCap}), batchCap}
      BY <2>1 DEF half
    <3> QED
      BY <2>1, <3>1, <3>2, <3>3, <3>4
  <2>3. backoff \in Nat \ {0} /\ now \in Nat
    BY <1>1 DEF TypeInv, Times, ThrottleAssumption
  <2>4. backoff' \in MinBackoff .. MaxBackoff
    BY <1>1, <2>1, <2>3 DEF TypeInv, Least, ThrottleAssumption
  <2>5. TypeInv'
    BY <1>1, <2>1, <2>2, <2>3, <2>4 DEF TypeInv, Times, ThrottleAssumption
  <2>6. WaveInv'
    <3>1. ASSUME NEW v \in OnWire \ {w}
          PROVE  work'[v].sentAt < blockedUntil'
      <4>1. work'[v] = work[v] /\ work[v] \in Work /\ Chunked(work[v], now)
        BY <1>5, <3>1 DEF OnWire, IInv, WorkInv
      <4>2. work[v].sentAt \in Nat /\ work[v].sentAt <= now
        BY <4>1, WorkFields DEF Chunked
      <4> QED
        BY <2>1, <2>3, <4>1, <4>2
    <3> QED
      BY <1>5, <2>1, <3>1 DEF WaveInv
  <2>7. w \notin wave
    <3>1. work[w].sentAt >= blockedUntil /\ blockedUntil \in Nat
      BY <1>1, <1>6 DEF Fresh, TypeInv, Times
    <3> QED
      BY <1>2, <3>1 DEF IInv, WaveInv
  <2>8. WaveStep
    BY <1>5, <2>7 DEF WaveStep, IInv, WaveInv, OnWire
  <2>9. CapStep
    BY <1>1, <2>2 DEF CapStep, TypeInv, ThrottleAssumption
  <2> QED
    BY <1>3, <1>5, <2>5, <2>6, <2>8, <2>9 DEF IInv
<1>7. CASE ~ Fresh(w)
  <2>1. UNCHANGED <<client, batchCap>> /\ wave' = wave \ {w}
    BY <1>7 DEF Limited, Halved
  <2>2. WaveInv'
    BY <1>5, <2>1, WaveShrinks DEF client
  <2>3. TypeInv'
    BY <1>1, <2>1 DEF TypeInv, Times, client
  <2>4. WaveStep
    BY <1>1, <2>1 DEF WaveStep, client, TypeInv, ThrottleAssumption
  <2>5. CapStep
    BY <1>1, <2>1 DEF CapStep, TypeInv, ThrottleAssumption
  <2> QED
    BY <1>3, <1>5, <2>2, <2>3, <2>4, <2>5 DEF IInv
<1> QED
  BY <1>6, <1>7

(* A range breaks off wherever its worker is. *)
LEMMA StepBroken ==
  ASSUME ThrottleAssumption, IInv, NEW w \in Workers, Broken(w)
  PROVE  IInv' /\ WaveStep /\ CapStep
<1>1. /\ TypeInv /\ work[w].pc \in {"slot", "check", "go", "wire"} /\ Fail(w) /\ wave' = wave \ {w}
      /\ UNCHANGED <<endpoint, client, now, limits>>
  BY DEF IInv, Broken
<1>2. BatchInv' /\ work' = [work EXCEPT ![w] = Resting]
  BY <1>1, FailKeeps
<1>3. Resting \in Work /\ Resting.pc = "rest" /\ Chunked(Resting, now)
  BY <1>1, RestingTyped DEF TypeInv, Times
<1>4. work' \in [Workers -> Work] /\ work'[w] = Resting /\ \A v \in Workers \ {w} : work'[v] = work[v]
  BY <1>2, <1>3, WorkMoves DEF IInv
<1>5. WorkInv'
  BY <1>1, <1>3, <1>4 DEF IInv, WorkInv
<1>6. SlotInv'
  <2>1. CASE work[w].pc \in InHand
    BY <1>3, <1>4, <2>1, HeldShrinks DEF IInv, InHand
  <2>2. CASE work[w].pc \notin InHand
    BY <1>3, <1>4, <2>2, HeldStays DEF IInv, InHand
  <2> QED
    BY <2>1, <2>2
<1>7. CoolInv'
  BY <1>1, <1>3, <1>4 DEF IInv, CoolInv, client
<1>8. OnWire' = OnWire \ {w}
  BY <1>3, <1>4 DEF OnWire
<1>9. WaveInv'
  BY <1>1, <1>4, <1>8, WaveShrinks DEF client
<1>10. TypeInv' /\ CapStep
  BY <1>1 DEF TypeInv, endpoint, client, CapStep, Times, ThrottleAssumption
<1>11. WaveStep
  BY <1>1 DEF WaveStep, endpoint, client, TypeInv, ThrottleAssumption
<1> QED
  BY <1>2, <1>5, <1>6, <1>7, <1>9, <1>10, <1>11 DEF IInv

(* take: the next width items are the worker's. *)
LEMMA StepTake ==
  ASSUME ThrottleAssumption, IInv, NEW w \in Workers, Take(w)
  PROVE  IInv' /\ WaveStep /\ CapStep
<1> DEFINE l == Of[w]
           b == batch[l]
<1>1. /\ TypeInv /\ l \in Lists /\ b \in List /\ b.on /\ Listed(b, l, work) /\ w \in Crew(l)
      /\ work[w] \in Work /\ work[w].pc = "rest" /\ b.failedAt = NoFailure /\ b.next < Items
      /\ UNCHANGED <<endpoint, client, now, limits, wave>>
  BY ListOf DEF IInv, WorkInv, Take
<1>2. /\ b.next \in Nat /\ b.width \in Nat \ {0} /\ Items \in Nat
  BY <1>1, ListFields DEF Listed, Items0, ThrottleAssumption
<1>3. PICK end \in Items0 : /\ end = Least(b.next + b.width, Items)
                            /\ b.next < end /\ end <= Items
  BY <1>1, <1>2 DEF Least, Items0
<1>4. PICK k \in Work : /\ work' = [work EXCEPT ![w] = k]
                        /\ k.pc = "chunk" /\ k.start = b.next /\ k.cur = b.next /\ k.end = end /\ k.sentAt = 0
  <2>1. work' = [work EXCEPT ![w] = [Resting EXCEPT !.pc = "chunk", !.start = b.next, !.cur = b.next, !.end = end]]
    BY <1>3 DEF Take
  <2> DEFINE k == [Resting EXCEPT !.pc = "chunk", !.start = b.next, !.cur = b.next, !.end = end]
  <2>2. Resting \in Work /\ Resting.sentAt = 0
    BY <1>2, RestingTyped DEF Resting
  <2>3. "chunk" \in States /\ b.next \in Items0
    BY <1>1, <1>2 DEF States, Items0
  <2> HIDE DEF b
  <2>4. k \in Work
    BY <1>3, <2>2, <2>3, Zenon DEF Work
  <2>5. k.pc = "chunk"
    BY <2>2, Zenon DEF Work
  <2>6. k.cur = b.next
    BY <2>2, Zenon DEF Work
  <2>7. k.end = end
    BY <2>2, Zenon DEF Work
  <2>8. k.sentAt = 0
    BY <2>2, Zenon DEF Work
  <2>10. k.start = b.next
    BY <2>2, Zenon DEF Work
  <2> HIDE DEF k
  <2>9. work' = [work EXCEPT ![w] = k]
    BY <2>1 DEF k
  <2> QED
    BY <2>4, <2>5, <2>6, <2>7, <2>8, <2>9, <2>10
<1>5. work' \in [Workers -> Work] /\ work'[w] = k /\ \A v \in Workers \ {w} : work'[v] = work[v]
  BY <1>4, WorkMoves DEF IInv
<1>6. WorkInv'
  <2>1. Chunked(k, now)
    <3>1. now \in Nat
      BY <1>1 DEF TypeInv, Times
    <3>2. k.start <= k.cur /\ k.cur <= k.end /\ k.cur < k.end /\ k.sentAt <= now
      BY <1>2, <1>3, <1>4, <3>1 DEF Items0
    <3> QED
      BY <1>4, <3>2 DEF Chunked
  <2> QED
    BY <1>1, <1>5, <2>1 DEF IInv, WorkInv
<1>7. TypeInv' /\ CapStep
  BY <1>1 DEF TypeInv, endpoint, client, CapStep, Times, ThrottleAssumption
<1>8. SlotInv'
  BY <1>1, <1>4, <1>5, HeldStays DEF IInv, InHand
<1>9. CoolInv'
  BY <1>1, <1>4, <1>5 DEF IInv, CoolInv, client
<1>10. WaveInv' /\ WaveStep
  BY <1>1, <1>5 DEF IInv, WaveInv, OnWire, WaveStep, client
<1>11. BatchInv'
  <2> DEFINE c == [b EXCEPT !.next = end]
  <2>1. batch' = [batch EXCEPT ![Of[w]] = c]
    BY <1>1, <1>3 DEF Take, RangeEnd, IInv, BatchInv
  <2> HIDE DEF b
  <2>2. c \in List
    BY <1>1, <1>3, Zenon DEF List
  <2>3. c.next = end
    BY <1>1, Zenon DEF List
  <2>4. c.on = b.on
    BY <1>1, Zenon DEF List
  <2>5. c.width = b.width
    BY <1>1, Zenon DEF List
  <2>6. c.failedAt = b.failedAt
    BY <1>1, Zenon DEF List
  <2>8. c.out = b.out
    BY <1>1, Zenon DEF List
  <2> HIDE DEF c
  <2>9. ASSUME NEW i \in 1 .. end
        PROVE  i \in b.out \/ \E v \in Crew(l) : Covers(work'[v], i)
    <3>1. i \in Nat /\ i <= end /\ end \in Nat
      BY <1>3 DEF Items0
    <3>2. CASE b.next < i
      BY <1>1, <1>4, <1>5, <3>1, <3>2 DEF Covers
    <3>3. CASE ~ (b.next < i)
      <4>1. i \in 1 .. b.next /\ i <= b.failedAt
        BY <1>1, <1>2, <1>3, <3>1, <3>3 DEF NoFailure
      <4>2. i \in b.out \/ \E v \in Crew(l) : Covers(work[v], i)
        BY <1>1, <4>1 DEF Listed, Covered
      <4>3. ASSUME NEW v \in Crew(l), Covers(work[v], i)
            PROVE  Covers(work'[v], i)
        <5>1. v # w /\ v \in Workers
          BY <1>1, <4>3 DEF Covers, Crew
        <5> QED
          BY <1>5, <4>3, <5>1
      <4> QED
        BY <4>2, <4>3
    <3> QED
      BY <3>2, <3>3
  <2>11. ASSUME NEW v \in Crew(l), work'[v].pc # "rest"
         PROVE  work'[v].start <= end
    <3>1. CASE v = w
      <4>1. work'[v].start = b.next /\ b.next < end
        BY <1>3, <1>4, <1>5, <3>1
      <4> QED
        BY <1>2, <1>3, <4>1 DEF Items0
    <3>2. CASE v # w
      <4>1. work[v].start <= b.next /\ work'[v] = work[v] /\ v \in Workers
        BY <1>1, <1>5, <2>11, <3>2 DEF Listed, Crew
      <4>2. work[v].start \in Nat
        BY <4>1, WorkFields DEF IInv, WorkInv
      <4> QED
        BY <1>2, <1>3, <4>1, <4>2 DEF Items0
    <3> QED
      BY <3>1, <3>2
  <2>10. Listed(c, Of[w], work')
    BY <1>1, <2>3, <2>4, <2>5, <2>6, <2>8, <2>9, <2>11 DEF Listed, Covered
  <2> QED
    BY <1>5, <2>1, <2>2, <2>10, ListMoves DEF IInv
<1> QED
  BY <1>6, <1>7, <1>8, <1>9, <1>10, <1>11 DEF IInv

(* Nothing but the list itself changes. *)
LEMMA OnlyList ==
  ASSUME ThrottleAssumption, IInv, BatchInv', UNCHANGED <<endpoint, client, now, work, limits, wave>>
  PROVE  IInv' /\ WaveStep /\ CapStep
<1>1. TypeInv' /\ CapStep
  BY DEF IInv, TypeInv, endpoint, client, CapStep, Times, ThrottleAssumption
<1>2. WorkInv' /\ SlotInv'
  BY DEF IInv, WorkInv, SlotInv, Held
<1>3. CoolInv' /\ WaveInv' /\ WaveStep
  BY DEF IInv, CoolInv, WaveInv, OnWire, WaveStep, client
<1> QED
  BY <1>1, <1>2, <1>3 DEF IInv

LEMMA NewBatchKept ==
  ASSUME ThrottleAssumption
  PROVE  /\ NewBatch \in List /\ ~ NewBatch.on /\ NewBatch.next = 0 /\ NewBatch.width = 0
         /\ NewBatch.failedAt = NoFailure
<1>1. 0 \in Items0 /\ Items + 1 \in Ends /\ {} \in Answers /\ FALSE \in BOOLEAN
  BY DEF Items0, Ends, Answers, ThrottleAssumption
<1>2. NewBatch \in List
  BY <1>1, Zenon DEF NewBatch, NoFailure, List
<1> QED
  BY <1>2 DEF NewBatch

(* A list begins or ends. *)
LEMMA ListTurns ==
  ASSUME ThrottleAssumption, IInv, NEW l \in Lists, NEW b \in List, batch' = [batch EXCEPT ![l] = b],
         Listed(b, l, work), UNCHANGED <<endpoint, client, now, work, limits, wave>>
  PROVE  IInv' /\ WaveStep /\ CapStep
<1>1. BatchInv'
  BY DEF IInv, BatchInv
<1> QED
  BY <1>1, OnlyList

LEMMA StepBatch ==
  ASSUME ThrottleAssumption, IInv, NEW l \in Lists, Batch(l)
  PROVE  IInv' /\ WaveStep /\ CapStep
<1>1. NewBatch \in List /\ ~ NewBatch.on /\ NewBatch.next = 0 /\ NewBatch.failedAt = NoFailure
  BY NewBatchKept
<1>10. \A w \in Crew(l) : work[w].pc = "rest"
  BY DEF Batch, IInv, BatchInv, Listed
<1>2. UNCHANGED <<endpoint, client, now, work, limits, wave>> /\ Items \in Nat \ {0}
  BY DEF Batch, ThrottleAssumption
<1> DEFINE width == IF Slots = 1 THEN Items ELSE ChunkSize(Widest(l), Items)
           b == [NewBatch EXCEPT !.on = TRUE, !.width = width]
<1>3. batch' = [batch EXCEPT ![l] = b]
  BY DEF Batch
<1>4. width \in Items0 /\ width > 0
  <2>1. Widest(l) \in Nat
    BY DEF IInv, TypeInv, ThrottleAssumption, Widest, Least
  <2>2. ChunkSize(Widest(l), Items) \in 1 .. Items
    BY <1>2, <2>1, ChunkSizeBound
  <2> HIDE DEF width
  <2>3. width = Items \/ width \in 1 .. Items
    BY <2>2 DEF width
  <2> QED
    BY <1>2, <2>3 DEF Items0
<1> HIDE DEF width
<1>5. b \in List
  BY <1>1, <1>4, Zenon DEF List
<1>6. b.on = TRUE
  BY <1>1, Zenon DEF List
<1>7. b.width = width
  BY <1>1, Zenon DEF List
<1>8. b.next = 0
  BY <1>1, Zenon DEF List
<1>11. b.failedAt = NoFailure
  BY <1>1, Zenon DEF List
<1> HIDE DEF b
<1>9. Listed(b, l, work)
  BY <1>4, <1>6, <1>7, <1>8, <1>10, <1>11 DEF Listed
<1> QED
  BY <1>2, <1>3, <1>5, <1>9, ListTurns

LEMMA StepFinish ==
  ASSUME ThrottleAssumption, IInv, NEW l \in Lists, Finish(l)
  PROVE  IInv' /\ WaveStep /\ CapStep
<1>1. /\ batch' = [batch EXCEPT ![l] = NewBatch] /\ \A w \in Crew(l) : work[w].pc = "rest"
      /\ UNCHANGED <<endpoint, client, now, work, limits, wave>>
  BY DEF Finish, Ended
<1>2. NewBatch \in List /\ ~ NewBatch.on /\ NewBatch.next = 0 /\ NewBatch.failedAt = NoFailure
  BY NewBatchKept
<1>3. Listed(NewBatch, l, work)
  BY <1>1, <1>2 DEF Listed
<1> QED
  BY <1>1, <1>2, <1>3, ListTurns

LEMMA StepTick ==
  ASSUME ThrottleAssumption, IInv, Tick
  PROVE  IInv' /\ WaveStep /\ CapStep
<1>1. UNCHANGED <<endpoint, client, batch, work, limits, wave>> /\ now' = now + 1 /\ now < MaxTime /\ now \in Nat
  BY DEF Tick, IInv, TypeInv, Times
<1>2. TypeInv' /\ CapStep
  BY <1>1 DEF IInv, TypeInv, endpoint, client, CapStep, Times, ThrottleAssumption
<1>3. WorkInv' /\ SlotInv'
  <2>1. \A w \in Workers : Chunked(work[w], now + 1)
    <3> SUFFICES ASSUME NEW w \in Workers
                 PROVE  Chunked(work[w], now + 1)
      OBVIOUS
    <3>1. work[w].sentAt \in Nat /\ Chunked(work[w], now)
      BY WorkFields DEF IInv, WorkInv
    <3> QED
      BY <1>1, <3>1 DEF Chunked
  <2> QED
    BY <1>1, <2>1 DEF IInv, WorkInv, SlotInv, Held
<1>4. CoolInv'
  <2>1. blockedUntil \in Nat
    BY DEF IInv, TypeInv, Times
  <2> QED
    BY <1>1, <2>1 DEF IInv, CoolInv, client
<1>5. WaveInv' /\ WaveStep /\ BatchInv'
  BY <1>1 DEF IInv, WaveInv, OnWire, WaveStep, client, BatchInv
<1> QED
  BY <1>2, <1>3, <1>4, <1>5 DEF IInv

-----------------------------------------------------------------------------
LEMMA InitIInv ==
  ASSUME ThrottleAssumption, Init
  PROVE  IInv
<1>1. TypeInv
  BY DEF Init, TypeInv, Times, ThrottleAssumption
<1>2. Resting \in Work /\ Resting.pc = "rest" /\ Chunked(Resting, 0)
  BY RestingTyped
<1>3. \A w \in Workers : work[w] = Resting
  BY DEF Init
<1>4. WorkInv
  BY <1>2, <1>3 DEF Init, WorkInv
<1>5. SlotInv
  <2>1. Held = {}
    BY <1>2, <1>3 DEF Held
  <2> QED
    BY <2>1, FS_EmptySet DEF SlotInv, ThrottleAssumption
<1>6. CoolInv /\ WaveInv
  BY <1>2, <1>3 DEF CoolInv, WaveInv, Init
<1>7. BatchInv
  <2>1. batch = [l \in Lists |-> NewBatch]
    BY DEF Init
  <2>2. \A l \in Lists : Listed(NewBatch, l, work)
    BY <1>2, <1>3, NewBatchKept DEF Listed, Crew
  <2> QED
    BY <2>1, <2>2, NewBatchKept DEF BatchInv
<1> QED
  BY <1>1, <1>4, <1>5, <1>6, <1>7 DEF IInv

LEMMA NextIInv ==
  ASSUME ThrottleAssumption, IInv, [Next]_vars
  PROVE  IInv' /\ WaveStep /\ CapStep
<1>1. ASSUME NEW l \in Lists, Batch(l) \/ Finish(l)
      PROVE  IInv' /\ WaveStep /\ CapStep
  BY <1>1, StepBatch, StepFinish
<1>2. CASE Tick
  BY <1>2, StepTick
<1>3. ASSUME NEW w \in Workers, Take(w) \/ Chunk(w) \/ Slot(w) \/ Check(w) \/ Leave(w)
      PROVE  IInv' /\ WaveStep /\ CapStep
  BY <1>3, StepTake, StepChunk, StepSlot, StepCheck, StepLeave
<1>4. ASSUME NEW w \in Workers, Answered(w) \/ TooLarge(w) \/ Limited(w) \/ Broken(w)
      PROVE  IInv' /\ WaveStep /\ CapStep
  BY <1>4, StepAnswered, StepTooLarge, StepLimited, StepBroken
<1>5. CASE UNCHANGED vars
  <2>1. UNCHANGED <<endpoint, client, now, work, limits, wave, batch>>
    BY <1>5 DEF vars, endpoint, client
  <2>2. BatchInv'
    BY <2>1 DEF IInv, BatchInv
  <2> QED
    BY <2>1, <2>2, OnlyList
<1> QED
  BY <1>1, <1>2, <1>3, <1>4, <1>5 DEF Next, Step

LEMMA Invariant ==
  ASSUME ThrottleAssumption
  PROVE  Spec => []IInv /\ [][WaveStep /\ CapStep]_vars
<1>1. Init => IInv
  BY InitIInv
<1>2. IInv /\ [Next]_vars => IInv' /\ WaveStep /\ CapStep
  BY NextIInv
<1> QED
  BY <1>1, <1>2, PTL DEF Spec

(* The adaptive cap, the back-off and the clocks keep their ranges, no     *)
(* more requests hold a send slot than there are, and no worker leaves its *)
(* range or tries once more than it may (Client, Endpoint).                *)
THEOREM EndpointTyped ==
  ASSUME ThrottleAssumption
  PROVE  Spec => []TypeOK
<1>1. ASSUME IInv
      PROVE  TypeOK
  <2>1. TypeInv /\ SlotInv
    BY <1>1 DEF IInv
  <2>2. \A w \in Workers : /\ work[w].cur <= work[w].end /\ work[w].end <= Items
                           /\ work[w].attempts < MaxAttempts
    BY <1>1, WorkFields DEF IInv, WorkInv, Chunked
  <2> QED
    BY <2>1, <2>2 DEF TypeOK, TypeInv, SlotInv, Times
<1> QED
  BY <1>1, Invariant, PTL

(* A wave of 429s costs one step: what was on the wire when the cooldown   *)
(* opened moves neither the back-off nor, its size aside, the cap again,   *)
(* and the cap grows only after a quiet interval (noteRateLimit, observe). *)
THEOREM WaveCostsOneStep ==
  ASSUME ThrottleAssumption
  PROVE  Spec => WaveOneStep
  BY Invariant, PTL DEF WaveOneStep

(* With one slot nothing leaves in a cooldown, whichever of the lists that *)
(* share the endpoint opened it (send).                                    *)
THEOREM NothingLeavesCooling ==
  ASSUME ThrottleAssumption
  PROVE  Spec => []CooldownKept
<1>1. ASSUME IInv
      PROVE  CooldownKept
  <2>1. \A w \in Workers : work[w].sentAt \in Nat
    BY <1>1, WorkFields DEF IInv, WorkInv
  <2>2. blockedUntil \in Nat
    BY <1>1 DEF IInv, TypeInv, Times
  <2> QED
    BY <1>1, <2>1, <2>2 DEF IInv, CoolInv, CooldownKept
<1> QED
  BY <1>1, Invariant, PTL

(* When a list ends every item below the lowest failure is answered, and   *)
(* all of them when none failed, whatever order the workers take the       *)
(* ranges in and come back in (fanOut, sendRange).                         *)
THEOREM ListsWhole ==
  ASSUME ThrottleAssumption
  PROVE  Spec => []BatchWhole
<1>1. ASSUME IInv, NEW l \in Lists, Ended(l), NEW i \in 1 .. Least(batch[l].failedAt, Items)
      PROVE  i \in batch[l].out
  <2> DEFINE b == batch[l]
  <2>1. /\ b \in List /\ Listed(b, l, work) /\ Items \in Nat
    BY <1>1 DEF IInv, BatchInv, ThrottleAssumption
  <2>2. b.failedAt \in Nat /\ b.next \in Nat /\ b.next <= Items
    BY <2>1, ListFields DEF Ends, Items0
  <2>3. i \in Nat /\ i >= 1 /\ i <= b.failedAt /\ i <= Items
    BY <2>1, <2>2, <1>1 DEF Least
  <2>4. i <= b.next
    BY <1>1, <2>1, <2>2, <2>3 DEF Listed, Ended
  <2>5. i \in 1 .. b.next
    BY <2>2, <2>3, <2>4
  <2>6. Covered(b, l, work, i)
    BY <2>1, <2>3, <2>5 DEF Listed
  <2> QED
    BY <1>1, <2>6 DEF Covered, Covers, Ended
<1>2. IInv => BatchWhole
  BY <1>1 DEF BatchWhole
<1> QED
  BY <1>2, Invariant, PTL
-----------------------------------------------------------------------------
(* OwnerActsLogs: what a scan has gathered is the blocks up to where it    *)
(* asks next, whatever widths the pieces had.                              *)
UpTo(n) == [i \in 1 .. n |-> i]

ScanStates == {"ask", "asked", "sleep", "done", "failed"}
Starts == 1 .. To
Stops == 0 .. To
Gathered == {UpTo(n) : n \in 0 .. To}
Scan == [pc : ScanStates, start : Starts, end : Stops, got : Gathered, waited : BOOLEAN, waits : 0 .. 2]

Consecutive(k) ==
    /\ k.pc \in {"ask", "asked", "sleep"} => k.got = UpTo(k.start - 1)
    /\ k.pc = "asked" => k.start <= k.end
    /\ k.pc = "done" => k.got = UpTo(To)

LogInv ==
    /\ logRange \in 0 .. MaxLogRange /\ calm \in 0 .. Quiet /\ limit \in Limits
    /\ scan \in [Scans -> Scan]
    /\ \A s \in Scans : Consecutive(scan[s])

(* Two runs of consecutive blocks make one. *)
LEMMA RunsJoin ==
  ASSUME NEW m \in Nat, NEW k \in Nat
  PROVE  UpTo(m) \o [i \in 1 .. k |-> m + i] = UpTo(m + k)
<1> DEFINE a == UpTo(m)
           b == [i \in 1 .. k |-> m + i]
           n == m + k
           c == UpTo(n)
<1>1. a \in Seq(Nat) /\ Len(a) = m /\ \A i \in 1 .. m : a[i] = i
  BY DEF UpTo
<1>2. b \in Seq(Nat) /\ Len(b) = k /\ \A i \in 1 .. k : b[i] = m + i
  OBVIOUS
<1>3. n \in Nat /\ n = m + k
  OBVIOUS
<1> HIDE DEF n
<1>4. c \in Seq(Nat) /\ Len(c) = n /\ \A i \in 1 .. n : c[i] = i
  BY <1>3 DEF UpTo
<1> HIDE DEF a, b, c
<1>5. a \o b \in Seq(Nat) /\ Len(a \o b) = n
  BY <1>1, <1>2, <1>3, ConcatProperties
<1>6. \A i \in 1 .. n : (a \o b)[i] = IF i <= m THEN a[i] ELSE b[i - m]
  BY <1>1, <1>2, <1>3, ConcatProperties
<1>7. \A i \in 1 .. n : (a \o b)[i] = c[i]
  <2> SUFFICES ASSUME NEW i \in 1 .. n
               PROVE  (a \o b)[i] = c[i]
    OBVIOUS
  <2>1. CASE i <= m
    BY <1>1, <1>3, <1>4, <1>6, <2>1
  <2>2. CASE ~ (i <= m)
    <3>1. i - m \in 1 .. k /\ m + (i - m) = i
      BY <1>3, <2>2
    <3> QED
      BY <1>2, <1>4, <1>6, <2>2, <3>1
  <2> QED
    BY <2>1, <2>2
<1>8. a \o b = c
  BY <1>4, <1>5, <1>7, SeqEqual
<1> QED
  BY <1>8 DEF a, b, c, n
LEMMA ScanFields ==
  ASSUME Logs!LogRangeAssumption, LogInv, NEW s \in Scans
  PROVE  /\ scan[s] \in Scan /\ Consecutive(scan[s])
         /\ scan[s].start \in Nat /\ 1 <= scan[s].start /\ scan[s].start <= To
         /\ scan[s].end \in Nat /\ scan[s].end <= To
<1>1. scan[s] \in Scan /\ Consecutive(scan[s])
  BY DEF LogInv
<1>2. scan[s].start \in Starts /\ scan[s].end \in Stops
  BY <1>1 DEF Scan
<1> QED
  BY <1>1, <1>2 DEF Starts, Stops, Logs!LogRangeAssumption

(* One scan moves, and the endpoint's width stays within its bounds. *)
LEMMA ScanMoves ==
  ASSUME LogInv, NEW s \in Scans, NEW k \in Scan, scan' = [scan EXCEPT ![s] = k], Consecutive(k),
         logRange' \in 0 .. MaxLogRange, calm' \in 0 .. Quiet, limit' \in Limits
  PROVE  LogInv'
<1>1. scan' \in [Scans -> Scan]
  BY Zenon DEF LogInv
<1>2. \A r \in Scans : Consecutive(scan'[r])
  BY DEF LogInv
<1> QED
  BY <1>1, <1>2 DEF LogInv

(* A scan that only changes its place. *)
LEMMA ScanPlaced ==
  ASSUME NEW k \in Scan, NEW p \in ScanStates
  PROVE  /\ [k EXCEPT !.pc = p] \in Scan /\ [k EXCEPT !.pc = p].pc = p
         /\ [k EXCEPT !.pc = p].start = k.start /\ [k EXCEPT !.pc = p].end = k.end
         /\ [k EXCEPT !.pc = p].got = k.got
<1>1. [k EXCEPT !.pc = p] \in Scan
  BY Zenon DEF Scan
<1> QED
  BY <1>1 DEF Scan

LEMMA WidthBound ==
  ASSUME Logs!LogRangeAssumption, LogInv
  PROVE  Logs!Width \in 1 .. MaxLogRange
  BY DEF Logs!LogRangeAssumption, LogInv, Logs!Width

LEMMA LogAsk ==
  ASSUME Logs!LogRangeAssumption, LogInv, NEW s \in Scans, Logs!Ask(s)
  PROVE  LogInv'
<1>1. /\ scan[s] \in Scan /\ Consecutive(scan[s]) /\ scan[s].pc = "ask"
      /\ scan[s].start \in Nat /\ 1 <= scan[s].start /\ scan[s].start <= To /\ To \in Nat
  BY ScanFields DEF Logs!Ask, Logs!LogRangeAssumption
<1>2. Logs!Width \in Nat /\ Logs!Width >= 1
  BY WidthBound DEF Logs!LogRangeAssumption
<1> DEFINE width == Logs!Width
<1>3. PICK end \in Stops : end = Logs!PieceEnd(scan[s].start) /\ scan[s].start <= end
  <2>1. Logs!PieceEnd(scan[s].start) = Logs!Least(scan[s].start + width - 1, To)
    BY DEF Logs!PieceEnd
  <2> HIDE DEF width
  <2>2. width \in Nat /\ width >= 1
    BY <1>2 DEF width
  <2> QED
    BY <1>1, <2>1, <2>2 DEF Logs!Least, Stops
<1> DEFINE k == [scan[s] EXCEPT !.pc = "asked", !.end = end]
<1>4. scan' = [scan EXCEPT ![s] = k] /\ UNCHANGED <<logRange, calm, limit>>
  BY <1>3 DEF Logs!Ask
<1>5. "asked" \in ScanStates
  BY DEF ScanStates
<1>6. k \in Scan
  BY <1>1, <1>3, <1>5, Zenon DEF Scan
<1>7. k.pc = "asked"
  BY <1>1, Zenon DEF Scan
<1>8. k.end = end
  BY <1>1, Zenon DEF Scan
<1>9. k.start = scan[s].start
  BY <1>1, Zenon DEF Scan
<1>10. k.got = scan[s].got
  BY <1>1, Zenon DEF Scan
<1> HIDE DEF k
<1>11. Consecutive(k)
  BY <1>1, <1>3, <1>7, <1>8, <1>9, <1>10 DEF Consecutive
<1> QED
  BY <1>4, <1>6, <1>11, ScanMoves DEF LogInv

LEMMA LogAccept ==
  ASSUME Logs!LogRangeAssumption, LogInv, NEW s \in Scans, Logs!Accept(s)
  PROVE  LogInv'
<1>1. /\ scan[s] \in Scan /\ Consecutive(scan[s]) /\ scan[s].pc = "asked"
      /\ scan[s].start \in Nat /\ 1 <= scan[s].start /\ scan[s].start <= To /\ To \in Nat
      /\ scan[s].end \in Nat /\ scan[s].end <= To /\ scan[s].start <= scan[s].end
  BY ScanFields DEF Logs!Accept, Logs!LogRangeAssumption, Consecutive
<1>2. limit' \in Limits /\ logRange' \in 0 .. MaxLogRange /\ calm' \in 0 .. Quiet
  <2>1. Logs!Grow /\ limit' = limit
    BY DEF Logs!Accept
  <2> QED
    BY <2>1 DEF Logs!Grow, Logs!Least, LogInv, Logs!LogRangeAssumption
<1>3. PICK first \in Nat, end \in Nat :
        /\ first = scan[s].start /\ end = scan[s].end
        /\ 1 <= first /\ first <= end /\ end <= To
  BY <1>1
<1> DEFINE got == scan[s].got \o [i \in 1 .. Logs!Asked(s) |-> first + i - 1]
           pc == IF end = To THEN "done" ELSE "ask"
           start == IF end = To THEN first ELSE end + 1
           k == [scan[s] EXCEPT !.got = got, !.waited = FALSE, !.waits = 0, !.pc = pc, !.start = start]
<1>4. scan' = [scan EXCEPT ![s] = k]
  <2> DEFINE got0 == scan[s].got \o [i \in 1 .. Logs!Asked(s) |-> scan[s].start + i - 1]
             pc0 == IF scan[s].end = To THEN "done" ELSE "ask"
             start0 == IF scan[s].end = To THEN scan[s].start ELSE Logs!NextStart(scan[s].end)
  <2>1. scan' = [scan EXCEPT ![s] = [scan[s] EXCEPT !.got = got0, !.waited = FALSE, !.waits = 0,
                                                    !.pc = pc0, !.start = start0]]
    BY DEF Logs!Accept
  <2>2. got0 = got
    BY <1>3
  <2>3. pc0 = pc
    BY <1>1, <1>3
  <2>4. start0 = start
    BY <1>3 DEF Logs!NextStart
  <2> HIDE DEF got0, pc0, start0, got, pc, start
  <2> QED
    BY <2>1, <2>2, <2>3, <2>4, Zenon
<1>5. got = UpTo(end)
  <2>1. scan[s].got = UpTo(first - 1)
    BY <1>1, <1>3 DEF Consecutive
  <2> DEFINE m == first - 1
             n == end - first + 1
  <2>2. m \in Nat /\ n \in Nat /\ m + n = end
    BY <1>3
  <2>3. Logs!Asked(s) = n
    BY <1>3 DEF Logs!Asked
  <2>4. \A i \in 1 .. n : first + i - 1 = m + i
    BY <1>3
  <2> HIDE DEF m, n
  <2>5. [i \in 1 .. Logs!Asked(s) |-> first + i - 1] = [i \in 1 .. n |-> m + i]
    BY <2>3, <2>4
  <2>6. UpTo(m) \o [i \in 1 .. n |-> m + i] = UpTo(m + n)
    BY <2>2, RunsJoin
  <2>7. got = UpTo(m) \o [i \in 1 .. n |-> m + i]
    BY <2>1, <2>5 DEF m
  <2> QED
    BY <2>2, <2>6, <2>7
<1>6. pc \in ScanStates /\ start \in Starts /\ FALSE \in BOOLEAN /\ 0 \in 0 .. 2
  BY <1>1, <1>3 DEF ScanStates, Starts
<1>6a. pc = (IF end = To THEN "done" ELSE "ask") /\ (pc = "ask" => start = end + 1)
  OBVIOUS
<1> HIDE DEF got, pc, start
<1>7. got \in Gathered
  <2>1. end \in 0 .. To
    BY <1>1, <1>3
  <2> QED
    BY <1>5, <2>1 DEF Gathered
<1>9. k \in Scan
  BY <1>1, <1>6, <1>7, Zenon DEF Scan
<1>10. k.pc = pc
  BY <1>1, Zenon DEF Scan
<1>11. k.got = got
  BY <1>1, Zenon DEF Scan
<1>12. k.start = start
  BY <1>1, Zenon DEF Scan
<1> HIDE DEF k
<1>13. Consecutive(k)
  <2>1. CASE end = To
    BY <1>5, <1>6a, <1>10, <1>11, <2>1 DEF Consecutive
  <2>2. CASE end # To
    <3>1. k.pc = "ask" /\ k.start = end + 1 /\ k.start - 1 = end
      BY <1>3, <1>6a, <1>10, <1>12, <2>2
    <3> QED
      BY <1>5, <1>11, <3>1 DEF Consecutive
  <2> QED
    BY <2>1, <2>2
<1> QED
  BY <1>2, <1>4, <1>9, <1>13, ScanMoves

LEMMA LogRefuse ==
  ASSUME Logs!LogRangeAssumption, LogInv, NEW s \in Scans, Logs!Refuse(s)
  PROVE  LogInv'
<1>1. /\ scan[s] \in Scan /\ Consecutive(scan[s]) /\ scan[s].pc = "asked"
      /\ scan[s].start \in Nat /\ scan[s].end \in Nat /\ scan[s].start <= scan[s].end
  BY ScanFields DEF Logs!Refuse, Consecutive
<1>2. limit' = limit
  BY DEF Logs!Refuse
<1>3. logRange' \in 0 .. MaxLogRange /\ calm' \in 0 .. Quiet
  <2>1. CASE UNCHANGED <<logRange, calm>>
    BY <2>1 DEF LogInv
  <2>2. CASE ~ UNCHANGED <<logRange, calm>>
    <3>1. logRange' = Logs!Halved(Logs!Asked(s)) /\ calm' = 0
      BY <2>2 DEF Logs!Refuse
    <3> DEFINE asked == Logs!Asked(s)
               half == Logs!Least(Logs!Width, asked) \div 2
    <3>2. asked \in Nat
      BY <1>1 DEF Logs!Asked
    <3>3. Logs!Width \in Nat /\ Logs!Width <= MaxLogRange /\ MaxLogRange \in Nat \ {0} /\ Quiet \in Nat
      BY WidthBound DEF Logs!LogRangeAssumption
    <3> HIDE DEF asked
    <3>4. Logs!Least(Logs!Width, asked) \in Nat /\ Logs!Least(Logs!Width, asked) <= MaxLogRange
      BY <3>2, <3>3 DEF Logs!Least
    <3>5. half \in Nat /\ half <= MaxLogRange
      BY <3>3, <3>4, HalfBound
    <3>6. logRange' = Logs!Most(half, 1)
      BY <3>1 DEF Logs!Halved, asked
    <3> HIDE DEF half
    <3> QED
      BY <3>1, <3>3, <3>5, <3>6 DEF Logs!Most
  <2> QED
    BY <2>1, <2>2
<1>4. PICK p \in {"failed", "sleep", "ask"} : scan' = [scan EXCEPT ![s].pc = p]
  BY DEF Logs!Refuse
<1> DEFINE k == [scan[s] EXCEPT !.pc = p]
<1>5. p \in ScanStates
  BY <1>4 DEF ScanStates
<1>6. k \in Scan /\ k.pc = p /\ k.start = scan[s].start /\ k.got = scan[s].got
  BY <1>1, <1>5, ScanPlaced
<1>7. scan' = [scan EXCEPT ![s] = k]
  BY <1>4
<1> HIDE DEF k
<1>8. Consecutive(k)
  BY <1>1, <1>4, <1>6 DEF Consecutive
<1> QED
  BY <1>2, <1>3, <1>6, <1>7, <1>8, ScanMoves DEF LogInv

LEMMA LogSleep ==
  ASSUME Logs!LogRangeAssumption, LogInv, NEW s \in Scans, Logs!Sleep(s) \/ Logs!Broken(s)
  PROVE  LogInv'
<1>1. scan[s] \in Scan /\ Consecutive(scan[s]) /\ scan[s].pc \in {"sleep", "asked"}
  BY ScanFields DEF Logs!Sleep, Logs!Broken
<1>2. UNCHANGED <<logRange, calm, limit>>
  BY DEF Logs!Sleep, Logs!Broken
<1>3. CASE scan' = [scan EXCEPT ![s].pc = "failed"]
  <2> DEFINE k == [scan[s] EXCEPT !.pc = "failed"]
  <2>1. "failed" \in ScanStates
    BY DEF ScanStates
  <2>2. k \in Scan /\ k.pc = "failed"
    BY <1>1, <2>1, ScanPlaced
  <2>3. scan' = [scan EXCEPT ![s] = k]
    BY <1>3
  <2> HIDE DEF k
  <2>4. Consecutive(k)
    BY <2>2 DEF Consecutive
  <2> QED
    BY <1>2, <2>2, <2>3, <2>4, ScanMoves DEF LogInv
<1>4. CASE scan' # [scan EXCEPT ![s].pc = "failed"]
  <2>1. PICK waits \in 0 .. 2 : scan' = [scan EXCEPT ![s].pc = "ask", ![s].waited = TRUE, ![s].waits = waits]
    <3>1. scan[s].waits \in 0 .. 2
      BY <1>1 DEF Scan
    <3>2. Logs!Least(scan[s].waits + 1, 2) \in 0 .. 2
      BY <3>1 DEF Logs!Least
    <3> QED
      BY <1>4, <3>2 DEF Logs!Sleep, Logs!Broken
  <2> DEFINE k == [scan[s] EXCEPT !.pc = "ask", !.waited = TRUE, !.waits = waits]
  <2>2. "ask" \in ScanStates /\ TRUE \in BOOLEAN
    BY DEF ScanStates
  <2>3. k \in Scan
    BY <1>1, <2>1, <2>2, Zenon DEF Scan
  <2>4. k.pc = "ask"
    BY <1>1, Zenon DEF Scan
  <2>5. k.start = scan[s].start
    BY <1>1, Zenon DEF Scan
  <2>6. k.got = scan[s].got
    BY <1>1, Zenon DEF Scan
  <2>7. scan' = [scan EXCEPT ![s] = k]
    BY <2>1
  <2> HIDE DEF k
  <2>8. Consecutive(k)
    BY <1>1, <2>4, <2>5, <2>6 DEF Consecutive
  <2> QED
    BY <1>2, <2>3, <2>7, <2>8, ScanMoves DEF LogInv
<1> QED
  BY <1>3, <1>4

LEMMA FreshScan ==
  ASSUME Logs!LogRangeAssumption
  PROVE  Logs!Fresh \in Scan /\ Consecutive(Logs!Fresh)
<1>1. "ask" \in ScanStates /\ 1 \in Starts /\ 0 \in Stops /\ FALSE \in BOOLEAN /\ 0 \in 0 .. 2
  BY DEF ScanStates, Starts, Stops, Logs!LogRangeAssumption
<1>2. UpTo(0) = << >>
  BY DEF UpTo
<1>3. << >> \in Gathered
  BY <1>2 DEF Gathered, Logs!LogRangeAssumption
<1>4. Logs!Fresh \in Scan
  BY <1>1, <1>3, Zenon DEF Logs!Fresh, Scan
<1>5. Logs!Fresh.pc = "ask" /\ Logs!Fresh.start = 1 /\ Logs!Fresh.got = << >>
  BY DEF Logs!Fresh
<1> QED
  BY <1>2, <1>4, <1>5 DEF Consecutive

LEMMA LogNext ==
  ASSUME Logs!LogRangeAssumption, LogInv, [Logs!Next]_(Logs!vars)
  PROVE  LogInv'
<1>1. ASSUME NEW s \in Scans, Logs!Ask(s) \/ Logs!Accept(s) \/ Logs!Refuse(s) \/ Logs!Sleep(s) \/ Logs!Broken(s)
      PROVE  LogInv'
  BY <1>1, LogAsk, LogAccept, LogRefuse, LogSleep
<1>2. ASSUME NEW s \in Scans, Logs!Again(s)
      PROVE  LogInv'
  <2>1. scan' = [scan EXCEPT ![s] = Logs!Fresh] /\ UNCHANGED <<logRange, calm, limit>>
    BY <1>2 DEF Logs!Again
  <2> QED
    BY <2>1, FreshScan, ScanMoves DEF LogInv
<1>3. CASE Logs!Tick
  BY <1>3 DEF Logs!Tick, LogInv, Logs!LogRangeAssumption
<1>4. CASE Logs!LimitMoves
  BY <1>4 DEF Logs!LimitMoves, LogInv
<1>5. CASE UNCHANGED Logs!vars
  BY <1>5 DEF Logs!vars, LogInv
<1> QED
  BY <1>1, <1>2, <1>3, <1>4, <1>5 DEF Logs!Next, Logs!Step

(* A log scan that ends well returns every block of its range once, in     *)
(* order, however often any scan of the endpoint had the width halved or   *)
(* grown back meanwhile (OwnerActsLogs, observeLogRange).                  *)
THEOREM ScansExact ==
  ASSUME Logs!LogRangeAssumption
  PROVE  Logs!Spec => [](Logs!TypeOK /\ Logs!LogsExact)
<1>1. ASSUME Logs!Init
      PROVE  LogInv
  BY <1>1, FreshScan DEF Logs!Init, LogInv, Logs!LogRangeAssumption
<1>2. LogInv /\ [Logs!Next]_(Logs!vars) => LogInv'
  BY LogNext
<1>3. ASSUME LogInv
      PROVE  Logs!TypeOK /\ Logs!LogsExact
  <2>1. \A s \in Scans : scan[s].pc \in ScanStates /\ scan[s].start \in Starts /\ scan[s].end \in Stops
    BY <1>3 DEF LogInv, Scan
  <2>2. Logs!TypeOK
    BY <1>3, <2>1 DEF Logs!TypeOK, LogInv, ScanStates, Starts, Stops
  <2>3. Logs!LogsExact
    BY <1>3 DEF Logs!LogsExact, LogInv, Consecutive, UpTo
  <2> QED
    BY <2>2, <2>3
<1> QED
  BY <1>1, <1>2, <1>3, PTL DEF Logs!Spec
=============================================================================
