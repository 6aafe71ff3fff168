----------------------------- MODULE HubProofs ------------------------------
(***************************************************************************)
(* The live feed for any number of networks and sockets, any sizes of ring *)
(* and queue, and any number of commits, rewinds, outages and failures:    *)
(* the slots an address holds are counted exactly, and the ring is one     *)
(* chain's although its refresh is several queries that a rewind may part. *)
(***************************************************************************)
EXTENDS Hub, FiniteSetTheorems, SequenceTheorems, NaturalsInduction, WellFoundedInduction, TLAPS

States == {"new", "accepted", "open", "closing", "returning", "unsubscribed", "cancelled", "gone"}
Steps == {"idle", "lock", "page", "append", "recent", "replace", "deliver", "refuse", "next", "made_up",
          "actions", "mark", "prepare", "cursor", "init", "fallback", "subscribe"}
SomeNet == Networks \cup {NoOne}
Faults == [queries : Nat, outages : Nat, torn : SUBSET Networks, late : SUBSET SomeNet, unmade : SUBSET SomeNet]

Conn == [st : States, net : SomeNet, mark : 0 .. MaxHeight, queued : 0 .. QueueSize, dropped : BOOLEAN,
         missed : 0 .. MissedPingLimit, view : SUBSET Block, floor : 0 .. MaxHeight, tick : Sample,
         got : SUBSET Block, owed : SUBSET Block]
Task == [pc : Steps, net : SomeNet, for : {"", "live", "reconcile"}, rows : SUBSET Block,
         from : 0 .. MaxHeight, delta : Delta, tick : Sample, since : 0 .. MaxHeight,
         todo : SUBSET Networks, noSnap : BOOLEAN, latest : SUBSET Block]
Note == [kind : {"live", "action", "reconnected"}, net : SomeNet, tick : Sample, act : SUBSET Block]
Cursor == [init : BOOLEAN, since : 0 .. MaxHeight, seen : SUBSET Block]

-----------------------------------------------------------------------------
(* The inductive invariant, part by part.  The database: one row a height, *)
(* and no hash of a fork that is still to come.                            *)
OnePer(S) == \A b, d \in S : b.n = d.n => b = d

Store ==
    /\ table \in [Networks -> SUBSET Block] /\ acts \in [Networks -> SUBSET Block]
    /\ samples \in [Networks -> SUBSET Sample]
    /\ forks \in [Networks -> 0 .. MaxForks] /\ commits \in [Networks -> 0 .. MaxCommits]
    /\ scanned \in [Networks -> 0 .. MaxHeight]
    /\ \A net \in Networks : OnePer(table[net]) /\ \A b \in table[net] : b.h <= forks[net]

Losses ==
    /\ faults \in Faults
    /\ up \in BOOLEAN
    /\ inbox \in Seq(Note) /\ \A i \in 1 .. Len(inbox) : inbox[i].kind # "reconnected" => inbox[i].net \in Networks

(* The hub's memory: one block a height. *)
Memory ==
    /\ ring \in [Networks -> SUBSET Block] /\ lock \in [Networks -> Procs \cup {NoOne}]
    /\ snap \in [Networks -> Sample] /\ owner \in [Networks -> Cursor]
    /\ \A net \in Networks : OnePer(ring[net]) /\ Cardinality(ring[net]) <= RingSize

Sockets ==
    /\ members \in [Networks -> SUBSET Clients]
    /\ conn \in [Clients -> Conn]

Tasks ==
    /\ task \in [Procs -> Task]
    /\ \A p \in Procs : task[p].pc \notin {"idle", "next"} => task[p].net \in Networks

(* A slot for every socket between admit and release. *)
Counted ==
    /\ IsFiniteSet(Admitted)
    /\ slots \in [total : Nat, perIP : [{Address[c] : c \in Clients} -> Nat]]
    /\ slots.total = Cardinality(Admitted)
    /\ \A a \in {Address[c] : c \in Clients} :
           slots.perIP[a] = Cardinality({d \in Admitted : Address[d] = a})

(* A refresh between its queries holds refreshMu, its rows are one a       *)
(* height, and the rows it is about to append contain the ring's tip.      *)
Refreshing == {"page", "append", "recent", "replace"}
Refreshed(t, p) ==
    t.pc \in Refreshing =>
        /\ lock[t.net] = p
        /\ OnePer(t.rows)
        /\ t.pc = "page" => \A b \in t.rows : b.n <= t.from
        /\ t.pc = "page" /\ ring[t.net] = {} => t.rows = {}
        /\ t.pc = "append" => TipOf(ring[t.net]) \subseteq t.rows
Serialized == \A p \in Procs : Refreshed(task[p], p)

(* What was read of a network's table in one piece: where the table still  *)
(* has one of its blocks it has all below it, as a rewind takes the rows   *)
(* from a height on and none of them comes back.                           *)
Chained(S, net) ==
    \A b \in S : /\ b \in table[net] => UpTo(S, b.n) \subseteq table[net]
                 /\ b.h <= forks[net]
                 /\ b.h = forks[net] => b \in table[net]

(* In order where no refresh read on after a rewind. *)
Whole ==
    \A net \in Networks \ faults.torn :
        /\ Chained(ring[net], net)
        /\ \A p \in Procs : task[p].pc \in Refreshing /\ task[p].net = net => Chained(task[p].rows, net)

IInv ==
    /\ Store /\ Losses /\ Memory /\ Sockets /\ Tasks
    /\ Counted /\ Serialized /\ Whole

-----------------------------------------------------------------------------
(* Blocks, samples and their extremes. *)
LEMMA SizesAre ==
  HubAssumption => /\ MaxHeight \in Nat /\ RingSize \in Nat /\ HelloBlocks \in Nat /\ QueueSize \in Nat \ {0}
                   /\ MaxTotal \in Nat /\ MaxPerIP \in Nat /\ MaxForks \in Nat /\ MaxCommits \in Nat
                   /\ MissedPingLimit \in Nat /\ HelloBlocks <= RingSize
  BY DEF HubAssumption

LEMMA BlockIs ==
  ASSUME NEW b \in Block
  PROVE  b.n \in 1 .. MaxHeight /\ b.h \in 0 .. MaxForks
  BY DEF Block

LEMMA BlockEqual ==
  ASSUME NEW b \in Block, NEW d \in Block, b.n = d.n, b.h = d.h
  PROVE  b = d
  BY DEF Block

(* A bounded set of numbers has a largest and a least, by the order's      *)
(* being well founded.                                                     *)
Below == {pair \in Nat \X Nat : pair[1] < pair[2]}

LEMMA Least ==
  ASSUME NEW S \in SUBSET Nat, S # {}
  PROVE  \E m \in S : \A x \in S : m <= x
<1>1. IsWellFoundedOn(Below, Nat)
  BY NatLessThanWellFounded, Zenon DEF OpToRel, Below
<1>2. PICK m \in S : \A x \in S : ~ (<<x, m>> \in Below)
  BY <1>1, WFMin
<1>3. \A x \in S : ~ (x < m)
  BY <1>2 DEF Below
<1> QED
  BY <1>3

LEMMA Largest ==
  ASSUME NEW S \in SUBSET Nat, S # {}, NEW b \in Nat, \A x \in S : x <= b
  PROVE  \E m \in S : \A x \in S : x <= m
<1> DEFINE D == {b - x : x \in S}
<1>1. D \in SUBSET Nat /\ D # {}
  <2>1. \A x \in S : b - x \in Nat
    OBVIOUS
  <2> QED
    BY <2>1
<1>2. PICK d \in D : \A k \in D : d <= k
  <2> HIDE DEF D
  <2> QED
    BY <1>1, Least
<1>3. PICK m \in S : d = b - m
  OBVIOUS
<1>4. \A x \in S : x <= m
  <2> TAKE x \in S
  <2>1. b - m <= b - x
    BY <1>2, <1>3
  <2> QED
    BY <2>1
<1> QED
  BY <1>4

LEMMA MaxIs ==
  ASSUME NEW S \in SUBSET Nat, S # {}, NEW b \in Nat, \A x \in S : x <= b
  PROVE  Max(S) \in S /\ \A x \in S : x <= Max(S)
<1>1. \E m \in S : \A x \in S : m >= x
  <2>1. PICK m \in S : \A x \in S : x <= m
    BY Largest
  <2> QED
    BY <2>1
<1>2. Max(S) \in S /\ \A x \in S : Max(S) >= x
  BY <1>1 DEF Max
<1> QED
  BY <1>2

LEMMA MinIs ==
  ASSUME NEW S \in SUBSET Nat, S # {}
  PROVE  Min(S) \in S /\ \A x \in S : Min(S) <= x
  BY Least DEF Min

LEMMA MinOfTwo ==
  ASSUME NEW a \in Nat, NEW b \in Nat
  PROVE  Min({a, b}) \in {a, b} /\ Min({a, b}) <= a /\ Min({a, b}) <= b
  BY MinIs

LEMMA MaxOfTwo ==
  ASSUME NEW a \in Nat, NEW b \in Nat
  PROVE  Max({a, b}) \in {a, b} /\ a <= Max({a, b}) /\ b <= Max({a, b})
<1>1. \A x \in {a, b} : x <= a + b
  OBVIOUS
<1> QED
  BY <1>1, MaxIs

LEMMA LastIs ==
  ASSUME HubAssumption, NEW S \in SUBSET Block
  PROVE  /\ Last(S) \in 0 .. MaxHeight
         /\ \A b \in S : b.n <= Last(S)
         /\ S # {} => \E b \in S : b.n = Last(S)
         /\ S = {} => Last(S) = 0
<1>1. CASE S = {}
  BY <1>1 DEF Last, HubAssumption
<1>2. CASE S # {}
  <2> DEFINE N == {b.n : b \in S}
  <2>1. N \in SUBSET Nat /\ N # {} /\ \A x \in N : x <= MaxHeight
    BY <1>2, BlockIs
  <2>2. MaxHeight \in Nat
    BY DEF HubAssumption
  <2>3. Max(N) \in N /\ \A x \in N : x <= Max(N)
    <3> HIDE DEF N
    <3> QED
      BY <2>1, <2>2, MaxIs
  <2>4. Last(S) = Max(N)
    BY <1>2 DEF Last
  <2>5. \A b \in S : b.n <= Last(S)
    BY <2>3, <2>4
  <2>6. PICK b \in S : b.n = Last(S)
    BY <2>3, <2>4
  <2>7. Last(S) \in 0 .. MaxHeight
    BY <2>6, BlockIs, <2>2
  <2> QED
    BY <1>2, <2>5, <2>6, <2>7
<1> QED
  BY <1>1, <1>2

LEMMA LowestIs ==
  ASSUME HubAssumption, NEW S \in SUBSET Block
  PROVE  Lowest(S) \in 0 .. MaxHeight
<1>1. CASE S = {}
  BY <1>1 DEF Lowest, HubAssumption
<1>2. CASE S # {}
  <2> DEFINE N == {b.n : b \in S}
  <2>1. N \in SUBSET Nat /\ N # {} /\ \A x \in N : x \in 0 .. MaxHeight
    BY <1>2, BlockIs
  <2>2. Min(N) \in N
    <3> HIDE DEF N
    <3> QED
      BY <2>1, MinIs
  <2> QED
    BY <1>2, <2>1, <2>2 DEF Lowest
<1> QED
  BY <1>1, <1>2

LEMMA NoSampleIs == HubAssumption => NoSample \in Sample
  BY DEF NoSample, Sample, HubAssumption

LEMMA LatestIs ==
  ASSUME HubAssumption, Store, NEW net \in Networks
  PROVE  LatestSample(net) \in Sample
<1>1. CASE samples[net] = {}
  BY <1>1, NoSampleIs DEF LatestSample
<1>2. CASE samples[net] # {}
  <2> DEFINE S == samples[net]
             N == {s.at : s \in S}
  <2>1. S \subseteq Sample /\ MaxCommits + MaxForks \in Nat
    BY DEF Store, HubAssumption
  <2>2. N \in SUBSET Nat /\ N # {} /\ \A x \in N : x <= MaxCommits + MaxForks
    BY <1>2, <2>1 DEF Sample
  <2>3. PICK m \in N : \A x \in N : x <= m
    <3> HIDE DEF N
    <3> QED
      BY <2>1, <2>2, Largest
  <2>4. \E s \in S : \A r \in S : r.at <= s.at
    BY <2>3
  <2>5. LatestSample(net) \in S
    BY <2>4, <1>2 DEF LatestSample
  <2> QED
    BY <2>1, <2>5
<1> QED
  BY <1>1, <1>2

LEMMA NoDeltaIs == HubAssumption => NoDelta \in Delta
  BY SizesAre DEF NoDelta, Delta

(* One block a height: what a set of them keeps when it is cut or joined,  *)
(* and how many the newest k are.                                          *)
LEMMA OnePerSubset ==
  ASSUME NEW S, NEW T \in SUBSET S, OnePer(S)
  PROVE  OnePer(T)
  BY DEF OnePer

LEMMA OnePerJoin ==
  ASSUME NEW S \in SUBSET Block, NEW R \in SUBSET Block, NEW a \in Nat, OnePer(S), OnePer(R)
  PROVE  OnePer(UpTo(S, a) \cup Above(R, a))
<1> SUFFICES ASSUME NEW b \in UpTo(S, a) \cup Above(R, a), NEW d \in UpTo(S, a) \cup Above(R, a), b.n = d.n
             PROVE  b = d
  BY DEF OnePer
<1>1. b.n \in Nat /\ d.n \in Nat
  BY BlockIs DEF UpTo, Above
<1> QED
  BY <1>1 DEF OnePer, UpTo, Above

LEMMA BlockFinite == HubAssumption => IsFiniteSet(Block)
<1> SUFFICES ASSUME HubAssumption PROVE IsFiniteSet(Block)
  OBVIOUS
<1> DEFINE S == (1 .. MaxHeight) \X (0 .. MaxForks)
           f == [b \in Block |-> <<b.n, b.h>>]
<1>1. IsFiniteSet(S)
  <2>1. IsFiniteSet(1 .. MaxHeight) /\ IsFiniteSet(0 .. MaxForks)
    BY SizesAre, FS_Interval
  <2> QED
    BY <2>1, FS_Product
<1>2. f \in Injection(Block, S)
  BY BlockIs, BlockEqual DEF Injection, IsInjective
<1> HIDE DEF f, S
<1> QED
  BY <1>1, <1>2, FS_Injection

LEMMA OnePerFinite ==
  ASSUME HubAssumption, NEW S \in SUBSET Block, OnePer(S)
  PROVE  IsFiniteSet(S)
<1> DEFINE f == [b \in S |-> b.n]
<1>1. f \in Injection(S, 1 .. MaxHeight)
  BY BlockIs DEF OnePer, Injection, IsInjective
<1>2. IsFiniteSet(1 .. MaxHeight)
  BY SizesAre, FS_Interval
<1> HIDE DEF f
<1> QED
  BY <1>1, <1>2, FS_Injection

LEMMA NewestIs ==
  ASSUME HubAssumption, NEW S \in SUBSET Block, OnePer(S), NEW k \in Nat
  PROVE  /\ Newest(S, k) \subseteq S
         /\ Cardinality(Newest(S, k)) <= k
<1> DEFINE T == Newest(S, k)
           f == [b \in T |-> Cardinality(Above(S, b.n))]
<1>1. T \subseteq S
  BY DEF Newest
<1>2. IsFiniteSet(S)
  BY OnePerFinite
<1>3. \A b \in S : IsFiniteSet(Above(S, b.n)) /\ Cardinality(Above(S, b.n)) \in Nat
  <2> TAKE b \in S
  <2>1. Above(S, b.n) \subseteq S
    BY DEF Above
  <2> QED
    BY <2>1, <1>2, FS_Subset, FS_CardinalityType
<1>4. \A b, d \in S : b.n < d.n => Cardinality(Above(S, d.n)) < Cardinality(Above(S, b.n))
  <2> SUFFICES ASSUME NEW b \in S, NEW d \in S, b.n < d.n
               PROVE  Cardinality(Above(S, d.n)) < Cardinality(Above(S, b.n))
    OBVIOUS
  <2>1. \A x \in S : x.n \in Nat
    BY BlockIs
  <2>2. Above(S, d.n) \subseteq Above(S, b.n) /\ d \in Above(S, b.n) /\ d \notin Above(S, d.n)
    BY <2>1 DEF Above
  <2>3. Cardinality(Above(S, d.n)) <= Cardinality(Above(S, b.n))
        /\ (Cardinality(Above(S, d.n)) = Cardinality(Above(S, b.n)) => Above(S, d.n) = Above(S, b.n))
    BY <2>2, <1>3, FS_Subset
  <2> QED
    BY <2>2, <2>3, <1>3
<1>5. \A b \in T : Cardinality(Above(S, b.n)) \in 0 .. k - 1
  BY <1>1, <1>3 DEF Newest
<1>6. f \in Injection(T, 0 .. k - 1)
  <2>1. f \in [T -> 0 .. k - 1]
    BY <1>5
  <2>2. \A b, d \in T : f[b] = f[d] => b = d
    <3> SUFFICES ASSUME NEW b \in T, NEW d \in T, f[b] = f[d]
                 PROVE  b = d
      OBVIOUS
    <3>1. b.n \in Nat /\ d.n \in Nat /\ f[b] \in Nat /\ f[d] \in Nat
      BY <1>1, <1>3, BlockIs
    <3>2. ~ b.n < d.n /\ ~ d.n < b.n
      BY <1>1, <1>4, <3>1
    <3> QED
      BY <3>1, <3>2, <1>1 DEF OnePer
  <2> QED
    BY <2>1, <2>2 DEF Injection, IsInjective
<1>7. IsFiniteSet(0 .. k - 1) /\ Cardinality(0 .. k - 1) = k
  BY FS_Interval
<1>8. Cardinality(T) <= Cardinality(0 .. k - 1)
  <2> HIDE DEF f, T
  <2> QED
    BY <1>6, <1>7, FS_Injection
<1> QED
  BY <1>1, <1>7, <1>8

-----------------------------------------------------------------------------
(* Chains.  A part of what was read in one piece was read in one piece,    *)
(* and so was all that the table has.                                      *)
LEMMA ChainedSubset ==
  ASSUME NEW net, NEW S, NEW T \in SUBSET S, Chained(S, net)
  PROVE  Chained(T, net)
  BY DEF Chained, UpTo

LEMMA ChainedTable ==
  ASSUME Store, NEW net \in Networks, NEW S \in SUBSET table[net]
  PROVE  Chained(S, net)
  BY DEF Chained, UpTo, Store

(* The lower part of one and the upper part of another, where the other    *)
(* has a block at the cut, or all of the first was cut away.               *)
LEMMA ChainedJoin ==
  ASSUME Store, NEW net \in Networks, NEW S \in SUBSET Block, NEW R \in SUBSET Block, NEW a \in Nat,
         Chained(S, net), Chained(R, net),
         UpTo(S, a) = {} \/ \E b \in S \cap R : b.n = a
  PROVE  Chained(UpTo(S, a) \cup Above(R, a), net)
<1> DEFINE J == UpTo(S, a) \cup Above(R, a)
<1> SUFFICES ASSUME NEW b \in J
             PROVE  /\ b \in table[net] => UpTo(J, b.n) \subseteq table[net]
                    /\ b.h <= forks[net]
                    /\ b.h = forks[net] => b \in table[net]
  BY DEF Chained
<1>1. b \in S \/ b \in R
  BY DEF UpTo, Above
<1>2. b.h <= forks[net] /\ (b.h = forks[net] => b \in table[net])
  BY <1>1 DEF Chained
<1>3. \A d \in J : d.n \in Nat /\ d \in Block
  BY BlockIs DEF UpTo, Above
<1>4. ASSUME b \in table[net], NEW d \in J, d.n <= b.n
      PROVE  d \in table[net]
  <2>1. CASE b \in UpTo(S, a)
    <3>1. d \in S /\ b \in S
      BY <2>1, <1>3, <1>4 DEF UpTo, Above
    <3> QED
      BY <3>1, <1>4 DEF Chained, UpTo
  <2>2. CASE b \in Above(R, a)
    <3>1. b \in R /\ b.n > a
      BY <2>2 DEF Above
    <3>2. \A r \in R : r.n <= b.n => r \in table[net]
      BY <3>1, <1>4 DEF Chained, UpTo
    <3>3. CASE d \in R
      BY <3>2, <3>3, <1>4
    <3>4. CASE d \in UpTo(S, a)
      <4>1. PICK c \in S \cap R : c.n = a
        BY <3>4
      <4>2. c \in table[net]
        BY <4>1, <3>1, <3>2, <1>3
      <4> QED
        BY <4>1, <4>2, <3>4 DEF Chained, UpTo
    <3> QED
      BY <3>3, <3>4 DEF Above
  <2> QED
    BY <2>1, <2>2
<1> QED
  BY <1>2, <1>4 DEF UpTo

(* The database's own steps keep what was read in one piece so. *)
LEMMA ChainedCommit ==
  ASSUME NEW net \in Networks, NEW S, Chained(S, net), forks' = forks,
         NEW new, table[net]' = table[net] \cup new, \A b \in new : b.h = forks[net]
  PROVE  Chained(S, net)'
<1> SUFFICES ASSUME NEW b \in S
             PROVE  /\ b \in table[net]' => UpTo(S, b.n) \subseteq table[net]'
                    /\ b.h <= forks[net]'
                    /\ b.h = forks[net]' => b \in table[net]'
  BY DEF Chained, UpTo
<1> QED
  BY DEF Chained

LEMMA ChainedRewind ==
  ASSUME NEW net \in Networks, NEW S \in SUBSET Block, Chained(S, net), Store,
         forks[net]' = forks[net] + 1,
         NEW a \in Nat, table[net]' = UpTo(table[net], a)
  PROVE  Chained(S, net)'
<1> SUFFICES ASSUME NEW b \in S
             PROVE  /\ b \in table[net]' => UpTo(S, b.n) \subseteq table[net]'
                    /\ b.h <= forks[net]'
                    /\ b.h = forks[net]' => b \in table[net]'
  BY DEF Chained, UpTo
<1>1. \A d \in S : d.n \in Nat /\ d.h \in Nat
  BY BlockIs
<1>2. forks[net] \in Nat
  BY DEF Store
<1>3. b.h <= forks[net]
  BY DEF Chained
<1>4. ASSUME b \in table[net]', NEW d \in UpTo(S, b.n)
      PROVE  d \in table[net]'
  <2>1. b \in table[net] /\ b.n <= a
    BY <1>4 DEF UpTo
  <2>2. d \in table[net] /\ d.n <= b.n /\ d \in S
    BY <2>1, <1>4 DEF Chained, UpTo
  <2> QED
    BY <2>1, <2>2, <1>1 DEF UpTo
<1> QED
  BY <1>1, <1>2, <1>3, <1>4

-----------------------------------------------------------------------------
(* Clients.  Nothing that is enqueued, delivered or said at a hello opens  *)
(* or ends a socket's stay between admit and release.                      *)
Held(k) == k.st \notin {"new", "gone"}

LEMMA DropIs ==
  ASSUME NEW k \in Conn, Held(k)
  PROVE  Drop(k) \in Conn /\ Held(Drop(k))
<1>1. Drop(k) \in Conn
  <2>1. "closing" \in States /\ TRUE \in BOOLEAN
    BY DEF States
  <2> QED
    BY <2>1, Zenon DEF Drop, Conn
<1>2. Drop(k).st = "closing"
  BY DEF Drop, Conn
<1> QED
  BY <1>1, <1>2 DEF Held

LEMMA EnqueueIs ==
  ASSUME HubAssumption, NEW k \in Conn, NEW seen \in Conn, seen.queued = k.queued, seen.st = k.st
  PROVE  Enqueue(k, seen) \in Conn /\ (Held(Enqueue(k, seen)) <=> Held(k))
<1>1. CASE Closing(k)
  BY <1>1 DEF Enqueue
<1>2. CASE ~ Closing(k) /\ k.queued = QueueSize
  <2>1. Held(k)
    BY <1>2 DEF Closing, Held
  <2> QED
    BY <1>2, <2>1, DropIs DEF Enqueue
<1>3. CASE ~ Closing(k) /\ k.queued # QueueSize
  <2>1. k.queued \in 0 .. QueueSize /\ QueueSize \in Nat
    BY SizesAre DEF Conn
  <2>2. seen.queued + 1 \in 0 .. QueueSize
    BY <2>1, <1>3
  <2> DEFINE q == seen.queued + 1
             e == [seen EXCEPT !.queued = q]
  <2>3. Enqueue(k, seen) = e
    BY <1>3 DEF Enqueue
  <2>4. e \in Conn
    <3>1. q \in 0 .. QueueSize
      BY <2>2
    <3> HIDE DEF q
    <3> QED
      BY <3>1, Zenon DEF Conn
  <2>5. e.st = seen.st
    BY DEF Conn
  <2> QED
    BY <2>3, <2>4, <2>5 DEF Held
<1> QED
  BY <1>1, <1>2, <1>3

(* What a message carries for the client. *)
LEMMA AppendIs ==
  ASSUME NEW V \in SUBSET Block, NEW B \in SUBSET Block, NEW n
  PROVE  /\ AppendBlocks(V, B) \in SUBSET Block
         /\ UpTo(V, n) \in SUBSET Block /\ Above(V, n) \in SUBSET Block
  BY DEF AppendBlocks, UpTo, Above

LEMMA DeliverBlocksIs ==
  ASSUME HubAssumption, NEW k \in Conn, NEW B \in SUBSET Block
  PROVE  DeliverBlocks(k, B) \in Conn /\ (Held(DeliverBlocks(k, B)) <=> Held(k))
<1> DEFINE fresh == Above(B, k.mark)
           m == Last(fresh)
           moved == [k EXCEPT !.mark = m]
           v == AppendBlocks(k.view, fresh)
           seen == [moved EXCEPT !.view = v]
<1>1. CASE fresh = {}
  BY <1>1 DEF DeliverBlocks
<1>2. CASE fresh # {}
  <2>1. m \in 0 .. MaxHeight /\ v \in SUBSET Block
    <3>1. fresh \in SUBSET Block /\ k.view \in SUBSET Block
      BY DEF Above, Conn
    <3> HIDE DEF fresh
    <3> QED
      BY <3>1, LastIs, AppendIs
  <2>2. moved \in Conn
    <3> HIDE DEF m
    <3> QED
      BY <2>1, Zenon DEF Conn
  <2>3. seen \in Conn
    <3> HIDE DEF v, moved
    <3> QED
      BY <2>1, <2>2, Zenon DEF Conn
  <2>4. moved.st = k.st /\ moved.view = k.view /\ seen.st = k.st /\ seen.queued = moved.queued
    BY DEF Conn
  <2>5. DeliverBlocks(k, B) = Enqueue(moved, seen)
    BY <1>2, <2>4 DEF DeliverBlocks
  <2>6. Enqueue(moved, seen) \in Conn /\ (Held(Enqueue(moved, seen)) <=> Held(moved))
    <3> HIDE DEF moved, seen
    <3> QED
      BY <2>2, <2>3, <2>4, EnqueueIs
  <2> QED
    BY <2>4, <2>5, <2>6 DEF Held
<1> QED
  BY <1>1, <1>2

LEMMA DeliverTickIs ==
  ASSUME HubAssumption, NEW k \in Conn, NEW s \in Sample
  PROVE  DeliverTick(k, s) \in Conn /\ (Held(DeliverTick(k, s)) <=> Held(k))
<1> DEFINE seen == [k EXCEPT !.tick = s]
<1>1. CASE s = NoSample
  BY <1>1 DEF DeliverTick
<1>2. CASE s # NoSample
  <2>1. seen \in Conn
    BY Zenon DEF Conn
  <2>2. seen.st = k.st /\ seen.queued = k.queued
    BY DEF Conn
  <2>3. DeliverTick(k, s) = Enqueue(k, seen)
    BY <1>2 DEF DeliverTick
  <2> HIDE DEF seen
  <2> QED
    BY <2>1, <2>2, <2>3, EnqueueIs
<1> QED
  BY <1>1, <1>2

LEMMA DeliverReorgIs ==
  ASSUME HubAssumption, NEW k \in Conn, NEW d \in Delta
  PROVE  DeliverReorg(k, d) \in Conn /\ (Held(DeliverReorg(k, d)) <=> Held(k))
<1> DEFINE m == Min({k.mark, d.anc})
           low == [k EXCEPT !.mark = m]
           v == AppendBlocks(UpTo(k.view, d.anc), d.blocks)
           s == IF k.tick.n > d.anc THEN NoSample ELSE k.tick
           one == [low EXCEPT !.view = v]
           seen == [low EXCEPT !.view = v, !.tick = s]
<1>1. CASE ~ d.reorg
  BY <1>1 DEF DeliverReorg
<1>2. CASE d.reorg
  <2>1. /\ k.mark \in 0 .. MaxHeight /\ k.view \in SUBSET Block /\ k.tick \in Sample
        /\ d.anc \in 0 .. MaxHeight /\ d.blocks \in SUBSET Block
    BY DEF Conn, Delta
  <2>2. m \in 0 .. MaxHeight
    <3>1. Min({k.mark, d.anc}) \in {k.mark, d.anc}
      BY <2>1, SizesAre, MinOfTwo
    <3> QED
      BY <2>1, <3>1
  <2>3. v \in SUBSET Block
    <3>1. UpTo(k.view, d.anc) \in SUBSET Block
      BY <2>1 DEF UpTo
    <3> QED
      BY <2>1, <3>1, AppendIs
  <2>4. s \in Sample
    BY <2>1, NoSampleIs
  <2>5. low \in Conn
    <3> HIDE DEF m
    <3> QED
      BY <2>2, Zenon DEF Conn
  <2>6. seen \in Conn
    <3> HIDE DEF v, s, low
    <3>1. one \in Conn
      BY <2>3, <2>5, Zenon DEF Conn
    <3>2. seen = [one EXCEPT !.tick = s]
      BY <2>5 DEF Conn
    <3> HIDE DEF one, seen
    <3> QED
      BY <3>1, <3>2, <2>4, Zenon DEF Conn
  <2>7. low.st = k.st /\ low.view = k.view /\ low.tick = k.tick /\ seen.st = k.st /\ seen.queued = low.queued
    BY DEF Conn
  <2>8. DeliverReorg(k, d) = Enqueue(low, seen)
    BY <1>2, <2>7 DEF DeliverReorg
  <2>9. Enqueue(low, seen) \in Conn /\ (Held(Enqueue(low, seen)) <=> Held(low))
    <3> HIDE DEF low, seen
    <3> QED
      BY <2>5, <2>6, <2>7, EnqueueIs
  <2> QED
    BY <2>7, <2>8, <2>9 DEF Held
<1> QED
  BY <1>1, <1>2

LEMMA FanOutIs ==
  ASSUME HubAssumption, conn \in [Clients -> Conn], NEW net, NEW d \in Delta, NEW s \in Sample
  PROVE  /\ FanOut(net, d, s) \in [Clients -> Conn]
         /\ \A c \in Clients : Held(FanOut(net, d, s)[c]) <=> Held(conn[c])
<1>1. ASSUME NEW c \in Clients
      PROVE  FanOut(net, d, s)[c] \in Conn /\ (Held(FanOut(net, d, s)[c]) <=> Held(conn[c]))
  <2> DEFINE B == IF d.reorg THEN {} ELSE d.blocks
             r == DeliverReorg(conn[c], d)
             t == DeliverTick(r, s)
  <2>1. conn[c] \in Conn /\ B \in SUBSET Block
    BY DEF Delta
  <2>2. r \in Conn /\ (Held(r) <=> Held(conn[c]))
    BY <2>1, DeliverReorgIs
  <2>3. t \in Conn /\ (Held(t) <=> Held(conn[c]))
    <3> HIDE DEF r
    <3> QED
      BY <2>2, DeliverTickIs
  <2>4. DeliverBlocks(t, B) \in Conn /\ (Held(DeliverBlocks(t, B)) <=> Held(conn[c]))
    <3> HIDE DEF t, B
    <3> QED
      BY <2>1, <2>3, DeliverBlocksIs
  <2>5. FanOut(net, d, s)[c] = IF c \in members[net] THEN DeliverBlocks(t, B) ELSE conn[c]
    BY DEF FanOut
  <2> QED
    BY <2>1, <2>4, <2>5
<1>2. FanOut(net, d, s) = [c \in Clients |-> FanOut(net, d, s)[c]]
  BY DEF FanOut
<1> QED
  BY <1>1, <1>2

LEMMA DeliverEachIs ==
  ASSUME HubAssumption, NEW k \in Conn, NEW A \in SUBSET Block
  PROVE  DeliverEach(k, A) \in Conn /\ (Held(DeliverEach(k, A)) <=> Held(k))
<1>1. CASE A = {} \/ Closing(k)
  BY <1>1 DEF DeliverEach
<1>2. CASE ~ (A = {} \/ Closing(k)) /\ Cardinality(A) > QueueSize - k.queued
  <2> DEFINE full == [k EXCEPT !.queued = QueueSize]
  <2>1. QueueSize \in 0 .. QueueSize
    BY SizesAre
  <2>2. full \in Conn
    BY <2>1, Zenon DEF Conn
  <2>3. Held(k) /\ Held(full)
    BY <1>2 DEF Closing, Held, Conn
  <2>4. DeliverEach(k, A) = Drop(full)
    BY <1>2 DEF DeliverEach
  <2> HIDE DEF full
  <2> QED
    BY <2>2, <2>3, <2>4, DropIs
<1>3. CASE ~ (A = {} \/ Closing(k)) /\ ~ Cardinality(A) > QueueSize - k.queued
  <2> DEFINE q == k.queued + Cardinality(A)
             g == k.got \cup A
             one == [k EXCEPT !.got = g]
             e == [k EXCEPT !.got = g, !.queued = q]
  <2>1. k.queued \in 0 .. QueueSize /\ QueueSize \in Nat /\ g \in SUBSET Block
    BY SizesAre DEF Conn
  <2>2. IsFiniteSet(A) /\ Cardinality(A) \in Nat
    <3>1. IsFiniteSet(Block)
      BY BlockFinite
    <3> QED
      BY <3>1, FS_Subset, FS_CardinalityType
  <2>3. q \in 0 .. QueueSize
    BY <2>1, <2>2, <1>3
  <2>4. one \in Conn
    <3> HIDE DEF g
    <3> QED
      BY <2>1, Zenon DEF Conn
  <2>5. e = [one EXCEPT !.queued = q]
    BY DEF Conn
  <2>6. e \in Conn
    <3> HIDE DEF one, e, q
    <3> QED
      BY <2>3, <2>4, <2>5, Zenon DEF Conn
  <2>7. e.st = k.st
    BY DEF Conn
  <2>8. DeliverEach(k, A) = e
    BY <1>3 DEF DeliverEach
  <2> QED
    BY <2>6, <2>7, <2>8 DEF Held
<1> QED
  BY <1>1, <1>2, <1>3

LEMMA DeliverActionsIs ==
  ASSUME HubAssumption, conn \in [Clients -> Conn], NEW net, NEW A \in SUBSET Block
  PROVE  /\ DeliverActions(net, A) \in [Clients -> Conn]
         /\ \A c \in Clients : Held(DeliverActions(net, A)[c]) <=> Held(conn[c])
<1>1. ASSUME NEW c \in Clients
      PROVE  /\ DeliverActions(net, A)[c] \in Conn
             /\ Held(DeliverActions(net, A)[c]) <=> Held(conn[c])
  <2> DEFINE new == A \ owner[net].seen
  <2>1. DeliverActions(net, A)[c] = IF c \in members[net] THEN DeliverEach(conn[c], new) ELSE conn[c]
    BY DEF DeliverActions
  <2>2. new \in SUBSET Block /\ conn[c] \in Conn
    OBVIOUS
  <2>3. DeliverEach(conn[c], new) \in Conn /\ (Held(DeliverEach(conn[c], new)) <=> Held(conn[c]))
    BY <2>2, DeliverEachIs
  <2> QED
    BY <2>1, <2>2, <2>3
<1>2. DeliverActions(net, A) = [c \in Clients |-> DeliverActions(net, A)[c]]
  BY DEF DeliverActions
<1> QED
  BY <1>1, <1>2

LEMMA HelloIs ==
  ASSUME HubAssumption, Memory, NEW k \in Conn, NEW net \in Networks, NEW s \in Sample
  PROVE  Hello(k, net, s) \in Conn /\ (Held(Hello(k, net, s)) <=> Held(k))
<1> DEFINE blocks == Newest(ring[net], HelloBlocks)
           last == Last(blocks)
           low == Lowest(blocks)
           st == IF k.st = "accepted" THEN "open" ELSE k.st
           tick == IF snap[net] # NoSample THEN snap[net] ELSE s
           moved == [k EXCEPT !.net = net, !.mark = last, !.owed = {}, !.st = st]
           seen == [moved EXCEPT !.view = blocks, !.floor = low, !.got = {}, !.tick = tick]
<1>1. blocks \in SUBSET Block
  BY DEF Newest, Memory
<1>2. last \in 0 .. MaxHeight /\ low \in 0 .. MaxHeight
  <2> HIDE DEF blocks
  <2> QED
    BY <1>1, LastIs, LowestIs
<1>3. st \in States /\ tick \in Sample /\ net \in SomeNet
  BY DEF Conn, States, Memory, SomeNet
<1>4. moved \in Conn /\ moved.st = st /\ moved.queued = k.queued
  <2> HIDE DEF st, last
  <2> DEFINE a == [k EXCEPT !.net = net]
             b == [k EXCEPT !.net = net, !.mark = last]
             c == [k EXCEPT !.net = net, !.mark = last, !.owed = {}]
  <2>1. a \in Conn
    BY <1>3, Zenon DEF Conn
  <2>2. b \in Conn
    <3>1. b = [a EXCEPT !.mark = last]
      BY DEF Conn
    <3> HIDE DEF a, b
    <3> QED
      BY <3>1, <2>1, <1>2, Zenon DEF Conn
  <2>3. c \in Conn
    <3>1. c = [b EXCEPT !.owed = {}]
      BY DEF Conn
    <3>2. {} \in SUBSET Block
      OBVIOUS
    <3> HIDE DEF b, c
    <3> QED
      BY <3>1, <3>2, <2>2, Zenon DEF Conn
  <2>4. moved \in Conn
    <3>1. moved = [c EXCEPT !.st = st]
      BY DEF Conn
    <3> HIDE DEF c, moved
    <3> QED
      BY <3>1, <2>3, <1>3, Zenon DEF Conn
  <2> QED
    BY <2>4 DEF Conn
<1>5. seen \in Conn /\ seen.st = st /\ seen.queued = moved.queued
  <2> HIDE DEF st, last, low, tick, moved, blocks
  <2> DEFINE a == [moved EXCEPT !.view = blocks]
             b == [moved EXCEPT !.view = blocks, !.floor = low]
             c == [moved EXCEPT !.view = blocks, !.floor = low, !.got = {}]
  <2>1. a \in Conn
    BY <1>1, <1>4, Zenon DEF Conn
  <2>2. b \in Conn
    <3>1. b = [a EXCEPT !.floor = low]
      BY <1>4 DEF Conn
    <3> HIDE DEF a, b
    <3> QED
      BY <3>1, <2>1, <1>2, Zenon DEF Conn
  <2>3. c \in Conn
    <3>1. c = [b EXCEPT !.got = {}]
      BY <1>4 DEF Conn
    <3>2. {} \in SUBSET Block
      OBVIOUS
    <3> HIDE DEF b, c
    <3> QED
      BY <3>1, <3>2, <2>2, Zenon DEF Conn
  <2>4. seen \in Conn
    <3>1. seen = [c EXCEPT !.tick = tick]
      BY <1>4 DEF Conn
    <3> HIDE DEF c, seen
    <3> QED
      BY <3>1, <2>3, <1>3, Zenon DEF Conn
  <2> QED
    BY <2>4, <1>4 DEF Conn
<1>6. Hello(k, net, s) = Enqueue(moved, seen)
  BY Zenon DEF Hello
<1>7. Enqueue(moved, seen) \in Conn /\ (Held(Enqueue(moved, seen)) <=> Held(moved))
  <2>1. seen.st = moved.st
    BY <1>4, <1>5
  <2> HIDE DEF moved, seen
  <2> QED
    BY <2>1, <1>4, <1>5, EnqueueIs
<1>8. Held(moved) <=> Held(k)
  <2> HIDE DEF moved
  <2> QED
    BY <1>4 DEF Held
<1> QED
  BY <1>6, <1>7, <1>8

-----------------------------------------------------------------------------
(* What a step leaves alone. *)
LEMMA SameStore == Store /\ UNCHANGED <<table, forks, samples, acts, scanned, commits>> => Store'
  BY DEF Store

LEMMA SameLosses == Losses /\ UNCHANGED <<faults, up, inbox>> => Losses'
  BY DEF Losses

LEMMA SameMemory == Memory /\ UNCHANGED <<ring, lock, snap, owner>> => Memory'
  BY DEF Memory

LEMMA SameSockets == Sockets /\ UNCHANGED <<members, conn>> => Sockets'
  BY DEF Sockets

LEMMA SameTasks == Tasks /\ UNCHANGED task => Tasks'
  BY DEF Tasks

LEMMA SameSerialized == Serialized /\ UNCHANGED <<task, ring, lock>> => Serialized'
  BY DEF Serialized, Refreshed

LEMMA SameCounted ==
  ASSUME Counted, UNCHANGED slots, \A c \in Clients : Held(conn[c])' <=> Held(conn[c])
  PROVE  Counted'
<1>1. Admitted' = Admitted
  BY DEF Admitted, Held
<1> QED
  BY <1>1 DEF Counted

LEMMA ConnCounted == Counted /\ UNCHANGED <<conn, slots>> => Counted'
  BY DEF Counted, Admitted

LEMMA SameWhole == Whole /\ UNCHANGED <<table, forks, ring, task, faults>> => Whole'
  BY DEF Whole, Chained

(* The database moves, and what was read of it is still in one piece. *)
LEMMA StoreMoves ==
  ASSUME Whole, Memory, Tasks, UNCHANGED <<ring, task, faults>>,
         \A net \in Networks : \A S \in SUBSET Block : Chained(S, net) => Chained(S, net)'
  PROVE  Whole'
<1>1. \A net \in Networks : ring[net] \in SUBSET Block
  BY DEF Memory
<1>2. \A p \in Procs : task[p].rows \in SUBSET Block
  BY DEF Tasks, Task
<1> QED
  BY <1>1, <1>2 DEF Whole

NoProc == NoOne \notin Procs
LEMMA NoOneIsNoProc == HubAssumption => NoProc
  BY DEF NoProc, HubAssumption, Procs, Loop, NoOne

(* One process goes on, outside a refresh. *)
LEMMA TaskMoves ==
  ASSUME Tasks, NEW p \in Procs, NEW t \in Task, task' = [task EXCEPT ![p] = t],
         t.pc \notin {"idle", "next"} => t.net \in Networks
  PROVE  Tasks'
  BY DEF Tasks

LEMMA OutsideRefresh ==
  ASSUME Tasks, Serialized, Whole, NEW p \in Procs, NEW t \in Task, task' = [task EXCEPT ![p] = t],
         t.pc \notin Refreshing, UNCHANGED <<ring, lock, table, forks>>, faults.torn \subseteq faults'.torn
  PROVE  Serialized' /\ Whole'
<1>1. \A q \in Procs : task'[q] = IF q = p THEN t ELSE task[q]
  BY DEF Tasks
<1>2. Serialized'
  BY <1>1 DEF Serialized, Refreshed
<1>3. Whole'
  BY <1>1 DEF Whole, Chained
<1> QED
  BY <1>2, <1>3

(* One process ends its refresh: it alone held refreshMu. *)
LEMMA EndsRefresh ==
  ASSUME HubAssumption, Tasks, Serialized, Memory, NEW p \in Procs, task[p].pc \in Refreshing,
         NEW t \in Task, task' = [task EXCEPT ![p] = t], t.pc \notin Refreshing,
         lock' = [lock EXCEPT ![task[p].net] = NoOne],
         \A net \in Networks \ {task[p].net} : ring'[net] = ring[net]
  PROVE  Serialized'
<1>1. \A q \in Procs : task'[q] = IF q = p THEN t ELSE task[q]
  BY DEF Tasks
<1>2. SUFFICES ASSUME NEW q \in Procs, task'[q].pc \in Refreshing
               PROVE  Refreshed(task[q], q)'
  BY DEF Serialized, Refreshed
<1>3. q # p /\ task'[q] = task[q]
  BY <1>1, <1>2
<1>4. lock[task[p].net] = p /\ Refreshed(task[q], q)
  BY DEF Serialized, Refreshed
<1>5. task[q].net # task[p].net /\ task[q].net \in Networks
  BY <1>2, <1>3, <1>4 DEF Refreshed, Refreshing, Tasks
<1>6. ring'[task[q].net] = ring[task[q].net] /\ lock'[task[q].net] = lock[task[q].net]
  BY <1>5 DEF Memory
<1> QED
  BY <1>3, <1>4, <1>6 DEF Refreshed

(* The listener's queue. *)
LEMMA NotifiedIs ==
  ASSUME Losses, NEW n \in Note, n.kind # "reconnected" => n.net \in Networks,
         Notified(n), UNCHANGED <<faults, up>>
  PROVE  Losses'
<1>1. CASE up
  <2>1. inbox' = Append(inbox, n) /\ inbox \in Seq(Note)
    BY <1>1 DEF Notified, Losses
  <2>2. inbox' \in Seq(Note)
    BY <2>1
  <2>3. \A i \in 1 .. Len(inbox)' : inbox'[i] = IF i = Len(inbox) + 1 THEN n ELSE inbox[i]
    BY <2>1
  <2>4. Len(inbox)' = Len(inbox) + 1 /\ Len(inbox) \in Nat
    BY <2>1
  <2>5. ASSUME NEW i \in 1 .. Len(inbox)', inbox'[i].kind # "reconnected"
        PROVE  inbox'[i].net \in Networks
    <3>1. CASE i = Len(inbox) + 1
      BY <3>1, <2>3, <2>5
    <3>2. CASE i # Len(inbox) + 1
      <4>1. i \in 1 .. Len(inbox)
        BY <3>2, <2>4
      <4> QED
        BY <4>1, <3>2, <2>3, <2>5 DEF Losses
    <3> QED
      BY <3>1, <3>2
  <2> QED
    BY <2>2, <2>5 DEF Losses
<1>2. CASE ~ up
  BY <1>2, SameLosses DEF Notified
<1> QED
  BY <1>1, <1>2

LEMMA HeadIs ==
  ASSUME Losses, inbox # <<>>
  PROVE  /\ Head(inbox) \in Note
         /\ Head(inbox).kind # "reconnected" => Head(inbox).net \in Networks
         /\ faults' \in Faults /\ UNCHANGED up /\ inbox' = Tail(inbox) => Losses'
<1>1. inbox \in Seq(Note) /\ Len(inbox) \in Nat \ {0}
  BY EmptySeq, LenProperties DEF Losses
<1>2. Head(inbox) = inbox[1] /\ Head(inbox) \in Note
  BY <1>1
<1>3. ASSUME faults' \in Faults, UNCHANGED up, inbox' = Tail(inbox)
      PROVE  Losses'
  <2>1. Tail(inbox) \in Seq(Note) /\ Len(Tail(inbox)) = Len(inbox) - 1
    BY <1>1
  <2>2. \A i \in 1 .. Len(inbox) - 1 : Tail(inbox)[i] = inbox[i + 1]
    BY <1>1
  <2>3. ASSUME NEW i \in 1 .. Len(inbox)', inbox'[i].kind # "reconnected"
        PROVE  inbox'[i].net \in Networks
    <3>1. i \in 1 .. Len(inbox) - 1 /\ i + 1 \in 1 .. Len(inbox)
      BY <1>1, <1>3, <2>1
    <3>2. inbox'[i] = inbox[i + 1]
      BY <3>1, <1>3, <2>2
    <3> QED
      BY <3>1, <3>2, <2>3 DEF Losses
  <2> QED
    BY <1>3, <2>1, <2>3 DEF Losses
<1>4. 1 \in 1 .. Len(inbox)
  BY <1>1
<1> QED
  BY <1>2, <1>3, <1>4 DEF Losses

(* A failing query, and what a network's samples say. *)
LEMMA FailingIs ==
  ASSUME IInv, NEW p \in Procs, Failing(p), UNCHANGED <<up, inbox>>
  PROVE  Losses' /\ faults'.torn = faults.torn
<1> DEFINE L == faults.late \cup Blamed(p)
           U == IF task[p].for = "reconcile" THEN faults.unmade \cup Blamed(p) ELSE faults.unmade
<1>1. Losses /\ faults \in Faults
  BY DEF IInv, Losses
<1>2. Blamed(p) \in SUBSET SomeNet
  <2>1. task[p] \in Task
    BY DEF IInv, Tasks
  <2> QED
    BY <2>1 DEF Blamed, Task
<1>3. L \in SUBSET SomeNet /\ U \in SUBSET SomeNet
  BY <1>1, <1>2 DEF Faults
<1>4. faults' = faults \/ faults' = [faults EXCEPT !.queries = @ + 1, !.late = L, !.unmade = U]
  BY DEF Failing
<1> HIDE DEF L, U
<1>5. faults' \in Faults /\ faults'.torn = faults.torn
  <2>1. CASE faults' = faults
    BY <1>1, <2>1
  <2>2. CASE faults' = [faults EXCEPT !.queries = @ + 1, !.late = L, !.unmade = U]
    <3>1. faults.queries + 1 \in Nat
      BY <1>1 DEF Faults
    <3> QED
      BY <1>1, <1>3, <2>2, <3>1 DEF Faults
  <2> QED
    BY <1>4, <2>1, <2>2
<1> QED
  BY <1>1, <1>5 DEF Losses

LEMMA SampleAtIs ==
  ASSUME HubAssumption, Store, NEW net \in Networks, NEW n \in 0 .. MaxHeight, NEW k \in 0 .. MaxCommits
  PROVE  SampleAt(net, n, k) \in Sample
<1>1. forks[net] \in 0 .. MaxForks
  BY DEF Store
<1>2. k + forks[net] \in 0 .. MaxCommits + MaxForks
  BY <1>1, SizesAre
<1> QED
  BY <1>2 DEF SampleAt, Sample

LEMMA NotesAre ==
  ASSUME HubAssumption, NEW net \in Networks
  PROVE  /\ \A s \in Sample : Live(net, s) \in Note /\ Live(net, s).net = net
         /\ \A a \in Block : Acted(net, a) \in Note /\ Acted(net, a).net = net
         /\ Reconnected \in Note /\ Reconnected.kind = "reconnected"
<1>1. NoSample \in Sample
  BY NoSampleIs
<1>2. net \in SomeNet /\ NoOne \in SomeNet
  BY DEF SomeNet
<1> QED
  BY <1>1, <1>2 DEF Live, Acted, Reconnected, Note

LEMMA OwedIs ==
  ASSUME NEW k \in Conn, NEW o \in SUBSET Block
  PROVE  [k EXCEPT !.owed = o] \in Conn /\ (Held([k EXCEPT !.owed = o]) <=> Held(k))
<1>1. [k EXCEPT !.owed = o] \in Conn
  BY Zenon DEF Conn
<1>2. [k EXCEPT !.owed = o].st = k.st
  BY DEF Conn
<1> QED
  BY <1>1, <1>2 DEF Held

-----------------------------------------------------------------------------
(* The collector's steps. *)
LEMMA CommitKeeps ==
  ASSUME HubAssumption, IInv, NEW net \in Networks, Commit(net)
  PROVE  IInv'
<1> DEFINE old == Last(table[net])
<1>1. PICK k \in 1 .. MaxAdvance :
        /\ old + k <= MaxHeight
        /\ table' = [table EXCEPT ![net] = @ \cup {[n |-> i, h |-> forks[net]] : i \in old + 1 .. old + k}]
        /\ samples' = [samples EXCEPT ![net] = @ \cup {SampleAt(net, old + k, commits[net] + 1)}]
        /\ Notified(Live(net, SampleAt(net, old + k, commits[net] + 1)))
  BY DEF Commit
<1> DEFINE new == {[n |-> i, h |-> forks[net]] : i \in old + 1 .. old + k}
           s == SampleAt(net, old + k, commits[net] + 1)
<1>2. /\ commits[net] < MaxCommits /\ commits' = [commits EXCEPT ![net] = @ + 1]
      /\ UNCHANGED <<forks, acts, scanned, faults, up, ring, lock, snap, owner, members, slots, conn, task>>
  BY DEF Commit, nets
<1>3. /\ table \in [Networks -> SUBSET Block] /\ samples \in [Networks -> SUBSET Sample]
      /\ forks[net] \in 0 .. MaxForks /\ commits \in [Networks -> 0 .. MaxCommits]
  BY DEF IInv, Store
<1>4. old \in 0 .. MaxHeight /\ \A b \in table[net] : b.n <= old
  BY <1>3, LastIs
<1>5. k \in Nat /\ old + k \in 0 .. MaxHeight /\ MaxHeight \in Nat
  BY <1>1, <1>4, SizesAre
<1>6. new \in SUBSET Block
  BY <1>3, <1>4, <1>5 DEF Block
<1>7. commits[net] + 1 \in 0 .. MaxCommits
  BY <1>2, <1>3, SizesAre
<1>8. s \in Sample
  BY <1>5, <1>7, SampleAtIs DEF IInv
<1>9. Store'
  <2>1. table' \in [Networks -> SUBSET Block] /\ samples' \in [Networks -> SUBSET Sample]
        /\ commits' \in [Networks -> 0 .. MaxCommits]
    <3>1. table' = [table EXCEPT ![net] = @ \cup new] /\ samples' = [samples EXCEPT ![net] = @ \cup {s}]
      BY <1>1
    <3> HIDE DEF new, s
    <3> QED
      BY <3>1, <1>2, <1>3, <1>6, <1>7, <1>8
  <2>2. OnePer(table[net] \cup new)
    <3>1. \A b \in table[net] : b.n \in Nat /\ b.n <= old
      BY <1>3, <1>4, BlockIs
    <3>2. \A b \in new : b.n \in Nat /\ b.n > old
      BY <1>4, <1>5
    <3>3. OnePer(table[net])
      BY DEF IInv, Store
    <3>4. OnePer(new)
      BY DEF OnePer
    <3> HIDE DEF new
    <3> QED
      BY <3>1, <3>2, <3>3, <3>4, <1>4 DEF OnePer
  <2>3. \A b \in table[net] \cup new : b.h <= forks[net]
    BY <1>3 DEF IInv, Store
  <2>4. \A x \in Networks : OnePer(table'[x]) /\ \A b \in table'[x] : b.h <= forks[x]
    <3>1. table' = [table EXCEPT ![net] = @ \cup new]
      BY <1>1
    <3> HIDE DEF new
    <3> QED
      BY <3>1, <1>3, <2>2, <2>3 DEF IInv, Store
  <2> QED
    BY <2>1, <2>4, <1>2 DEF IInv, Store
<1>10. Losses'
  <2>1. Live(net, s) \in Note /\ Live(net, s).net = net
    BY <1>8, NotesAre
  <2> HIDE DEF s
  <2>2. Notified(Live(net, s))
    BY <1>1 DEF s
  <2> QED
    BY <2>1, <2>2, <1>2, NotifiedIs DEF IInv
<1>11. \A x \in Networks : \A S \in SUBSET Block : Chained(S, x) => Chained(S, x)'
  <2> SUFFICES ASSUME NEW x \in Networks, NEW S \in SUBSET Block, Chained(S, x)
               PROVE  Chained(S, x)'
    OBVIOUS
  <2>1. CASE x = net
    <3>1. table[net]' = table[net] \cup new /\ \A b \in new : b.h = forks[net]
      BY <1>1, <1>3
    <3> HIDE DEF new
    <3> QED
      BY <2>1, <3>1, <1>2, ChainedCommit
  <2>2. CASE x # net
    <3>1. table'[x] = table[x]
      BY <2>2, <1>1, <1>3
    <3> QED
      BY <3>1, <1>2 DEF Chained
  <2> QED
    BY <2>1, <2>2
<1>12. Whole'
  BY <1>2, <1>11, StoreMoves DEF IInv
<1> QED
  BY <1>2, <1>9, <1>10, <1>12, SameMemory, SameSockets, SameTasks, SameSerialized, ConnCounted DEF IInv

LEMMA RewindKeeps ==
  ASSUME HubAssumption, IInv, NEW net \in Networks, Rewind(net)
  PROVE  IInv'
<1>1. PICK a \in 1 .. Last(table[net]) - 1 :
        /\ table' = [table EXCEPT ![net] = UpTo(@, a)]
        /\ samples' = [samples EXCEPT ![net] = UpTo(@, a)]
        /\ acts' = [acts EXCEPT ![net] = UpTo(@, a)]
        /\ scanned' = [scanned EXCEPT ![net] = Min({@, a})]
        /\ conn' = [c \in Clients |-> IF conn[c].net = net
                                      THEN [conn[c] EXCEPT !.owed = UpTo(@, a)] ELSE conn[c]]
  BY DEF Rewind
<1>2. /\ forks[net] < MaxForks /\ forks' = [forks EXCEPT ![net] = @ + 1]
      /\ UNCHANGED <<commits, faults, up, inbox, ring, lock, snap, owner, members, slots, task>>
  BY DEF Rewind, nets
<1>3. Store
  BY DEF IInv
<1>4. Last(table[net]) \in 0 .. MaxHeight
  BY <1>3, LastIs DEF Store
<1>5. a \in Nat /\ a \in 0 .. MaxHeight
  BY <1>4, SizesAre
<1>6. Min({scanned[net], a}) \in 0 .. MaxHeight
  <2>1. scanned[net] \in 0 .. MaxHeight
    BY <1>3 DEF Store
  <2>2. Min({scanned[net], a}) \in {scanned[net], a}
    BY <2>1, <1>5, MinOfTwo
  <2> QED
    BY <2>1, <2>2, <1>5
<1>7. Store'
  <2> DEFINE m == Min({scanned[net], a})
  <2>1. /\ UpTo(table[net], a) \subseteq table[net] /\ UpTo(acts[net], a) \subseteq acts[net]
        /\ UpTo(samples[net], a) \subseteq samples[net]
    BY DEF UpTo
  <2>2. table' \in [Networks -> SUBSET Block] /\ acts' \in [Networks -> SUBSET Block]
        /\ samples' \in [Networks -> SUBSET Sample]
    BY <1>1, <1>3, <2>1 DEF Store
  <2>3. forks' \in [Networks -> 0 .. MaxForks] /\ \A x \in Networks : forks[x] <= forks'[x]
    <3>1. forks[net] + 1 \in 0 .. MaxForks /\ \A x \in Networks : forks[x] \in Nat
      BY <1>2, <1>3, SizesAre DEF Store
    <3> QED
      BY <3>1, <1>2, <1>3 DEF Store
  <2>4. scanned' \in [Networks -> 0 .. MaxHeight]
    <3>1. scanned' = [scanned EXCEPT ![net] = m]
      BY <1>1
    <3> HIDE DEF m
    <3> QED
      BY <3>1, <1>6, <1>3 DEF Store, m
  <2>5. ASSUME NEW x \in Networks
        PROVE  OnePer(table'[x]) /\ \A b \in table'[x] : b.h <= forks'[x]
    <3>1. table'[x] \subseteq table[x]
      BY <1>1, <1>3, <2>1 DEF Store
    <3>2. OnePer(table[x]) /\ \A b \in table[x] : b.h <= forks[x]
      BY <1>3 DEF Store
    <3>3. forks[x] \in Nat /\ forks'[x] \in Nat /\ \A b \in table[x] : b.h \in Nat
      BY <1>3, <2>3, BlockIs DEF Store
    <3>4. OnePer(table'[x])
      BY <3>1, <3>2, OnePerSubset
    <3> QED
      BY <3>1, <3>2, <3>3, <3>4, <2>3
  <2> QED
    BY <1>2, <1>3, <2>2, <2>3, <2>4, <2>5 DEF Store
<1>8. conn' \in [Clients -> Conn] /\ \A c \in Clients : Held(conn[c])' <=> Held(conn[c])
  <2>1. ASSUME NEW c \in Clients
        PROVE  conn'[c] \in Conn /\ (Held(conn'[c]) <=> Held(conn[c]))
    <3> DEFINE o == UpTo(conn[c].owed, a)
    <3>1. conn[c] \in Conn
      BY DEF IInv, Sockets
    <3>2. o \in SUBSET Block
      BY <3>1 DEF UpTo, Conn
    <3>3. conn'[c] = conn[c] \/ conn'[c] = [conn[c] EXCEPT !.owed = o]
      BY <1>1
    <3> HIDE DEF o
    <3> QED
      BY <3>1, <3>2, <3>3, OwedIs
  <2>2. conn' = [c \in Clients |-> conn'[c]]
    BY <1>1
  <2> QED
    BY <2>1, <2>2 DEF Held
<1>9. Sockets'
  BY <1>2, <1>8 DEF IInv, Sockets
<1>10. \A x \in Networks : \A S \in SUBSET Block : Chained(S, x) => Chained(S, x)'
  <2> SUFFICES ASSUME NEW x \in Networks, NEW S \in SUBSET Block, Chained(S, x)
               PROVE  Chained(S, x)'
    OBVIOUS
  <2>1. CASE x = net
    <3>1. table[net]' = UpTo(table[net], a) /\ forks[net]' = forks[net] + 1
      BY <1>1, <1>2, <1>3 DEF Store
    <3> QED
      BY <2>1, <3>1, <1>3, <1>5, ChainedRewind
  <2>2. CASE x # net
    <3>1. table'[x] = table[x] /\ forks'[x] = forks[x]
      BY <2>2, <1>1, <1>2, <1>3 DEF Store
    <3> QED
      BY <3>1 DEF Chained
  <2> QED
    BY <2>1, <2>2
<1>11. Whole'
  BY <1>2, <1>10, StoreMoves DEF IInv
<1>12. Counted'
  BY <1>2, <1>8, SameCounted DEF IInv
<1> QED
  BY <1>2, <1>7, <1>9, <1>11, <1>12, SameLosses, SameMemory, SameTasks, SameSerialized DEF IInv

LEMMA RecordActionKeeps ==
  ASSUME HubAssumption, IInv, NEW net \in Networks, RecordAction(net)
  PROVE  IInv'
<1>1. PICK b \in table[net] \ acts[net] :
        /\ acts' = [acts EXCEPT ![net] = @ \cup {b}]
        /\ scanned' = [scanned EXCEPT ![net] = Max({@, b.n})]
        /\ Notified(Acted(net, b))
        /\ conn' = [c \in Clients |-> IF c \in members[net] /\ (up \/ b.n > scanned[net])
                                      THEN [conn[c] EXCEPT !.owed = @ \cup {b}] ELSE conn[c]]
  BY DEF RecordAction
<1>2. UNCHANGED <<table, forks, samples, commits, faults, up, ring, lock, snap, owner, members, slots, task>>
  BY DEF RecordAction, nets
<1>3. b \in Block
  BY DEF IInv, Store
<1>4. Store'
  <2> DEFINE m == Max({scanned[net], b.n})
  <2>1. scanned[net] \in 0 .. MaxHeight /\ b.n \in 0 .. MaxHeight /\ MaxHeight \in Nat
    BY <1>3, BlockIs, SizesAre DEF IInv, Store
  <2>2. m \in {scanned[net], b.n}
    BY <2>1, MaxOfTwo
  <2>3. m \in 0 .. MaxHeight /\ scanned' = [scanned EXCEPT ![net] = m]
    BY <1>1, <2>1, <2>2
  <2> HIDE DEF m
  <2>4. scanned' \in [Networks -> 0 .. MaxHeight] /\ acts' \in [Networks -> SUBSET Block]
    BY <1>1, <1>3, <2>3 DEF IInv, Store
  <2> QED
    BY <1>2, <2>4 DEF IInv, Store
<1>5. Losses'
  <2>1. Acted(net, b) \in Note /\ Acted(net, b).net = net
    BY <1>3, NotesAre
  <2> QED
    BY <2>1, <1>1, <1>2, NotifiedIs DEF IInv
<1>6. conn' \in [Clients -> Conn] /\ \A c \in Clients : Held(conn[c])' <=> Held(conn[c])
  <2>1. ASSUME NEW c \in Clients
        PROVE  conn'[c] \in Conn /\ (Held(conn'[c]) <=> Held(conn[c]))
    <3> DEFINE o == conn[c].owed \cup {b}
    <3>1. conn[c] \in Conn
      BY DEF IInv, Sockets
    <3>2. o \in SUBSET Block
      BY <3>1, <1>3 DEF Conn
    <3>3. conn'[c] = conn[c] \/ conn'[c] = [conn[c] EXCEPT !.owed = o]
      BY <1>1
    <3> HIDE DEF o
    <3> QED
      BY <3>1, <3>2, <3>3, OwedIs
  <2>2. conn' = [c \in Clients |-> conn'[c]]
    BY <1>1
  <2> QED
    BY <2>1, <2>2 DEF Held
<1>7. Sockets' /\ Counted'
  BY <1>2, <1>6, SameCounted DEF IInv, Sockets
<1> QED
  BY <1>2, <1>4, <1>5, <1>7, SameMemory, SameTasks, SameSerialized, SameWhole DEF IInv

LEMMA RetickKeeps ==
  ASSUME HubAssumption, IInv, NEW net \in Networks, Retick(net)
  PROVE  IInv'
<1> DEFINE s == SampleAt(net, Last(table[net]), commits[net])
<1>1. /\ samples' = [samples EXCEPT ![net] = @ \cup {s}] /\ Notified(Live(net, s))
      /\ UNCHANGED <<table, forks, acts, scanned, commits, faults, up, ring, lock, snap, owner, members,
                     slots, conn, task>>
  BY DEF Retick, nets
<1>2. s \in Sample
  <2>1. Last(table[net]) \in 0 .. MaxHeight /\ commits[net] \in 0 .. MaxCommits
    BY LastIs DEF IInv, Store
  <2> QED
    BY <2>1, SampleAtIs DEF IInv
<1> HIDE DEF s
<1>3. Store'
  BY <1>1, <1>2 DEF IInv, Store
<1>4. Losses'
  <2>1. Live(net, s) \in Note /\ Live(net, s).net = net
    BY <1>2, NotesAre
  <2> QED
    BY <2>1, <1>1, NotifiedIs DEF IInv
<1> QED
  BY <1>1, <1>3, <1>4, SameMemory, SameSockets, SameTasks, SameSerialized, ConnCounted, SameWhole DEF IInv

LEMMA LinkKeeps ==
  ASSUME HubAssumption, IInv, Disconnect \/ Reconnect
  PROVE  IInv'
<1>1. UNCHANGED <<table, forks, samples, acts, scanned, commits, ring, lock, snap, owner, members, slots,
                  conn, task>>
  BY DEF Disconnect, Reconnect, nets
<1>2. Losses' /\ faults'.torn = faults.torn
  <2>1. CASE Disconnect
    <3>1. faults' = [faults EXCEPT !.outages = @ + 1] /\ up' = FALSE /\ UNCHANGED inbox
      BY <2>1 DEF Disconnect
    <3>2. faults' \in Faults /\ faults'.torn = faults.torn
      BY <3>1 DEF IInv, Losses, Faults
    <3> QED
      BY <3>1, <3>2 DEF IInv, Losses
  <2>2. CASE Reconnect
    <3>1. up' = TRUE /\ inbox' = Append(inbox, Reconnected) /\ UNCHANGED faults
      BY <2>2 DEF Reconnect
    <3>2. Reconnected \in Note /\ Reconnected.kind = "reconnected"
      BY NoSampleIs DEF Reconnected, Note, SomeNet
    <3>3. inbox \in Seq(Note) /\ Len(inbox) \in Nat
      BY DEF IInv, Losses
    <3>4. inbox' \in Seq(Note)
      BY <3>1, <3>2, <3>3
    <3>5. Len(inbox)' = Len(inbox) + 1
          /\ \A i \in 1 .. Len(inbox) + 1 : inbox'[i] = IF i = Len(inbox) + 1 THEN Reconnected ELSE inbox[i]
      BY <3>1, <3>3
    <3>6. ASSUME NEW i \in 1 .. Len(inbox)', inbox'[i].kind # "reconnected"
          PROVE  inbox'[i].net \in Networks
      <4>1. i \in 1 .. Len(inbox) /\ inbox'[i] = inbox[i]
        BY <3>2, <3>3, <3>5, <3>6
      <4> QED
        BY <4>1, <3>6 DEF IInv, Losses
    <3> QED
      BY <3>1, <3>4, <3>6 DEF IInv, Losses
  <2> QED
    BY <2>1, <2>2
<1>3. Whole'
  BY <1>1, <1>2 DEF IInv, Whole, Chained
<1> QED
  BY <1>1, <1>2, <1>3, SameStore, SameMemory, SameSockets, SameTasks, SameSerialized, ConnCounted DEF IInv

-----------------------------------------------------------------------------
(* A process goes on outside a refresh, whatever becomes of the sockets'   *)
(* queues; Stays is the same with the sockets left alone.                  *)
LEMMA GoesOn ==
  ASSUME HubAssumption, IInv, NEW p \in Procs, NEW t \in Task, task' = [task EXCEPT ![p] = t],
         t.pc \notin Refreshing, t.pc \notin {"idle", "next"} => t.net \in Networks,
         UNCHANGED <<table, forks, samples, acts, scanned, commits, ring, lock, slots>>,
         Losses', faults'.torn = faults.torn, Memory', Sockets',
         \A c \in Clients : Held(conn[c])' <=> Held(conn[c])
  PROVE  IInv'
<1>1. Tasks'
  BY TaskMoves DEF IInv
<1>2. Serialized' /\ Whole'
  BY OutsideRefresh DEF IInv
<1>3. Store' /\ Counted'
  BY SameStore, SameCounted DEF IInv
<1> QED
  BY <1>1, <1>2, <1>3 DEF IInv

LEMMA Stays ==
  ASSUME HubAssumption, IInv, NEW p \in Procs, NEW t \in Task, task' = [task EXCEPT ![p] = t],
         t.pc \notin Refreshing, t.pc \notin {"idle", "next"} => t.net \in Networks,
         UNCHANGED <<table, forks, samples, acts, scanned, commits, nets, members, slots, conn>>,
         Losses', faults'.torn = faults.torn
  PROVE  IInv'
<1>1. UNCHANGED <<ring, lock, snap, owner>>
  BY DEF nets
<1>2. Memory' /\ Sockets'
  BY <1>1, SameMemory, SameSockets DEF IInv
<1>3. \A c \in Clients : Held(conn[c])' <=> Held(conn[c])
  BY DEF Held
<1> QED
  BY <1>1, <1>2, <1>3, GoesOn

LEMMA IdleIs ==
  ASSUME HubAssumption
  PROVE  Idle \in Task /\ Idle.pc = "idle"
<1>1. NoSample \in Sample /\ NoDelta \in Delta /\ 0 \in 0 .. MaxHeight /\ NoOne \in SomeNet /\ "idle" \in Steps
  BY NoSampleIs, SizesAre DEF NoDelta, Delta, SomeNet, Steps
<1> QED
  BY <1>1 DEF Idle, Task

(* Who is where: a step with a network is on one of the networks. *)
LEMMA TaskIs ==
  ASSUME IInv, NEW p \in Procs
  PROVE  /\ task[p] \in Task
         /\ task[p].pc \notin {"idle", "next"} => task[p].net \in Networks
  BY DEF IInv, Tasks

(* A step without a query leaves the faults, and one with it may fail. *)
LEMMA Unharmed ==
  ASSUME IInv, UNCHANGED <<faults, up, inbox>>
  PROVE  Losses' /\ faults'.torn = faults.torn
  BY SameLosses DEF IInv

LEMMA OtherFaults == Losses /\ faults' \in Faults /\ UNCHANGED <<up, inbox>> => Losses'
  BY DEF Losses

LEMMA FewerLate ==
  ASSUME Losses, NEW net, faults' = [faults EXCEPT !.late = @ \ {net}]
  PROVE  faults' \in Faults /\ faults'.torn = faults.torn
<1> DEFINE L == faults.late \ {net}
<1>1. L \in SUBSET SomeNet /\ faults \in Faults /\ faults' = [faults EXCEPT !.late = L]
  BY DEF Losses, Faults
<1> HIDE DEF L
<1> QED
  BY <1>1 DEF Faults

LEMMA HandleLiveKeeps ==
  ASSUME HubAssumption, IInv, HandleLive
  PROVE  IInv'
<1> DEFINE n == Head(inbox)
           a == [Idle EXCEPT !.pc = "lock", !.for = "live"]
           t == [Idle EXCEPT !.pc = "lock", !.for = "live", !.net = n.net, !.tick = n.tick]
<1>1. /\ inbox # <<>> /\ n.kind = "live" /\ inbox' = Tail(inbox) /\ task' = [task EXCEPT ![Loop] = t]
      /\ faults' = [faults EXCEPT !.late = @ \ {n.net}]
      /\ UNCHANGED <<table, forks, samples, acts, scanned, commits, up, nets, members, slots, conn>>
  BY DEF HandleLive
<1>2. n \in Note /\ n.net \in Networks /\ Losses' /\ faults'.torn = faults.torn
  <2>1. faults' \in Faults /\ faults'.torn = faults.torn
    BY <1>1, FewerLate DEF IInv
  <2> QED
    BY <2>1, <1>1, HeadIs DEF IInv
<1>3. t \in Task /\ t.pc = "lock" /\ t.net = n.net
  <2> HIDE DEF n
  <2>1. n.net \in SomeNet /\ n.tick \in Sample /\ "lock" \in Steps /\ "live" \in {"", "live", "reconcile"}
    BY <1>2 DEF Note, SomeNet, Steps
  <2>2. Idle \in Task
    BY IdleIs
  <2> QED
    BY <2>1, <2>2 DEF Task
<1>4. Loop \in Procs /\ "lock" \notin Refreshing
  BY DEF Procs, Refreshing
<1> HIDE DEF t, n
<1> QED
  BY <1>1, <1>2, <1>3, <1>4, Stays

LEMMA ReconcileKeeps ==
  ASSUME HubAssumption, IInv, Reconcile
  PROVE  IInv'
<1> DEFINE N == {net \in Networks : members[net] # {}}
           t == [Idle EXCEPT !.pc = "next", !.for = "reconcile", !.todo = N]
<1>1. /\ inbox # <<>> /\ inbox' = Tail(inbox) /\ task' = [task EXCEPT ![Loop] = t]
      /\ faults' = [faults EXCEPT !.late = @ \cup {net \in Networks : members[net] = {}}]
      /\ UNCHANGED <<table, forks, samples, acts, scanned, commits, up, nets, members, slots, conn>>
  BY DEF Reconcile
<1>2. Losses' /\ faults'.torn = faults.torn
  <2>1. faults' \in Faults /\ faults'.torn = faults.torn
    <3> DEFINE L == faults.late \cup {net \in Networks : members[net] = {}}
    <3>1. L \in SUBSET SomeNet /\ faults \in Faults
      BY DEF IInv, Losses, Faults, SomeNet
    <3>2. faults' = [faults EXCEPT !.late = L]
      BY <1>1
    <3> HIDE DEF L
    <3> QED
      BY <3>1, <3>2 DEF Faults
  <2> QED
    BY <2>1, <1>1, HeadIs DEF IInv
<1>3. t \in Task /\ t.pc = "next"
  <2>1. N \in SUBSET Networks /\ "next" \in Steps
    BY DEF Steps
  <2>2. Idle \in Task
    BY IdleIs
  <2> HIDE DEF N
  <2> QED
    BY <2>1, <2>2 DEF Task
<1>4. Loop \in Procs /\ "next" \notin Refreshing
  BY DEF Procs, Refreshing
<1> HIDE DEF t
<1> QED
  BY <1>1, <1>2, <1>3, <1>4, Stays

LEMMA ReconcileNextKeeps ==
  ASSUME HubAssumption, IInv, ReconcileNext
  PROVE  IInv'
<1>1. UNCHANGED <<table, forks, samples, acts, scanned, commits, nets, members, slots, conn>>
  BY DEF ReconcileNext, env
<1>2. Losses' /\ faults'.torn = faults.torn
  <2>1. /\ UNCHANGED <<up, inbox>>
        /\ \/ UNCHANGED faults
           \/ \E net \in task[Loop].todo : faults' = [faults EXCEPT !.late = @ \ {net}]
    BY DEF ReconcileNext, env
  <2>2. Losses /\ (faults' = faults => faults' \in Faults /\ faults'.torn = faults.torn)
    BY DEF IInv, Losses
  <2>3. faults' \in Faults /\ faults'.torn = faults.torn
    BY <2>1, <2>2, FewerLate
  <2>4. Losses
    BY DEF IInv
  <2>5. Losses'
    BY <2>1, <2>3, <2>4, OtherFaults
  <2> QED
    BY <2>3, <2>5
<1>3. task[Loop] \in Task /\ Loop \in Procs /\ {"lock", "idle"} \cap Refreshing = {} /\ "lock" \in Steps
  BY TaskIs DEF Procs, Refreshing, Steps
<1>4. ASSUME NEW net \in task[Loop].todo,
             task' = [task EXCEPT ![Loop].pc = "lock", ![Loop].net = net, ![Loop].todo = @ \ {net}]
      PROVE  IInv'
  <2> DEFINE N == task[Loop].todo \ {net}
             t == [task[Loop] EXCEPT !.pc = "lock", !.net = net, !.todo = N]
  <2>1. net \in Networks /\ net \in SomeNet /\ N \in SUBSET Networks
    BY <1>3 DEF Task, SomeNet
  <2>2. t \in Task /\ t.pc = "lock" /\ t.net = net
    <3> HIDE DEF N
    <3> QED
      BY <1>3, <2>1 DEF Task
  <2>3. task' = [task EXCEPT ![Loop] = t]
    BY <1>3, <1>4 DEF IInv, Tasks, Task
  <2> HIDE DEF t
  <2> QED
    BY <1>1, <1>3, <1>2, <2>1, <2>2, <2>3, Stays
<1>5. ASSUME task' = [task EXCEPT ![Loop] = Idle]
      PROVE  IInv'
  BY <1>1, <1>3, <1>5, <1>2, IdleIs, Stays
<1> QED
  BY <1>4, <1>5 DEF ReconcileNext

LEMMA NewerSnapshotKeeps ==
  ASSUME HubAssumption, IInv, NewerSnapshot
  PROVE  IInv'
<1> DEFINE net == task[Loop].net
           s == IF LatestSample(net).at > snap[net].at THEN LatestSample(net) ELSE NoSample
           u == [task[Loop] EXCEPT !.pc = "made_up"]
           t == [task[Loop] EXCEPT !.pc = "made_up", !.tick = s]
<1>1. UNCHANGED <<table, forks, samples, acts, scanned, commits, nets, members, slots, conn>>
      /\ UNCHANGED <<up, inbox>> /\ task[Loop].pc = "deliver"
  BY DEF NewerSnapshot, env, At
<1>2. task[Loop] \in Task /\ net \in Networks /\ Loop \in Procs /\ "made_up" \notin Refreshing /\ "made_up" \in Steps
  BY <1>1, TaskIs DEF Procs, Refreshing, Steps
<1>3. s \in Sample
  BY <1>2, LatestIs, NoSampleIs DEF IInv
<1>4. CASE task' = [task EXCEPT ![Loop].pc = "made_up", ![Loop].tick = s] /\ UNCHANGED faults
  <2> HIDE DEF s
  <2>1. t \in Task /\ t.pc = "made_up" /\ t.net = net
    BY <1>2, <1>3 DEF Task
  <2>2. task' = [task EXCEPT ![Loop] = t]
    BY <1>2, <1>4 DEF IInv, Tasks
  <2>3. Losses' /\ faults'.torn = faults.torn
    BY <1>1, <1>4, Unharmed
  <2> HIDE DEF t
  <2> QED
    BY <1>1, <1>2, <2>1, <2>2, <2>3, Stays
<1>5. CASE Failing(Loop) /\ Goto(Loop, "made_up")
  <2>1. u \in Task /\ u.pc = "made_up" /\ u.net = net
    BY <1>2 DEF Task
  <2>2. task' = [task EXCEPT ![Loop] = u]
    BY <1>5 DEF Goto
  <2>3. Losses' /\ faults'.torn = faults.torn
    BY <1>1, <1>2, <1>5, FailingIs DEF IInv
  <2> HIDE DEF u
  <2> QED
    BY <1>1, <1>2, <2>1, <2>2, <2>3, Stays
<1> QED
  BY <1>4, <1>5 DEF NewerSnapshot

LEMMA OwnerActionsSinceKeeps ==
  ASSUME HubAssumption, IInv, OwnerActionsSince
  PROVE  IInv'
<1> DEFINE net == task[Loop].net
           A == {a \in acts[net] : a.n >= task[Loop].since}
           t == [task[Loop] EXCEPT !.pc = "mark", !.latest = A]
           u == [task[Loop] EXCEPT !.pc = "next", !.since = 0]
<1>1. UNCHANGED <<table, forks, samples, acts, scanned, commits, nets, members, slots, conn>>
      /\ UNCHANGED <<up, inbox>> /\ task[Loop].pc = "actions"
  BY DEF OwnerActionsSince, env, At
<1>2. task[Loop] \in Task /\ net \in Networks /\ Loop \in Procs /\ {"mark", "next"} \cap Refreshing = {}
      /\ {"mark", "next"} \subseteq Steps /\ 0 \in 0 .. MaxHeight
  BY <1>1, TaskIs, SizesAre DEF Procs, Refreshing, Steps
<1>3. A \in SUBSET Block
  BY <1>2 DEF IInv, Store
<1>4. CASE task' = [task EXCEPT ![Loop].pc = "mark", ![Loop].latest = A] /\ UNCHANGED faults
  <2> HIDE DEF A
  <2>1. t \in Task /\ t.pc = "mark" /\ t.net = net
    BY <1>2, <1>3 DEF Task
  <2>2. task' = [task EXCEPT ![Loop] = t]
    BY <1>2, <1>4 DEF IInv, Tasks
  <2>3. Losses' /\ faults'.torn = faults.torn
    BY <1>1, <1>4, Unharmed
  <2> HIDE DEF t
  <2> QED
    BY <1>1, <1>2, <2>1, <2>2, <2>3, Stays
<1>5. CASE Failing(Loop) /\ task' = [task EXCEPT ![Loop].pc = "next", ![Loop].since = 0]
  <2>1. u \in Task /\ u.pc = "next"
    BY <1>2 DEF Task
  <2>2. task' = [task EXCEPT ![Loop] = u]
    BY <1>2, <1>5 DEF IInv, Tasks
  <2>3. Losses' /\ faults'.torn = faults.torn
    BY <1>1, <1>2, <1>5, FailingIs DEF IInv
  <2> HIDE DEF u
  <2> QED
    BY <1>1, <1>2, <2>1, <2>2, <2>3, Stays
<1> QED
  BY <1>4, <1>5 DEF OwnerActionsSince

-----------------------------------------------------------------------------
(* A connection's steps before its registration. *)
LEMMA ClientIs ==
  ASSUME NEW c \in Clients
  PROVE  c \in Procs
  BY DEF Procs

LEMMA SwitchKeeps ==
  ASSUME HubAssumption, IInv, NEW c \in Clients, Switch(c)
  PROVE  IInv'
<1>1. PICK net \in Networks : task' = [task EXCEPT ![c] = [Idle EXCEPT !.pc = "prepare", !.net = net]]
  BY DEF Switch
<1> DEFINE t == [Idle EXCEPT !.pc = "prepare", !.net = net]
<1>2. UNCHANGED <<table, forks, samples, acts, scanned, commits, nets, members, slots, conn>>
      /\ Losses' /\ faults'.torn = faults.torn
  BY Unharmed DEF Switch, env
<1>3. t \in Task /\ t.pc = "prepare" /\ t.net = net
  <2>1. net \in SomeNet /\ "prepare" \in Steps
    BY DEF SomeNet, Steps
  <2> QED
    BY <2>1, IdleIs DEF Task
<1>4. "prepare" \notin Refreshing /\ c \in Procs
  BY ClientIs DEF Refreshing
<1>5. task' = [task EXCEPT ![c] = t]
  BY <1>1
<1> HIDE DEF t
<1> QED
  BY <1>2, <1>3, <1>4, <1>5, Stays

LEMMA PrepareKeeps ==
  ASSUME HubAssumption, IInv, NEW c \in Clients, Prepare(c)
  PROVE  IInv'
<1> DEFINE net == task[c].net
           pc == IF ring[net] = {} THEN "lock" ELSE "cursor"
           no == snap[net] = NoSample
           t == [task[c] EXCEPT !.pc = pc, !.noSnap = no]
<1>1. UNCHANGED <<table, forks, samples, acts, scanned, commits, nets, members, slots, conn>>
      /\ Losses' /\ faults'.torn = faults.torn /\ task[c].pc = "prepare"
      /\ task' = [task EXCEPT ![c].pc = pc, ![c].noSnap = no]
  BY Unharmed DEF Prepare, env, At
<1>2. task[c] \in Task /\ net \in Networks /\ c \in Procs
  BY <1>1, TaskIs, ClientIs
<1>3. pc \in Steps /\ pc \notin Refreshing /\ no \in BOOLEAN
  BY DEF Steps, Refreshing
<1>4. t \in Task /\ t.pc = pc /\ t.net = net
  <2> HIDE DEF pc, no
  <2> QED
    BY <1>2, <1>3 DEF Task
<1>5. task' = [task EXCEPT ![c] = t]
  <2> HIDE DEF pc, no
  <2> QED
    BY <1>1, <1>2 DEF IInv, Tasks
<1> HIDE DEF t, pc
<1> QED
  BY <1>1, <1>2, <1>3, <1>4, <1>5, Stays

LEMMA OwnerCursorKeeps ==
  ASSUME HubAssumption, IInv, NEW c \in Clients, OwnerCursor(c)
  PROVE  IInv'
<1> DEFINE net == task[c].net
           newest == {a \in acts[net] : a.n = Last(acts[net])}
           t == [task[c] EXCEPT !.pc = "init", !.latest = newest]
           u == [task[c] EXCEPT !.pc = "fallback"]
<1>1. UNCHANGED <<table, forks, samples, acts, scanned, commits, nets, members, slots, conn>>
      /\ UNCHANGED <<up, inbox>> /\ task[c].pc = "cursor"
  BY DEF OwnerCursor, env, At
<1>2. task[c] \in Task /\ net \in Networks /\ c \in Procs /\ {"init", "fallback"} \cap Refreshing = {}
      /\ {"init", "fallback"} \subseteq Steps
  BY <1>1, TaskIs, ClientIs DEF Refreshing, Steps
<1>3. newest \in SUBSET Block
  BY <1>2 DEF IInv, Store
<1>4. CASE task' = [task EXCEPT ![c].pc = "init", ![c].latest = newest] /\ UNCHANGED faults
  <2> HIDE DEF newest
  <2>1. t \in Task /\ t.pc = "init" /\ t.net = net
    BY <1>2, <1>3 DEF Task
  <2>2. task' = [task EXCEPT ![c] = t]
    BY <1>2, <1>4 DEF IInv, Tasks
  <2>3. Losses' /\ faults'.torn = faults.torn
    BY <1>1, <1>4, Unharmed
  <2> HIDE DEF t
  <2> QED
    BY <1>1, <1>2, <2>1, <2>2, <2>3, Stays
<1>5. ASSUME Goto(c, "fallback"), Losses', faults'.torn = faults.torn
      PROVE  IInv'
  <2>1. u \in Task /\ u.pc = "fallback" /\ u.net = net
    BY <1>2 DEF Task
  <2>2. task' = [task EXCEPT ![c] = u]
    BY <1>5 DEF Goto
  <2> HIDE DEF u
  <2> QED
    BY <1>1, <1>2, <1>5, <2>1, <2>2, Stays
<1>6. CASE Goto(c, "fallback") /\ UNCHANGED faults
  BY <1>1, <1>5, <1>6, Unharmed
<1>7. CASE Goto(c, "fallback") /\ Failing(c)
  BY <1>1, <1>2, <1>5, <1>7, FailingIs DEF IInv
<1> QED
  BY <1>4, <1>6, <1>7 DEF OwnerCursor

LEMMA FallbackKeeps ==
  ASSUME HubAssumption, IInv, NEW c \in Clients, Fallback(c)
  PROVE  IInv'
<1> DEFINE net == task[c].net
           s == IF task[c].noSnap THEN LatestSample(net) ELSE NoSample
           t == [task[c] EXCEPT !.pc = "subscribe", !.noSnap = FALSE, !.tick = s]
<1>1. task[c].pc = "fallback" /\ task' = [task EXCEPT ![c].pc = "subscribe", ![c].noSnap = FALSE, ![c].tick = s]
  BY DEF Fallback, At
<1>2. task[c] \in Task /\ net \in Networks /\ c \in Procs /\ "subscribe" \in Steps /\ "subscribe" \notin Refreshing
  BY <1>1, TaskIs, ClientIs DEF Steps, Refreshing
<1>3. s \in Sample
  BY <1>2, LatestIs, NoSampleIs DEF IInv
<1> HIDE DEF s
<1>4. t \in Task /\ t.pc = "subscribe" /\ t.net = net
  BY <1>2, <1>3 DEF Task
<1>5. task' = [task EXCEPT ![c] = t]
  BY <1>1, <1>2 DEF IInv, Tasks
<1>6. UNCHANGED <<table, forks, samples, acts, scanned, commits, nets, members, slots, conn>>
      /\ Losses' /\ faults'.torn = faults.torn
  BY Unharmed DEF Fallback, env
<1> HIDE DEF t
<1> QED
  BY <1>2, <1>4, <1>5, <1>6, Stays

LEMMA PrepareFailsKeeps ==
  ASSUME HubAssumption, IInv, NEW c \in Clients, PrepareFails(c)
  PROVE  IInv'
<1> DEFINE t == [task[c] EXCEPT !.pc = "refuse"]
<1>1. UNCHANGED <<table, forks, samples, acts, scanned, commits, nets, members, slots, conn>>
      /\ UNCHANGED <<up, inbox>> /\ Failing(c) /\ task[c].pc \in {"prepare", "fallback"}
      /\ task' = [task EXCEPT ![c] = t]
  BY DEF PrepareFails, env, At, Goto
<1>2. task[c] \in Task /\ task[c].net \in Networks /\ c \in Procs /\ "refuse" \in Steps /\ "refuse" \notin Refreshing
  BY <1>1, TaskIs, ClientIs DEF Steps, Refreshing
<1>3. t \in Task /\ t.pc = "refuse" /\ t.net = task[c].net
  BY <1>2 DEF Task
<1>4. Losses' /\ faults'.torn = faults.torn
  BY <1>1, <1>2, FailingIs DEF IInv
<1> HIDE DEF t
<1> QED
  BY <1>1, <1>2, <1>3, <1>4, Stays

(* The owner actions taken for delivered, and those a rewind forgot. *)
LEMMA MarkSeenIs ==
  ASSUME HubAssumption, NEW o \in Cursor, NEW A \in SUBSET Block
  PROVE  MarkSeen(o, A) \in Cursor
<1> DEFINE N == {o.since} \cup {a.n : a \in A}
           S == o.seen \cup A
           m == Max({o.since} \cup {a.n : a \in A})
           r == [o EXCEPT !.seen = S, !.since = m]
<1>1. o.since \in 0 .. MaxHeight /\ MaxHeight \in Nat /\ S \in SUBSET Block
  BY SizesAre DEF Cursor
<1>2. N \in SUBSET Nat /\ N # {} /\ \A x \in N : x \in 0 .. MaxHeight /\ x <= MaxHeight
  BY <1>1, BlockIs
<1>3. Max(N) \in N
  <2> HIDE DEF N
  <2> QED
    BY <1>1, <1>2, MaxIs
<1>4. m \in 0 .. MaxHeight
  BY <1>2, <1>3
<1>5. MarkSeen(o, A) = r
  BY Zenon DEF MarkSeen
<1> HIDE DEF m, S
<1> QED
  BY <1>1, <1>4, <1>5 DEF Cursor

LEMMA ForgetIs ==
  ASSUME HubAssumption, NEW o \in Cursor, NEW n \in 0 .. MaxHeight
  PROVE  ForgetActionsAbove(o, n) \in Cursor
<1> DEFINE m == Min({o.since, n})
           S == UpTo(o.seen, n)
           r == [o EXCEPT !.seen = S, !.since = m]
<1>1. o.since \in 0 .. MaxHeight /\ MaxHeight \in Nat /\ S \in SUBSET Block
  BY SizesAre DEF Cursor, UpTo
<1>2. m \in {o.since, n}
  BY <1>1, MinOfTwo
<1>3. m \in 0 .. MaxHeight
  BY <1>1, <1>2
<1>4. ForgetActionsAbove(o, n) = r
  BY Zenon DEF ForgetActionsAbove
<1> HIDE DEF m, S
<1> QED
  BY <1>1, <1>3, <1>4 DEF Cursor

LEMMA OwnerMoves ==
  ASSUME Memory, NEW net \in Networks, NEW o \in Cursor, owner' = [owner EXCEPT ![net] = o],
         UNCHANGED <<ring, lock, snap>>
  PROVE  Memory'
  BY DEF Memory

LEMMA SnapMoves ==
  ASSUME Memory, NEW net \in Networks, NEW s \in Sample, snap' = [snap EXCEPT ![net] = s],
         UNCHANGED <<ring, lock, owner>>
  PROVE  Memory'
  BY DEF Memory

LEMMA InitOwnerCursorKeeps ==
  ASSUME HubAssumption, IInv, NEW c \in Clients, InitOwnerCursor(c)
  PROVE  IInv'
<1> DEFINE net == task[c].net
           m == MarkSeen(owner[net], task[c].latest)
           o == IF owner[net].init THEN owner[net] ELSE [m EXCEPT !.init = TRUE]
           t == [task[c] EXCEPT !.pc = "fallback", !.latest = {}]
<1>1. /\ UNCHANGED <<table, forks, samples, acts, scanned, commits, ring, lock, snap, members, slots, conn>>
      /\ Losses' /\ faults'.torn = faults.torn /\ task[c].pc = "init"
      /\ owner' = [owner EXCEPT ![net] = o]
  BY Unharmed DEF InitOwnerCursor, env, At
<1>2. task' = [task EXCEPT ![c].pc = "fallback", ![c].latest = {}]
  BY DEF InitOwnerCursor
<1>3. task[c] \in Task /\ net \in Networks /\ c \in Procs /\ "fallback" \in Steps /\ "fallback" \notin Refreshing
  BY <1>1, TaskIs, ClientIs DEF Steps, Refreshing
<1>4. owner[net] \in Cursor /\ task[c].latest \in SUBSET Block
  BY <1>3 DEF IInv, Memory, Task
<1>5. m \in Cursor
  BY <1>4, MarkSeenIs
<1>6. o \in Cursor
  <2> HIDE DEF m
  <2> QED
    BY <1>4, <1>5 DEF Cursor
<1>7. Memory'
  <2> HIDE DEF o
  <2> QED
    BY <1>1, <1>3, <1>6, OwnerMoves DEF IInv
<1>8. t \in Task /\ t.pc = "fallback" /\ t.net = net
  BY <1>3 DEF Task
<1>9. task' = [task EXCEPT ![c] = t]
  BY <1>3, <1>2 DEF IInv, Tasks
<1>10. Sockets' /\ \A d \in Clients : Held(conn[d])' <=> Held(conn[d])
  BY <1>1, SameSockets DEF IInv, Held
<1> HIDE DEF t, o, net
<1> QED
  BY <1>1, <1>3, <1>7, <1>8, <1>9, <1>10, GoesOn

-----------------------------------------------------------------------------
(* The fan-outs. *)
LEMMA SocketsMove ==
  ASSUME Sockets, NEW f \in [Clients -> Conn], conn' = f, UNCHANGED members,
         \A c \in Clients : Held(f[c]) <=> Held(conn[c])
  PROVE  Sockets' /\ \A c \in Clients : Held(conn[c])' <=> Held(conn[c])
  BY DEF Sockets, Held

LEMMA FanOutLiveKeeps ==
  ASSUME HubAssumption, IInv, FanOutLive
  PROVE  IInv'
<1> DEFINE net == task[Loop].net
           s == task[Loop].tick
           d == task[Loop].delta
           f == FanOut(net, d, s)
<1>1. UNCHANGED <<table, forks, samples, acts, scanned, commits, ring, lock, owner, members, slots>>
      /\ Losses' /\ faults'.torn = faults.torn
  BY Unharmed DEF FanOutLive, env
<1>2. /\ task[Loop].pc = "deliver" /\ snap' = [snap EXCEPT ![net] = s] /\ conn' = f
      /\ task' = [task EXCEPT ![Loop] = Idle]
  BY DEF FanOutLive, At
<1>3. task[Loop] \in Task /\ net \in Networks /\ Loop \in Procs /\ "idle" \notin Refreshing
  BY <1>2, TaskIs DEF Procs, Refreshing
<1>4. s \in Sample /\ d \in Delta
  BY <1>3 DEF Task
<1>5. Memory'
  BY <1>1, <1>2, <1>3, <1>4, SnapMoves DEF IInv
<1>6. f \in [Clients -> Conn] /\ \A c \in Clients : Held(f[c]) <=> Held(conn[c])
  BY <1>4, FanOutIs DEF IInv, Sockets
<1>7. Sockets' /\ \A c \in Clients : Held(conn[c])' <=> Held(conn[c])
  <2> HIDE DEF f
  <2> QED
    BY <1>1, <1>2, <1>6, SocketsMove DEF IInv
<1> HIDE DEF f, net, s, d
<1> QED
  BY <1>1, <1>2, <1>3, <1>5, <1>7, IdleIs, GoesOn

LEMMA FanOutReconciledKeeps ==
  ASSUME HubAssumption, IInv, FanOutReconciled
  PROVE  IInv'
<1> DEFINE net == task[Loop].net
           s == task[Loop].tick
           d == task[Loop].delta
           f == FanOut(net, d, s)
           m == IF s = NoSample THEN snap[net] ELSE s
           n == owner[net].since
           t == [task[Loop] EXCEPT !.pc = "actions", !.since = n, !.delta = NoDelta, !.tick = NoSample]
<1>1. UNCHANGED <<table, forks, samples, acts, scanned, commits, ring, lock, owner, members, slots>>
      /\ Losses' /\ faults'.torn = faults.torn
  BY Unharmed DEF FanOutReconciled, env
<1>2. task[Loop].pc = "made_up" /\ snap' = [snap EXCEPT ![net] = m] /\ conn' = f
  BY DEF FanOutReconciled, At
<1>3. task' = [task EXCEPT ![Loop].pc = "actions", ![Loop].since = n, ![Loop].delta = NoDelta,
                           ![Loop].tick = NoSample]
  BY DEF FanOutReconciled
<1>4. task[Loop] \in Task /\ net \in Networks /\ Loop \in Procs /\ "actions" \notin Refreshing /\ "actions" \in Steps
  BY <1>2, TaskIs DEF Procs, Refreshing, Steps
<1>5. s \in Sample /\ d \in Delta /\ n \in 0 .. MaxHeight /\ NoDelta \in Delta /\ NoSample \in Sample
  <2>1. s \in Sample /\ d \in Delta
    BY <1>4 DEF Task
  <2>2. n \in 0 .. MaxHeight
    BY <1>4 DEF IInv, Memory, Cursor
  <2> QED
    BY <2>1, <2>2, NoSampleIs, NoDeltaIs
<1>6. m \in Sample
  BY <1>4, <1>5 DEF IInv, Memory
<1>7. Memory'
  <2> HIDE DEF m
  <2> QED
    BY <1>1, <1>2, <1>4, <1>6, SnapMoves DEF IInv
<1>8. f \in [Clients -> Conn] /\ \A c \in Clients : Held(f[c]) <=> Held(conn[c])
  BY <1>5, FanOutIs DEF IInv, Sockets
<1>9. Sockets' /\ \A c \in Clients : Held(conn[c])' <=> Held(conn[c])
  <2> HIDE DEF f
  <2> QED
    BY <1>1, <1>2, <1>8, SocketsMove DEF IInv
<1>10. t \in Task /\ t.pc = "actions" /\ t.net = net
  <2> HIDE DEF n
  <2> QED
    BY <1>4, <1>5 DEF Task
<1>11. task' = [task EXCEPT ![Loop] = t]
  <2> HIDE DEF n
  <2> QED
    BY <1>3, <1>4 DEF IInv, Tasks
<1> HIDE DEF f, net, s, d, t
<1> QED
  BY <1>1, <1>4, <1>7, <1>9, <1>10, <1>11, GoesOn

LEMMA BroadcastKeeps ==
  ASSUME HubAssumption, IInv, NEW c \in Clients, Broadcast(c)
  PROVE  IInv'
<1> DEFINE net == task[c].net
           d == task[c].delta
           f == FanOut(net, d, NoSample)
           t == [task[c] EXCEPT !.pc = "cursor", !.delta = NoDelta]
<1>1. UNCHANGED <<table, forks, samples, acts, scanned, commits, ring, lock, snap, owner, members, slots>>
      /\ Losses' /\ faults'.torn = faults.torn
  BY Unharmed DEF Broadcast, env, nets
<1>2. task[c].pc = "deliver" /\ conn' = f /\ task' = [task EXCEPT ![c].pc = "cursor", ![c].delta = NoDelta]
  BY DEF Broadcast, At
<1>3. task[c] \in Task /\ net \in Networks /\ c \in Procs /\ "cursor" \notin Refreshing /\ "cursor" \in Steps
  BY <1>2, TaskIs, ClientIs DEF Refreshing, Steps
<1>4. d \in Delta /\ NoDelta \in Delta /\ NoSample \in Sample
  BY <1>3, NoSampleIs, NoDeltaIs DEF Task
<1>5. Memory'
  BY <1>1, SameMemory DEF IInv
<1>6. f \in [Clients -> Conn] /\ \A k \in Clients : Held(f[k]) <=> Held(conn[k])
  BY <1>4, FanOutIs DEF IInv, Sockets
<1>7. Sockets' /\ \A k \in Clients : Held(conn[k])' <=> Held(conn[k])
  <2> HIDE DEF f
  <2> QED
    BY <1>1, <1>2, <1>6, SocketsMove DEF IInv
<1>8. t \in Task /\ t.pc = "cursor" /\ t.net = net
  BY <1>3, <1>4 DEF Task
<1>9. task' = [task EXCEPT ![c] = t]
  BY <1>2, <1>3 DEF IInv, Tasks
<1> HIDE DEF f, net, d, t
<1> QED
  BY <1>1, <1>3, <1>5, <1>7, <1>8, <1>9, GoesOn

LEMMA HandleOwnerActionKeeps ==
  ASSUME HubAssumption, IInv, HandleOwnerAction
  PROVE  IInv'
<1> DEFINE n == Head(inbox)
           f == DeliverActions(n.net, n.act)
           o == IF n.act \subseteq owner[n.net].seen THEN owner[n.net] ELSE MarkSeen(owner[n.net], n.act)
<1>1. /\ UNCHANGED <<table, forks, samples, acts, scanned, commits, ring, lock, snap, members, slots, task>>
      /\ UNCHANGED <<up, faults>>
      /\ inbox # <<>> /\ n.kind = "action" /\ inbox' = Tail(inbox) /\ conn' = f
      /\ owner' = [owner EXCEPT ![n.net] = o]
  BY DEF HandleOwnerAction
<1>2. n \in Note /\ n.net \in Networks /\ Losses'
  <2>1. Losses /\ faults' \in Faults
    BY <1>1 DEF IInv, Losses
  <2> QED
    BY <2>1, <1>1, HeadIs
<1>3. n.act \in SUBSET Block
  BY <1>2 DEF Note
<1> HIDE DEF n
<1>4. Memory'
  <2>1. o \in Cursor
    <3>1. owner[n.net] \in Cursor
      BY <1>2 DEF IInv, Memory
    <3> QED
      BY <3>1, <1>3, MarkSeenIs
  <2> HIDE DEF o
  <2> QED
    BY <2>1, <1>1, <1>2, OwnerMoves DEF IInv
<1>5. f \in [Clients -> Conn] /\ \A c \in Clients : Held(f[c]) <=> Held(conn[c])
  BY <1>3, DeliverActionsIs DEF IInv, Sockets
<1>6. Sockets' /\ \A c \in Clients : Held(conn[c])' <=> Held(conn[c])
  <2> HIDE DEF f
  <2> QED
    BY <1>1, <1>5, SocketsMove DEF IInv
<1>7. Store' /\ Tasks' /\ Serialized' /\ Whole' /\ Counted'
  BY <1>1, <1>6, SameStore, SameTasks, SameSerialized, SameWhole, SameCounted DEF IInv
<1> QED
  BY <1>2, <1>4, <1>6, <1>7 DEF IInv

LEMMA DeliverMissedKeeps ==
  ASSUME HubAssumption, IInv, DeliverMissed
  PROVE  IInv'
<1> DEFINE net == task[Loop].net
           A == task[Loop].latest
           f == DeliverActions(net, A)
           fresh == A \ owner[net].seen
           o == MarkSeen(owner[net], fresh)
           t == [task[Loop] EXCEPT !.pc = "next", !.since = 0, !.latest = {}]
<1>1. UNCHANGED <<table, forks, samples, acts, scanned, commits, ring, lock, snap, members, slots>>
      /\ Losses' /\ faults'.torn = faults.torn
  BY Unharmed DEF DeliverMissed, env
<1>2. task[Loop].pc = "mark" /\ conn' = f /\ owner' = [owner EXCEPT ![net] = o]
  BY DEF DeliverMissed, At
<1>3. task' = [task EXCEPT ![Loop].pc = "next", ![Loop].since = 0, ![Loop].latest = {}]
  BY DEF DeliverMissed
<1>4. task[Loop] \in Task /\ net \in Networks /\ Loop \in Procs /\ "next" \notin Refreshing /\ "next" \in Steps
      /\ 0 \in 0 .. MaxHeight
  BY <1>2, TaskIs, SizesAre DEF Procs, Refreshing, Steps
<1>5. A \in SUBSET Block /\ fresh \in SUBSET Block /\ owner[net] \in Cursor
  BY <1>4 DEF Task, IInv, Memory
<1>6. Memory'
  <2>1. o \in Cursor
    BY <1>5, MarkSeenIs
  <2> HIDE DEF o
  <2> QED
    BY <2>1, <1>1, <1>2, <1>4, OwnerMoves DEF IInv
<1>7. f \in [Clients -> Conn] /\ \A c \in Clients : Held(f[c]) <=> Held(conn[c])
  BY <1>5, DeliverActionsIs DEF IInv, Sockets
<1>8. Sockets' /\ \A c \in Clients : Held(conn[c])' <=> Held(conn[c])
  <2> HIDE DEF f
  <2> QED
    BY <1>1, <1>2, <1>7, SocketsMove DEF IInv
<1>9. t \in Task /\ t.pc = "next"
  BY <1>4 DEF Task
<1>10. task' = [task EXCEPT ![Loop] = t]
  BY <1>3, <1>4 DEF IInv, Tasks
<1> HIDE DEF f, net, A, t
<1> QED
  BY <1>1, <1>4, <1>6, <1>8, <1>9, <1>10, GoesOn

-----------------------------------------------------------------------------
(* One socket's steps. *)
LEMMA ConnIs ==
  ASSUME IInv, NEW c \in Clients
  PROVE  conn[c] \in Conn
  BY DEF IInv, Sockets

LEMMA OneMoves ==
  ASSUME Sockets, NEW c \in Clients, NEW k \in Conn, conn' = [conn EXCEPT ![c] = k], UNCHANGED members,
         Held(k) <=> Held(conn[c])
  PROVE  Sockets' /\ \A d \in Clients : Held(conn[d])' <=> Held(conn[d])
<1> DEFINE f == [conn EXCEPT ![c] = k]
<1>1. f \in [Clients -> Conn] /\ \A d \in Clients : Held(f[d]) <=> Held(conn[d])
  BY DEF Sockets
<1> HIDE DEF f
<1> QED
  BY <1>1, SocketsMove DEF f

LEMMA SocketMoves ==
  ASSUME HubAssumption, IInv, NEW c \in Clients, NEW k \in Conn, conn' = [conn EXCEPT ![c] = k],
         Held(k) <=> Held(conn[c]), UNCHANGED <<env, faults, nets, members, slots, task>>
  PROVE  IInv'
<1>1. UNCHANGED <<table, forks, samples, acts, scanned, commits, up, inbox, ring, lock, snap, owner>>
  BY DEF env, nets
<1>2. Sockets' /\ \A d \in Clients : Held(conn[d])' <=> Held(conn[d])
  BY OneMoves DEF IInv
<1>3. Counted'
  BY <1>2, SameCounted DEF IInv
<1>4. Store' /\ Losses' /\ Memory' /\ Tasks' /\ Serialized' /\ Whole'
  BY <1>1, SameStore, SameLosses, SameMemory, SameTasks, SameSerialized, SameWhole DEF IInv
<1> QED
  BY <1>2, <1>3, <1>4 DEF IInv

LEMMA WriteKeeps ==
  ASSUME HubAssumption, IInv, NEW c \in Clients, Write(c)
  PROVE  IInv'
<1> DEFINE q == conn[c].queued - 1
           k == [conn[c] EXCEPT !.queued = q]
<1>1. conn' = [conn EXCEPT ![c] = k] /\ conn[c].queued > 0
      /\ UNCHANGED <<env, faults, nets, members, slots, task>>
  BY DEF Write
<1>2. conn[c] \in Conn
  BY ConnIs
<1>3. q \in 0 .. QueueSize
  <2>1. conn[c].queued \in 0 .. QueueSize /\ QueueSize \in Nat
    BY <1>2, SizesAre DEF Conn
  <2> QED
    BY <2>1, <1>1
<1>4. k \in Conn /\ k.st = conn[c].st
  <2> HIDE DEF q
  <2> QED
    BY <1>2, <1>3 DEF Conn
<1> HIDE DEF k
<1> QED
  BY <1>1, <1>4, SocketMoves DEF Held

LEMMA PingKeeps ==
  ASSUME HubAssumption, IInv, NEW c \in Clients, Ping(c)
  PROVE  IInv'
<1> DEFINE n == conn[c].missed + 1
           a == [conn[c] EXCEPT !.st = "returning"]
           b == [conn[c] EXCEPT !.missed = n]
           k == IF conn[c].missed >= MissedPingLimit THEN a ELSE b
<1>1. conn' = [conn EXCEPT ![c] = k] /\ conn[c].st = "open"
      /\ UNCHANGED <<env, faults, nets, members, slots, task>>
  BY DEF Ping
<1>2. conn[c] \in Conn /\ MissedPingLimit \in Nat /\ "returning" \in States
  BY ConnIs, SizesAre DEF States
<1>3. conn[c].missed \in 0 .. MissedPingLimit
  BY <1>2 DEF Conn
<1>4. k \in Conn /\ k.st \in {"open", "returning"}
  <2>1. a \in Conn /\ a.st = "returning"
    BY <1>2 DEF Conn
  <2>2. CASE conn[c].missed < MissedPingLimit
    <3>1. n \in 0 .. MissedPingLimit
      BY <1>2, <1>3, <2>2
    <3>2. b \in Conn /\ b.st = "open"
      <4> HIDE DEF n
      <4> QED
        BY <3>1, <1>1, <1>2 DEF Conn
    <3>3. k = b
      BY <1>2, <1>3, <2>2
    <3> HIDE DEF k, b
    <3> QED
      BY <3>2, <3>3
  <2>3. CASE ~ conn[c].missed < MissedPingLimit
    <3>1. k = a
      BY <1>2, <1>3, <2>3
    <3> HIDE DEF k, a
    <3> QED
      BY <2>1, <3>1
  <2> QED
    BY <2>2, <2>3
<1> HIDE DEF k
<1> QED
  BY <1>1, <1>4, SocketMoves DEF Held

LEMMA PongKeeps ==
  ASSUME HubAssumption, IInv, NEW c \in Clients, Pong(c)
  PROVE  IInv'
<1> DEFINE k == [conn[c] EXCEPT !.missed = 0]
<1>1. conn' = [conn EXCEPT ![c] = k] /\ UNCHANGED <<env, faults, nets, members, slots, task>>
  BY DEF Pong
<1>2. k \in Conn /\ k.st = conn[c].st
  <2>1. conn[c] \in Conn /\ 0 \in 0 .. MissedPingLimit
    BY ConnIs, SizesAre
  <2> QED
    BY <2>1 DEF Conn
<1> HIDE DEF k
<1> QED
  BY <1>1, <1>2, SocketMoves DEF Held

LEMMA LeaveKeeps ==
  ASSUME HubAssumption, IInv, NEW c \in Clients, Leave(c)
  PROVE  IInv'
<1>1. PICK st \in {"closing", "returning"} : conn' = [conn EXCEPT ![c].st = st]
  BY DEF Leave
<1> DEFINE k == [conn[c] EXCEPT !.st = st]
<1>2. conn' = [conn EXCEPT ![c] = k] /\ conn[c].st = "open"
      /\ UNCHANGED <<env, faults, nets, members, slots, task>>
  BY <1>1 DEF Leave
<1>3. k \in Conn /\ k.st = st
  <2>1. conn[c] \in Conn /\ st \in States
    BY ConnIs DEF States
  <2> QED
    BY <2>1 DEF Conn
<1> HIDE DEF k
<1> QED
  BY <1>2, <1>3, SocketMoves DEF Held

LEMMA RefuseKeeps ==
  ASSUME HubAssumption, IInv, NEW c \in Clients, Refuse(c)
  PROVE  IInv'
<1> DEFINE a == [conn[c] EXCEPT !.st = "returning"]
           k == IF conn[c].st = "accepted" THEN a ELSE Enqueue(conn[c], conn[c])
<1>1. UNCHANGED <<table, forks, samples, acts, scanned, commits, ring, lock, snap, owner, members, slots>>
      /\ Losses' /\ faults'.torn = faults.torn
  BY Unharmed DEF Refuse, env, nets
<1>2. task' = [task EXCEPT ![c] = Idle] /\ conn' = [conn EXCEPT ![c] = k]
  BY DEF Refuse
<1>3. k \in Conn /\ (Held(k) <=> Held(conn[c]))
  <2>1. conn[c] \in Conn /\ "returning" \in States
    BY ConnIs DEF States
  <2>2. a \in Conn /\ a.st = "returning"
    BY <2>1 DEF Conn
  <2>3. CASE conn[c].st = "accepted"
    <3> HIDE DEF a
    <3> QED
      BY <2>2, <2>3 DEF Held
  <2>4. CASE conn[c].st # "accepted"
    BY <2>1, <2>4, EnqueueIs
  <2> QED
    BY <2>3, <2>4
<1> HIDE DEF k
<1>4. Sockets' /\ \A d \in Clients : Held(conn[d])' <=> Held(conn[d])
  BY <1>1, <1>2, <1>3, OneMoves DEF IInv
<1>5. Memory' /\ c \in Procs /\ "idle" \notin Refreshing
  BY <1>1, SameMemory, ClientIs DEF IInv, Refreshing
<1> QED
  BY <1>1, <1>2, <1>4, <1>5, IdleIs, GoesOn

LEMMA SubscribeKeeps ==
  ASSUME HubAssumption, IInv, NEW c \in Clients, Subscribe(c)
  PROVE  IInv'
<1> DEFINE net == task[c].net
           k == Hello(conn[c], net, task[c].tick)
           f == [conn EXCEPT ![c] = k]
<1>1. UNCHANGED <<table, forks, samples, acts, scanned, commits, ring, lock, snap, owner, slots>>
      /\ Losses' /\ faults'.torn = faults.torn
  BY Unharmed DEF Subscribe, env, nets
<1>2. /\ task[c].pc = "subscribe" /\ task' = [task EXCEPT ![c] = Idle] /\ conn' = f
      /\ members' = [n \in Networks |-> IF n = net THEN members[n] \cup {c} ELSE members[n] \ {c}]
  BY DEF Subscribe, At
<1>3. task[c] \in Task /\ net \in Networks /\ c \in Procs /\ "idle" \notin Refreshing
  BY <1>2, TaskIs, ClientIs DEF Refreshing
<1>4. k \in Conn /\ (Held(k) <=> Held(conn[c]))
  <2>1. conn[c] \in Conn /\ task[c].tick \in Sample /\ Memory
    BY <1>3, ConnIs DEF Task, IInv
  <2> QED
    BY <1>3, <2>1, HelloIs
<1> HIDE DEF k
<1>5. f \in [Clients -> Conn] /\ \A d \in Clients : Held(f[d]) <=> Held(conn[d])
  BY <1>4 DEF IInv, Sockets
<1> HIDE DEF f
<1>6. Sockets' /\ \A d \in Clients : Held(conn[d])' <=> Held(conn[d])
  <2>1. members' \in [Networks -> SUBSET Clients]
    BY <1>2 DEF IInv, Sockets
  <2> QED
    BY <2>1, <1>2, <1>5 DEF Sockets, Held
<1>7. Memory'
  BY <1>1, SameMemory DEF IInv
<1> HIDE DEF net
<1> QED
  BY <1>1, <1>2, <1>3, <1>6, <1>7, IdleIs, GoesOn

(* A socket is admitted, or gives its slot back. *)
LEMMA AdmittedIs ==
  ASSUME Counted, NEW a \in {Address[c] : c \in Clients}
  PROVE  /\ IsFiniteSet(Admitted) /\ IsFiniteSet({d \in Admitted : Address[d] = a})
         /\ slots.total = Cardinality(Admitted) /\ slots.total \in Nat
         /\ slots.perIP[a] = Cardinality({d \in Admitted : Address[d] = a}) /\ slots.perIP[a] \in Nat
<1>1. IsFiniteSet(Admitted) /\ {d \in Admitted : Address[d] = a} \subseteq Admitted
  BY DEF Counted
<1>2. IsFiniteSet({d \in Admitted : Address[d] = a})
  BY <1>1, FS_Subset
<1> QED
  BY <1>1, <1>2 DEF Counted

LEMMA NewConnIs ==
  ASSUME HubAssumption, NEW net \in SomeNet
  PROVE  [NewConn EXCEPT !.st = "unsubscribed", !.net = net] \in Conn
         /\ [NewConn EXCEPT !.st = "unsubscribed", !.net = net].st = "unsubscribed" /\ NewConn \in Conn /\ NewConn.st = "new"
<1>1. /\ NoSample \in Sample /\ 0 \in 0 .. MaxHeight /\ 0 \in 0 .. QueueSize /\ 0 \in 0 .. MissedPingLimit
      /\ {"new", "unsubscribed"} \subseteq States /\ NoOne \in SomeNet
  BY NoSampleIs, SizesAre DEF States, SomeNet
<1>2. NewConn \in Conn /\ NewConn.st = "new"
  BY <1>1 DEF NewConn, Conn
<1>3. [NewConn EXCEPT !.st = "unsubscribed", !.net = net] \in Conn /\ [NewConn EXCEPT !.st = "unsubscribed", !.net = net].st = "unsubscribed"
  BY <1>1, <1>2 DEF Conn
<1> QED
  BY <1>2, <1>3

LEMMA ConnectCounts ==
  ASSUME HubAssumption, Counted, NEW c \in Clients, conn[c].st = "new", NEW k, k.st = "accepted",
         conn \in [Clients -> Conn], conn' = [conn EXCEPT ![c] = k],
         slots' = [total |-> slots.total + 1, perIP |-> [slots.perIP EXCEPT ![Address[c]] = @ + 1]]
  PROVE  Counted'
<1> DEFINE A == Admitted
           Of(a) == {d \in A : Address[d] = a}
<1>1. Admitted' = A \cup {c} /\ c \notin A
  BY DEF Admitted
<1>2. /\ \A a \in {Address[d] : d \in Clients} : IsFiniteSet(Of(a)) /\ Cardinality(Of(a)) \in Nat
                                                 /\ slots.perIP[a] = Cardinality(Of(a))
      /\ IsFiniteSet(A) /\ slots.total = Cardinality(A) /\ slots.total \in Nat
  <2>1. Address[c] \in {Address[d] : d \in Clients}
    OBVIOUS
  <2> QED
    BY <2>1, AdmittedIs
<1>3. slots \in [total : Nat, perIP : [{Address[d] : d \in Clients} -> Nat]]
  BY DEF Counted
<1>4. slots'.total = slots.total + 1 /\ slots'.perIP = [slots.perIP EXCEPT ![Address[c]] = @ + 1]
      /\ slots' \in [total : Nat, perIP : [{Address[d] : d \in Clients} -> Nat]]
  BY <1>3
<1>5. IsFiniteSet(A \cup {c}) /\ Cardinality(A \cup {c}) = Cardinality(A) + 1
  BY <1>1, <1>2, FS_AddElement
<1>6. ASSUME NEW a \in {Address[d] : d \in Clients}
      PROVE  slots'.perIP[a] = Cardinality({d \in A \cup {c} : Address[d] = a})
  <2>1. CASE a = Address[c]
    <3>1. {d \in A \cup {c} : Address[d] = a} = Of(a) \cup {c} /\ c \notin Of(a)
      BY <2>1, <1>1
    <3>2. Cardinality(Of(a) \cup {c}) = Cardinality(Of(a)) + 1
      BY <3>1, <1>2, FS_AddElement
    <3>3. slots'.perIP[a] = slots.perIP[a] + 1
      BY <2>1, <1>3, <1>4
    <3> QED
      BY <3>1, <3>2, <3>3, <1>2
  <2>2. CASE a # Address[c]
    <3>1. {d \in A \cup {c} : Address[d] = a} = Of(a)
      BY <2>2
    <3>2. slots'.perIP[a] = slots.perIP[a]
      BY <2>2, <1>3, <1>4
    <3> QED
      BY <3>1, <3>2, <1>2
  <2> QED
    BY <2>1, <2>2
<1> QED
  BY <1>1, <1>2, <1>4, <1>5, <1>6 DEF Counted

LEMMA ReleaseCounts ==
  ASSUME HubAssumption, Counted, NEW c \in Clients, Held(conn[c]), NEW k, k.st = "gone",
         conn \in [Clients -> Conn], conn' = [conn EXCEPT ![c] = k],
         slots' = [total |-> slots.total - 1, perIP |-> [slots.perIP EXCEPT ![Address[c]] = @ - 1]]
  PROVE  Counted'
<1> DEFINE A == Admitted
           Of(a) == {d \in A : Address[d] = a}
<1>1. Admitted' = A \ {c} /\ c \in A
  BY DEF Admitted, Held
<1>2. /\ \A a \in {Address[d] : d \in Clients} : IsFiniteSet(Of(a)) /\ Cardinality(Of(a)) \in Nat
                                                 /\ slots.perIP[a] = Cardinality(Of(a))
      /\ IsFiniteSet(A) /\ slots.total = Cardinality(A) /\ slots.total \in Nat
      /\ Address[c] \in {Address[d] : d \in Clients}
  <2>1. Address[c] \in {Address[d] : d \in Clients}
    OBVIOUS
  <2> QED
    BY <2>1, AdmittedIs
<1>3. slots \in [total : Nat, perIP : [{Address[d] : d \in Clients} -> Nat]]
  BY DEF Counted
<1>4. IsFiniteSet(A \ {c}) /\ Cardinality(A \ {c}) = Cardinality(A) - 1 /\ Cardinality(A \ {c}) \in Nat
  BY <1>1, <1>2, FS_RemoveElement, FS_CardinalityType
<1>5. /\ IsFiniteSet(Of(Address[c]) \ {c}) /\ Cardinality(Of(Address[c]) \ {c}) = Cardinality(Of(Address[c])) - 1
      /\ Cardinality(Of(Address[c]) \ {c}) \in Nat
  <2>1. c \in Of(Address[c])
    BY <1>1
  <2> QED
    BY <2>1, <1>2, FS_RemoveElement, FS_CardinalityType
<1>6. slots.total - 1 \in Nat /\ slots.perIP[Address[c]] - 1 \in Nat
  BY <1>2, <1>4, <1>5
<1>7. slots'.total = slots.total - 1 /\ slots'.perIP = [slots.perIP EXCEPT ![Address[c]] = @ - 1]
      /\ slots' \in [total : Nat, perIP : [{Address[d] : d \in Clients} -> Nat]]
  BY <1>3, <1>6
<1>8. ASSUME NEW a \in {Address[d] : d \in Clients}
      PROVE  slots'.perIP[a] = Cardinality({d \in A \ {c} : Address[d] = a})
  <2>1. CASE a = Address[c]
    <3>1. {d \in A \ {c} : Address[d] = a} = Of(a) \ {c}
      OBVIOUS
    <3>2. slots'.perIP[a] = slots.perIP[a] - 1
      BY <2>1, <1>3, <1>7
    <3> QED
      BY <3>1, <3>2, <2>1, <1>2, <1>5
  <2>2. CASE a # Address[c]
    <3>1. {d \in A \ {c} : Address[d] = a} = Of(a)
      BY <2>2
    <3>2. slots'.perIP[a] = slots.perIP[a]
      BY <2>2, <1>3, <1>7
    <3> QED
      BY <3>1, <3>2, <1>2
  <2> QED
    BY <2>1, <2>2
<1> QED
  BY <1>1, <1>2, <1>4, <1>7, <1>8 DEF Counted

LEMMA ConnectKeeps ==
  ASSUME HubAssumption, IInv, NEW c \in Clients, Connect(c)
  PROVE  IInv'
<1>1. PICK net \in Networks : task' = [task EXCEPT ![c] = [Idle EXCEPT !.pc = "prepare", !.net = net]]
  BY DEF Connect
<1> DEFINE t == [Idle EXCEPT !.pc = "prepare", !.net = net]
           k == [conn[c] EXCEPT !.st = "accepted"]
<1>2. /\ UNCHANGED <<table, forks, samples, acts, scanned, commits, ring, lock, snap, owner, members>>
      /\ Losses' /\ faults'.torn = faults.torn
  BY Unharmed DEF Connect, env, nets
<1>3. /\ conn[c].st = "new" /\ conn' = [conn EXCEPT ![c] = k]
      /\ slots' = [total |-> slots.total + 1, perIP |-> [slots.perIP EXCEPT ![Address[c]] = @ + 1]]
  BY DEF Connect
<1>4. k \in Conn /\ k.st = "accepted"
  <2>1. conn[c] \in Conn /\ "accepted" \in States
    BY ConnIs DEF States
  <2> QED
    BY <2>1 DEF Conn
<1>5. t \in Task /\ t.pc = "prepare" /\ t.net = net
  <2>1. net \in SomeNet /\ "prepare" \in Steps
    BY DEF SomeNet, Steps
  <2> QED
    BY <2>1, IdleIs DEF Task
<1>6. "prepare" \notin Refreshing /\ c \in Procs
  BY ClientIs DEF Refreshing
<1>7. task' = [task EXCEPT ![c] = t]
  BY <1>1
<1> HIDE DEF t, k
<1>8. Counted'
  BY <1>3, <1>4, ConnectCounts DEF IInv, Sockets
<1>9. Sockets'
  BY <1>2, <1>3, <1>4 DEF IInv, Sockets
<1>10. Tasks'
  BY <1>5, <1>6, <1>7, TaskMoves DEF IInv
<1>11. Serialized' /\ Whole'
  BY <1>2, <1>5, <1>6, <1>7, OutsideRefresh DEF IInv
<1> QED
  BY <1>2, <1>8, <1>9, <1>10, <1>11, SameStore, SameMemory DEF IInv

LEMMA UnsubscribeKeeps ==
  ASSUME HubAssumption, IInv, NEW c \in Clients, Unsubscribe(c)
  PROVE  IInv'
<1> DEFINE k == [NewConn EXCEPT !.st = "unsubscribed", !.net = conn[c].net]
<1>1. UNCHANGED <<table, forks, samples, acts, scanned, commits, faults, up, inbox, ring, lock, snap, owner,
                  slots, task>>
  BY DEF Unsubscribe, env, nets
<1>2. /\ conn[c].st \in {"returning", "closing"} /\ conn' = [conn EXCEPT ![c] = k]
      /\ members' = [n \in Networks |-> IF n = conn[c].net THEN members[n] \ {c} ELSE members[n]]
  BY DEF Unsubscribe
<1>3. k \in Conn /\ k.st = "unsubscribed"
  <2>1. conn[c].net \in SomeNet
    BY ConnIs DEF Conn
  <2> QED
    BY <2>1, NewConnIs
<1> HIDE DEF k
<1>4. \A d \in Clients : Held(conn[d])' <=> Held(conn[d])
  BY <1>2, <1>3 DEF IInv, Sockets, Held
<1>5. Sockets' /\ Counted'
  <2>1. members' \in [Networks -> SUBSET Clients]
    BY <1>2 DEF IInv, Sockets
  <2> QED
    BY <2>1, <1>1, <1>2, <1>3, <1>4, SameCounted DEF IInv, Sockets
<1> QED
  BY <1>1, <1>5, SameStore, SameLosses, SameMemory, SameTasks, SameSerialized, SameWhole DEF IInv

LEMMA CancelKeeps ==
  ASSUME HubAssumption, IInv, NEW c \in Clients, Cancel(c)
  PROVE  IInv'
<1> DEFINE k == [conn[c] EXCEPT !.st = "cancelled"]
<1>1. conn' = [conn EXCEPT ![c] = k] /\ conn[c].st = "unsubscribed"
      /\ UNCHANGED <<env, faults, nets, members, slots, task>>
  BY DEF Cancel
<1>2. k \in Conn /\ k.st = "cancelled"
  <2>1. conn[c] \in Conn /\ "cancelled" \in States
    BY ConnIs DEF States
  <2> QED
    BY <2>1 DEF Conn
<1> HIDE DEF k
<1> QED
  BY <1>1, <1>2, SocketMoves DEF Held

LEMMA ReleaseKeeps ==
  ASSUME HubAssumption, IInv, NEW c \in Clients, Release(c)
  PROVE  IInv'
<1> DEFINE k == [conn[c] EXCEPT !.st = "gone"]
<1>1. UNCHANGED <<table, forks, samples, acts, scanned, commits, faults, up, inbox, ring, lock, snap, owner,
                  members, task>>
  BY DEF Release, env, nets
<1>2. /\ conn[c].st = "cancelled" /\ conn' = [conn EXCEPT ![c] = k]
      /\ slots' = [total |-> slots.total - 1, perIP |-> [slots.perIP EXCEPT ![Address[c]] = @ - 1]]
  BY DEF Release
<1>3. k \in Conn /\ k.st = "gone"
  <2>1. conn[c] \in Conn /\ "gone" \in States
    BY ConnIs DEF States
  <2> QED
    BY <2>1 DEF Conn
<1> HIDE DEF k
<1>4. Sockets' /\ Counted'
  <2>1. Held(conn[c])
    BY <1>2 DEF Held
  <2> QED
    BY <2>1, <1>1, <1>2, <1>3, ReleaseCounts DEF IInv, Sockets
<1> QED
  BY <1>1, <1>4, SameStore, SameLosses, SameMemory, SameTasks, SameSerialized, SameWhole DEF IInv

-----------------------------------------------------------------------------
(* A refresh.  It starts when no other one of its network is under way.    *)
LEMMA RefreshLockKeeps ==
  ASSUME HubAssumption, IInv, NEW p \in Procs, RefreshLock(p)
  PROVE  IInv'
<1> DEFINE net == task[p].net
           from == IF ring[net] = {} THEN 0 ELSE Last(ring[net]) - 1
           t == [task[p] EXCEPT !.pc = "page", !.from = from, !.rows = {}]
<1>1. /\ UNCHANGED <<table, forks, samples, acts, scanned, commits, faults, up, inbox, ring, snap, owner,
                     members, slots, conn>>
      /\ task[p].pc = "lock" /\ lock[net] = NoOne /\ lock' = [lock EXCEPT ![net] = p]
  BY DEF RefreshLock, env, At
<1>2. task' = [task EXCEPT ![p].pc = "page", ![p].from = from, ![p].rows = {}]
  BY DEF RefreshLock
<1>3. task[p] \in Task /\ net \in Networks /\ "page" \in Steps
  BY <1>1, TaskIs DEF Steps
<1>4. ring[net] \in SUBSET Block
  BY <1>3 DEF IInv, Memory
<1>5. from \in 0 .. MaxHeight
  <2>1. CASE ring[net] = {}
    BY <2>1, SizesAre
  <2>2. CASE ring[net] # {}
    <3>1. PICK b \in ring[net] : b.n = Last(ring[net])
      BY <1>4, <2>2, LastIs
    <3>2. Last(ring[net]) \in 1 .. MaxHeight /\ MaxHeight \in Nat
      BY <1>4, <3>1, BlockIs, SizesAre
    <3> QED
      BY <2>2, <3>2
  <2> QED
    BY <2>1, <2>2
<1> HIDE DEF from
<1>6. t \in Task /\ t.pc = "page" /\ t.net = net /\ t.rows = {}
  BY <1>3, <1>5 DEF Task
<1>7. task' = [task EXCEPT ![p] = t]
  BY <1>2, <1>3 DEF IInv, Tasks
<1> HIDE DEF t
<1>8. Tasks'
  BY <1>3, <1>6, <1>7, TaskMoves DEF IInv
<1>9. \A q \in Procs : task'[q] = IF q = p THEN t ELSE task[q]
  BY <1>7 DEF IInv, Tasks
<1>10. Serialized'
  <2> SUFFICES ASSUME NEW q \in Procs, task'[q].pc \in Refreshing
               PROVE  Refreshed(task[q], q)'
    BY DEF Serialized, Refreshed
  <2>1. CASE q = p
    <3>1. lock'[net] = p
      BY <1>1, <1>3 DEF IInv, Memory
    <3> QED
      BY <2>1, <3>1, <1>6, <1>9 DEF Refreshed, OnePer
  <2>2. CASE q # p
    <3>1. task'[q] = task[q] /\ Refreshed(task[q], q)
      BY <1>9, <2>2 DEF IInv, Serialized
    <3>2. lock[task[q].net] = q /\ q # NoOne /\ task[q].net \in Networks
      BY <3>1, TaskIs, NoOneIsNoProc DEF Refreshed, Refreshing, NoProc
    <3>3. lock'[task[q].net] = lock[task[q].net]
      BY <3>2, <1>1, <1>3 DEF IInv, Memory
    <3> QED
      BY <3>1, <3>3, <1>1 DEF Refreshed
  <2> QED
    BY <2>1, <2>2
<1>11. Whole'
  <2>1. \A x \in Networks : Chained({}, x)
    BY DEF Chained
  <2> QED
    BY <2>1, <1>1, <1>6, <1>9 DEF IInv, Whole, Chained
<1>12. Memory'
  BY <1>1, <1>3 DEF IInv, Memory
<1> QED
  BY <1>1, <1>8, <1>10, <1>11, <1>12, SameStore, SameLosses, SameSockets, ConnCounted DEF IInv

(* Between its queries and its end nothing else moves. *)
LEMMA ReadsOn ==
  ASSUME HubAssumption, IInv, NEW p \in Procs, task[p].pc \in Refreshing,
         NEW t \in Task, task' = [task EXCEPT ![p] = t], t.pc \in Refreshing, t.net = task[p].net,
         UNCHANGED <<table, forks, samples, acts, scanned, commits, up, inbox, ring, lock, snap, owner,
                     members, slots, conn>>,
         OnePer(t.rows),
         t.pc = "page" => \A b \in t.rows : b.n <= t.from,
         t.pc = "page" /\ ring[t.net] = {} => t.rows = {},
         t.pc = "append" => TipOf(ring[t.net]) \subseteq t.rows,
         faults' = faults \/ faults' = [faults EXCEPT !.torn = @ \cup {t.net}],
         Chained(t.rows, t.net) \/ t.net \in faults'.torn
  PROVE  IInv'
<1>1. t.net \in Networks /\ {"idle", "next"} \cap Refreshing = {}
  BY TaskIs DEF Refreshing
<1>2. Tasks'
  BY <1>1, TaskMoves DEF IInv
<1>3. \A q \in Procs : task'[q] = IF q = p THEN t ELSE task[q]
  BY DEF IInv, Tasks
<1>4. Serialized'
  <2> SUFFICES ASSUME NEW q \in Procs
               PROVE  Refreshed(task[q], q)'
    BY DEF Serialized
  <2>1. Refreshed(task[q], q) /\ Refreshed(task[p], p)
    BY DEF IInv, Serialized
  <2>2. CASE q = p
    BY <2>1, <2>2, <1>3 DEF Refreshed
  <2>3. CASE q # p
    BY <2>1, <2>3, <1>3 DEF Refreshed
  <2> QED
    BY <2>2, <2>3
<1>5. Losses' /\ faults.torn \subseteq faults'.torn
  <2>1. faults \in Faults
    BY DEF IInv, Losses
  <2>2. faults' \in Faults /\ faults.torn \subseteq faults'.torn
    BY <2>1, <1>1 DEF Faults
  <2> QED
    BY <2>2 DEF IInv, Losses
<1>6. Whole'
  <2> SUFFICES ASSUME NEW x \in Networks \ faults'.torn
               PROVE  /\ Chained(ring[x], x)
                      /\ \A q \in Procs : task'[q].pc \in Refreshing /\ task'[q].net = x
                                          => Chained(task'[q].rows, x)
    BY DEF Whole, Chained
  <2>1. x \notin faults.torn
    BY <1>5
  <2> QED
    BY <2>1, <1>3 DEF IInv, Whole
<1> QED
  BY <1>2, <1>4, <1>5, <1>6, SameStore, SameMemory, SameSockets, ConnCounted DEF IInv

LEMMA ReadPageKeeps ==
  ASSUME HubAssumption, IInv, NEW p \in Procs, ReadPage(p)
  PROVE  IInv'
<1> DEFINE net == task[p].net
           from == task[p].from
           page == IF ring[net] = {} THEN Newest(table[net], HelloBlocks)
                   ELSE Oldest(Above(table[net], from), RingSize)
           rows == task[p].rows \cup page
           more == ring[net] # {} /\ Cardinality(page) = RingSize
           to == IF more THEN Last(page) ELSE 0
           pc == IF more THEN "page" ELSE IF TipOf(ring[net]) \subseteq rows THEN "append" ELSE "recent"
           t == [task[p] EXCEPT !.rows = rows, !.from = to, !.pc = pc]
<1>1. UNCHANGED <<table, forks, samples, acts, scanned, commits, up, inbox, ring, lock, snap, owner,
                  members, slots, conn>>
  BY DEF ReadPage, env, nets
<1>2. task[p].pc = "page" /\ task' = [task EXCEPT ![p].rows = rows, ![p].from = to, ![p].pc = pc]
  BY DEF ReadPage, At
<1>3. faults' = IF task[p].rows \subseteq table[net] THEN faults ELSE [faults EXCEPT !.torn = @ \cup {net}]
  BY DEF ReadPage
<1>4. task[p] \in Task /\ net \in Networks /\ {"page", "append", "recent"} \subseteq Refreshing /\ pc \in Steps
  BY <1>2, TaskIs DEF Refreshing, Steps
<1>5. /\ OnePer(task[p].rows) /\ \A b \in task[p].rows : b.n <= from
      /\ ring[net] = {} => task[p].rows = {}
  BY <1>2 DEF IInv, Serialized, Refreshed, Refreshing
<1>6. task[p].rows \in SUBSET Block /\ from \in 0 .. MaxHeight
  BY <1>4 DEF Task
<1>7. table[net] \in SUBSET Block /\ OnePer(table[net])
  BY <1>4 DEF IInv, Store
<1>8. page \subseteq table[net] /\ (ring[net] # {} => \A b \in page : b.n > from)
  BY DEF Newest, Oldest, Above
<1>9. page \in SUBSET Block /\ OnePer(page)
  BY <1>7, <1>8, OnePerSubset
<1>10. rows \in SUBSET Block
  BY <1>6, <1>9
<1>11. Last(page) \in 0 .. MaxHeight /\ to \in 0 .. MaxHeight
  <2> HIDE DEF page, more
  <2> QED
    BY <1>9, LastIs, SizesAre
<1>12. OnePer(rows)
  <2>1. CASE ring[net] = {}
    BY <2>1, <1>5, <1>9
  <2>2. CASE ring[net] # {}
    <3>1. UpTo(task[p].rows, from) = task[p].rows /\ Above(page, from) = page
      BY <2>2, <1>5, <1>8 DEF UpTo, Above
    <3>2. OnePer(UpTo(task[p].rows, from) \cup Above(page, from))
      <4> HIDE DEF page
      <4> QED
        BY <1>5, <1>6, <1>9, OnePerJoin
    <3> QED
      BY <3>1, <3>2
  <2> QED
    BY <2>1, <2>2
<1>13. more => \A b \in rows : b.n <= to
  <2> SUFFICES ASSUME more
               PROVE  \A b \in rows : b.n <= Last(page)
    OBVIOUS
  <2>1. Cardinality(page) = RingSize /\ RingSize > 0
    BY DEF HubAssumption
  <2>2. page # {}
    <3> HIDE DEF page
    <3> QED
      BY <2>1, FS_EmptySet
  <2>3. PICK d \in page : d.n = Last(page)
    <3> HIDE DEF page
    <3> QED
      BY <1>9, <2>2, LastIs
  <2>4. \A b \in page : b.n <= Last(page)
    <3> HIDE DEF page
    <3> QED
      BY <1>9, LastIs
  <2>5. d.n > from /\ d.n \in Nat /\ Last(page) \in Nat
    <3>1. d.n > from
      BY <1>8
    <3>2. d.n \in Nat
      BY <1>9, BlockIs
    <3> QED
      BY <3>1, <3>2, <2>3
  <2>6. \A b \in task[p].rows : b.n <= Last(page)
    <3> TAKE b \in task[p].rows
    <3>1. b.n \in Nat /\ b.n <= from
      BY <1>5, <1>6, BlockIs
    <3> HIDE DEF page
    <3> QED
      BY <3>1, <2>3, <2>5, <1>6
  <2> QED
    BY <2>4, <2>6
<1>14. t \in Task /\ t.pc = pc /\ t.net = net /\ t.rows = rows /\ t.from = to
  <2> HIDE DEF rows, to, pc
  <2> QED
    BY <1>4, <1>10, <1>11 DEF Task
<1>15. task' = [task EXCEPT ![p] = t]
  <2> HIDE DEF rows, to, pc
  <2> QED
    BY <1>2, <1>4 DEF IInv, Tasks
<1>16. faults' = faults \/ faults' = [faults EXCEPT !.torn = @ \cup {net}]
  BY <1>3
<1>17. Chained(rows, net) \/ net \in faults'.torn
  <2>1. CASE task[p].rows \subseteq table[net]
    <3>1. rows \in SUBSET table[net]
      BY <2>1, <1>8
    <3> HIDE DEF rows
    <3> QED
      BY <3>1, <1>4, ChainedTable DEF IInv
  <2>2. CASE ~ task[p].rows \subseteq table[net]
    BY <2>2, <1>3 DEF IInv, Losses, Faults
  <2> QED
    BY <2>1, <2>2
<1>18. /\ pc \in Refreshing /\ (pc = "page" <=> more) /\ (more => ring[net] # {})
       /\ pc = "append" => TipOf(ring[net]) \subseteq rows
  BY <1>4
<1>19. task[p].pc \in Refreshing
  BY <1>2, <1>4
<1> HIDE DEF t, pc, rows, more, to
<1>20. /\ OnePer(t.rows) /\ t.pc \in Refreshing /\ t.net = net
       /\ t.pc = "page" => \A b \in t.rows : b.n <= t.from
       /\ t.pc = "page" /\ ring[t.net] = {} => t.rows = {}
       /\ t.pc = "append" => TipOf(ring[t.net]) \subseteq t.rows
       /\ Chained(t.rows, t.net) \/ t.net \in faults'.torn
  BY <1>12, <1>13, <1>14, <1>17, <1>18
<1> QED
  BY <1>1, <1>14, <1>15, <1>16, <1>19, <1>20, ReadsOn

LEMMA ReadRecentKeeps ==
  ASSUME HubAssumption, IInv, NEW p \in Procs, ReadRecent(p)
  PROVE  IInv'
<1> DEFINE net == task[p].net
           rows == Newest(table[net], RingSize)
           t == [task[p] EXCEPT !.rows = rows, !.pc = "replace"]
<1>1. UNCHANGED <<table, forks, samples, acts, scanned, commits, up, inbox, ring, lock, snap, owner,
                  members, slots, conn>> /\ UNCHANGED faults
  BY DEF ReadRecent, env, nets
<1>2. task[p].pc = "recent" /\ task' = [task EXCEPT ![p].rows = rows, ![p].pc = "replace"]
  BY DEF ReadRecent, At
<1>3. task[p] \in Task /\ net \in Networks /\ {"recent", "replace"} \subseteq Refreshing /\ "replace" \in Steps
  BY <1>2, TaskIs DEF Refreshing, Steps
<1>4. rows \in SUBSET table[net] /\ table[net] \in SUBSET Block /\ OnePer(table[net])
  BY <1>3 DEF IInv, Store, Newest
<1>5. OnePer(rows) /\ Chained(rows, net)
  <2> HIDE DEF rows
  <2> QED
    BY <1>3, <1>4, OnePerSubset, ChainedTable DEF IInv
<1> HIDE DEF rows
<1>6. t \in Task /\ t.pc = "replace" /\ t.net = net /\ t.rows = rows
  BY <1>3, <1>4 DEF Task
<1>7. task' = [task EXCEPT ![p] = t]
  BY <1>2, <1>3 DEF IInv, Tasks
<1>8. task[p].pc \in Refreshing
  BY <1>2, <1>3
<1> HIDE DEF t
<1>9. /\ t.pc \in Refreshing /\ t.pc \notin {"page", "append"} /\ t.net = net
      /\ OnePer(t.rows) /\ Chained(t.rows, t.net)
  BY <1>3, <1>5, <1>6
<1> QED
  BY <1>1, <1>6, <1>7, <1>8, <1>9, ReadsOn

(* The end of a refresh: refreshMu is let go, and the ring is one chain's  *)
(* if no refresh of the network read on after a rewind.                    *)
LEMMA RefreshEnds ==
  ASSUME HubAssumption, IInv, NEW p \in Procs, task[p].pc \in Refreshing,
         NEW t \in Task, task' = [task EXCEPT ![p] = t], t.pc \in {"deliver", "refuse"}, t.net = task[p].net,
         UNCHANGED <<table, forks, samples, acts, scanned, commits, snap, members, slots, conn>>,
         lock' = [lock EXCEPT ![t.net] = NoOne],
         NEW R \in SUBSET Block, ring' = [ring EXCEPT ![t.net] = R],
         OnePer(R), Cardinality(R) <= RingSize, t.net \notin faults.torn => Chained(R, t.net),
         owner' \in [Networks -> Cursor], Losses', faults'.torn = faults.torn
  PROVE  IInv'
<1>1. t.net \in Networks /\ t.pc \notin Refreshing
  BY TaskIs DEF Refreshing
<1>2. Tasks'
  BY <1>1, TaskMoves DEF IInv
<1>3. \A q \in Procs : task'[q] = IF q = p THEN t ELSE task[q]
  BY DEF IInv, Tasks
<1>4. \A x \in Networks : ring'[x] = IF x = t.net THEN R ELSE ring[x]
  BY DEF IInv, Memory
<1>5. Memory'
  BY <1>1, <1>4 DEF IInv, Memory
<1>6. Serialized'
  <2>1. Tasks /\ Serialized /\ Memory
    BY DEF IInv
  <2>2. \A x \in Networks \ {task[p].net} : ring'[x] = ring[x]
    BY <1>4
  <2> QED
    BY <2>1, <2>2, <1>1, EndsRefresh
<1>7. Whole'
  <2> SUFFICES ASSUME NEW x \in Networks \ faults.torn
               PROVE  /\ Chained(ring'[x], x)
                      /\ \A q \in Procs : task'[q].pc \in Refreshing /\ task'[q].net = x
                                          => Chained(task'[q].rows, x)
    BY DEF Whole, Chained
  <2>1. Chained(ring'[x], x)
    BY <1>4 DEF IInv, Whole
  <2> QED
    BY <2>1, <1>1, <1>3 DEF IInv, Whole
<1> QED
  BY <1>2, <1>5, <1>6, <1>7, SameStore, SameSockets, ConnCounted DEF IInv

LEMMA AppendRowsKeeps ==
  ASSUME HubAssumption, IInv, NEW p \in Procs, AppendRows(p)
  PROVE  IInv'
<1> DEFINE net == task[p].net
           rows == task[p].rows
           top == Last(ring[net])
           added == Above(rows, top)
           R == Newest(ring[net] \cup added, RingSize)
           d == [NoDelta EXCEPT !.blocks = added]
           t == [task[p] EXCEPT !.pc = "deliver", !.rows = {}, !.delta = d]
<1>1. UNCHANGED <<table, forks, samples, acts, scanned, commits, snap, owner, members, slots, conn>>
      /\ Losses' /\ faults'.torn = faults.torn
  BY Unharmed DEF AppendRows, env
<1>2. task[p].pc = "append" /\ ring' = [ring EXCEPT ![net] = R] /\ lock' = [lock EXCEPT ![net] = NoOne]
  BY DEF AppendRows, At
<1>3. task' = [task EXCEPT ![p].pc = "deliver", ![p].rows = {}, ![p].delta = d]
  BY DEF AppendRows
<1>4. task[p] \in Task /\ net \in Networks /\ "append" \in Refreshing /\ "deliver" \in Steps
  BY <1>2, TaskIs DEF Refreshing, Steps
<1>5. OnePer(rows) /\ TipOf(ring[net]) \subseteq rows
  BY <1>2 DEF IInv, Serialized, Refreshed, Refreshing
<1>6. rows \in SUBSET Block /\ ring[net] \in SUBSET Block /\ OnePer(ring[net])
  BY <1>4 DEF Task, IInv, Memory
<1>7. top \in 0 .. MaxHeight /\ top \in Nat /\ \A b \in ring[net] : b.n <= top
  BY <1>6, LastIs, SizesAre
<1>8. added \in SUBSET Block
  BY <1>6 DEF Above
<1>9. UpTo(ring[net], top) = ring[net]
  BY <1>7 DEF UpTo
<1>10. OnePer(ring[net] \cup added)
  <2>1. OnePer(UpTo(ring[net], top) \cup Above(rows, top))
    <3> HIDE DEF top
    <3> QED
      BY <1>5, <1>6, <1>7, OnePerJoin
  <2> QED
    BY <2>1, <1>9
<1>11. R \subseteq ring[net] \cup added /\ Cardinality(R) <= RingSize
  <2>1. ring[net] \cup added \in SUBSET Block /\ RingSize \in Nat
    BY <1>6, <1>8, SizesAre
  <2> HIDE DEF added
  <2> QED
    BY <2>1, <1>10, NewestIs
<1>12. OnePer(R) /\ R \in SUBSET Block
  <2> HIDE DEF R, added
  <2> QED
    BY <1>6, <1>8, <1>10, <1>11, OnePerSubset
<1>13. net \notin faults.torn => Chained(R, net)
  <2> SUFFICES ASSUME net \notin faults.torn
               PROVE  Chained(R, net)
    OBVIOUS
  <2>1. Chained(ring[net], net) /\ Chained(rows, net)
    BY <1>2, <1>4 DEF IInv, Whole
  <2>2. UpTo(ring[net], top) = {} \/ \E b \in ring[net] \cap rows : b.n = top
    <3>1. CASE ring[net] = {}
      BY <1>9, <3>1
    <3>2. CASE ring[net] # {}
      <4>1. PICK b \in ring[net] : b.n = top
        BY <1>6, <3>2, LastIs
      <4>2. b \in TipOf(ring[net])
        BY <4>1 DEF TipOf
      <4> QED
        BY <4>1, <4>2, <1>5
    <3> QED
      BY <3>1, <3>2
  <2>3. Store
    BY DEF IInv
  <2>4. Chained(UpTo(ring[net], top) \cup Above(rows, top), net)
    <3> HIDE DEF top, rows, net
    <3> QED
      BY <2>1, <2>2, <2>3, <1>4, <1>6, <1>7, ChainedJoin
  <2>5. Chained(ring[net] \cup added, net)
    BY <2>4, <1>9
  <2> HIDE DEF R, added
  <2> QED
    BY <2>5, <1>11, ChainedSubset
<1>14. d \in Delta
  <2> HIDE DEF added
  <2> QED
    BY <1>8, NoDeltaIs DEF Delta
<1>15. t \in Task /\ t.pc = "deliver" /\ t.net = net
  <2> HIDE DEF d
  <2> QED
    BY <1>4, <1>14 DEF Task
<1>16. task' = [task EXCEPT ![p] = t]
  <2> HIDE DEF d
  <2> QED
    BY <1>3, <1>4 DEF IInv, Tasks
<1>17. owner' \in [Networks -> Cursor]
  BY <1>1 DEF IInv, Memory
<1> HIDE DEF t, R, net
<1> QED
  BY <1>1, <1>2, <1>4, <1>11, <1>12, <1>13, <1>15, <1>16, <1>17, RefreshEnds DEF net

LEMMA ReplaceRingKeeps ==
  ASSUME HubAssumption, IInv, NEW p \in Procs, ReplaceRing(p)
  PROVE  IInv'
<1> DEFINE net == task[p].net
           rows == task[p].rows
           both == Agreeing(ring[net], rows)
           anc == Last(both)
           new == Above(rows, anc)
           J == UpTo(ring[net], anc) \cup new
           R == Newest(J, RingSize)
           o == ForgetActionsAbove(owner[net], anc)
           d == [reorg |-> TRUE, anc |-> anc, blocks |-> new]
           t == [task[p] EXCEPT !.pc = "deliver", !.rows = {}, !.delta = d]
<1>1. UNCHANGED <<table, forks, samples, acts, scanned, commits, snap, members, slots, conn>>
      /\ Losses' /\ faults'.torn = faults.torn
  BY Unharmed DEF ReplaceRing, env
<1>2. task[p].pc = "replace" /\ ring' = [ring EXCEPT ![net] = R] /\ lock' = [lock EXCEPT ![net] = NoOne]
      /\ owner' = [owner EXCEPT ![net] = o]
  BY DEF ReplaceRing, At
<1>3. task' = [task EXCEPT ![p].pc = "deliver", ![p].rows = {}, ![p].delta = d]
  BY DEF ReplaceRing
<1>4. task[p] \in Task /\ net \in Networks /\ "replace" \in Refreshing /\ "deliver" \in Steps
  BY <1>2, TaskIs DEF Refreshing, Steps
<1>5. OnePer(rows)
  BY <1>2 DEF IInv, Serialized, Refreshed, Refreshing
<1>6. rows \in SUBSET Block /\ ring[net] \in SUBSET Block /\ OnePer(ring[net])
  BY <1>4 DEF Task, IInv, Memory
<1>7. both \in SUBSET Block /\ both = ring[net] \cap rows
  BY <1>6 DEF Agreeing
<1>8. anc \in 0 .. MaxHeight /\ anc \in Nat
  <2> HIDE DEF both
  <2> QED
    BY <1>7, LastIs, SizesAre
<1>9. new \in SUBSET Block /\ J \in SUBSET Block
  BY <1>6 DEF Above, UpTo
<1>10. OnePer(J)
  <2> HIDE DEF anc
  <2> QED
    BY <1>5, <1>6, <1>8, OnePerJoin
<1>11. R \subseteq J /\ Cardinality(R) <= RingSize
  <2> HIDE DEF J
  <2> QED
    BY <1>9, <1>10, SizesAre, NewestIs
<1>12. OnePer(R) /\ R \in SUBSET Block
  <2> HIDE DEF R, J
  <2> QED
    BY <1>9, <1>10, <1>11, OnePerSubset
<1>13. net \notin faults.torn => Chained(R, net)
  <2> SUFFICES ASSUME net \notin faults.torn
               PROVE  Chained(R, net)
    OBVIOUS
  <2>1. Chained(ring[net], net) /\ Chained(rows, net)
    BY <1>2, <1>4 DEF IInv, Whole
  <2>2. UpTo(ring[net], anc) = {} \/ \E b \in ring[net] \cap rows : b.n = anc
    <3>1. CASE both = {}
      <4>1. anc = 0
        <5> HIDE DEF both
        <5> QED
          BY <3>1, <1>7, LastIs
      <4>2. \A b \in ring[net] : b.n \in Nat /\ b.n >= 1
        BY <1>6, BlockIs
      <4> HIDE DEF anc
      <4> QED
        BY <4>1, <4>2 DEF UpTo
    <3>2. CASE both # {}
      <4>1. \E b \in both : b.n = anc
        <5> HIDE DEF both
        <5> QED
          BY <3>2, <1>7, LastIs
      <4> QED
        BY <4>1, <1>7
    <3> QED
      BY <3>1, <3>2
  <2>3. Store
    BY DEF IInv
  <2>4. Chained(J, net)
    <3> HIDE DEF anc, rows, net
    <3> QED
      BY <2>1, <2>2, <2>3, <1>4, <1>6, <1>8, ChainedJoin
  <2> HIDE DEF R, J
  <2> QED
    BY <2>4, <1>11, ChainedSubset
<1>14. d \in Delta
  <2> HIDE DEF anc, new
  <2> QED
    BY <1>8, <1>9 DEF Delta
<1>15. t \in Task /\ t.pc = "deliver" /\ t.net = net
  <2> HIDE DEF d
  <2> QED
    BY <1>4, <1>14 DEF Task
<1>16. task' = [task EXCEPT ![p] = t]
  <2> HIDE DEF d
  <2> QED
    BY <1>3, <1>4 DEF IInv, Tasks
<1>17. owner' \in [Networks -> Cursor]
  <2>1. owner[net] \in Cursor
    BY <1>4 DEF IInv, Memory
  <2>2. o \in Cursor
    <3> HIDE DEF anc
    <3> QED
      BY <2>1, <1>8, ForgetIs
  <2> HIDE DEF o
  <2> QED
    BY <2>2, <1>2 DEF IInv, Memory
<1> HIDE DEF t, R, net
<1> QED
  BY <1>1, <1>2, <1>4, <1>11, <1>12, <1>13, <1>15, <1>16, <1>17, RefreshEnds DEF net

LEMMA RefreshFailsKeeps ==
  ASSUME HubAssumption, IInv, NEW p \in Procs, RefreshFails(p)
  PROVE  IInv'
<1> DEFINE net == task[p].net
           pc == IF p = Loop THEN "deliver" ELSE "refuse"
           t == [task[p] EXCEPT !.pc = pc, !.rows = {}, !.from = 0]
<1>1. /\ UNCHANGED <<table, forks, samples, acts, scanned, commits, snap, members, slots, conn>>
      /\ UNCHANGED <<up, inbox, ring, owner>> /\ Failing(p)
      /\ task[p].pc \in {"page", "recent"} /\ lock' = [lock EXCEPT ![net] = NoOne]
  BY DEF RefreshFails, env
<1>2. task' = [task EXCEPT ![p].pc = pc, ![p].rows = {}, ![p].from = 0]
  BY DEF RefreshFails
<1>3. task[p] \in Task /\ net \in Networks /\ {"page", "recent"} \subseteq Refreshing /\ pc \in Steps
      /\ pc \in {"deliver", "refuse"} /\ 0 \in 0 .. MaxHeight
  BY <1>1, TaskIs, SizesAre DEF Refreshing, Steps
<1>4. Losses' /\ faults'.torn = faults.torn
  BY <1>1, FailingIs DEF IInv
<1>5. t \in Task /\ t.pc = pc /\ t.net = net
  <2> HIDE DEF pc
  <2> QED
    BY <1>3 DEF Task
<1>6. task' = [task EXCEPT ![p] = t]
  <2> HIDE DEF pc
  <2> QED
    BY <1>2, <1>3 DEF IInv, Tasks
<1>7. /\ ring[net] \in SUBSET Block /\ OnePer(ring[net]) /\ Cardinality(ring[net]) <= RingSize
      /\ ring' = [ring EXCEPT ![net] = ring[net]] /\ owner' \in [Networks -> Cursor]
  BY <1>1, <1>3 DEF IInv, Memory
<1>8. net \notin faults.torn => Chained(ring[net], net)
  BY <1>3 DEF IInv, Whole
<1> HIDE DEF t, pc
<1> QED
  BY <1>1, <1>3, <1>4, <1>5, <1>6, <1>7, <1>8, RefreshEnds

-----------------------------------------------------------------------------
(* The start: nothing has been rewound, read or refused. *)
LEMMA SeedIs ==
  ASSUME HubAssumption
  PROVE  LET S == {[n |-> i, h |-> 0] : i \in 1 .. SeedHeight}
         IN  S \in SUBSET Block /\ OnePer(S) /\ \A b \in S : b.h <= 0
<1> DEFINE S == {[n |-> i, h |-> 0] : i \in 1 .. SeedHeight}
<1>1. SeedHeight \in 1 .. MaxHeight /\ MaxHeight \in Nat /\ MaxForks \in Nat
  BY DEF HubAssumption
<1>2. S \in SUBSET Block
  BY <1>1 DEF Block
<1>3. OnePer(S) /\ \A b \in S : b.h <= 0
  BY DEF OnePer
<1> QED
  BY <1>2, <1>3

LEMMA InitStore ==
  ASSUME HubAssumption, Init
  PROVE  Store
<1> DEFINE S == {[n |-> i, h |-> 0] : i \in 1 .. SeedHeight}
           s == [n |-> SeedHeight, at |-> 0]
<1>1. S \in SUBSET Block /\ OnePer(S) /\ \A b \in S : b.h <= 0
  BY SeedIs
<1>2. /\ table = [net \in Networks |-> S] /\ forks = [net \in Networks |-> 0]
      /\ samples = [net \in Networks |-> {s}] /\ acts = [net \in Networks |-> {}]
      /\ scanned = [net \in Networks |-> 0] /\ commits = [net \in Networks |-> 0]
  BY DEF Init
<1>3. s \in Sample
  <2>1. SeedHeight \in 0 .. MaxHeight /\ 0 \in 0 .. MaxCommits + MaxForks
    BY SizesAre DEF HubAssumption
  <2> QED
    BY <2>1 DEF Sample
<1>4. 0 \in 0 .. MaxForks /\ 0 \in 0 .. MaxCommits /\ 0 \in 0 .. MaxHeight
  BY SizesAre
<1> HIDE DEF S, s
<1> QED
  BY <1>1, <1>2, <1>3, <1>4 DEF Store

LEMMA InitMemory ==
  ASSUME HubAssumption, Init
  PROVE  Memory /\ \A net \in Networks : Chained(ring[net], net)
<1>1. Store
  BY InitStore
<1>2. ASSUME NEW net \in Networks
      PROVE  /\ ring[net] \in SUBSET Block /\ OnePer(ring[net]) /\ Cardinality(ring[net]) <= RingSize
             /\ snap[net] \in Sample /\ Chained(ring[net], net)
  <2> DEFINE N == Newest(table[net], HelloBlocks)
  <2>1. table[net] \in SUBSET Block /\ OnePer(table[net])
    BY <1>1 DEF Store
  <2>2. N \subseteq table[net] /\ Cardinality(N) <= HelloBlocks
    BY <2>1, SizesAre, NewestIs
  <2>3. Cardinality(N) <= RingSize /\ N \in SUBSET Block
    <3>1. HelloBlocks <= RingSize /\ HelloBlocks \in Nat /\ RingSize \in Nat
      BY SizesAre
    <3>2. IsFiniteSet(N)
      <4>1. IsFiniteSet(Block) /\ N \in SUBSET Block
        BY <2>1, <2>2, BlockFinite
      <4> HIDE DEF N
      <4> QED
        BY <4>1, FS_Subset
    <3>3. Cardinality(N) \in Nat
      <4> HIDE DEF N
      <4> QED
        BY <3>2, FS_CardinalityType
    <3> QED
      BY <3>1, <3>3, <2>1, <2>2
  <2>4. OnePer(N) /\ Chained(N, net)
    <3> HIDE DEF N
    <3> QED
      BY <1>1, <2>1, <2>2, OnePerSubset, ChainedTable
  <2>5. OnePer({}) /\ Chained({}, net) /\ Cardinality({}) = 0
    BY FS_EmptySet DEF OnePer, Chained
  <2>6. ring[net] = IF Warm THEN N ELSE {}
    BY DEF Init
  <2>7. snap[net] = IF Warm THEN LatestSample(net) ELSE NoSample
    BY DEF Init
  <2>8. snap[net] \in Sample
    BY <2>7, <1>1, LatestIs, NoSampleIs
  <2>9. 0 <= RingSize
    BY SizesAre
  <2> HIDE DEF N
  <2> QED
    BY <2>3, <2>4, <2>5, <2>6, <2>8, <2>9
<1>3. lock \in [Networks -> Procs \cup {NoOne}]
  BY DEF Init
<1>4. owner \in [Networks -> Cursor]
  <2>1. [init |-> Warm, since |-> 0, seen |-> {}] \in Cursor
    BY SizesAre DEF HubAssumption, Cursor
  <2> QED
    BY <2>1 DEF Init
<1>5. ring \in [Networks -> SUBSET Block] /\ snap \in [Networks -> Sample]
  <2>1. ring = [net \in Networks |-> ring[net]] /\ snap = [net \in Networks |-> snap[net]]
    BY DEF Init
  <2> QED
    BY <2>1, <1>2
<1> QED
  BY <1>2, <1>3, <1>4, <1>5 DEF Memory

LEMMA InitIInv ==
  ASSUME HubAssumption, Init
  PROVE  IInv
<1>1. Store /\ Memory /\ \A net \in Networks : Chained(ring[net], net)
  BY InitStore, InitMemory
<1>2. Losses
  <2>1. faults = [queries |-> 0, outages |-> 0, torn |-> {}, late |-> {}, unmade |-> {}]
        /\ up = TRUE /\ inbox = <<>>
    BY DEF Init
  <2> QED
    BY <2>1 DEF Losses, Faults
<1>3. \A c \in Clients : conn[c] = NewConn
  BY DEF Init
<1>4. Sockets
  <2>1. NoOne \in SomeNet
    BY DEF SomeNet
  <2>2. NewConn \in Conn
    BY <2>1, NewConnIs
  <2> QED
    BY <2>2 DEF Init, Sockets
<1>5. Tasks /\ \A p \in Procs : task[p] = Idle
  BY IdleIs DEF Init, Tasks
<1>6. Counted
  <2>1. Admitted = {}
    <3>1. NewConn.st = "new"
      BY DEF NewConn
    <3> QED
      BY <3>1, <1>3 DEF Admitted
  <2>2. IsFiniteSet({}) /\ Cardinality({}) = 0
    BY FS_EmptySet
  <2>3. \A a : {d \in Admitted : Address[d] = a} = {}
    BY <2>1
  <2>4. slots = [total |-> 0, perIP |-> [a \in {Address[c] : c \in Clients} |-> 0]]
    BY DEF Init
  <2> QED
    BY <2>1, <2>2, <2>3, <2>4 DEF Counted
<1>7. Serialized /\ Whole
  <2>1. "idle" \notin Refreshing
    BY DEF Refreshing
  <2> QED
    BY <2>1, <1>1, <1>5, IdleIs DEF Serialized, Refreshed, Whole
<1> QED
  BY <1>1, <1>2, <1>4, <1>5, <1>6, <1>7 DEF IInv

LEMMA StutterKeeps ==
  ASSUME IInv, UNCHANGED vars
  PROVE  IInv'
<1>1. UNCHANGED <<table, forks, samples, acts, scanned, commits, faults, up, inbox, ring, lock, snap, owner,
                  members, slots, conn, task>>
  BY DEF vars
<1> QED
  BY <1>1, SameStore, SameLosses, SameMemory, SameSockets, SameTasks, SameSerialized, ConnCounted, SameWhole
  DEF IInv

LEMMA NextKeeps ==
  ASSUME HubAssumption, IInv, [Next]_vars
  PROVE  IInv'
<1>1. CASE Collector
  BY <1>1, CommitKeeps, RewindKeeps, RecordActionKeeps, RetickKeeps DEF Collector
<1>2. CASE Disconnect \/ Reconnect
  BY <1>2, LinkKeeps
<1>3. CASE Handle
  BY <1>3, HandleLiveKeeps, FanOutLiveKeeps, HandleOwnerActionKeeps, ReconcileKeeps, ReconcileNextKeeps,
     NewerSnapshotKeeps, FanOutReconciledKeeps, OwnerActionsSinceKeeps, DeliverMissedKeeps DEF Handle
<1>4. ASSUME NEW p \in Procs, Refresh(p)
      PROVE  IInv'
  BY <1>4, RefreshLockKeeps, ReadPageKeeps, AppendRowsKeeps, ReadRecentKeeps, ReplaceRingKeeps,
     RefreshFailsKeeps DEF Refresh
<1>5. ASSUME NEW c \in Clients, Serve(c)
      PROVE  IInv'
  BY <1>5, PrepareKeeps, BroadcastKeeps, OwnerCursorKeeps, InitOwnerCursorKeeps, FallbackKeeps,
     PrepareFailsKeeps, RefuseKeeps, SubscribeKeeps DEF Serve
<1>6. ASSUME NEW c \in Clients,
             Connect(c) \/ Switch(c) \/ Write(c) \/ Ping(c) \/ Pong(c) \/ Leave(c) \/ Return(c)
      PROVE  IInv'
  BY <1>6, ConnectKeeps, SwitchKeeps, WriteKeeps, PingKeeps, PongKeeps, LeaveKeeps, UnsubscribeKeeps,
     CancelKeeps, ReleaseKeeps DEF Return
<1>7. CASE UNCHANGED vars
  BY <1>7, StutterKeeps
<1> QED
  BY <1>1, <1>2, <1>3, <1>4, <1>5, <1>6, <1>7 DEF Next

LEMMA SpecIInv ==
  ASSUME HubAssumption
  PROVE  Spec => []IInv
<1>1. Init => IInv
  BY InitIInv
<1>2. IInv /\ [Next]_vars => IInv'
  BY NextKeeps
<1> QED
  BY <1>1, <1>2, PTL DEF Spec

-----------------------------------------------------------------------------
(* The hub's state is always one of its own kind: rings within ringSize,   *)
(* queues and missed pings within their limits (ws.go's netState, client). *)
THEOREM HubTyped == HubAssumption => (Spec => []TypeOK)
<1> SUFFICES ASSUME HubAssumption PROVE Spec => []TypeOK
  OBVIOUS
<1>1. IInv => TypeOK
  <2> SUFFICES ASSUME IInv PROVE TypeOK
    OBVIOUS
  <2>1. ASSUME NEW net \in Networks
        PROVE  /\ table[net] \subseteq Block /\ ring[net] \subseteq Block /\ acts[net] \subseteq Block
               /\ samples[net] \subseteq Sample /\ snap[net] \in Sample
               /\ lock[net] \in Procs \cup {NoOne} /\ members[net] \subseteq Clients
               /\ owner[net] \in [init : BOOLEAN, since : 0 .. MaxHeight, seen : SUBSET Block]
               /\ Cardinality(ring[net]) <= RingSize
    BY DEF IInv, Store, Memory, Sockets, Cursor
  <2>2. ASSUME NEW c \in Clients
        PROVE  /\ conn[c].queued \in 0 .. QueueSize /\ conn[c].missed \in 0 .. MissedPingLimit
               /\ conn[c].view \subseteq Block /\ conn[c].net \in Networks \cup {NoOne}
               /\ conn[c].mark \in 0 .. MaxHeight /\ conn[c].tick \in Sample
    BY ConnIs DEF Conn, SomeNet
  <2>3. ASSUME NEW p \in Procs
        PROVE  task[p].rows \subseteq Block /\ task[p].delta \in Delta
    BY TaskIs DEF Task
  <2> QED
    BY <2>1, <2>2, <2>3 DEF TypeOK
<1> QED
  BY <1>1, SpecIInv, PTL

(* The slots of every address are exactly its admitted sockets, for any    *)
(* number of them and any way out of ServeWS (Hub.admit, Hub.release): the *)
(* invariant adds that a socket changes from outside to inside and back    *)
(* only where a slot is taken and given back.                              *)
THEOREM SlotsCounted == HubAssumption => (Spec => []SlotsExact)
<1> SUFFICES ASSUME HubAssumption PROVE Spec => []SlotsExact
  OBVIOUS
<1>1. IInv => SlotsExact
  BY DEF IInv, Counted, SlotsExact
<1> QED
  BY <1>1, SpecIInv, PTL

(* The ring is one chain's whatever is rewound, committed or refused       *)
(* between a refresh's queries, for every number of networks, sockets and  *)
(* sizes (Hub.refreshBlocks, reorgRing): refreshMu makes a refresh's rows  *)
(* its own, the tip among the appended rows and the highest agreeing entry *)
(* carry the chain across the join.                                        *)
THEOREM RingHeld == HubAssumption => (Spec => []RingOnChain)
<1> SUFFICES ASSUME HubAssumption PROVE Spec => []RingOnChain
  OBVIOUS
<1>1. IInv => RingOnChain
  <2> SUFFICES ASSUME IInv, NEW net \in Networks \ faults.torn, TipOf(ring[net]) \subseteq table[net]
               PROVE  ring[net] \subseteq table[net]
    BY DEF RingOnChain
  <2>1. ring[net] \in SUBSET Block /\ Chained(ring[net], net)
    BY DEF IInv, Memory, Whole
  <2>2. CASE ring[net] = {}
    BY <2>2
  <2>3. CASE ring[net] # {}
    <3>1. PICK b \in ring[net] : b.n = Last(ring[net])
      BY <2>1, <2>3, LastIs
    <3>2. b \in table[net]
      BY <3>1 DEF TipOf
    <3>3. UpTo(ring[net], b.n) \subseteq table[net]
      BY <3>2, <2>1 DEF Chained
    <3>4. \A d \in ring[net] : d.n <= b.n
      BY <2>1, <3>1, LastIs
    <3> QED
      BY <3>3, <3>4 DEF UpTo
  <2> QED
    BY <2>2, <2>3
<1> QED
  BY <1>1, SpecIInv, PTL
=============================================================================
