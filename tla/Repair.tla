------------------------------- MODULE Repair -------------------------------
(***************************************************************************)
(* The poster-gas repair (collector/postergas.go): one pass over the rows  *)
(* stored without poster gas, batch by batch from a durable forward-only   *)
(* cursor, narrowing a batch that fails down to one block, passing over a  *)
(* block that failed maxRepairAttempts times and sweeping those again, up  *)
(* to maxRepairSweeps. Rewinds, prunes, crashes and lost commit answers    *)
(* happen between any two steps. A row is its number, which is also its    *)
(* timestamp; rewinds stay above the live start (Backfill models the       *)
(* others).                                                                *)
(***************************************************************************)
EXTENDS Integers, FiniteSets, FiniteSetsExt

CONSTANTS
    Lacking0,       \* rows stored without poster gas
    Head,           \* the newest row
    Boundary,       \* start of the first live block's hour
    Frontier0,      \* prune frontier recorded before the pass began
    Width,          \* width of the finest bucket
    Unreadable,     \* blocks whose receipts never describe them
    HeaderBatch, MinBatch, MaxAttempts, MaxSweeps, MaxSkipped,
    MaxOutages,     \* bound: reads that fail although every block is readable
    MaxFaults       \* bound: rewinds, prunes, crashes and failing commits

RepairAssumption ==
    /\ Lacking0 \subseteq 1..Head /\ Head \in Nat /\ Unreadable \subseteq Lacking0
    /\ {HeaderBatch, MinBatch, MaxAttempts, MaxSweeps, MaxSkipped, Width} \subseteq Nat \ {0}
    /\ {Boundary, Frontier0, MaxOutages, MaxFaults} \subseteq Nat
    /\ Boundary % Width = 0     \* an hour is a whole number of the finest buckets

VARIABLES
    lacking,    \* blocks: rows whose poster_gas is null
    cursor,     \* StatePosterGasRepair
    frontier,   \* StatePruneFrontier
    generation, \* the rewind counter
    step,       \* the step in flight: what it listed before the network call
    narrow,     \* repairNarrow, 0 when unset
    attempts,   \* repairBlock and repairAttempts
    outages, faults, \* environment
    tries,      \* history: single-block reads of each block that failed
    gone        \* history: blocks that need no reading any more, read or rewound

vars == <<lacking, cursor, frontier, generation, step, narrow, attempts, outages, faults, tries, gone>>
environment == <<outages, faults>>
history == <<tries, gone>>

None == [on |-> FALSE, gen |-> 0, targets |-> {}, next |-> 0]
NoAttempts == [block |-> 0, count |-> 0]

Least(s, n) == CHOOSE t \in SUBSET s : /\ Cardinality(t) = Min({n, Cardinality(s)})
                                       /\ \A x \in t, y \in s \ t : x < y

-----------------------------------------------------------------------------

(* repairBatchFor, for every budget the endpoint may have to spare. *)
Sizes == LET spare == {HeaderBatch} \cup {Max({avail, MinBatch}) : avail \in 0..(HeaderBatch - 1)}
         IN  {IF narrow > 0 THEN Min({narrow, n}) ELSE n : n \in spare}

(* BlocksMissingPosterGas. *)
Listed(n) == Least({b \in lacking : b >= cursor.next}, n)

Backfilled(b) == b < Boundary
Stale(b) == b - (b % Width) < frontier
Repairable(rows) == {b \in rows : ~Backfilled(b) /\ ~Stale(b)}

Widen == narrow' = 0 /\ attempts' = NoAttempts

(* repairSwept. *)
Swept ==
    IF cursor.skipped = {} \/ cursor.sweeps + 1 >= MaxSweeps
    THEN cursor' = [cursor EXCEPT !.done = TRUE] /\ UNCHANGED <<narrow, attempts>>
    ELSE /\ cursor' = [cursor EXCEPT !.next = Min(cursor.skipped), !.skipped = {}, !.sweeps = @ + 1]
         /\ Widen

(* repairStep up to its network call. *)
SweepEnds ==
    /\ ~step.on /\ ~cursor.done
    /\ {b \in lacking : b >= cursor.next} = {}
    /\ Swept
    /\ UNCHANGED <<lacking, frontier, generation, step, environment, history>>

PassOver ==
    /\ ~step.on /\ ~cursor.done
    /\ \E n \in Sizes :
        /\ Listed(n) # {} /\ Repairable(Listed(n)) = {}
        /\ cursor' = [cursor EXCEPT !.next = Max(Listed(n)) + 1]
    /\ UNCHANGED <<lacking, frontier, generation, step, narrow, attempts, environment, history>>

RepairList ==
    /\ ~step.on /\ ~cursor.done
    /\ \E n \in Sizes :
        /\ Repairable(Listed(n)) # {}
        /\ step' = [on |-> TRUE, gen |-> generation, targets |-> Repairable(Listed(n)),
                    next |-> Max(Listed(n)) + 1]
    /\ UNCHANGED <<lacking, cursor, frontier, generation, narrow, attempts, environment, history>>

(* The receipts arrived: the values, the rebuilds and the cursor commit    *)
(* together, unless the chain was rewound meanwhile or the commit fails. A *)
(* commit whose answer is lost is the first case: the next step reads the  *)
(* cursor it stored.                                                       *)
RepairCommit ==
    /\ step.on /\ step.targets \cap Unreadable = {}
    /\ Widen /\ step' = None
    /\ \/ /\ generation = step.gen
          /\ lacking' = lacking \ step.targets
          /\ gone' = gone \cup step.targets
          /\ cursor' = [cursor EXCEPT !.next = step.next]
          /\ UNCHANGED faults
       \/ /\ generation # step.gen
          /\ UNCHANGED <<lacking, gone, cursor, faults>>
       \/ /\ faults < MaxFaults /\ faults' = faults + 1
          /\ UNCHANGED <<lacking, gone, cursor>>
    /\ UNCHANGED <<frontier, generation, outages, tries>>

(* Mutant: the first failure of a lone block passes it over. *)
GiveUpAtOnce(first) == TRUE

GiveUp(first) == (IF attempts.block = first THEN attempts.count ELSE 0) + 1 >= MaxAttempts

(* repairFailed: the cursor is saved outside any generation check. *)
RepairFailed ==
    /\ step.on
    /\ \/ step.targets \cap Unreadable # {} /\ UNCHANGED outages
       \/ outages < MaxOutages /\ outages' = outages + 1
    /\ step' = None
    /\ IF Cardinality(step.targets) > 1
       THEN /\ narrow' = Cardinality(step.targets) \div 2
            /\ UNCHANGED <<cursor, attempts, tries>>
       ELSE LET first == Min(step.targets)
            IN  /\ attempts' = [block |-> first,
                                count |-> (IF attempts.block = first THEN attempts.count ELSE 0) + 1]
                /\ tries' = [tries EXCEPT ![first] = IF @ < MaxAttempts * MaxSweeps THEN @ + 1 ELSE @]
                /\ cursor' = IF ~GiveUp(first) THEN cursor
                             ELSE [cursor EXCEPT !.next = first + 1,
                                                 !.skipped = IF Cardinality(@) < MaxSkipped
                                                             THEN @ \cup {first} ELSE @]
                /\ UNCHANGED narrow
    /\ UNCHANGED <<lacking, frontier, generation, faults, gone>>

-----------------------------------------------------------------------------
(* rewind: rows above the ancestor go; the ones stored again carry poster  *)
(* gas.                                                                    *)
Rewind ==
    /\ faults < MaxFaults /\ faults' = faults + 1
    /\ \E ancestor \in Boundary..(Head - 1) :
        /\ lacking' = {b \in lacking : b <= ancestor}
        /\ gone' = gone \cup {b \in lacking : b > ancestor}
    /\ generation' = generation + 1
    /\ UNCHANGED <<cursor, frontier, step, narrow, attempts, outages, tries>>

(* pruneCutoff with pinRepair. *)
Cutoff(before) == IF ~cursor.done /\ Boundary < before THEN Boundary ELSE before

Prune ==
    /\ faults < MaxFaults /\ faults' = faults + 1
    /\ \E before \in 1..Head :
        /\ lacking' = {b \in lacking : b >= Cutoff(before)}
        /\ frontier' = Max({frontier, Cutoff(before)})
    /\ UNCHANGED <<cursor, generation, step, narrow, attempts, outages, history>>

(* A crash: what is in memory is lost. *)
Crash ==
    /\ faults < MaxFaults /\ faults' = faults + 1
    /\ step' = None /\ Widen
    /\ UNCHANGED <<lacking, cursor, frontier, generation, outages, history>>

Init ==
    /\ lacking = Lacking0
    /\ cursor = [next |-> 0, done |-> FALSE, skipped |-> {}, sweeps |-> 0]
    /\ frontier = Frontier0 /\ generation = 0 /\ step = None
    /\ narrow = 0 /\ attempts = NoAttempts
    /\ outages = 0 /\ faults = 0
    /\ tries = [b \in Lacking0 |-> 0] /\ gone = {}

RepairStep == SweepEnds \/ PassOver \/ RepairList \/ RepairCommit \/ RepairFailed
Done == cursor.done /\ ~step.on /\ UNCHANGED vars
Next == RepairStep \/ Rewind \/ Prune \/ Crash \/ Done

Spec == Init /\ [][Next]_vars
Fair == Spec /\ WF_vars(RepairStep)

-----------------------------------------------------------------------------
(* The cursor, the narrowing and the step in flight have their types, and  *)
(* a pass never sweeps more often than it may.                             *)
TypeOK ==
    /\ lacking \subseteq Lacking0 /\ step.targets \subseteq Lacking0
    /\ cursor.sweeps \in 0..(MaxSweeps - 1)
    /\ cursor.skipped \subseteq Lacking0 /\ Cardinality(cursor.skipped) <= MaxSkipped
    /\ narrow \in 0..Max({HeaderBatch, MinBatch}) /\ attempts.count \in 0..MaxAttempts

(* The rows this pass is about: those whose buckets are rebuilt from rows  *)
(* and were whole when it began.                                           *)
Owed == {b \in Lacking0 : b >= Boundary /\ b - (b % Width) >= Frontier0} \ gone

(* A block behind the forward-only cursor was read, or rewound, or failed  *)
(* on its own maxRepairAttempts times in every sweep so far: no outage,    *)
(* narrowing, crash, prune or lost answer walks the cursor past a block    *)
(* (repairFailed, repairSwept, pruneCutoff).                               *)
PassedMeansTried ==
    \A b \in Owed : b < cursor.next => tries[b] >= MaxAttempts * (cursor.sweeps + 1)

(* A finished pass gave up only on blocks it tried in every sweep it is    *)
(* allowed, also when more blocks failed than the cursor can remember.     *)
DoneMeansTried ==
    cursor.done => \A b \in Owed : tries[b] >= MaxAttempts * MaxSweeps

(* The pass ends: a block that fails for ever narrows the batch to itself, *)
(* is given up, and stops the sweeps.                                      *)
RepairEnds == <>cursor.done
=============================================================================
