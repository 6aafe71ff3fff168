------------------------------- MODULE History -------------------------------
(***************************************************************************)
(* The history loop (Follower.runHistory in collector/run.go) and the      *)
(* gates of collector.go: every iteration gives the gap filler a step,     *)
(* then the poster-gas repair, and the backfill what neither needs, while  *)
(* each job defers to a busy fast loop on a counter of its own. A job is   *)
(* the batches it has left; what a batch does is modelled in Follower,     *)
(* Repair and Backfill.                                                    *)
(***************************************************************************)
EXTENDS Naturals, FiniteSets

CONSTANTS
    MaxDeferrals,   \* maxRecoveryDeferrals
    MaxWork,        \* bound: batches each job starts with
    Broken,         \* whether the filler's hole fails every time it is tried
    MaxErrors,      \* bound: failing and discarded steps
    MaxTurns        \* bound on the iterations a job is seen to wait

Jobs == {"fill", "repair", "backfill"}

HistoryAssumption ==
    /\ {MaxDeferrals, MaxTurns} \subseteq Nat \ {0}
    /\ MaxWork \in Nat /\ MaxErrors \in Nat /\ Broken \in BOOLEAN

VARIABLES
    pc,         \* the step the loop is at, or asleep
    filled,     \* what FillStep returned this iteration
    repaired,   \* what RepairStep returned
    deferrals,  \* recoveryDeferrals, repairDeferrals, backfillDeferrals
    work,       \* batches left of each job
    hole,       \* the failing hole: due, waiting for its retry, or seen waiting
    retried,    \* its RetryCount, counted up to 2
    busy,       \* environment: fastLoopBusy
    errors,     \* environment: failing and discarded steps so far
    waited      \* history: the loop's iterations since each job's last turn

environment == <<busy, errors>>
retrying == <<hole, retried>>
vars == <<pc, filled, repaired, deferrals, work, hole, retried, busy, errors, waited>>

-----------------------------------------------------------------------------
(* deferredWait: whether the job yields this turn, and its next count. *)
MustWait(job) == busy /\ deferrals[job] + 1 < MaxDeferrals

Gate(job) == deferrals' = [deferrals EXCEPT ![job] = IF MustWait(job) THEN @ + 1 ELSE 0]

(* A step past its gate: a batch done, or a failure, or a step discarded   *)
(* because a rewind changed the generation.                                *)
Progress(job) == work' = [work EXCEPT ![job] = @ - 1] /\ UNCHANGED errors
Fault == errors < MaxErrors /\ errors' = errors + 1 /\ UNCHANGED work

Later(n) == IF n < MaxTurns THEN n + 1 ELSE n

-----------------------------------------------------------------------------
(* Mutant: a hole waiting for its retry counts as work put off. *)
FillPutOff ==
    /\ work["fill"] = 0 \/ hole # "due"
    /\ filled' = IF work["fill"] = 0 THEN "none" ELSE "idle"
    /\ hole' = IF hole = "waiting" THEN "seen" ELSE hole
    /\ UNCHANGED <<deferrals, work, retried, errors>>

(* FillStep. A hole whose retry is not due leaves nothing to fill; a       *)
(* failing one is put off (recordFillFailure).                             *)
FillNone ==
    /\ work["fill"] = 0 \/ hole # "due"
    /\ filled' = "none"
    /\ hole' = IF hole = "waiting" THEN "seen" ELSE hole
    /\ UNCHANGED <<deferrals, work, retried, errors>>

FillIdle ==
    /\ work["fill"] > 0 /\ hole = "due" /\ MustWait("fill")
    /\ Gate("fill")
    /\ filled' = "idle"
    /\ UNCHANGED <<work, retrying, errors>>

FillTurn ==
    /\ work["fill"] > 0 /\ hole = "due" /\ ~MustWait("fill")
    /\ Gate("fill")
    /\ \/ ~Broken /\ Progress("fill") /\ filled' = "progressed" /\ UNCHANGED retrying
       \/ ~Broken /\ Fault /\ filled' = "idle" /\ UNCHANGED retrying
       \/ /\ IF Broken THEN UNCHANGED <<work, errors>> ELSE Fault
          /\ filled' = "error"
          /\ hole' = "waiting" /\ retried' = IF retried < 2 THEN retried + 1 ELSE 2

FillStep ==
    /\ FillNone \/ FillIdle \/ FillTurn
    /\ waited' = [waited EXCEPT !["repair"] = IF work["repair"] > 0 THEN Later(@) ELSE @,
                                !["fill"] = IF filled' = "idle" /\ UNCHANGED errors THEN Later(@) ELSE 0]
    /\ UNCHANGED <<repaired, busy>>

Fill == pc = "fill" /\ FillStep /\ pc' = "repair"

(* NextRetryAt passes. The first delay is the loop's own restart delay,    *)
(* every later one is longer, so the loop comes round while it runs.       *)
RetryDue ==
    /\ hole = "seen" \/ (hole = "waiting" /\ retried < 2)
    /\ hole' = "due"
    /\ UNCHANGED <<pc, filled, repaired, deferrals, work, retried, environment, waited>>

-----------------------------------------------------------------------------
(* RepairStep, which runs whatever the filler did. *)
RepairNone == work["repair"] = 0 /\ repaired' = "none" /\ UNCHANGED <<deferrals, work, errors, waited>>

RepairIdle ==
    /\ work["repair"] > 0 /\ MustWait("repair")
    /\ Gate("repair")
    /\ repaired' = "idle"
    /\ UNCHANGED <<work, errors, waited>>

RepairTurn ==
    /\ work["repair"] > 0 /\ ~MustWait("repair")
    /\ Gate("repair")
    /\ waited' = [waited EXCEPT !["repair"] = 0]
    /\ \/ Progress("repair") /\ repaired' = "progressed"
       \/ Fault /\ repaired' \in {"idle", "error"}

(* Where the iteration goes: asleep after a failure, on at once after      *)
(* progress, asleep when a job with work yielded, else to the backfill.    *)
After ==
    IF "error" \in {repaired', filled} THEN "sleep"
    ELSE IF "progressed" \in {repaired', filled} THEN "fill"
    ELSE IF "idle" \in {repaired', filled} THEN "sleep"
    ELSE "backfill"

Repair ==
    /\ pc = "repair"
    /\ RepairNone \/ RepairIdle \/ RepairTurn
    /\ pc' = After
    /\ UNCHANGED <<filled, retrying, busy>>

-----------------------------------------------------------------------------
(* BackfillStep: a finished one is polled at the idle cadence. *)
BackfillDone == work["backfill"] = 0 /\ pc' = "sleep" /\ UNCHANGED <<deferrals, work, errors, waited>>

BackfillIdle ==
    /\ work["backfill"] > 0 /\ MustWait("backfill")
    /\ Gate("backfill")
    /\ waited' = [waited EXCEPT !["backfill"] = Later(@)]
    /\ pc' = "sleep"
    /\ UNCHANGED <<work, errors>>

BackfillTurn ==
    /\ work["backfill"] > 0 /\ ~MustWait("backfill")
    /\ Gate("backfill")
    /\ waited' = [waited EXCEPT !["backfill"] = 0]
    /\ \/ Progress("backfill") /\ pc' = "fill"
       \/ Fault /\ pc' = "sleep"

Backfill ==
    /\ pc = "backfill"
    /\ BackfillDone \/ BackfillIdle \/ BackfillTurn
    /\ UNCHANGED <<filled, repaired, retrying, busy>>

Wake ==
    /\ pc = "sleep"
    /\ pc' = "fill"
   
    /\ UNCHANGED <<filled, repaired, deferrals, work, retrying, environment, waited>>

(* The fast loop rewinds or falls more than a header batch behind, and     *)
(* catches up.                                                             *)
Busy ==
    /\ busy' = ~busy
    /\ UNCHANGED <<pc, filled, repaired, deferrals, work, retrying, errors, waited>>

Init ==
    /\ pc = "fill" /\ filled = "none" /\ repaired = "none"
    /\ deferrals = [j \in Jobs |-> 0]
    /\ work = [j \in Jobs |-> MaxWork]
    /\ hole = "due" /\ retried = 0
    /\ busy \in BOOLEAN /\ errors = 0
    /\ waited = [j \in Jobs |-> 0]

Next == Fill \/ RetryDue \/ Repair \/ Backfill \/ Wake \/ Busy

Spec == Init /\ [][Next]_vars

(* The goroutine runs and a retry becomes due. Nothing is assumed of the   *)
(* fast loop: it may be busy for ever.                                     *)
FairSpec == Spec /\ WF_vars(Fill) /\ WF_vars(Repair) /\ WF_vars(Backfill) /\ WF_vars(Wake) /\ WF_vars(RetryDue)

-----------------------------------------------------------------------------
TypeOK ==
    /\ pc \in Jobs \cup {"sleep"}
    /\ filled \in {"none", "idle", "progressed", "error"} /\ repaired \in {"none", "idle", "progressed", "error"}
    /\ deferrals \in [Jobs -> 0 .. MaxDeferrals - 1] /\ work \in [Jobs -> 0 .. MaxWork]
    /\ hole \in {"due", "waiting", "seen"} /\ retried \in 0 .. 2
    /\ busy \in BOOLEAN /\ errors \in 0 .. MaxErrors
    /\ waited \in [Jobs -> 0 .. MaxTurns]

(* runHistory: every job finishes, the repair and the backfill behind a    *)
(* hole that fails for ever and a fast loop that is never idle included.   *)
EveryJobServed == \A j \in Jobs : (j = "fill" /\ Broken) \/ <>(work[j] = 0)
=============================================================================
