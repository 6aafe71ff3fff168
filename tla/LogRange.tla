------------------------------ MODULE LogRange ------------------------------
(***************************************************************************)
(* Endpoint.OwnerActsLogs (internal/nitro/endpoint.go): a scan of blocks   *)
(* asked in pieces as wide as the endpoint has been seen to accept, whose  *)
(* own limit may move between two pieces.                                  *)
(***************************************************************************)
EXTENDS Naturals, Sequences

CONSTANTS
    Scans,          \* callers of OwnerActsLogs on one endpoint
    To,             \* the scan covers blocks 1 .. To
    MaxLogRange,    \* MaxLogRange
    Limits,         \* environment: widths the endpoint may accept at most
    Quiet,          \* capRecoveryInterval
    MaxMoves        \* bound: how often the endpoint's limit moves

LogRangeAssumption ==
    /\ To \in Nat \ {0} /\ MaxLogRange \in Nat \ {0} /\ Limits \subseteq Nat
    /\ Quiet \in Nat \ {0} /\ MaxMoves \in Nat

VARIABLES
    logRange,   \* Endpoint.logRange, 0 before a refusal
    calm,       \* time since the last refusal or recovery, up to Quiet
    limit,      \* environment: the width the endpoint accepts now
    moves,      \* environment: how often it moved
    scan        \* each scan's place and locals

vars == <<logRange, calm, limit, moves, scan>>

Least(a, b) == IF a < b THEN a ELSE b
Most(a, b) == IF a > b THEN a ELSE b

(* pc, the piece asked, what was returned so far, and whether the back-off *)
(* was paid for this piece; waits counts the pauses since the last answer. *)
Fresh == [pc |-> "ask", start |-> 1, end |-> 0, got |-> <<>>, waited |-> FALSE, waits |-> 0]

(* logRangeLocked. *)
Width == IF logRange = 0 THEN MaxLogRange ELSE logRange

PieceEnd(start) == Least(start + Width - 1, To)

Ask(s) ==
    /\ scan[s].pc = "ask"
    /\ scan' = [scan EXCEPT ![s].pc = "asked", ![s].end = PieceEnd(scan[s].start)]
    /\ UNCHANGED <<logRange, calm, limit, moves>>

Asked(s) == scan[s].end - scan[s].start + 1

(* observeLogRange after an accepted piece. *)
Grow ==
    IF logRange # 0 /\ logRange < MaxLogRange /\ calm = Quiet
    THEN logRange' = Least(2 * logRange, MaxLogRange) /\ calm' = 0
    ELSE UNCHANGED <<logRange, calm>>

(* Mutant: the next piece starts where this one ended. *)
NextStartAtEnd(end) == end

NextStart(end) == end + 1

Accept(s) ==
    LET got == scan[s].got \o [i \in 1 .. Asked(s) |-> scan[s].start + i - 1] IN
    /\ scan[s].pc = "asked" /\ Asked(s) <= limit
    /\ Grow
    /\ scan' = [scan EXCEPT ![s].got = got, ![s].waited = FALSE, ![s].waits = 0,
                            ![s].pc = IF scan[s].end = To THEN "done" ELSE "ask",
                            ![s].start = IF scan[s].end = To THEN @ ELSE NextStart(scan[s].end)]
    /\ UNCHANGED <<limit, moves>>

(* observeLogRange after a refusal. *)
Halved(asked) == Most(Least(Width, asked) \div 2, 1)

Pauses(s) == ~scan[s].waited

Refuse(s) ==
    /\ scan[s].pc = "asked" /\ Asked(s) > limit
    /\ IF Asked(s) <= 1
       THEN scan' = [scan EXCEPT ![s].pc = "failed"] /\ UNCHANGED <<logRange, calm>>
       ELSE /\ logRange' = Halved(Asked(s)) /\ calm' = 0
            /\ scan' = [scan EXCEPT ![s].pc = IF Pauses(s) THEN "sleep" ELSE "ask"]
    /\ UNCHANGED <<limit, moves>>

(* The back-off; a context that ends meanwhile fails the scan. *)
Sleep(s) ==
    /\ scan[s].pc = "sleep"
    /\ \/ scan' = [scan EXCEPT ![s].pc = "ask", ![s].waited = TRUE, ![s].waits = Least(@ + 1, 2)]
       \/ scan' = [scan EXCEPT ![s].pc = "failed"]
    /\ UNCHANGED <<logRange, calm, limit, moves>>

(* A transport failure goes back to the caller, which scans again. *)
Broken(s) ==
    /\ scan[s].pc = "asked"
    /\ scan' = [scan EXCEPT ![s].pc = "failed"]
    /\ UNCHANGED <<logRange, calm, limit, moves>>

Again(s) ==
    /\ scan[s].pc \in {"done", "failed"}
    /\ scan' = [scan EXCEPT ![s] = Fresh]
    /\ UNCHANGED <<logRange, calm, limit, moves>>

Tick ==
    /\ calm < Quiet /\ calm' = calm + 1
    /\ UNCHANGED <<logRange, limit, moves, scan>>

LimitMoves ==
    /\ moves < MaxMoves /\ moves' = moves + 1
    /\ limit' \in Limits
    /\ UNCHANGED <<logRange, calm, scan>>

Init ==
    /\ logRange = 0 /\ calm = 0 /\ limit \in Limits /\ moves = 0
    /\ scan = [s \in Scans |-> Fresh]

Step(s) == Ask(s) \/ Accept(s) \/ Refuse(s) \/ Sleep(s)
Next == Tick \/ LimitMoves \/ \E s \in Scans : Step(s) \/ Broken(s) \/ Again(s)

Spec == Init /\ [][Next]_vars

(* Requests are answered and the back-off ends. *)
FairSpec == Spec /\ \A s \in Scans : WF_vars(Step(s))

-----------------------------------------------------------------------------
TypeOK ==
    /\ logRange \in 0 .. MaxLogRange /\ calm \in 0 .. Quiet /\ limit \in Limits
    /\ \A s \in Scans : /\ scan[s].pc \in {"ask", "asked", "sleep", "done", "failed"}
                        /\ scan[s].start \in 1 .. To /\ scan[s].end \in 0 .. To

(* A scan that ends well returns every block of its range once, in block   *)
(* order, however often the width was halved, or grew back, on the way.    *)
LogsExact == \A s \in Scans : scan[s].pc = "done" => scan[s].got = [i \in 1 .. To |-> i]

(* Every scan ends: refusals narrow the piece down to a single block, and  *)
(* the width does not grow back between a refusal and the next ask.        *)
ScanEnds == \A s \in Scans : scan[s].pc = "ask" ~> scan[s].pc \in {"done", "failed"}
=============================================================================
