------------------------------ MODULE Throttle ------------------------------
(***************************************************************************)
(* One endpoint under throttling (internal/nitro/endpoint.go, client.go):  *)
(* each list of requests is cut into chunks of at most the adaptive batch     *)
(* cap, workers send the chunks through the send slots, and 429s and       *)
(* response-size refusals move the cap, the back-off and the cooldown that *)
(* the workers share.  Payloads are item indexes.                          *)
(***************************************************************************)
EXTENDS Naturals, FiniteSets, FiniteSetsExt

CONSTANTS
    Lists, Fast,    \* the loops' lists of requests, and those asked as Fast
    Workers, Of,    \* fanOut's workers, and the list each works on
    Slots,          \* cap(sendSlots): 1 when the pacer meters the endpoint
    Holds,          \* pacer.MaxBatchFor the class of each list
    Items,          \* length of a request list
    MaxCap,         \* maxBatchCap, the configured batch size
    MinCap,         \* minBatchCap
    MinBackoff, MaxBackoff, \* minBackoff, maxBackoff
    Quiet,          \* capRecoveryInterval
    MaxAttempts,    \* Client.maxAttempts
    MaxLimits,      \* bound: 429 answers in a behaviour
    MaxTime         \* bound: the clock; no 429 comes too late for its cooldown to end

Crew(l) == {w \in Workers : Of[w] = l}

ThrottleAssumption ==
    /\ Fast \subseteq Lists /\ Of \in [Workers -> Lists] /\ Holds \in [Lists -> Nat]
    /\ \A l \in Lists : Crew(l) # {} /\ IsFiniteSet(Crew(l)) /\ Cardinality(Crew(l)) <= Slots
    /\ Slots \in Nat \ {0} /\ Items \in Nat \ {0} /\ MinCap \in 1 .. MaxCap /\ MaxCap \in Nat
    /\ MinBackoff \in 1 .. MaxBackoff /\ MaxBackoff \in Nat
    /\ Quiet \in Nat \ {0} /\ MaxAttempts \in Nat \ {0} /\ MaxLimits \in Nat /\ MaxTime \in Nat

VARIABLES
    batchCap, lastLimit, lastRecovery,  \* Endpoint
    backoff, blockedUntil,              \* Client
    now,                                \* the clock
    batch,                              \* each list's fanOut: next, width, failedAt, out
    work,                               \* each worker's place in sendRange and its locals
    limits,                             \* environment: 429s answered
    wave                                \* history: requests on the wire when the cooldown opened

endpoint == <<batchCap, lastLimit, lastRecovery>>
client == <<backoff, blockedUntil>>
vars == <<batchCap, lastLimit, lastRecovery, backoff, blockedUntil, now, batch, work, limits, wave>>

Resting == [pc |-> "rest", start |-> 0, cur |-> 0, end |-> 0, size |-> 0, attempts |-> 0, sentAt |-> 0]
NoFailure == Items + 1
NewBatch == [on |-> FALSE, next |-> 0, width |-> 0, failedAt |-> NoFailure, out |-> {}]

ChunkSize(cap, left) == Min({Max({cap, 1}), left})
Least(a, b) == IF a < b THEN a ELSE b
OnWire == {w \in Workers : work[w].pc = "wire"}

(* A Fast request of an unmetered endpoint takes no slot. *)
Unslotted(w) == Slots > 1 /\ Of[w] \in Fast
Held == {w \in Workers : work[w].pc \in {"check", "go", "wire"} /\ ~Unslotted(w)}

-----------------------------------------------------------------------------
(* batch and fanOut.  A chunk is no wider than the cap and than what the   *)
(* bucket holds for the class; with one slot the list is one range.        *)
Widest(l) == Least(batchCap, Holds[l])

Batch(l) ==
    /\ ~batch[l].on
    /\ batch' = [batch EXCEPT ![l] = [NewBatch EXCEPT !.on = TRUE,
                      !.width = IF Slots = 1 THEN Items ELSE ChunkSize(Widest(l), Items)]]
    /\ UNCHANGED <<endpoint, client, now, work, limits, wave>>

(* Mutant: the next range starts after the width asked for now. *)
TakenTo(l) == Least(batch[l].next + ChunkSize(Widest(l), Items) + 1, Items)

(* take's end of range. *)
RangeEnd(l) == Least(batch[l].next + batch[l].width, Items)

Take(w) ==
    LET l == Of[w] IN
    /\ batch[l].on /\ work[w].pc = "rest"
    /\ batch[l].failedAt = NoFailure /\ batch[l].next < Items
    /\ work' = [work EXCEPT ![w] = [Resting EXCEPT !.pc = "chunk", !.start = batch[l].next, !.cur = batch[l].next,
                                        !.end = Least(batch[l].next + batch[l].width, Items)]]
    /\ batch' = [batch EXCEPT ![l].next = RangeEnd(l)]
    /\ UNCHANGED <<endpoint, client, now, limits, wave>>

(* wg.Wait. *)
Ended(l) ==
    /\ batch[l].on /\ \A w \in Crew(l) : work[w].pc = "rest"
    /\ batch[l].failedAt # NoFailure \/ batch[l].next = Items

Finish(l) ==
    /\ Ended(l)
    /\ batch' = [batch EXCEPT ![l] = NewBatch]
    /\ UNCHANGED <<endpoint, client, now, work, limits, wave>>

-----------------------------------------------------------------------------
(* sendRange: the chunk is cut at what the cap is now, before the slot. *)
Chunk(w) ==
    /\ work[w].pc = "chunk"
    /\ work' = [work EXCEPT ![w].pc = "slot", ![w].size = ChunkSize(Widest(Of[w]), work[w].end - work[w].cur)]
    /\ UNCHANGED <<endpoint, client, now, batch, limits, wave>>

(* send: a slot, then whatever cooldown another caller started meanwhile. *)
Slot(w) ==
    /\ work[w].pc = "slot" /\ (Unslotted(w) \/ Cardinality(Held) < Slots)
    /\ work' = [work EXCEPT ![w].pc = "check"]
    /\ UNCHANGED <<endpoint, client, now, batch, limits, wave>>

Cooled == now >= blockedUntil

Check(w) ==
    /\ work[w].pc = "check" /\ Cooled
    /\ work' = [work EXCEPT ![w].pc = "go"]
    /\ UNCHANGED <<endpoint, client, now, batch, limits, wave>>

Leave(w) ==
    /\ work[w].pc = "go"
    /\ work' = [work EXCEPT ![w].pc = "wire", ![w].sentAt = now]
    /\ UNCHANGED <<endpoint, client, now, batch, limits, wave>>

-----------------------------------------------------------------------------
(* The answer: attempt, observe, noteRateLimit, resetBackoff, sendRange.   *)
(* Mutant: the wave is told by when its answers come back. *)
FreshNow(w) == now >= blockedUntil

(* A 429 opens a cooldown when its request left after the last one ended. *)
Fresh(w) == work[w].sentAt >= blockedUntil

Done(w) ==
    LET cur == work[w].cur + work[w].size
        got == (work[w].cur + 1) .. cur
    IN  /\ batch' = [batch EXCEPT ![Of[w]].out = @ \cup got]
        /\ work' = [work EXCEPT ![w] = IF cur = @.end THEN Resting
                                       ELSE [@ EXCEPT !.pc = "chunk", !.cur = cur, !.attempts = 0]]

Fail(w) ==
    /\ batch' = [batch EXCEPT ![Of[w]].failedAt = Least(@, work[w].start)]
    /\ work' = [work EXCEPT ![w] = Resting]

(* observe: one step of the cap after a quiet interval. *)
Recovers == batchCap < MaxCap /\ now >= Quiet + Max({lastLimit, lastRecovery})

Recovered == IF Recovers THEN Least(2 * batchCap, MaxCap) ELSE batchCap

ResetBackoff(w) == backoff' = IF work[w].sentAt >= blockedUntil THEN MinBackoff ELSE backoff

Answered(w) ==
    /\ work[w].pc = "wire"
    /\ batchCap' = Recovered /\ lastRecovery' = IF Recovers THEN now ELSE lastRecovery
    /\ UNCHANGED lastLimit
    /\ ResetBackoff(w) /\ UNCHANGED blockedUntil
    /\ Done(w)
    /\ wave' = wave \ {w}
    /\ UNCHANGED <<now, limits>>

(* shrinkForSize's new cap. *)
Shrunk(items) == Least(Recovered, Max({items \div 2, 1}))

(* A chunk refused for its size, as any may be: an answer for the client,  *)
(* then a narrower retry, or the error itself when it was a single item.   *)
TooLarge(w) ==
    /\ work[w].pc = "wire"
    /\ ResetBackoff(w) /\ UNCHANGED blockedUntil
    /\ lastRecovery' = IF Recovers THEN now ELSE lastRecovery
    /\ IF work[w].size > 1
       THEN /\ batchCap' = Shrunk(work[w].size) /\ lastLimit' = now
            /\ work' = [work EXCEPT ![w].pc = "chunk"] /\ UNCHANGED batch
       ELSE batchCap' = Recovered /\ UNCHANGED lastLimit /\ Done(w)
    /\ wave' = wave \ {w}
    /\ UNCHANGED <<now, limits>>

(* Mutant: every 429 halves the cap. *)
HalvedByAny(w) == IF work[w].size > 1 /\ batchCap > MinCap THEN Max({batchCap \div 2, MinCap}) ELSE batchCap

(* observe: only the 429 that opened the cooldown teaches a width. *)
Halved(w) ==
    IF Fresh(w) /\ work[w].size > 1 /\ batchCap > MinCap THEN Max({batchCap \div 2, MinCap}) ELSE batchCap

Limited(w) ==
    /\ work[w].pc = "wire" /\ limits < MaxLimits /\ limits' = limits + 1
    /\ now + backoff <= MaxTime
    /\ lastLimit' = now /\ UNCHANGED lastRecovery
    /\ IF Fresh(w)
       THEN /\ blockedUntil' = now + backoff /\ backoff' = Least(2 * backoff, MaxBackoff)
            /\ wave' = OnWire \ {w}
       ELSE UNCHANGED client /\ wave' = wave \ {w}
    /\ batchCap' = Halved(w)
    /\ IF work[w].attempts + 1 >= MaxAttempts THEN Fail(w)
       ELSE work' = [work EXCEPT ![w].pc = "chunk", ![w].attempts = @ + 1] /\ UNCHANGED batch
    /\ UNCHANGED now

(* A transport or HTTP error, the context ending while the caller queues   *)
(* or sleeps, or preSend's refusal ends the range.                         *)
Broken(w) ==
    /\ work[w].pc \in {"slot", "check", "go", "wire"}
    /\ Fail(w)
    /\ wave' = wave \ {w}
    /\ UNCHANGED <<endpoint, client, now, limits>>

Tick ==
    /\ now < MaxTime /\ now' = now + 1
    /\ UNCHANGED <<endpoint, client, batch, work, limits, wave>>

-----------------------------------------------------------------------------
Init ==
    /\ batchCap = MaxCap /\ lastLimit = 0 /\ lastRecovery = 0
    /\ backoff = MinBackoff /\ blockedUntil = 0 /\ now = 0
    /\ batch = [l \in Lists |-> NewBatch] /\ work = [w \in Workers |-> Resting] /\ limits = 0 /\ wave = {}

Step(w) == Take(w) \/ Chunk(w) \/ Slot(w) \/ Check(w) \/ Leave(w) \/ Answered(w) \/ TooLarge(w)

Next ==
    \/ Tick
    \/ \E l \in Lists : Batch(l) \/ Finish(l)
    \/ \E w \in Workers : Step(w) \/ Limited(w) \/ Broken(w)

Spec == Init /\ [][Next]_vars

(* Workers run, requests are answered, slots are handed out in turn, time  *)
(* passes until every cooldown the bounded 429s can open is over.          *)
FairSpec ==
    /\ Spec /\ WF_vars(Tick) /\ \A l \in Lists : WF_vars(Finish(l))
    /\ \A w \in Workers : WF_vars(Step(w)) /\ SF_vars(Slot(w))

-----------------------------------------------------------------------------
TypeOK ==
    /\ batchCap \in 1 .. MaxCap /\ backoff \in MinBackoff .. MaxBackoff
    /\ lastLimit \in 0 .. now /\ lastRecovery \in 0 .. now /\ blockedUntil \in 0 .. MaxTime
    /\ Cardinality(Held) <= Slots
    /\ \A w \in Workers : work[w].cur <= work[w].end /\ work[w].end <= Items /\ work[w].attempts < MaxAttempts

(* While one slot is open nothing leaves during a cooldown, whichever      *)
(* caller opened it and however long the others had queued.                *)
CooldownKept == Slots = 1 => \A w \in Workers : work[w].pc = "wire" => work[w].sentAt >= blockedUntil

(* A wave costs one step: what was on the wire when a cooldown opened may  *)
(* come back as 429 or as an answer, before or after the cooldown ended,   *)
(* and neither moves the back-off nor, unless its response was too large,  *)
(* lowers the cap.                                                         *)
WaveStep ==
    \A w \in wave : (work[w].pc = "wire" /\ work'[w].pc # "wire") =>
        /\ backoff' = backoff /\ blockedUntil' = blockedUntil
        /\ limits' # limits \/ work'[w].pc # "chunk" \/ work'[w].cur # work[w].cur => batchCap' >= batchCap

(* The cap grows only after a quiet interval: a wide request refused late  *)
(* never widens what a narrower one already taught.                        *)
CapStep == batchCap' > batchCap => now >= Quiet + lastLimit

(* A wave of 429s, whichever lists its requests belong to, costs one step  *)
(* of the back-off and of the cap (noteRateLimit, observe, send).          *)
WaveOneStep == [][WaveStep /\ CapStep]_vars

(* fanOut: when a list ends, every item below the lowest failure is        *)
(* answered, so all of them when none failed: ranges in flight were let    *)
(* finish, and the failure reported does not depend on who lost first.     *)
BatchWhole == \A l \in Lists : Ended(l) => 1 .. Least(batch[l].failedAt, Items) \subseteq batch[l].out

(* Every list ends: each refusal narrows the chunk and each 429 counts. *)
BatchEnds == \A l \in Lists : batch[l].on ~> ~batch[l].on
=============================================================================
