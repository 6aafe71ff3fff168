------------------------------- MODULE Pacer --------------------------------
(***************************************************************************)
(* The per-endpoint pacer (internal/nitro/pacer.go): a token bucket with a *)
(* reserve for Fast calls, a first-come turnstile for everything else, and *)
(* whole tokens taken in turns by the two lanes when the rate is below one *)
(* call per second.                                                        *)
(*                                                                         *)
(* Amounts are integers: Unit of them make one token, Rate of them arrive  *)
(* per tick of the clock.  Every action below is one critical section of   *)
(* Pacer.mu and the waiting that follows it.                               *)
(***************************************************************************)
EXTENDS Integers, Sequences, FiniteSets, FiniteSetsExt, SequencesExt

CONSTANTS
    Callers,        \* goroutines that call Wait
    FastCallers,    \* those whose context may carry the Fast class
    Unit,           \* amounts per token
    Rate,           \* callsPerSecond in amounts
    MaxWant,        \* bound: tokens one call asks for
    MaxPacerWait,   \* maxPacerWait in ticks
    Cancels,        \* whether a caller's context can end while it waits
    WindowSize,     \* bound: ticks a window of the budget is watched for
    NoOne           \* the turnstile's holder when it is open

PacerAssumption ==
    /\ Unit \in Nat \ {0} /\ Rate \in Nat \ {0} /\ MaxWant \in Nat \ {0}
    /\ MaxPacerWait \in Nat \ {0} /\ WindowSize \in Nat /\ Cancels \in BOOLEAN
    /\ FastCallers \subseteq Callers /\ NoOne \notin Callers

VARIABLES
    tokens,     \* Pacer.tokens
    fastTokens, \* Pacer.fastTokens
    held,       \* Pacer.held
    queue,      \* Pacer.queue: the callers whose waiter is in it
    ready,      \* the callers whose waiter.ready is closed
    lastFast,   \* Pacer.lastFast
    call,       \* each caller's place in Wait and its locals
    window      \* history: calls passed since some moment

bucket == <<tokens, fastTokens, lastFast, window>>
turnstile == <<held, queue, ready>>
vars == <<tokens, fastTokens, held, queue, ready, lastFast, call, window>>

(* NewPacer. *)
Burst == Max({2 * Rate, Unit})
Reserve == Max({Unit, Rate \div 4})
ReserveRate == Min({Reserve, Rate})
SharedCap == Burst - Reserve
TimeShared == SharedCap < Unit

Classes == {"bulk", "fast"}
Places == {"out", "draw", "acquire", "park", "parked", "spend", "asleep", "turn", "turns",
           "turns_asleep", "turns_turn", "leave", "served"}
Out == [pc |-> "out", class |-> "bulk", want |-> 0, left |-> 0, sleep |-> 0, woken |-> FALSE]

Pending(class) == Cardinality({c \in Callers : call[c].class = class /\ call[c].pc \notin {"out", "served"}})
BulkTurn == Pending("fast") = 0 \/ lastFast
FastTurn == Pending("bulk") = 0 \/ ~lastFast

Whole(n) == n \div Unit
CeilDiv(a, b) == (a + b - 1) \div b
Capped(d) == Min({Max({d, 0}), MaxPacerWait})

(* openLocked: what the bucket holds for a class right now. *)
Shared(t, f) == Max({t - f, 0})
Open(class, t, f) ==
    IF class = "bulk" /\ TimeShared THEN IF BulkTurn THEN t ELSE 0 ELSE Shared(t, f)

(* drawReserveLocked: the whole reserve tokens a Fast caller takes at once. *)
Drawn(left) == IF TimeShared /\ ~FastTurn THEN 0 ELSE Min({left, Whole(fastTokens)})

(* Every token taken leaves the bucket. *)
Taken(t, k) == t - k * Unit

-----------------------------------------------------------------------------
(* How long a caller waits. *)
ReserveWait(f) == Capped(CeilDiv(Unit - f, ReserveRate))

ClassCap(class) == IF class = "bulk" /\ TimeShared THEN Burst ELSE SharedCap

(* openWaitLocked: the shared part grows at the rate less the reserve's    *)
(* own until the reserve is full, and at the whole rate after that.        *)
OpenWait(class, want, t, f) ==
    LET need   == Min({want * Unit, ClassCap(class)})
        open   == Open(class, t, f)
        growth == Rate - ReserveRate
        short  == Reserve - f
    IN  IF open >= need THEN 0
        ELSE IF class = "bulk" /\ TimeShared THEN Capped(CeilDiv(need - open, Rate))
        ELSE IF short = 0 THEN Capped(CeilDiv(need - open, Rate))
        ELSE IF growth > 0 /\ open * ReserveRate + growth * short >= need * ReserveRate
             THEN Capped(CeilDiv(need - open, growth))
        ELSE Capped(CeilDiv(short * Rate + (need - open) * ReserveRate - growth * short, ReserveRate * Rate))

-----------------------------------------------------------------------------
(* The turnstile. *)

(* releaseLocked: the first queued caller is let in, or the turnstile opens. *)
Release(who) ==
    IF queue = <<>> THEN held' = FALSE /\ ready' = ready \ {who} /\ UNCHANGED queue
    ELSE /\ UNCHANGED held
         /\ queue' = Tail(queue)
         /\ ready' = (ready \ {who}) \cup {Head(queue)}

(* Mutant: a caller that was let in while it gave up keeps the turnstile. *)
AbandonQueued(c) ==
    /\ queue' = SelectSeq(queue, LAMBDA d : d # c)
    /\ ready' = ready \ {c} /\ UNCHANGED held

(* abandonLocked: leave the queue, or pass on what was handed over meanwhile. *)
Abandon(c) ==
    IF \E i \in DOMAIN queue : queue[i] = c
    THEN /\ \E i \in DOMAIN queue : queue[i] = c /\ queue' = RemoveAt(queue, i)
         /\ UNCHANGED <<held, ready>>
    ELSE Release(c)

(* notifyTurnLocked wakes whoever waits for its lane's turn. *)
Notify(calls) ==
    [c \in Callers |-> IF calls[c].pc \in {"turn", "turns_turn"} THEN [calls[c] EXCEPT !.woken = TRUE] ELSE calls[c]]

(* k tokens go to c; lane says whether lastFast moves and the turns are    *)
(* signalled, which a Fast caller taking shared tokens does not do.        *)
Passed(k) == window' = IF window.on THEN [window EXCEPT !.passed = @ + k] ELSE window

-----------------------------------------------------------------------------
(* Wait. *)
Enter(c) ==
    /\ call[c].pc = "out"
    /\ \E class \in IF c \in FastCallers THEN Classes ELSE {"bulk"}, n \in 1 .. MaxWant :
           call' = [call EXCEPT ![c] = [Out EXCEPT !.class = class, !.want = n, !.left = n,
               !.pc = IF class = "bulk" THEN "acquire" ELSE IF TimeShared THEN "turns" ELSE "draw"]]
    /\ UNCHANGED <<bucket, turnstile>>

(* A draw on the reserve; the caller goes on at next with what it lacks.   *)
DrawInto(c, next) ==
    LET k == Drawn(call[c].left)
        moved == [call EXCEPT ![c] = next]
    IN  /\ tokens' = Taken(tokens, k)
        /\ fastTokens' = Min({fastTokens - k * Unit, tokens'})
        /\ lastFast' = IF k > 0 THEN TRUE ELSE lastFast
        /\ Passed(k)
        /\ call' = IF k > 0 THEN Notify(moved) ELSE moved

DrawReserve(c) ==
    LET left == call[c].left - Drawn(call[c].left) IN
    /\ call[c].pc = "draw"
    /\ DrawInto(c, [call[c] EXCEPT !.left = left, !.pc = IF left = 0 THEN "leave" ELSE "acquire"])
    /\ UNCHANGED turnstile

Acquire(c) ==
    /\ call[c].pc = "acquire"
    /\ IF ~held
       THEN /\ held' = TRUE /\ UNCHANGED <<queue, ready>>
            /\ call' = [call EXCEPT ![c].pc = "spend"]
       ELSE /\ queue' = Append(queue, c) /\ UNCHANGED <<held, ready>>
            /\ call' = [call EXCEPT ![c].pc = IF call[c].class = "fast" THEN "park" ELSE "parked"]
    /\ UNCHANGED bucket

(* parkFast: drawing on while it queues, gone once the reserve covered it. *)
ParkFast(c) ==
    LET left == call[c].left - Drawn(call[c].left) IN
    /\ call[c].pc = "park"
    /\ DrawInto(c, IF left = 0 THEN [call[c] EXCEPT !.left = 0, !.pc = "leave"]
                   ELSE [call[c] EXCEPT !.left = left, !.pc = "parked",
                             !.sleep = ReserveWait(fastTokens - Drawn(call[c].left) * Unit)])
    /\ IF left = 0 THEN Abandon(c) ELSE UNCHANGED turnstile

(* park and parkFast: the turnstile was handed over. *)
Unpark(c) ==
    /\ call[c].pc = "parked" /\ c \in ready
    /\ ready' = ready \ {c}
    /\ call' = [call EXCEPT ![c].pc = "spend", ![c].sleep = 0]
    /\ UNCHANGED <<bucket, held, queue>>

(* parkFast: the reserve should hold a token again. *)
Refill(c) ==
    /\ call[c].pc = "parked" /\ call[c].class = "fast" /\ call[c].sleep = 0
    /\ call' = [call EXCEPT ![c].pc = "park"]
    /\ UNCHANGED <<bucket, turnstile>>

CancelParked(c) ==
    /\ Cancels /\ call[c].pc = "parked"
    /\ Abandon(c)
    /\ call' = [call EXCEPT ![c].pc = "leave", ![c].sleep = 0]
    /\ UNCHANGED bucket

(* spend: the reserve for a Fast caller, then what is open to the class. *)
Spend(c) ==
    LET class == call[c].class
        k1    == IF class = "fast" THEN Drawn(call[c].left) ELSE 0
        t1    == Taken(tokens, k1)
        f1    == fastTokens - k1 * Unit
        k2    == Min({call[c].left - k1, Whole(Open(class, t1, f1))})
        t2    == Taken(t1, k2)
        f2    == Min({f1, t2})
        left  == call[c].left - k1 - k2
        last  == IF class = "bulk" /\ k2 > 0 THEN FALSE ELSE IF k1 > 0 THEN TRUE ELSE lastFast
        yield == class = "bulk" /\ TimeShared /\ ~(Pending("fast") = 0 \/ last)
        wait  == IF class = "fast" THEN Min({OpenWait(class, left, t2, f2), ReserveWait(f2)})
                 ELSE OpenWait(class, left, t2, f2)
        moved == [call EXCEPT ![c].left = left,
                     ![c].pc = IF left = 0 THEN "leave" ELSE IF yield THEN "turn" ELSE "asleep",
                     ![c].sleep = IF left = 0 \/ yield THEN 0 ELSE wait, ![c].woken = FALSE]
    IN  /\ call[c].pc = "spend"
        /\ tokens' = t2 /\ fastTokens' = f2 /\ lastFast' = last
        /\ Passed(k1 + k2)
        /\ call' = IF k1 > 0 \/ (class = "bulk" /\ k2 > 0) THEN [Notify(call) EXCEPT ![c] = moved[c]] ELSE moved
        /\ IF left = 0 THEN Release(c) ELSE UNCHANGED turnstile

Wake(c) ==
    /\ \/ call[c].pc = "asleep" /\ call[c].sleep = 0
       \/ call[c].pc = "turn" /\ call[c].woken
    /\ call' = [call EXCEPT ![c].pc = "spend", ![c].woken = FALSE]
    /\ UNCHANGED <<bucket, turnstile>>

CancelSpend(c) ==
    /\ Cancels /\ call[c].pc \in {"asleep", "turn"}
    /\ Release(c)
    /\ call' = [call EXCEPT ![c].pc = "leave", ![c].sleep = 0, ![c].woken = FALSE]
    /\ UNCHANGED bucket

(* waitTurns: a Fast caller of a time-shared bucket never queues. *)
WaitTurns(c) ==
    LET k    == Drawn(call[c].left)
        left == call[c].left - k
        last == IF k > 0 THEN TRUE ELSE lastFast
        yield == ~(Pending("bulk") = 0 \/ ~last)
    IN  /\ call[c].pc = "turns"
        /\ DrawInto(c, [call[c] EXCEPT !.left = left,
               !.pc = IF left = 0 THEN "leave" ELSE IF yield THEN "turns_turn" ELSE "turns_asleep",
               !.sleep = IF left = 0 \/ yield THEN 0 ELSE ReserveWait(fastTokens - k * Unit), !.woken = FALSE])
        /\ UNCHANGED turnstile

WakeTurns(c) ==
    /\ \/ call[c].pc = "turns_asleep" /\ call[c].sleep = 0
       \/ call[c].pc = "turns_turn" /\ call[c].woken
    /\ call' = [call EXCEPT ![c].pc = "turns", ![c].woken = FALSE]
    /\ UNCHANGED <<bucket, turnstile>>

CancelTurns(c) ==
    /\ Cancels /\ call[c].pc \in {"turns_asleep", "turns_turn"}
    /\ call' = [call EXCEPT ![c].pc = "leave", ![c].sleep = 0, ![c].woken = FALSE]
    /\ UNCHANGED <<bucket, turnstile>>

(* Mutant: a caller that stops waiting wakes nobody. *)
LeaveQuietly(c) ==
    /\ call[c].pc = "leave"
    /\ call' = [call EXCEPT ![c] = IF @.left = 0 THEN [@ EXCEPT !.pc = "served"] ELSE Out]
    /\ UNCHANGED <<bucket, turnstile>>

(* The deferred leave: the other lane may have been yielding to this one. *)
Leave(c) ==
    /\ call[c].pc = "leave"
    /\ call' = Notify([call EXCEPT ![c] = IF @.left = 0 THEN [@ EXCEPT !.pc = "served"] ELSE Out])
    /\ UNCHANGED <<bucket, turnstile>>

(* The request was sent, or never reached the wire and its tokens go back. *)
Sent(c) ==
    /\ call[c].pc = "served"
    /\ call' = [call EXCEPT ![c] = Out]
    /\ UNCHANGED <<bucket, turnstile>>

(* Mutant: a refund fills the bucket past its capacity. *)
RefundUncapped(t) == t

RefundCap(t) == Min({t, Burst})

Refund(c) ==
    /\ call[c].pc = "served"
    /\ tokens' = RefundCap(tokens + call[c].want * Unit)
    /\ fastTokens' = Min({fastTokens, tokens'})
    /\ call' = Notify([call EXCEPT ![c] = Out])
    /\ Passed(-call[c].want)
    /\ UNCHANGED <<lastFast, turnstile>>

(* The clock: refillLocked's credit, and the timers of the sleepers. *)
Tick ==
    /\ tokens' = Min({tokens + Rate, Burst})
    /\ fastTokens' = Min({fastTokens + ReserveRate, Reserve, tokens'})
    /\ call' = [c \in Callers |-> [call[c] EXCEPT !.sleep = IF @ > 0 THEN @ - 1 ELSE 0]]
    /\ window' = IF window.on /\ window.ticks < WindowSize THEN [window EXCEPT !.ticks = @ + 1]
                 ELSE [on |-> FALSE, ticks |-> 0, passed |-> 0]
    /\ UNCHANGED <<lastFast, turnstile>>

(* History: a window of the budget starts here. *)
Watch ==
    /\ WindowSize > 0 /\ ~window.on
    /\ window' = [window EXCEPT !.on = TRUE]
    /\ UNCHANGED <<tokens, fastTokens, lastFast, turnstile, call>>

-----------------------------------------------------------------------------
Init ==
    /\ tokens = Burst /\ fastTokens = Reserve
    /\ held = FALSE /\ queue = <<>> /\ ready = {} /\ lastFast = FALSE
    /\ call = [c \in Callers |-> Out]
    /\ window = [on |-> FALSE, ticks |-> 0, passed |-> 0]

Waiting(c) ==
    \/ DrawReserve(c) \/ Acquire(c) \/ ParkFast(c) \/ Unpark(c) \/ Refill(c) \/ Spend(c) \/ Wake(c)
    \/ WaitTurns(c) \/ WakeTurns(c) \/ Leave(c)

Next ==
    \/ Tick \/ Watch
    \/ \E c \in Callers : \/ Enter(c) \/ Waiting(c) \/ Sent(c) \/ Refund(c)
                          \/ CancelParked(c) \/ CancelSpend(c) \/ CancelTurns(c)

Spec == Init /\ [][Next]_vars

(* Time passes, a goroutine that can run does, and a select that finds the *)
(* turnstile handed over again and again takes that case in the end: Go    *)
(* chooses between ready cases at random.                                  *)
Fairness == WF_vars(Tick) /\ \A c \in Callers : WF_vars(Waiting(c)) /\ SF_vars(Unpark(c))
FairSpec == Spec /\ Fairness

-----------------------------------------------------------------------------
TypeOK ==
    /\ tokens \in 0 .. Burst /\ fastTokens \in 0 .. Reserve
    /\ held \in BOOLEAN /\ lastFast \in BOOLEAN /\ ready \subseteq Callers
    /\ \A i \in DOMAIN queue : queue[i] \in Callers
    /\ call \in [Callers -> [pc : Places, class : Classes, want : 0 .. MaxWant, left : 0 .. MaxWant,
                             sleep : 0 .. MaxPacerWait, woken : BOOLEAN]]

(* Who is past the turnstile, or has been let in and not noticed yet. *)
Inside == {c \in Callers : call[c].pc \in {"spend", "asleep", "turn"} \/ c \in ready}

(* "at most burst + rate*w calls pass over any window of w seconds": what  *)
(* reserve draws, shared tokens, turns and refunds let through together.   *)
WithinBudget ==
    window.on => window.passed * Unit <= Burst + Rate * window.ticks

(* A sleep covers the shortfall and no more: with nobody else spending,    *)
(* the tokens the caller needs are open exactly when its timer fires       *)
(* (openWaitLocked's two regimes against the refill itself).               *)
OpenAfter(class, d) ==
    LET t == Min({tokens + d * Rate, Burst})
    IN  Open(class, t, Min({fastTokens + d * ReserveRate, Reserve, t}))
WaitExact ==
    \A class \in Classes, want \in 1 .. MaxWant :
        LET d == OpenWait(class, want, tokens, fastTokens)
            need == Min({want * Unit, ClassCap(class)})
        IN  (class = "bulk" /\ TimeShared => BulkTurn) =>
                /\ OpenAfter(class, d) >= need \/ d = MaxPacerWait
                /\ \A e \in 0 .. d - 1 : OpenAfter(class, e) < need

(* Available: the whole tokens a Bulk caller can take without waiting. *)
Available == IF TimeShared THEN Whole(tokens) ELSE Whole(Shared(tokens, fastTokens))
AvailableNow ==
    ~held => Whole(Open("bulk", tokens, fastTokens)) >= Available

(* The turnstile implements the first-come one of Turnstile. *)
Holder == IF Inside = {} THEN NoOne ELSE CHOOSE c \in Inside : TRUE
Abstract == INSTANCE Turnstile WITH holder <- Holder, line <- queue
FirstCome == Abstract!Spec

(* held says whether somebody is inside: never two callers, and never a    *)
(* turnstile kept by nobody, on which every later caller would queue.      *)
OneInside ==
    /\ \A c, d \in Inside : c = d
    /\ held <=> Inside # {}

Waits(c) == call[c].pc \notin {"out", "served"}

(* Every Wait ends: however many callers keep coming in either lane, none  *)
(* waits for ever.                                                         *)
Served == \A c \in Callers : Waits(c) ~> ~Waits(c)

(* "a large Bulk batch is never starved by a stream of small calls". *)
BulkServed == \A c \in Callers : Waits(c) /\ call[c].class = "bulk" ~> ~Waits(c)
=============================================================================
