------------------------------ MODULE HeadLoop ------------------------------
(***************************************************************************)
(* The fast loop on newHeads (Follower.runOnHeads in collector/run.go):    *)
(* the subscriber's goroutine delivers heads into latest and a signal      *)
(* channel of capacity one, while the loop selects between that channel    *)
(* and a timer. The subscription is HeadSubscriber seen through            *)
(* Connected() and its heads; a tick is Follower's, seen as the block it   *)
(* samples and whether it succeeds.                                        *)
(***************************************************************************)
EXTENDS Naturals, Sequences, FiniteSetsExt

CONSTANTS
    MaxBlocks,      \* bound: changes of the chain's head
    MaxDrops,       \* bound: subscriptions lost or gone silent
    MaxFailures,    \* bound: failing ticks
    PollsFail,      \* whether the timer's ticks can fail, or pinned ones only
    Reorgs          \* whether the chain reorganises

HeadLoopAssumption == {MaxBlocks, MaxDrops, MaxFailures} \subseteq Nat /\ {Reorgs, PollsFail} \subseteq BOOLEAN

VARIABLES
    tip,        \* environment: the chain's head, its number and an identity
    socket,     \* environment: whether the open socket carries anything
    wire,       \* environment: numbers of the heads sent and not yet read
    drops, failures,
    connected,  \* HeadSubscriber.connected
    latest,     \* the newest head delivered
    told,       \* a delivered head whose signal is not yet sent
    signal,     \* the signal channel holds a token
    beat,       \* the ticker's channel holds a beat
    polling, retry,
    tick,       \* the tick under way: how it samples, and what it sampled
    sampled     \* the block of the last tick that succeeded

environment == <<tip, socket, wire, drops, failures>>
source == <<connected, latest, told>>
flags == <<polling, retry>>
vars == <<tip, socket, wire, drops, failures, connected, latest, told, signal, beat, polling, retry, tick, sampled>>

NoBlock == [number |-> 0, id |-> 0]
NoTick == [kind |-> "none", at |-> 0, got |-> NoBlock]
Selecting == tick = NoTick

-----------------------------------------------------------------------------
(* The chain grows, or reorganises onto a branch of the same height or one *)
(* lower; an open socket is told.                                          *)
Grow(n) ==
    /\ tip.id < MaxBlocks /\ n >= 1
    /\ n = tip.number + 1 \/ Reorgs
    /\ tip' = [number |-> n, id |-> tip.id + 1]
    /\ wire' = IF socket THEN Append(wire, n) ELSE wire
    /\ UNCHANGED <<socket, drops, failures, source, signal, beat, flags, tick, sampled>>

Acknowledged ==
    /\ ~connected
    /\ connected' = TRUE /\ socket' = TRUE
    /\ UNCHANGED <<tip, wire, drops, failures, latest, told, signal, beat, flags, tick, sampled>>

(* The socket stops carrying anything; the subscriber notices later. *)
Break ==
    /\ socket /\ drops < MaxDrops
    /\ socket' = FALSE /\ wire' = <<>>
    /\ drops' = drops + 1
    /\ UNCHANGED <<tip, failures, source, signal, beat, flags, tick, sampled>>

Lost ==
    /\ connected /\ ~socket /\ ~told
    /\ connected' = FALSE
    /\ UNCHANGED <<environment, latest, told, signal, beat, flags, tick, sampled>>

(* The callback: latest first, then a signal unless one is pending. *)
Deliver ==
    /\ wire # <<>> /\ ~told
    /\ wire' = Tail(wire)
    /\ latest' = Max({latest, Head(wire)})
    /\ told' = TRUE
    /\ UNCHANGED <<tip, socket, drops, failures, connected, signal, beat, flags, tick, sampled>>

(* Mutant: the channel has no buffer, so a token sent during a tick is     *)
(* dropped.                                                                *)
SignalUnbuffered ==
    /\ told
    /\ told' = FALSE
    /\ signal' = (signal \/ Selecting)
    /\ UNCHANGED <<environment, connected, latest, beat, flags, tick, sampled>>

Signal ==
    /\ told
    /\ told' = FALSE
    /\ signal' = TRUE
    /\ UNCHANGED <<environment, connected, latest, beat, flags, tick, sampled>>

-----------------------------------------------------------------------------
(* The loop takes the signal: a tick pinned to the newest head. *)
OnSignal ==
    /\ Selecting /\ signal
    /\ signal' = FALSE
    /\ polling' = FALSE /\ retry' = FALSE
    /\ tick' = [kind |-> "pinned", at |-> latest, got |-> NoBlock]
    /\ UNCHANGED <<environment, source, beat, sampled>>

(* The timer. Beats during a tick collapse into one. *)
Timer ==
    /\ ~beat
    /\ beat' = TRUE
    /\ UNCHANGED <<environment, source, signal, flags, tick, sampled>>

(* The switch on a beat: with a live subscription that was acknowledged    *)
(* before the last beat and no failed head tick, the beat does nothing.    *)
Paused == connected /\ ~polling /\ ~retry

OnBeat ==
    /\ Selecting /\ beat
    /\ beat' = FALSE
    /\ polling' = ~connected
    /\ IF Paused THEN UNCHANGED <<retry, tick>>
       ELSE /\ retry' = FALSE
            /\ tick' = [kind |-> "poll", at |-> 0, got |-> NoBlock]
    /\ UNCHANGED <<environment, source, signal, sampled>>

(* The sample of a tick: the head, or the named block if the chain has it. *)
Sample ==
    /\ tick.kind # "none" /\ tick.got = NoBlock
    /\ tick.kind = "pinned" => tick.at <= tip.number
    /\ tick' = [tick EXCEPT !.got = IF tick.kind = "pinned" /\ tick.at < tip.number THEN [number |-> tick.at, id |-> 0] ELSE tip]
    /\ UNCHANGED <<environment, source, signal, beat, flags, sampled>>

Ticked ==
    /\ tick.got # NoBlock
    /\ sampled' = tick.got
    /\ tick' = NoTick
    /\ UNCHANGED <<environment, source, signal, beat, flags>>

(* A failing tick: an outage of the RPC or the store, or a pinned block    *)
(* the chain no longer has. A pinned one is polled for.                    *)
Fails ==
    /\ tick.kind # "none"
    /\ \/ tick.kind = "pinned" /\ tick.got = NoBlock /\ tick.at > tip.number /\ UNCHANGED failures
       \/ (tick.kind = "pinned" \/ PollsFail) /\ failures < MaxFailures /\ failures' = failures + 1
    /\ retry' = (tick.kind = "pinned")
    /\ tick' = NoTick
    /\ UNCHANGED <<tip, socket, wire, drops, source, signal, beat, polling, sampled>>

Init ==
    /\ tip = [number |-> 1, id |-> 1] /\ socket = FALSE /\ wire = <<>> /\ drops = 0 /\ failures = 0
    /\ connected = FALSE /\ latest = 0 /\ told = FALSE
    /\ signal = FALSE /\ beat = FALSE
    /\ polling = TRUE /\ retry = FALSE
    /\ tick = NoTick
    /\ sampled = NoBlock

Next ==
    \/ \E n \in {tip.number - 1, tip.number, tip.number + 1} : Grow(n)
    \/ Acknowledged \/ Break \/ Lost \/ Deliver \/ Signal
    \/ OnSignal \/ Timer \/ OnBeat \/ Sample \/ Ticked \/ Fails

Spec == Init /\ [][Next]_vars

(* Both goroutines run and the timer beats; the loop's select takes either *)
(* ready case, so neither the signal nor the beat is passed over for ever. *)
FairSpec ==
    /\ Spec
    /\ WF_vars(Lost) /\ WF_vars(Deliver) /\ WF_vars(Signal) /\ WF_vars(Timer)
    /\ SF_vars(OnSignal) /\ SF_vars(OnBeat)
    /\ WF_vars(Sample \/ Ticked \/ Fails)

-----------------------------------------------------------------------------
Blocks == [number : 0 .. MaxBlocks, id : 0 .. MaxBlocks]

TypeOK ==
    /\ tip \in Blocks /\ socket \in BOOLEAN /\ wire \in Seq(0 .. MaxBlocks)
    /\ drops \in 0 .. MaxDrops /\ failures \in 0 .. MaxFailures
    /\ connected \in BOOLEAN /\ told \in BOOLEAN /\ latest \in 0 .. MaxBlocks
    /\ signal \in BOOLEAN /\ beat \in BOOLEAN /\ polling \in BOOLEAN /\ retry \in BOOLEAN
    /\ tick \in [kind : {"none", "pinned", "poll"}, at : 0 .. MaxBlocks, got : Blocks]
    /\ sampled \in Blocks

(* "Heads that arrive while a tick is running collapse into one tick at    *)
(* the newest of them": every delivered head gets a tick pinned at it or   *)
(* at a newer one, whatever the loop was doing.                            *)
HeadsTicked ==
    \A n \in 1 .. MaxBlocks : (told /\ latest = n) ~> (tick.kind = "pinned" /\ tick.at >= n)

(* "a quiet chain cannot leave the follower stuck on a stale head": when   *)
(* the chain falls quiet the follower's last sample is its head.           *)
Current == <>[](sampled = tip)

(* "only ticks while the subscription is down, so the follower degrades to *)
(* polling": with the subscription down for good the follower reaches the  *)
(* head of a quiet chain, whatever was lost or failed before.              *)
PollsWhileDown == <>[]~connected => Current

(* "The first timer beat after it comes up runs one explicit tick, so a    *)
(* quiet chain is sampled as soon as the subscription is acknowledged".    *)
SampledOnAck == \A i \in 1 .. MaxBlocks : (connected /\ tip.id = i) ~> (sampled.id >= i)
=============================================================================
