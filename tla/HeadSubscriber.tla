--------------------------- MODULE HeadSubscriber ---------------------------
(***************************************************************************)
(* The newHeads subscription of one network (internal/nitro/heads.go) and  *)
(* the WebSocket leases it takes from the pool (Pool.WSEndpoint): dial,    *)
(* subscribe, ping, reconnect with back-off, and the cooldown of sockets   *)
(* that do not work. One goroutine runs it; time passes in Tick.           *)
(***************************************************************************)
EXTENDS Naturals, FiniteSets, FiniteSetsExt

CONSTANTS
    N,              \* endpoints with a ws_url that Pool has not disabled, 0 is the primary
    Dead,           \* endpoints whose socket never works
    Flaky,          \* endpoints that acknowledge and then drop within HealthyFor
    MinBackoff, MaxBackoff, Cooldown, HealthyFor, DropLimit, PingInterval, Handshake,
    MaxFaults       \* bound: outages, drops and silences of the other endpoints

Endpoints == 0 .. N - 1
Good == Endpoints \ (Dead \cup Flaky)

HeadSubscriberAssumption ==
    /\ {N, MinBackoff, Cooldown, HealthyFor, DropLimit, PingInterval, Handshake} \subseteq Nat \ {0}
    /\ MaxBackoff \in Nat /\ MaxFaults \in Nat /\ MinBackoff <= MaxBackoff
    /\ Dead \subseteq Endpoints /\ Flaky \subseteq Endpoints

VARIABLES
    phase,      \* where Run is: resolve, dial, live (Connected() is true) or sleep
    at,         \* the leased endpoint
    left,       \* ticks left of the sleep or of the handshake
    backoff,    \* Run's back-off
    cool,       \* per endpoint, ticks until Endpoint.wsUntil
    drops,      \* per endpoint, Endpoint.wsDrops
    upFor,      \* ticks since wsUpAt, counted up to HealthyFor
    ping,       \* pingLoop: ticks to the next ping, or to the pong's deadline
    verified,   \* endpoints with Endpoint.verified
    down,       \* environment: endpoints whose socket does not work now
    silent,     \* environment: ticks since the open socket went silent, or Speaking
    mishaps     \* environment: outages, drops and silences so far

pool == <<cool, drops, verified>>
environment == <<down, mishaps>>
vars == <<phase, at, left, backoff, cool, drops, upFor, ping, verified, down, silent, mishaps>>

Speaking == 3 * PingInterval
Live == phase = "live"

-----------------------------------------------------------------------------
(* WSEndpoint: the first usable endpoint that is not cooling and can be    *)
(* verified, and when every one cools the first to recover.                *)
Ready == {e \in Endpoints : cool[e] = 0}
Before(e, f) == cool[e] < cool[f] \/ (cool[e] = cool[f] /\ e <= f)

FirstOf(S) == CHOOSE e \in S : \A f \in S : Before(e, f)

(* The endpoint leased, if any, when verification fails at those in X. *)
Leases(X) ==
    IF Ready \ X # {} THEN {Min(Ready \ X)}
    ELSE IF Ready = Endpoints THEN {} ELSE {FirstOf(Endpoints \ Ready)} \ X

(* Run: sleep, with the back-off reset by an acknowledged subscription. *)
Sleeps(subscribed) ==
    LET wait == IF subscribed THEN MinBackoff ELSE backoff IN
    /\ phase' = "sleep"
    /\ left' = wait
    /\ backoff' = Min({2 * wait, MaxBackoff})

(* target: resolve the endpoint of one attempt. An endpoint verified once  *)
(* is not asked again; one that is down may fail its verification.         *)
Resolve ==
    /\ phase = "resolve"
    /\ \E X \in SUBSET (down \ verified) :
        \/ /\ Leases(X) = {}
           /\ Sleeps(FALSE)
           /\ UNCHANGED <<at, verified>>
        \/ /\ at' \in Leases(X)
           /\ verified' = verified \cup {at'}
           /\ phase' = "dial"
           /\ left' = Handshake
           /\ UNCHANGED backoff
    /\ UNCHANGED <<cool, drops, upFor, ping, silent, environment>>

(* Mutant: the drops of an hour ago still count. *)
LostEver == drops[at] + 1

(* noteWSFailure: the drops of the endpoint after one failure, and whether *)
(* it is cooled down.                                                      *)
Lost == (IF upFor >= HealthyFor THEN 0 ELSE drops[at]) + 1
Cools(subscribed) == ~subscribed \/ Lost >= DropLimit

(* Mutant: a failed dial is not reported. *)
FailsQuietly(subscribed) ==
    /\ drops' = [drops EXCEPT ![at] = IF subscribed /\ ~Cools(subscribed) THEN Lost ELSE 0]
    /\ cool' = IF subscribed /\ Cools(subscribed) THEN [cool EXCEPT ![at] = Cooldown] ELSE cool
    /\ Sleeps(subscribed)
    /\ silent' = Speaking
    /\ UNCHANGED <<at, upFor, ping, verified>>

(* Failed: what the endpoint is responsible for is reported to the pool. *)
Fails(subscribed) ==
    /\ drops' = [drops EXCEPT ![at] = IF Cools(subscribed) THEN 0 ELSE Lost]
    /\ cool' = IF Cools(subscribed) THEN [cool EXCEPT ![at] = Cooldown] ELSE cool
    /\ Sleeps(subscribed)
    /\ silent' = Speaking
    /\ UNCHANGED <<at, upFor, ping, verified>>

(* runOnce: the dial or the subscribe fails, or no answer came in time. *)
Refused ==
    /\ phase = "dial"
    /\ at \in down
    /\ Fails(FALSE)
    /\ UNCHANGED environment

(* runOnce: the subscription is acknowledged; Connected() is now true. *)
Acknowledged ==
    /\ phase = "dial" /\ at \notin down
    /\ phase' = "live"
    /\ upFor' = 0
    /\ cool' = [cool EXCEPT ![at] = 0]
    /\ ping' = [left |-> PingInterval, sent |-> FALSE]
    /\ UNCHANGED <<at, left, backoff, drops, verified, silent, environment>>

(* The peer ends the connection: the read fails. *)
Closed ==
    /\ Live
    /\ \/ at \in Flaky /\ upFor < HealthyFor /\ UNCHANGED environment
       \/ at \in down /\ UNCHANGED environment
       \/ at \in Good /\ mishaps < MaxFaults /\ mishaps' = mishaps + 1 /\ UNCHANGED down
    /\ Fails(TRUE)

-----------------------------------------------------------------------------
(* pingLoop: a ping every interval, and an interval for its pong. *)
Ping ==
    /\ Live /\ ping.left = 0 /\ ~ping.sent
    /\ ping' = [left |-> PingInterval, sent |-> silent # Speaking]
    /\ UNCHANGED <<phase, at, left, backoff, upFor, silent, pool, environment>>

(* pingLoop: no pong came, the socket is closed and the read fails. *)
Unresponsive ==
    /\ Live /\ ping.left = 0 /\ ping.sent
    /\ Fails(TRUE)
    /\ UNCHANGED environment

Wake ==
    /\ phase = "sleep" /\ left = 0
    /\ phase' = "resolve"
    /\ UNCHANGED <<at, left, backoff, upFor, ping, silent, pool, environment>>

(* Time passes where Run waits: no timer that is due is passed over, and a *)
(* flaky endpoint drops before its subscription counts as healthy.         *)
Tick ==
    /\ phase \in {"sleep", "dial"} => left > 0
    /\ phase # "resolve"
    /\ Live => ping.left > 0 /\ ~(at \in Flaky /\ upFor = HealthyFor - 1)
    /\ cool' = [e \in Endpoints |-> IF cool[e] > 0 THEN cool[e] - 1 ELSE 0]
    /\ left' = IF phase \in {"sleep", "dial"} THEN left - 1 ELSE left
    /\ upFor' = IF Live THEN Min({upFor + 1, HealthyFor}) ELSE upFor
    /\ ping' = IF Live THEN [ping EXCEPT !.left = @ - 1] ELSE ping
    /\ silent' = IF silent = Speaking THEN Speaking ELSE silent + 1
    /\ UNCHANGED <<phase, at, backoff, drops, verified, environment>>

(* The environment: a working endpoint goes down and comes back, and the   *)
(* open socket stops carrying anything without being closed.               *)
GoesDown(e) ==
    /\ e \in Endpoints \ down /\ mishaps < MaxFaults
    /\ down' = down \cup {e}
    /\ mishaps' = mishaps + 1
    /\ UNCHANGED <<phase, at, left, backoff, upFor, ping, silent, pool>>

Recovers(e) ==
    /\ e \in down \ Dead
    /\ down' = down \ {e}
    /\ UNCHANGED <<phase, at, left, backoff, upFor, ping, silent, pool, mishaps>>

Silence ==
    /\ Live /\ silent = Speaking /\ mishaps < MaxFaults
    /\ silent' = 0
    /\ mishaps' = mishaps + 1
    /\ UNCHANGED <<phase, at, left, backoff, upFor, ping, pool, down>>

Init ==
    /\ phase = "resolve" /\ at = 0 /\ left = 0
    /\ backoff = MinBackoff
    /\ cool = [e \in Endpoints |-> 0] /\ drops = [e \in Endpoints |-> 0]
    /\ upFor = 0
    /\ ping = [left |-> PingInterval, sent |-> FALSE]
    /\ verified \in SUBSET (Endpoints \ Dead)
    /\ down = Dead /\ silent = Speaking /\ mishaps = 0

Next ==
    \/ Resolve \/ Refused \/ Acknowledged \/ Closed \/ Ping \/ Unresponsive \/ Wake \/ Tick
    \/ \E e \in Endpoints : GoesDown(e) \/ Recovers(e)
    \/ Silence

Spec == Init /\ [][Next]_vars

(* The goroutine runs, time passes, an outage ends, and a flaky peer does  *)
(* drop.                                                                   *)
FairSpec ==
    /\ Spec
    /\ WF_vars(Resolve) /\ WF_vars(Refused \/ Acknowledged) /\ WF_vars(Ping \/ Unresponsive) /\ WF_vars(Wake) /\ WF_vars(Tick)
    /\ WF_vars(at \in Flaky \cup down /\ Closed)
    /\ \A e \in Endpoints : WF_vars(Recovers(e))

-----------------------------------------------------------------------------
TypeOK ==
    /\ phase \in {"resolve", "dial", "live", "sleep"} /\ at \in Endpoints
    /\ left \in 0 .. Max({MaxBackoff, Handshake}) /\ backoff \in MinBackoff .. MaxBackoff
    /\ cool \in [Endpoints -> 0 .. Cooldown] /\ drops \in [Endpoints -> 0 .. DropLimit - 1]
    /\ upFor \in 0 .. HealthyFor
    /\ ping \in [left : 0 .. PingInterval, sent : BOOLEAN]
    /\ verified \subseteq Endpoints /\ down \subseteq Endpoints
    /\ silent \in 0 .. Speaking /\ mishaps \in 0 .. MaxFaults

(* pingLoop: Connected() is never believed for more than two ping          *)
(* intervals after the socket went silent, even on an idle chain.          *)
SilenceNoticed == silent # Speaking => Live /\ silent <= 2 * PingInterval

(* noteWSFailure: "an ordinary reconnect does not move a follower off a    *)
(* working endpoint": a subscription that had held for HealthyFor is lost  *)
(* without its endpoint being cooled down.                                 *)
ReconnectStep ==
    (Live /\ phase' = "sleep" /\ upFor >= HealthyFor /\ DropLimit > 1) => cool'[at] <= cool[at]
ReconnectKeeps == [][ReconnectStep]_vars

(* WSEndpoint and Failed: the subscription ends up on a working socket for *)
(* good. So for one dead and one flaky endpoint in front of it at the      *)
(* default ratio of back-off and cooldown, not for two of a kind.          *)
OnGood == Live /\ at \in Good
Settles == <>[]OnGood
=============================================================================
