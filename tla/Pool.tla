-------------------------------- MODULE Pool --------------------------------
(***************************************************************************)
(* One network's endpoint pool (internal/nitro/pool.go): ordinary calls go *)
(* to the active endpoint and fail over together, historical reads have a  *)
(* path of their own, and no endpoint is used before its chain id matched. *)
(* Each action is one critical section of Pool.mu (or ArchivePool.mu), or  *)
(* one request to an endpoint between two of them.                         *)
(***************************************************************************)
EXTENDS Naturals, FiniteSets, FiniteSetsExt

CONSTANTS
    N,              \* endpoints, 0 is the primary
    Archives,       \* endpoints configured with archive
    Wrong,          \* endpoints that report another chain id
    Steady,         \* endpoints that are never down
    Callers,        \* goroutines that use the pool
    Cooldown,       \* Pool.cooldown in ticks
    MaxFaults       \* bound: endpoints going down

Endpoints == 0 .. N - 1

PoolAssumption ==
    /\ N \in Nat \ {0} /\ Cooldown \in Nat \ {0} /\ MaxFaults \in Nat
    /\ Archives \subseteq Endpoints /\ Wrong \subseteq Endpoints /\ Steady \subseteq Endpoints

VARIABLES
    active,     \* Pool.active
    cooling,    \* ticks until Pool.failoverUntil
    probing,    \* Pool.probing
    verified,   \* endpoints with Endpoint.verified
    disabled,   \* endpoints with Endpoint.disabled
    at,         \* ArchivePool.at
    boot,       \* Verify at start: the next endpoint to check, how many were usable
    call,       \* each caller's place in do or in an archive read, and its locals
    up,         \* environment: the endpoints that answer
    faults,     \* environment: how often one went down
    broke       \* history: archive endpoints that failed a historical read

routing == <<active, cooling, probing>>
health == <<verified, disabled>>
environment == <<up, faults>>
vars == <<active, cooling, probing, verified, disabled, at, boot, call, up, faults, broke>>

Idle == [pc |-> "idle", archive |-> FALSE, e |-> 0, tried |-> 0, stale |-> 0, ok |-> FALSE, asked |-> {}, again |-> FALSE]
Places == {"idle", "pick", "probe", "probed", "verify", "send", "wire", "failed"}
Running == boot.next = N + 1

-----------------------------------------------------------------------------
(* check: a matching chain id verifies the endpoint, another disables it   *)
(* and no answer changes nothing.                                          *)
Matches(e) == e \in up /\ e \notin Wrong
Check(e) ==
    /\ verified' = IF Matches(e) THEN verified \cup {e} ELSE verified
    /\ disabled' = IF e \in up /\ e \in Wrong THEN disabled \cup {e} ELSE disabled

(* advanceLocked: the next usable endpoint after one, in cyclic order. *)
Usable(e) == (Endpoints \ disabled) \ {e}
After(e, f) == (f + N - e) % N

Advanced(e) == CHOOSE f \in Usable(e) : \A g \in Usable(e) : After(e, f) <= After(e, g)

(* failOverLocked. *)
MoveOn == active' = Advanced(active) /\ cooling' = Cooldown

(* currentLocked. *)
NothingUsable == active \in disabled /\ Usable(active) = {}
Current == IF active \in disabled THEN Advanced(active) ELSE active

-----------------------------------------------------------------------------
(* Verify, once before the loops start; the follower tries again when no   *)
(* endpoint could be verified.                                             *)
BootCheck ==
    /\ boot.next < N
    /\ IF boot.next \in disabled
       THEN UNCHANGED health /\ boot' = [boot EXCEPT !.next = @ + 1]
       ELSE /\ Check(boot.next)
            /\ boot' = [next |-> boot.next + 1, usable |-> boot.usable \/ Matches(boot.next)]
    /\ UNCHANGED <<routing, at, call, environment, broke>>

BootEnd ==
    /\ boot.next = N
    /\ boot' = IF boot.usable THEN [boot EXCEPT !.next = N + 1] ELSE [next |-> 0, usable |-> FALSE]
    /\ IF boot.usable /\ active \in disabled /\ Usable(active) # {}
       THEN MoveOn /\ UNCHANGED probing ELSE UNCHANGED routing
    /\ UNCHANGED <<health, at, call, environment, broke>>

-----------------------------------------------------------------------------
(* do. *)
Goto(c, pc) == call' = [call EXCEPT ![c].pc = pc]
Return(c) == call' = [call EXCEPT ![c] = Idle]

Begin(c) ==
    /\ Running /\ call[c].pc = "idle"
    /\ Goto(c, "pick")
    /\ UNCHANGED <<routing, health, at, boot, environment, broke>>

(* pick, up to the unlock before the probe. *)
Pick(c) ==
    LET probe == Current # 0 /\ ~probing /\ 0 \notin disabled /\ cooling = 0 IN
    /\ call[c].pc = "pick" /\ ~call[c].archive
    /\ IF NothingUsable THEN Return(c) /\ UNCHANGED <<active, probing>>
       ELSE /\ active' = Current
            /\ probing' = (probing \/ probe)
            /\ call' = [call EXCEPT ![c].pc = IF probe THEN "probe" ELSE "verify", ![c].e = Current]
    /\ UNCHANGED <<cooling, health, at, boot, environment, broke>>

Probe(c) ==
    /\ call[c].pc = "probe"
    /\ Check(0)
    /\ call' = [call EXCEPT ![c].pc = "probed", ![c].ok = Matches(0)]
    /\ UNCHANGED <<routing, at, boot, environment, broke>>

(* Mutant: a failed probe leaves probing set. *)
ProbeEnded(ok) == probing' = ~ok

(* pick clears probing whatever the probe brought. *)
ProbeDone(ok) == probing' = FALSE

(* pick, with the lock again: back to the primary, or another cooldown. *)
Probed(c) ==
    LET now  == IF call[c].ok THEN 0 ELSE active
        none == now \in disabled /\ Usable(now) = {}
        next == IF now \in disabled THEN Advanced(now) ELSE now
    IN  /\ call[c].pc = "probed"
        /\ ProbeDone(call[c].ok)
        /\ cooling' = IF call[c].ok THEN cooling ELSE Cooldown
        /\ active' = IF none THEN now ELSE next
        /\ IF none THEN Return(c) ELSE call' = [call EXCEPT ![c].pc = "verify", ![c].e = next, ![c].ok = FALSE]
        /\ UNCHANGED <<health, at, boot, environment, broke>>

(* verify: an endpoint nobody could check yet is checked before its first use. *)
Verify(c) ==
    LET e == call[c].e IN
    /\ call[c].pc = "verify"
    /\ IF e \in verified THEN UNCHANGED health ELSE Check(e)
    /\ Goto(c, IF e \in verified \/ Matches(e) THEN "send" ELSE "failed")
    /\ UNCHANGED <<routing, at, boot, environment, broke>>

(* Mutant: a stale call may pick again for ever. *)
GivesUpNever(stale) == FALSE

GivesUp(stale) == stale > N

(* stillActive, then do's answer to ErrStaleEndpoint. *)
Send(c) ==
    LET stale == call[c].stale + 1 IN
    /\ call[c].pc = "send"
    /\ IF call[c].archive \/ active = call[c].e
       THEN call' = [call EXCEPT ![c].pc = "wire", ![c].again = @ \/ call[c].e \in call[c].asked,
                                 ![c].asked = @ \cup {call[c].e}]
       ELSE IF GivesUp(stale) THEN Return(c)
       ELSE call' = [call EXCEPT ![c].pc = "pick", ![c].stale = IF stale > N THEN @ ELSE stale]
    /\ UNCHANGED <<routing, health, at, boot, environment, broke>>

(* The endpoint answers, or the request fails on it. *)
Answer(c) ==
    /\ call[c].pc = "wire"
    /\ IF call[c].e \in up THEN Return(c) ELSE Goto(c, "failed")
    /\ UNCHANGED <<routing, health, at, boot, environment, broke>>

(* Mutant: every caller that failed moves the pool. *)
FailOverAlways(e) == Usable(active) # {}

(* failOver: only when nobody moved on from the endpoint meanwhile. *)
FailsOver(e) == active = e /\ Usable(active) # {}

FailOver(c) ==
    LET tried == call[c].tried + 1 IN
    /\ call[c].pc = "failed" /\ ~call[c].archive
    /\ IF tried < N /\ FailsOver(call[c].e) THEN MoveOn ELSE UNCHANGED <<active, cooling>>
    /\ IF tried >= N \/ (active = call[c].e /\ Usable(active) = {}) THEN Return(c)
       ELSE call' = [call EXCEPT ![c].pc = "pick", ![c].tried = tried]
    /\ UNCHANGED <<probing, health, at, boot, environment, broke>>

-----------------------------------------------------------------------------
(* Historical reads: FastSampleAt, L1SampleAt, PricingSampleAt. *)
BeginArchive(c) ==
    /\ Running /\ call[c].pc = "idle" /\ Archives # {}
    /\ call' = [call EXCEPT ![c].pc = "pick", ![c].archive = TRUE]
    /\ UNCHANGED <<routing, health, at, boot, environment, broke>>

(* ArchivePool.nextLocked. *)
Left == {e \in Archives \ disabled : e >= at}
PickArchive(c) ==
    /\ call[c].pc = "pick" /\ call[c].archive
    /\ IF Left = {} \/ call[c].tried = N THEN Return(c) /\ UNCHANGED at
       ELSE /\ at' = Min(Left)
            /\ call' = [call EXCEPT ![c].pc = "verify", ![c].e = Min(Left)]
    /\ UNCHANGED <<routing, health, boot, environment, broke>>

Past(e) == IF at = e THEN e + 1 ELSE at

(* ArchivePool.failed. *)
FailArchive(c) ==
    /\ call[c].pc = "failed" /\ call[c].archive
    /\ at' = Past(call[c].e)
    /\ broke' = broke \cup {call[c].e}
    /\ call' = [call EXCEPT ![c].pc = "pick", ![c].tried = @ + 1]
    /\ UNCHANGED <<routing, health, boot, environment>>

(* The caller's context ends while a request is out. A probe that breaks   *)
(* off so has failed: another cooldown starts.                             *)
Cancel(c) ==
    /\ call[c].pc \in {"probe", "verify", "wire"}
    /\ Return(c)
    /\ IF call[c].pc = "probe"
       THEN /\ ProbeDone(FALSE) /\ cooling' = Cooldown
            /\ active' = IF NothingUsable THEN active ELSE Current
       ELSE UNCHANGED routing
    /\ UNCHANGED <<health, at, boot, environment, broke>>

-----------------------------------------------------------------------------
Tick ==
    /\ cooling > 0 /\ cooling' = cooling - 1
    /\ UNCHANGED <<active, probing, health, at, boot, call, environment, broke>>

Down ==
    /\ faults < MaxFaults /\ faults' = faults + 1
    /\ \E e \in up \ Steady : up' = up \ {e}
    /\ UNCHANGED <<routing, health, at, boot, call, broke>>

Up ==
    /\ \E e \in Endpoints \ up : up' = up \cup {e}
    /\ UNCHANGED <<routing, health, at, boot, call, faults, broke>>

Init ==
    /\ active = 0 /\ cooling = 0 /\ probing = FALSE
    /\ verified = {} /\ disabled = {} /\ at = 0
    /\ boot = [next |-> 0, usable |-> FALSE]
    /\ call = [c \in Callers |-> Idle]
    /\ up \in {u \in SUBSET Endpoints : Steady \subseteq u} /\ faults = 0 /\ broke = {}

Step(c) ==
    \/ Pick(c) \/ Probe(c) \/ Probed(c) \/ Verify(c) \/ Send(c) \/ Answer(c) \/ FailOver(c)
    \/ PickArchive(c) \/ FailArchive(c)

Next ==
    \/ BootCheck \/ BootEnd \/ Tick \/ Down \/ Up
    \/ \E c \in Callers : Begin(c) \/ BeginArchive(c) \/ Step(c) \/ Cancel(c)

Spec == Init /\ [][Next]_vars

(* Loops call again on their timers, requests time out, time passes, and   *)
(* not every probe is broken off: contexts end with the process.           *)
FairSpec ==
    /\ Spec
    /\ WF_vars(BootCheck) /\ WF_vars(BootEnd) /\ WF_vars(Tick)
    /\ \A c \in Callers : WF_vars(Begin(c)) /\ WF_vars(Step(c)) /\ SF_vars(Probe(c))

-----------------------------------------------------------------------------
TypeOK ==
    /\ active \in Endpoints /\ cooling \in 0 .. Cooldown /\ probing \in BOOLEAN
    /\ verified \subseteq Endpoints /\ disabled \subseteq Wrong /\ at \in 0 .. N
    /\ \A c \in Callers : /\ call[c].pc \in Places /\ call[c].e \in Endpoints
                          /\ call[c].tried \in 0 .. N /\ call[c].stale \in 0 .. N

(* The pool's probing flag is the caller that probes: one at a time, and   *)
(* never a flag nobody will clear, which would end the probing for good.   *)
ProbeOwned ==
    Cardinality({c \in Callers : call[c].pc \in {"probe", "probed"}}) = IF probing THEN 1 ELSE 0

(* Nothing but a chain id check is ever asked of an endpoint on another    *)
(* chain, also when it could not be reached at start and only the middle   *)
(* of a fail over met it again.                                            *)
RightChain == \A c \in Callers : call[c].pc = "wire" => call[c].e \in verified \ Wrong

(* However many callers fail on one endpoint at once, the pool does not    *)
(* fail over past an endpoint that has failed nobody: it leaves a steady   *)
(* one only for the primary, after a probe.                                *)
SteadyStep ==
    (active \in Steady \ Wrong /\ active' # active)
        => active' = 0 /\ \E c \in Callers : call[c].pc = "probed" /\ call[c].ok /\ call'[c].pc # "probed"

(* The archive path leaves behind only endpoints that failed a historical  *)
(* read or are disabled: concurrent failures of one never skip the next.   *)
ArchiveSkipsNone == \A e \in Archives : e < at => e \in broke \cup disabled

(* Concurrent failures move the routing once, and only on evidence (pick,  *)
(* failOver, ArchivePool.failed, verify).                                  *)
RoutingSteady ==
    /\ [](ProbeOwned /\ ArchiveSkipsNone /\ RightChain)
    /\ [][SteadyStep]_vars

(* "at most once per endpoint": one call of do sends to no endpoint twice. *)
OncePerEndpoint == \A c \in Callers : ~call[c].archive => ~call[c].again

(* Every call ends, whatever the others do to the routing meanwhile. *)
CallsEnd == \A c \in Callers : call[c].pc = "pick" ~> call[c].pc = "idle"

(* A primary that is back for good gets the ordinary calls back for good. *)
PrimaryRegained == <>[](0 \in up) => <>[](Running => active = 0)
=============================================================================
