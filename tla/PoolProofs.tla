----------------------------- MODULE PoolProofs -----------------------------
(***************************************************************************)
(* The endpoint pool for any number of endpoints and callers: concurrent   *)
(* failures move the routing once and only on evidence, one caller probes  *)
(* at a time, and nothing is sent to an endpoint on another chain.         *)
(***************************************************************************)
EXTENDS Pool, FiniteSetTheorems, NaturalsInduction, WellFoundedInduction, TLAPS

Call == [pc : Places, archive : BOOLEAN, e : Endpoints, tried : 0 .. N, stale : 0 .. N, ok : BOOLEAN,
         asked : SUBSET Endpoints, again : BOOLEAN]

Boot == [next : 0 .. N + 1, usable : BOOLEAN]

-----------------------------------------------------------------------------
(* The inductive invariant.  The environment: a steady endpoint answers.   *)
(* Health: a chain id that matched is not on another chain, one that was   *)
(* disabled is.                                                            *)
TypeInv ==
    /\ active \in Endpoints /\ cooling \in 0 .. Cooldown /\ probing \in BOOLEAN
    /\ at \in 0 .. N /\ boot \in Boot
    /\ up \subseteq Endpoints /\ Steady \subseteq up
    /\ verified \subseteq Endpoints \ Wrong /\ disabled \subseteq Wrong

(* What a caller's place says: it sends only to a verified endpoint, fails *)
(* only on one that is down or on another chain, and a probe that came     *)
(* back well found the primary on the right chain.                         *)
Placed(k, checked) ==
    /\ k.pc \in {"send", "wire"} => k.e \in checked
    /\ k.pc = "failed" => k.e \notin Steady \ Wrong
    /\ k.pc = "probed" /\ k.ok => 0 \notin Wrong
    /\ k.pc \in {"probe", "probed"} => ~ k.archive
    /\ k.archive /\ k.pc \in {"verify", "send", "wire", "failed"} => k.tried < N

CallsInv ==
    /\ call \in [Callers -> Call]
    /\ \A c \in Callers : Placed(call[c], verified)

(* The probing flag is the caller that probes. *)
Probes(k) == k.pc \in {"probe", "probed"}
ProbeInv ==
    /\ \A c \in Callers : Probes(call[c]) => probing
    /\ \A c, d \in Callers : Probes(call[c]) /\ Probes(call[d]) => c = d
    /\ probing => \E c \in Callers : Probes(call[c])

IInv == TypeInv /\ CallsInv /\ ProbeInv /\ ArchiveSkipsNone

-----------------------------------------------------------------------------
(* Every nonempty set of naturals has a least element. *)
Below == {pair \in Nat \X Nat : pair[1] < pair[2]}

LEMMA LeastNat ==
  ASSUME NEW S \in SUBSET Nat, S # {}
  PROVE  \E m \in S : \A k \in S : m <= k
<1>1. IsWellFoundedOn(Below, Nat)
  BY NatLessThanWellFounded, Zenon DEF OpToRel, Below
<1>2. PICK m \in S : \A k \in S : ~ (<<k, m>> \in Below)
  BY <1>1, WFMin
<1>3. \A k \in S : ~ (k < m)
  BY <1>2 DEF Below
<1> QED
  BY <1>3

LEMMA MinIsLeast ==
  ASSUME NEW S \in SUBSET Nat, S # {}
  PROVE  Min(S) \in S /\ \A x \in S : Min(S) <= x
<1>1. \E m \in S : \A x \in S : m <= x
  BY LeastNat
<1> QED
  BY <1>1 DEF Min

LEMMA EndpointNat ==
  ASSUME PoolAssumption
  PROVE  N \in Nat /\ N >= 1 /\ 0 \in Endpoints /\ \A e \in Endpoints : e \in Nat /\ e < N
  BY DEF PoolAssumption, Endpoints

(* advanceLocked finds an endpoint whenever another one is usable.         *)
LEMMA AdvancedUsable ==
  ASSUME PoolAssumption, NEW e \in Endpoints, Usable(e) # {}
  PROVE  Advanced(e) \in Usable(e)
<1> DEFINE D == {After(e, f) : f \in Usable(e)}
<1>1. \A f \in Usable(e) : After(e, f) \in Nat
  <2> TAKE f \in Usable(e)
  <2>1. f \in Endpoints
    BY DEF Usable
  <2>2. f + N - e \in Nat /\ N \in Nat \ {0}
    BY <2>1, EndpointNat
  <2> QED
    BY <2>2 DEF After
<1>2. D \in SUBSET Nat /\ D # {}
  BY <1>1
<1>3. PICK m \in D : \A k \in D : m <= k
  BY <1>2, LeastNat
<1>4. \E f \in Usable(e) : \A g \in Usable(e) : After(e, f) <= After(e, g)
  BY <1>3
<1> QED
  BY <1>4 DEF Advanced

LEMMA CurrentUsable ==
  ASSUME PoolAssumption, TypeInv, ~ NothingUsable
  PROVE  Current \in Endpoints /\ (active \notin disabled => Current = active)
<1>1. active \in disabled => Advanced(active) \in Endpoints
  BY AdvancedUsable DEF TypeInv, NothingUsable, Usable
<1> QED
  BY <1>1 DEF TypeInv, Current

(* check keeps what is known of an endpoint true. *)
LEMMA CheckKnows ==
  ASSUME PoolAssumption, TypeInv, NEW e \in Endpoints, Check(e)
  PROVE  /\ verified' \subseteq Endpoints \ Wrong /\ disabled' \subseteq Wrong
         /\ verified \subseteq verified' /\ disabled \subseteq disabled'
         /\ Matches(e) => e \in verified' /\ e \notin Wrong
         /\ ~ Matches(e) => e \notin Steady \ Wrong
  BY DEF TypeInv, Check, Matches

-----------------------------------------------------------------------------
(* One caller moves. *)
LEMMA CallMoves ==
  ASSUME CallsInv, NEW c \in Callers, NEW k \in Call, call' = [call EXCEPT ![c] = k],
         verified \subseteq verified', Placed(k, verified')
  PROVE  CallsInv' /\ call'[c] = k /\ \A d \in Callers \ {c} : call'[d] = call[d]
<1>1. call' \in [Callers -> Call]
  BY Zenon DEF CallsInv
<1>2. call'[c] = k /\ \A d \in Callers \ {c} : call'[d] = call[d]
  BY DEF CallsInv
<1>3. \A d \in Callers : Placed(call'[d], verified')
  BY <1>2 DEF CallsInv, Placed
<1> QED
  BY <1>1, <1>2, <1>3 DEF CallsInv

LEMMA CallsStay ==
  ASSUME CallsInv, call' = call, verified \subseteq verified'
  PROVE  CallsInv'
  BY DEF CallsInv, Placed

(* The flag follows the one caller that probes. *)
LEMMA ProbeMoves ==
  ASSUME ProbeInv, NEW c \in Callers, \A d \in Callers \ {c} : call'[d] = call[d],
         \/ Probes(call[c]) /\ Probes(call'[c]) /\ probing' = probing
         \/ ~ Probes(call[c]) /\ ~ Probes(call'[c]) /\ probing' = probing
         \/ ~ Probes(call[c]) /\ Probes(call'[c]) /\ ~ probing /\ probing'
         \/ Probes(call[c]) /\ ~ Probes(call'[c]) /\ ~ probing'
  PROVE  ProbeInv'
  BY DEF ProbeInv

LEMMA IdleCall ==
  ASSUME PoolAssumption
  PROVE  Idle \in Call /\ (\A v : Placed(Idle, v)) /\ ~ Probes(Idle)
<1>1. 0 \in 0 .. N /\ 0 \in Endpoints /\ {} \in SUBSET Endpoints /\ FALSE \in BOOLEAN /\ "idle" \in Places
  BY EndpointNat DEF Places
<1>2. Idle \in Call
  BY <1>1, Zenon DEF Idle, Call
<1>3. Idle.pc = "idle" /\ Idle.archive = FALSE
  BY DEF Idle
<1>4. \A v : Placed(Idle, v)
  BY <1>3 DEF Placed
<1> QED
  BY <1>2, <1>3, <1>4 DEF Probes

(* A caller goes on to another place, with the endpoint and the counts it  *)
(* took on the way.                                                        *)
LEMMA GoOn ==
  ASSUME NEW k \in Call, NEW p \in Places
  PROVE  /\ [k EXCEPT !.pc = p] \in Call
         /\ [k EXCEPT !.pc = p].pc = p
         /\ [k EXCEPT !.pc = p].e = k.e
         /\ [k EXCEPT !.pc = p].archive = k.archive
         /\ [k EXCEPT !.pc = p].tried = k.tried
         /\ [k EXCEPT !.pc = p].ok = k.ok
<1>1. [k EXCEPT !.pc = p] \in Call
  BY Zenon DEF Call
<1> QED
  BY <1>1 DEF Call

(* A step that leaves the pool's own fields alone. *)
LEMMA OnlyCalls ==
  ASSUME IInv, UNCHANGED <<routing, health, at, boot, up>>, broke \subseteq broke', CallsInv', ProbeInv'
  PROVE  IInv' /\ SteadyStep
<1>1. TypeInv'
  BY DEF IInv, TypeInv, routing, health
<1>2. ArchiveSkipsNone'
  BY DEF IInv, ArchiveSkipsNone, health
<1>3. SteadyStep
  BY DEF SteadyStep, routing
<1> QED
  BY <1>1, <1>2, <1>3 DEF IInv

(* A caller gives up or is done. *)
LEMMA Returns ==
  ASSUME PoolAssumption, IInv, NEW c \in Callers, Return(c), UNCHANGED verified,
         ~ Probes(call[c]), UNCHANGED probing
  PROVE  CallsInv' /\ ProbeInv'
<1>1. CallsInv' /\ call'[c] = Idle /\ \A d \in Callers \ {c} : call'[d] = call[d]
  BY IdleCall, CallMoves DEF IInv, Return
<1>2. ProbeInv'
  BY <1>1, IdleCall, ProbeMoves DEF IInv
<1> QED
  BY <1>1, <1>2

-----------------------------------------------------------------------------
(* The actions. *)
LEMMA StepBegin ==
  ASSUME PoolAssumption, IInv, NEW c \in Callers, Begin(c)
  PROVE  IInv' /\ SteadyStep
<1> DEFINE k == [call[c] EXCEPT !.pc = "pick"]
<1>1. call[c] \in Call /\ "pick" \in Places
  BY DEF IInv, CallsInv, Places
<1>2. k \in Call /\ k.pc = "pick"
  BY <1>1, GoOn
<1>3. call' = [call EXCEPT ![c] = k] /\ call[c].pc = "idle" /\ UNCHANGED <<routing, health, at, boot, up, broke>>
  BY DEF Begin, Goto, environment
<1> HIDE DEF k
<1>4. Placed(k, verified') /\ ~ Probes(k) /\ ~ Probes(call[c])
  BY <1>2, <1>3 DEF Placed, Probes
<1>5. CallsInv' /\ call'[c] = k /\ \A d \in Callers \ {c} : call'[d] = call[d]
  BY <1>2, <1>3, <1>4, CallMoves DEF IInv, health
<1>6. ProbeInv'
  BY <1>3, <1>4, <1>5, ProbeMoves DEF IInv, routing
<1> QED
  BY <1>3, <1>5, <1>6, OnlyCalls

LEMMA StepBeginArchive ==
  ASSUME PoolAssumption, IInv, NEW c \in Callers, BeginArchive(c)
  PROVE  IInv' /\ SteadyStep
<1> DEFINE k == [call[c] EXCEPT !.pc = "pick", !.archive = TRUE]
<1>1. call[c] \in Call /\ "pick" \in Places /\ TRUE \in BOOLEAN
  BY DEF IInv, CallsInv, Places
<1>2. k \in Call
  BY <1>1, Zenon DEF Call
<1>3. k.pc = "pick"
  BY <1>1 DEF Call
<1>4. call' = [call EXCEPT ![c] = k] /\ call[c].pc = "idle" /\ UNCHANGED <<routing, health, at, boot, up, broke>>
  BY DEF BeginArchive, environment
<1> HIDE DEF k
<1>5. Placed(k, verified') /\ ~ Probes(k) /\ ~ Probes(call[c])
  BY <1>3, <1>4 DEF Placed, Probes
<1>6. CallsInv' /\ call'[c] = k /\ \A d \in Callers \ {c} : call'[d] = call[d]
  BY <1>2, <1>4, <1>5, CallMoves DEF IInv, health
<1>7. ProbeInv'
  BY <1>4, <1>5, <1>6, ProbeMoves DEF IInv, routing
<1> QED
  BY <1>4, <1>6, <1>7, OnlyCalls
(* An active endpoint is given up in pick only when it is disabled, and a  *)
(* steady one on the right chain never is.                                 *)
LEMMA StepPick ==
  ASSUME PoolAssumption, IInv, NEW c \in Callers, Pick(c)
  PROVE  IInv' /\ SteadyStep
<1>1. call[c] \in Call /\ call[c].pc = "pick" /\ ~ call[c].archive /\ ~ Probes(call[c])
  BY DEF IInv, CallsInv, Pick, Probes
<1>2. UNCHANGED <<cooling, health, at, boot, up, broke>>
  BY DEF Pick, environment
<1>3. CASE NothingUsable
  <2>1. Return(c) /\ UNCHANGED <<active, probing>>
    BY <1>3 DEF Pick
  <2>2. CallsInv' /\ ProbeInv'
    BY <1>1, <1>2, <2>1, Returns DEF health
  <2> QED
    BY <1>2, <2>1, <2>2, OnlyCalls DEF routing
<1>4. CASE ~ NothingUsable
  <2>1. TypeInv
    BY DEF IInv
  <2>2. Current \in Endpoints /\ (active \notin disabled => Current = active)
    BY <1>4, <2>1, CurrentUsable
  <2>3. PICK probe \in BOOLEAN :
           /\ probe => ~ probing
           /\ active' = Current /\ probing' = (probing \/ probe)
           /\ call' = [call EXCEPT ![c].pc = IF probe THEN "probe" ELSE "verify", ![c].e = Current]
    <3> DEFINE b == Current # 0 /\ ~probing /\ 0 \notin disabled /\ cooling = 0
    <3>1. b \in BOOLEAN /\ (b => ~ probing)
      OBVIOUS
    <3>2. /\ active' = Current /\ probing' = (probing \/ b)
          /\ call' = [call EXCEPT ![c].pc = IF b THEN "probe" ELSE "verify", ![c].e = Current]
      BY <1>4, Zenon DEF Pick
    <3> HIDE DEF b
    <3> QED
      BY <3>1, <3>2
  <2>3a. PICK f \in Endpoints, p \in {"probe", "verify"} :
            f = Current /\ p = IF probe THEN "probe" ELSE "verify"
    BY <2>2
  <2>4. p \in Places /\ (p = "probe" <=> probe)
    BY <2>3a DEF Places
  <2> DEFINE k == [call[c] EXCEPT !.pc = p, !.e = f]
  <2>5. call' = [call EXCEPT ![c] = k]
    BY <2>3, <2>3a
  <2>5a. call[c] \in Call /\ p \in Places /\ f \in Endpoints
    BY <1>1, <2>3a, <2>4
  <2>6. k \in Call /\ k.pc = p /\ k.archive = call[c].archive
    <3>1. k \in Call
      BY <2>5a, Zenon DEF Call
    <3>2. k.pc = p
      BY <2>5a DEF Call
    <3>3. k.archive = call[c].archive
      BY <2>5a DEF Call
    <3> QED
      BY <3>1, <3>2, <3>3
  <2> HIDE DEF k
  <2>7. Placed(k, verified') /\ (Probes(k) <=> probe)
    BY <1>1, <2>3a, <2>4, <2>6 DEF Placed, Probes
  <2>8. CallsInv' /\ call'[c] = k /\ \A d \in Callers \ {c} : call'[d] = call[d]
    BY <1>2, <2>5, <2>6, <2>7, CallMoves DEF IInv, health
  <2>9. ProbeInv'
    <3>1. CASE probe
      BY <1>1, <2>3, <2>7, <2>8, <3>1, ProbeMoves DEF IInv
    <3>2. CASE ~ probe
      <4>1. probing' = probing
        BY <2>1, <2>3, <3>2, Zenon DEF TypeInv
      <4> QED
        BY <1>1, <2>7, <2>8, <3>2, <4>1, ProbeMoves DEF IInv
    <3> QED
      BY <3>1, <3>2
  <2>10. TypeInv'
    <3>1. probing' \in BOOLEAN
      BY <2>1, <2>3 DEF TypeInv
    <3> QED
      BY <1>2, <2>1, <2>2, <2>3, <3>1 DEF TypeInv, health
  <2>11. ArchiveSkipsNone'
    BY <1>2 DEF IInv, ArchiveSkipsNone, health
  <2>12. SteadyStep
    BY <2>1, <2>2, <2>3 DEF TypeInv, SteadyStep
  <2> QED
    BY <2>8, <2>9, <2>10, <2>11, <2>12 DEF IInv
<1> QED
  BY <1>3, <1>4

LEMMA StepProbe ==
  ASSUME PoolAssumption, IInv, NEW c \in Callers, Probe(c)
  PROVE  IInv' /\ SteadyStep
<1> DEFINE k == [call[c] EXCEPT !.pc = "probed", !.ok = Matches(0)]
<1>1. call[c] \in Call /\ "probed" \in Places /\ Matches(0) \in BOOLEAN
  BY DEF IInv, CallsInv, Places, Matches
<1>2. k \in Call
  BY <1>1, Zenon DEF Call
<1>3. k.pc = "probed"
  BY <1>1 DEF Call
<1>4. k.ok = Matches(0)
  BY <1>1, Zenon DEF Call
<1>4a. k.archive = call[c].archive
  BY <1>1 DEF Call
<1>5. call' = [call EXCEPT ![c] = k] /\ call[c].pc = "probe" /\ Check(0) /\ UNCHANGED <<routing, at, boot, up, broke>>
  BY DEF Probe, environment
<1> HIDE DEF k
<1>6. TypeInv /\ 0 \in Endpoints
  BY EndpointNat DEF IInv
<1>7. /\ verified' \subseteq Endpoints \ Wrong /\ disabled' \subseteq Wrong
      /\ verified \subseteq verified' /\ disabled \subseteq disabled'
  BY <1>5, <1>6, CheckKnows
<1>8. Placed(k, verified') /\ Probes(k) /\ Probes(call[c])
  <2>1. ~ call[c].archive
    BY <1>5 DEF IInv, CallsInv, Placed
  <2>2. k.ok => 0 \notin Wrong
    BY <1>4 DEF Matches
  <2> QED
    BY <1>3, <1>5, <1>4a, <2>1, <2>2 DEF Placed, Probes
<1>9. CallsInv' /\ call'[c] = k /\ \A d \in Callers \ {c} : call'[d] = call[d]
  BY <1>2, <1>5, <1>7, <1>8, CallMoves DEF IInv
<1>10. ProbeInv'
  BY <1>5, <1>8, <1>9, ProbeMoves DEF IInv, routing
<1>11. TypeInv'
  BY <1>5, <1>6, <1>7 DEF TypeInv, routing
<1>12. ArchiveSkipsNone'
  BY <1>5, <1>7 DEF IInv, ArchiveSkipsNone
<1>13. SteadyStep
  BY <1>5 DEF SteadyStep, routing
<1> QED
  BY <1>9, <1>10, <1>11, <1>12, <1>13 DEF IInv

(* A probe that came back well brings the pool back to the primary; one    *)
(* that did not leaves the routing to what it was.                         *)
LEMMA StepProbed ==
  ASSUME PoolAssumption, IInv, NEW c \in Callers, Probed(c)
  PROVE  IInv' /\ SteadyStep
<1>1. TypeInv /\ call[c] \in Call /\ call[c].pc = "probed" /\ Probes(call[c])
  BY DEF IInv, CallsInv, Probed, Probes
<1>2. probing' = FALSE /\ UNCHANGED <<health, at, boot, up, broke>>
  BY DEF Probed, ProbeDone, environment
<1>3. PICK now \in Endpoints :
        /\ now = IF call[c].ok THEN 0 ELSE active
        /\ call[c].ok => now \notin disabled
        /\ cooling' \in {cooling, Cooldown}
        /\ active' = IF now \in disabled /\ Usable(now) = {} THEN now
                     ELSE IF now \in disabled THEN Advanced(now) ELSE now
        /\ IF now \in disabled /\ Usable(now) = {} THEN Return(c)
           ELSE call' = [call EXCEPT ![c].pc = "verify",
                                     ![c].e = IF now \in disabled THEN Advanced(now) ELSE now, ![c].ok = FALSE]
  <2> DEFINE w == IF call[c].ok THEN 0 ELSE active
  <2>1. w \in Endpoints
    BY <1>1, EndpointNat DEF TypeInv
  <2>2. call[c].ok => w \notin disabled
    BY <1>1 DEF IInv, CallsInv, Placed, TypeInv
  <2>3. /\ cooling' \in {cooling, Cooldown}
        /\ active' = IF w \in disabled /\ Usable(w) = {} THEN w ELSE IF w \in disabled THEN Advanced(w) ELSE w
    BY DEF Probed
  <2>4. IF w \in disabled /\ Usable(w) = {} THEN Return(c)
        ELSE call' = [call EXCEPT ![c].pc = "verify",
                                  ![c].e = IF w \in disabled THEN Advanced(w) ELSE w, ![c].ok = FALSE]
    BY DEF Probed
  <2>5. w = IF call[c].ok THEN 0 ELSE active
    OBVIOUS
  <2> HIDE DEF w
  <2> QED
    BY <2>1, <2>2, <2>3, <2>4, <2>5
<1>4. now \in disabled /\ Usable(now) # {} => Advanced(now) \in Endpoints
  BY AdvancedUsable DEF Usable
<1>5. active' \in Endpoints /\ cooling' \in 0 .. Cooldown
  BY <1>1, <1>3, <1>4 DEF TypeInv, PoolAssumption
<1>6. CallsInv' /\ ~ Probes(call'[c]) /\ \A d \in Callers \ {c} : call'[d] = call[d]
  <2>1. CASE now \in disabled /\ Usable(now) = {}
    <3>1. Return(c)
      BY <1>3, <2>1
    <3>2. CallsInv' /\ call'[c] = Idle /\ \A d \in Callers \ {c} : call'[d] = call[d]
      BY <1>2, <3>1, IdleCall, CallMoves DEF IInv, Return, health
    <3> QED
      BY <3>2, IdleCall
  <2>2. CASE ~ (now \in disabled /\ Usable(now) = {})
    <3>1. PICK f \in Endpoints : call' = [call EXCEPT ![c].pc = "verify", ![c].e = f, ![c].ok = FALSE]
      BY <1>3, <1>4, <2>2
    <3> DEFINE k == [call[c] EXCEPT !.pc = "verify", !.e = f, !.ok = FALSE]
    <3>2. "verify" \in Places /\ FALSE \in BOOLEAN
      BY DEF Places
    <3>3. k \in Call
      BY <1>1, <3>1, <3>2, Zenon DEF Call
    <3>4. k.pc = "verify"
      BY <1>1, <3>1 DEF Call
    <3>5. k.archive = call[c].archive /\ k.tried = call[c].tried
      BY <1>1, <3>1 DEF Call
    <3>6. call' = [call EXCEPT ![c] = k]
      BY <3>1
    <3> HIDE DEF k
    <3>7. ~ call[c].archive \/ call[c].tried < N
      BY <1>1 DEF IInv, CallsInv, Placed
    <3>8. Placed(k, verified') /\ ~ Probes(k)
      BY <3>4, <3>5, <3>7 DEF Placed, Probes
    <3>9. CallsInv' /\ call'[c] = k /\ \A d \in Callers \ {c} : call'[d] = call[d]
      BY <1>2, <3>3, <3>6, <3>8, CallMoves DEF IInv, health
    <3> QED
      BY <3>8, <3>9
  <2> QED
    BY <2>1, <2>2
<1>7. ProbeInv'
  BY <1>1, <1>2, <1>6, ProbeMoves DEF IInv
<1>8. TypeInv'
  BY <1>1, <1>2, <1>5 DEF TypeInv, health
<1>9. ArchiveSkipsNone'
  BY <1>2 DEF IInv, ArchiveSkipsNone, health
<1>10. SteadyStep
  <2>1. CASE call[c].ok
    <3>1. active' = 0
      BY <1>1, <1>3, <2>1
    <3>2. call'[c].pc # "probed"
      BY <1>6 DEF Probes
    <3> QED
      BY <1>1, <2>1, <3>1, <3>2 DEF SteadyStep
  <2>2. CASE ~ call[c].ok
    BY <1>1, <1>3, <2>2 DEF SteadyStep, TypeInv
  <2> QED
    BY <2>1, <2>2
<1> QED
  BY <1>6, <1>7, <1>8, <1>9, <1>10 DEF IInv
LEMMA StepVerify ==
  ASSUME PoolAssumption, IInv, NEW c \in Callers, Verify(c)
  PROVE  IInv' /\ SteadyStep
<1>1. TypeInv /\ call[c] \in Call /\ call[c].pc = "verify" /\ Placed(call[c], verified)
  BY DEF IInv, CallsInv, Verify
<1>2. call[c].e \in Endpoints
  BY <1>1 DEF Call
<1>3. PICK p \in {"send", "failed"} :
         /\ p = IF call[c].e \in verified \/ Matches(call[c].e) THEN "send" ELSE "failed"
         /\ Goto(c, p)
  BY DEF Verify
<1>4. IF call[c].e \in verified THEN UNCHANGED health ELSE Check(call[c].e)
  BY DEF Verify
<1>5. UNCHANGED <<routing, at, boot, up, broke>>
  BY DEF Verify, environment
<1>6. /\ verified' \subseteq Endpoints \ Wrong /\ disabled' \subseteq Wrong
      /\ verified \subseteq verified' /\ disabled \subseteq disabled'
      /\ p = "send" => call[c].e \in verified'
      /\ p = "failed" => call[c].e \notin Steady \ Wrong
  <2>1. CASE call[c].e \in verified
    BY <1>1, <1>3, <1>4, <2>1 DEF TypeInv, health
  <2>2. CASE call[c].e \notin verified
    <3>1. Check(call[c].e)
      BY <1>4, <2>2
    <3>2. /\ verified' \subseteq Endpoints \ Wrong /\ disabled' \subseteq Wrong
          /\ verified \subseteq verified' /\ disabled \subseteq disabled'
          /\ Matches(call[c].e) => call[c].e \in verified'
          /\ ~ Matches(call[c].e) => call[c].e \notin Steady \ Wrong
      BY <1>1, <1>2, <3>1, CheckKnows
    <3> QED
      BY <1>3, <2>2, <3>2
  <2> QED
    BY <2>1, <2>2
<1> DEFINE k == [call[c] EXCEPT !.pc = p]
<1>7. p \in Places
  BY <1>3 DEF Places
<1>8. /\ k \in Call /\ k.pc = p /\ k.e = call[c].e
      /\ k.archive = call[c].archive /\ k.tried = call[c].tried
  BY <1>1, <1>7, GoOn
<1>9. call' = [call EXCEPT ![c] = k]
  BY <1>3 DEF Goto
<1> HIDE DEF k
<1>10. Placed(k, verified') /\ ~ Probes(k) /\ ~ Probes(call[c])
  BY <1>1, <1>3, <1>6, <1>8 DEF Placed, Probes
<1>11. CallsInv' /\ call'[c] = k /\ \A d \in Callers \ {c} : call'[d] = call[d]
  BY <1>6, <1>8, <1>9, <1>10, CallMoves DEF IInv
<1>12. ProbeInv'
  BY <1>5, <1>10, <1>11, ProbeMoves DEF IInv, routing
<1>13. TypeInv'
  BY <1>1, <1>5, <1>6 DEF TypeInv, routing
<1>14. ArchiveSkipsNone'
  BY <1>5, <1>6 DEF IInv, ArchiveSkipsNone
<1>15. SteadyStep
  BY <1>5 DEF SteadyStep, routing
<1> QED
  BY <1>11, <1>12, <1>13, <1>14, <1>15 DEF IInv

LEMMA StepSend ==
  ASSUME PoolAssumption, IInv, NEW c \in Callers, Send(c)
  PROVE  IInv' /\ SteadyStep
<1>1. call[c] \in Call /\ call[c].pc = "send" /\ Placed(call[c], verified) /\ ~ Probes(call[c])
  BY DEF IInv, CallsInv, Send, Probes
<1>2. UNCHANGED <<routing, health, at, boot, up, broke>>
  BY DEF Send, environment
<1>3. UNCHANGED verified /\ UNCHANGED probing
  BY <1>2 DEF routing, health
<1>4. CASE call[c].archive \/ active = call[c].e
  <2> DEFINE again == call[c].again \/ call[c].e \in call[c].asked
             asked == call[c].asked \cup {call[c].e}
             k == [call[c] EXCEPT !.pc = "wire", !.again = again, !.asked = asked]
  <2>1. call' = [call EXCEPT ![c] = k]
    BY <1>4 DEF Send
  <2>2. "wire" \in Places /\ again \in BOOLEAN
    BY <1>1 DEF Places, Call
  <2>2a. asked \in SUBSET Endpoints
    BY <1>1 DEF Call
  <2> HIDE DEF again, asked
  <2>3. k \in Call
    BY <1>1, <2>2, <2>2a, Zenon DEF Call
  <2>4. k.pc = "wire"
    BY <1>1 DEF Call
  <2>5. k.e = call[c].e
    BY <1>1 DEF Call
  <2>5a. k.archive = call[c].archive
    BY <1>1 DEF Call
  <2>5b. k.tried = call[c].tried
    BY <1>1 DEF Call
  <2> HIDE DEF k
  <2>6. Placed(k, verified') /\ ~ Probes(k)
    BY <1>1, <1>3, <2>4, <2>5, <2>5a, <2>5b DEF Placed, Probes
  <2>7. CallsInv' /\ call'[c] = k /\ \A d \in Callers \ {c} : call'[d] = call[d]
    BY <1>3, <2>1, <2>3, <2>6, CallMoves DEF IInv
  <2>8. ProbeInv'
    BY <1>1, <1>3, <2>6, <2>7, ProbeMoves DEF IInv
  <2> QED
    BY <1>2, <2>7, <2>8, OnlyCalls
<1>5. CASE ~ (call[c].archive \/ active = call[c].e) /\ GivesUp(call[c].stale + 1)
  <2>1. Return(c)
    BY <1>5 DEF Send
  <2>2. CallsInv' /\ ProbeInv'
    BY <1>1, <1>3, <2>1, Returns
  <2> QED
    BY <1>2, <2>2, OnlyCalls
<1>6. CASE ~ (call[c].archive \/ active = call[c].e) /\ ~ GivesUp(call[c].stale + 1)
  <2>1. PICK stale \in 0 .. N : call' = [call EXCEPT ![c].pc = "pick", ![c].stale = stale]
    <3>1. call[c].stale \in 0 .. N /\ N \in Nat
      BY <1>1 DEF Call, PoolAssumption
    <3>2. call[c].stale + 1 \in 0 .. N /\ ~ (call[c].stale + 1 > N)
      BY <1>6, <3>1 DEF GivesUp
    <3> QED
      BY <1>6, <3>2 DEF Send
  <2> DEFINE k == [call[c] EXCEPT !.pc = "pick", !.stale = stale]
  <2>2. "pick" \in Places
    BY DEF Places
  <2>3. k \in Call
    BY <1>1, <2>1, <2>2, Zenon DEF Call
  <2>4. k.pc = "pick"
    BY <1>1 DEF Call
  <2>5. call' = [call EXCEPT ![c] = k]
    BY <2>1
  <2> HIDE DEF k
  <2>6. Placed(k, verified') /\ ~ Probes(k)
    BY <2>4 DEF Placed, Probes
  <2>7. CallsInv' /\ call'[c] = k /\ \A d \in Callers \ {c} : call'[d] = call[d]
    BY <1>3, <2>3, <2>5, <2>6, CallMoves DEF IInv
  <2>8. ProbeInv'
    BY <1>1, <1>3, <2>6, <2>7, ProbeMoves DEF IInv
  <2> QED
    BY <1>2, <2>7, <2>8, OnlyCalls
<1> QED
  BY <1>4, <1>5, <1>6

(* A request fails on an endpoint only while it is down.                   *)
LEMMA StepAnswer ==
  ASSUME PoolAssumption, IInv, NEW c \in Callers, Answer(c)
  PROVE  IInv' /\ SteadyStep
<1>1. call[c] \in Call /\ call[c].pc = "wire" /\ Placed(call[c], verified) /\ ~ Probes(call[c])
  BY DEF IInv, CallsInv, Answer, Probes
<1>2. UNCHANGED <<routing, health, at, boot, up, broke>>
  BY DEF Answer, environment
<1>3. UNCHANGED verified /\ UNCHANGED probing
  BY <1>2 DEF routing, health
<1>4. CASE call[c].e \in up
  <2>1. Return(c)
    BY <1>4 DEF Answer
  <2>2. CallsInv' /\ ProbeInv'
    BY <1>1, <1>3, <2>1, Returns
  <2> QED
    BY <1>2, <2>2, OnlyCalls
<1>5. CASE call[c].e \notin up
  <2> DEFINE k == [call[c] EXCEPT !.pc = "failed"]
  <2>1. "failed" \in Places /\ call[c].e \notin Steady
    BY <1>5 DEF Places, IInv, TypeInv
  <2>2. /\ k \in Call /\ k.pc = "failed" /\ k.e = call[c].e
        /\ k.archive = call[c].archive /\ k.tried = call[c].tried
    BY <1>1, <2>1, GoOn
  <2>3. call' = [call EXCEPT ![c] = k]
    BY <1>5 DEF Answer, Goto
  <2> HIDE DEF k
  <2>4. Placed(k, verified') /\ ~ Probes(k)
    BY <1>1, <2>1, <2>2 DEF Placed, Probes
  <2>5. CallsInv' /\ call'[c] = k /\ \A d \in Callers \ {c} : call'[d] = call[d]
    BY <1>3, <2>2, <2>3, <2>4, CallMoves DEF IInv
  <2>6. ProbeInv'
    BY <1>1, <1>3, <2>4, <2>5, ProbeMoves DEF IInv
  <2> QED
    BY <1>2, <2>5, <2>6, OnlyCalls
<1> QED
  BY <1>4, <1>5
(* A call that failed moves the pool only off the endpoint it failed on,   *)
(* which is not a steady one.                                              *)
LEMMA StepFailOver ==
  ASSUME PoolAssumption, IInv, NEW c \in Callers, FailOver(c)
  PROVE  IInv' /\ SteadyStep
<1>1. TypeInv /\ call[c] \in Call /\ call[c].pc = "failed" /\ Placed(call[c], verified) /\ ~ Probes(call[c])
  BY DEF IInv, CallsInv, FailOver, Probes
<1>2. UNCHANGED <<probing, health, at, boot, up, broke>>
  BY DEF FailOver, environment
<1>3. \/ UNCHANGED <<active, cooling>>
      \/ active = call[c].e /\ Usable(active) # {} /\ active' = Advanced(active) /\ cooling' = Cooldown
  BY DEF FailOver, FailsOver, MoveOn
<1>4. active' \in Endpoints /\ cooling' \in 0 .. Cooldown
  <2>1. Usable(active) # {} => Advanced(active) \in Endpoints
    BY <1>1, AdvancedUsable DEF TypeInv, Usable
  <2> QED
    BY <1>1, <1>3, <2>1 DEF TypeInv, PoolAssumption
<1>5. SteadyStep
  BY <1>1, <1>3 DEF SteadyStep, Placed
<1>6. UNCHANGED verified
  BY <1>2 DEF health
<1>7. CallsInv' /\ ProbeInv'
  <2>1. CASE Return(c)
    BY <1>1, <1>2, <1>6, <2>1, Returns
  <2>2. CASE ~ Return(c)
    <3>1. PICK tried \in 0 .. N : call' = [call EXCEPT ![c].pc = "pick", ![c].tried = tried]
      <4>1. call[c].tried \in 0 .. N /\ N \in Nat
        BY <1>1 DEF Call, PoolAssumption
      <4>2. /\ ~ (call[c].tried + 1 >= N)
            /\ call' = [call EXCEPT ![c].pc = "pick", ![c].tried = call[c].tried + 1]
        BY <2>2 DEF FailOver
      <4>3. call[c].tried + 1 \in 0 .. N
        BY <4>1, <4>2
      <4> QED
        BY <4>2, <4>3
    <3> DEFINE k == [call[c] EXCEPT !.pc = "pick", !.tried = tried]
    <3>2. "pick" \in Places
      BY DEF Places
    <3>3. k \in Call
      BY <1>1, <3>1, <3>2, Zenon DEF Call
    <3>4. k.pc = "pick"
      BY <1>1 DEF Call
    <3>5. call' = [call EXCEPT ![c] = k]
      BY <3>1
    <3> HIDE DEF k
    <3>6. Placed(k, verified') /\ ~ Probes(k)
      BY <3>4 DEF Placed, Probes
    <3>7. CallsInv' /\ call'[c] = k /\ \A d \in Callers \ {c} : call'[d] = call[d]
      BY <1>6, <3>3, <3>5, <3>6, CallMoves DEF IInv
    <3> QED
      BY <1>1, <1>2, <3>6, <3>7, ProbeMoves DEF IInv
  <2> QED
    BY <2>1, <2>2
<1>8. TypeInv'
  BY <1>1, <1>2, <1>4 DEF TypeInv, health
<1>9. ArchiveSkipsNone'
  BY <1>2 DEF IInv, ArchiveSkipsNone, health
<1> QED
  BY <1>5, <1>7, <1>8, <1>9 DEF IInv

(* The archive path passes an endpoint only when it is disabled or has     *)
(* just failed a read.                                                     *)
LEMMA StepPickArchive ==
  ASSUME PoolAssumption, IInv, NEW c \in Callers, PickArchive(c)
  PROVE  IInv' /\ SteadyStep
<1>1. TypeInv /\ call[c] \in Call /\ call[c].pc = "pick" /\ ~ Probes(call[c])
  BY DEF IInv, CallsInv, PickArchive, Probes
<1>2. UNCHANGED <<routing, health, boot, up, broke>>
  BY DEF PickArchive, environment
<1>3. UNCHANGED verified /\ UNCHANGED probing
  BY <1>2 DEF routing, health
<1>4. CASE Left = {} \/ call[c].tried = N
  <2>1. Return(c) /\ UNCHANGED at
    BY <1>4 DEF PickArchive
  <2>2. CallsInv' /\ ProbeInv'
    BY <1>1, <1>3, <2>1, Returns
  <2> QED
    BY <1>2, <2>1, <2>2, OnlyCalls
<1>5. CASE ~ (Left = {} \/ call[c].tried = N)
  <2>1. Left \in SUBSET Nat /\ Left \subseteq Endpoints
    BY EndpointNat DEF Left, PoolAssumption
  <2>2. Min(Left) \in Left /\ \A e \in Left : Min(Left) <= e
    BY <1>5, <2>1, MinIsLeast
  <2>3. PICK least \in Endpoints :
          /\ least \in Left /\ \A e \in Left : least <= e
          /\ at' = least
          /\ call' = [call EXCEPT ![c].pc = "verify", ![c].e = least]
    BY <1>5, <2>1, <2>2 DEF PickArchive
  <2> DEFINE k == [call[c] EXCEPT !.pc = "verify", !.e = least]
  <2>4. "verify" \in Places
    BY DEF Places
  <2>5. k \in Call
    BY <1>1, <2>3, <2>4, Zenon DEF Call
  <2>6. k.pc = "verify"
    BY <1>1 DEF Call
  <2>7. k.tried = call[c].tried
    BY <1>1 DEF Call
  <2>8. call' = [call EXCEPT ![c] = k]
    BY <2>3
  <2> HIDE DEF k
  <2>9. Placed(k, verified') /\ ~ Probes(k)
    <3>1. call[c].tried \in 0 .. N /\ N \in Nat
      BY <1>1 DEF Call, PoolAssumption
    <3>2. k.tried < N
      BY <1>5, <2>7, <3>1
    <3> QED
      BY <2>6, <3>2 DEF Placed, Probes
  <2>10. CallsInv' /\ call'[c] = k /\ \A d \in Callers \ {c} : call'[d] = call[d]
    BY <1>3, <2>5, <2>8, <2>9, CallMoves DEF IInv
  <2>11. ProbeInv'
    BY <1>1, <1>3, <2>9, <2>10, ProbeMoves DEF IInv
  <2>12. TypeInv'
    <3>1. at' \in 0 .. N
      BY <2>3 DEF Endpoints, PoolAssumption
    <3> QED
      BY <1>1, <1>2, <3>1 DEF TypeInv, routing, health
  <2>13. ArchiveSkipsNone'
    <3>1. \A e \in Archives : e < at' => e \in broke \cup disabled
      <4> SUFFICES ASSUME NEW e \in Archives, e < least
                   PROVE  e \in broke \cup disabled
        BY <2>3
      <4>1. e \in Nat /\ least \in Nat /\ at \in Nat
        BY <1>1, EndpointNat DEF TypeInv, PoolAssumption
      <4>2. e \notin Left
        BY <2>3, <4>1
      <4>3. e < at \/ e \in disabled
        BY <4>1, <4>2 DEF Left
      <4> QED
        BY <4>3 DEF IInv, ArchiveSkipsNone
    <3> QED
      BY <1>2, <3>1 DEF ArchiveSkipsNone, health
  <2>14. SteadyStep
    BY <1>2 DEF SteadyStep, routing
  <2> QED
    BY <2>10, <2>11, <2>12, <2>13, <2>14 DEF IInv
<1> QED
  BY <1>4, <1>5

LEMMA StepFailArchive ==
  ASSUME PoolAssumption, IInv, NEW c \in Callers, FailArchive(c)
  PROVE  IInv' /\ SteadyStep
<1>1. /\ TypeInv /\ call[c] \in Call /\ call[c].pc = "failed" /\ call[c].archive
      /\ Placed(call[c], verified) /\ ~ Probes(call[c])
  BY DEF IInv, CallsInv, FailArchive, Probes
<1>2. UNCHANGED <<routing, health, boot, up>>
  BY DEF FailArchive, environment
<1>3. at' = Past(call[c].e) /\ broke' = broke \cup {call[c].e}
  BY DEF FailArchive
<1>4. UNCHANGED verified /\ UNCHANGED probing
  BY <1>2 DEF routing, health
<1>5. PICK tried \in 0 .. N : call' = [call EXCEPT ![c].pc = "pick", ![c].tried = tried]
  <2>1. call[c].tried \in 0 .. N /\ N \in Nat /\ call[c].tried < N
    BY <1>1 DEF Call, Placed, PoolAssumption
  <2>2. call[c].tried + 1 \in 0 .. N
    BY <2>1
  <2> QED
    BY <2>2 DEF FailArchive
<1> DEFINE k == [call[c] EXCEPT !.pc = "pick", !.tried = tried]
<1>6. "pick" \in Places
  BY DEF Places
<1>7. k \in Call
  BY <1>1, <1>5, <1>6, Zenon DEF Call
<1>8. k.pc = "pick"
  BY <1>1 DEF Call
<1>9. call' = [call EXCEPT ![c] = k]
  BY <1>5
<1> HIDE DEF k
<1>10. Placed(k, verified') /\ ~ Probes(k)
  BY <1>8 DEF Placed, Probes
<1>11. CallsInv' /\ call'[c] = k /\ \A d \in Callers \ {c} : call'[d] = call[d]
  BY <1>4, <1>7, <1>9, <1>10, CallMoves DEF IInv
<1>12. ProbeInv'
  BY <1>1, <1>4, <1>10, <1>11, ProbeMoves DEF IInv
<1>13. call[c].e \in Nat /\ call[c].e < N /\ N \in Nat
  BY <1>1, EndpointNat DEF Call
<1>14. TypeInv'
  <2>1. at' \in 0 .. N
    BY <1>1, <1>3, <1>13 DEF Past, TypeInv
  <2> QED
    BY <1>1, <1>2, <2>1 DEF TypeInv, routing, health
<1>15. ArchiveSkipsNone'
  <2>1. \A e \in Archives : e < at' => e \in broke' \cup disabled
    <3> SUFFICES ASSUME NEW e \in Archives, e < at'
                 PROVE  e \in broke' \cup disabled
      OBVIOUS
    <3>1. e \in Nat /\ at \in Nat
      BY <1>1, EndpointNat DEF TypeInv, PoolAssumption
    <3>2. e < at \/ e = call[c].e
      BY <1>3, <1>13, <3>1 DEF Past
    <3> QED
      BY <1>3, <3>2 DEF IInv, ArchiveSkipsNone
  <2> QED
    BY <1>2, <2>1 DEF ArchiveSkipsNone, health
<1>16. SteadyStep
  BY <1>2 DEF SteadyStep, routing
<1> QED
  BY <1>11, <1>12, <1>14, <1>15, <1>16 DEF IInv

LEMMA StepCancel ==
  ASSUME PoolAssumption, IInv, NEW c \in Callers, Cancel(c)
  PROVE  IInv' /\ SteadyStep
<1>1. Return(c) /\ UNCHANGED <<health, at, boot, up, broke>> /\ TypeInv
  BY DEF Cancel, IInv, environment
<1>2. CASE call[c].pc # "probe"
  <2>1. ~ Probes(call[c]) /\ UNCHANGED routing
    BY <1>2 DEF Cancel, Probes
  <2>2. CallsInv' /\ ProbeInv'
    BY <1>1, <2>1, Returns DEF routing, health
  <2> QED
    BY <1>1, <2>1, <2>2, OnlyCalls
<1>3. CASE call[c].pc = "probe"
  <2>1. /\ probing' = FALSE /\ cooling' = Cooldown
        /\ active' = IF NothingUsable THEN active ELSE Current
    BY <1>3 DEF Cancel, ProbeDone
  <2>2. CallsInv' /\ call'[c] = Idle /\ \A d \in Callers \ {c} : call'[d] = call[d]
    BY <1>1, IdleCall, CallMoves DEF IInv, Return, health
  <2>3. Probes(call[c]) /\ ~ Probes(call'[c])
    BY <1>3, <2>2, IdleCall DEF Probes
  <2>4. ProbeInv'
    BY <2>1, <2>2, <2>3, ProbeMoves DEF IInv
  <2>5. active' \in Endpoints /\ (active \notin disabled => active' = active)
    BY <1>1, <2>1, CurrentUsable DEF TypeInv
  <2>6. TypeInv'
    <3>1. Cooldown \in 0 .. Cooldown
      BY DEF PoolAssumption
    <3> QED
      BY <1>1, <2>1, <2>5, <3>1 DEF TypeInv, health
  <2>7. ArchiveSkipsNone'
    BY <1>1 DEF IInv, ArchiveSkipsNone, health
  <2>8. SteadyStep
    BY <1>1, <2>5 DEF SteadyStep, TypeInv
  <2> QED
    BY <2>2, <2>4, <2>6, <2>7, <2>8 DEF IInv
<1> QED
  BY <1>2, <1>3
LEMMA StepBootCheck ==
  ASSUME PoolAssumption, IInv, BootCheck
  PROVE  IInv' /\ SteadyStep
<1>1. TypeInv /\ boot \in Boot /\ boot.next < N
  BY DEF IInv, TypeInv, BootCheck
<1>2. UNCHANGED <<routing, at, call, up, broke>>
  BY DEF BootCheck, environment
<1>3. boot.next \in 0 .. N + 1 /\ boot.next \in Endpoints /\ boot.next + 1 \in 0 .. N + 1
  <2>1. boot.next \in 0 .. N + 1 /\ N \in Nat
    BY <1>1 DEF Boot, PoolAssumption
  <2> QED
    BY <1>1, <2>1 DEF Endpoints
<1>4. /\ verified' \subseteq Endpoints \ Wrong /\ disabled' \subseteq Wrong
      /\ verified \subseteq verified' /\ disabled \subseteq disabled'
  <2>1. CASE boot.next \in disabled
    BY <1>1, <2>1 DEF BootCheck, health, TypeInv
  <2>2. CASE boot.next \notin disabled
    <3>1. Check(boot.next)
      BY <2>2 DEF BootCheck
    <3> QED
      BY <1>1, <1>3, <3>1, CheckKnows
  <2> QED
    BY <2>1, <2>2
<1>5. boot' \in Boot
  <2>1. PICK next \in 0 .. N + 1, usable \in BOOLEAN :
          boot' = [boot EXCEPT !.next = next] \/ boot' = [next |-> next, usable |-> usable]
    <3>1. boot.usable \/ Matches(boot.next) \in BOOLEAN
      BY <1>1 DEF Boot, Matches
    <3>2. boot' = [boot EXCEPT !.next = boot.next + 1]
          \/ boot' = [next |-> boot.next + 1, usable |-> boot.usable \/ Matches(boot.next)]
      BY DEF BootCheck
    <3> QED
      BY <1>3, <3>1, <3>2
  <2>2. [boot EXCEPT !.next = next] \in Boot
    BY <1>1, <2>1, Zenon DEF Boot
  <2>3. [next |-> next, usable |-> usable] \in Boot
    BY <2>1, Zenon DEF Boot
  <2> QED
    BY <2>1, <2>2, <2>3
<1>6. TypeInv'
  BY <1>1, <1>2, <1>4, <1>5 DEF TypeInv, routing
<1>7. CallsInv'
  BY <1>2, <1>4, CallsStay DEF IInv
<1>8. ProbeInv'
  BY <1>2 DEF IInv, ProbeInv, routing
<1>9. ArchiveSkipsNone'
  BY <1>2, <1>4 DEF IInv, ArchiveSkipsNone
<1>10. SteadyStep
  BY <1>2 DEF SteadyStep, routing
<1> QED
  BY <1>6, <1>7, <1>8, <1>9, <1>10 DEF IInv

LEMMA StepBootEnd ==
  ASSUME PoolAssumption, IInv, BootEnd
  PROVE  IInv' /\ SteadyStep
<1>1. TypeInv /\ boot \in Boot
  BY DEF IInv, TypeInv
<1>2. UNCHANGED <<probing, health, at, call, up, broke>>
  BY DEF BootEnd, MoveOn, routing, environment
<1>3. \/ UNCHANGED <<active, cooling>>
      \/ active \in disabled /\ Usable(active) # {} /\ active' = Advanced(active) /\ cooling' = Cooldown
  BY DEF BootEnd, MoveOn, routing
<1>4. active' \in Endpoints /\ cooling' \in 0 .. Cooldown
  <2>1. Usable(active) # {} => Advanced(active) \in Endpoints
    BY <1>1, AdvancedUsable DEF TypeInv, Usable
  <2> QED
    BY <1>1, <1>3, <2>1 DEF TypeInv, PoolAssumption
<1>5. boot' \in Boot
  <2>1. 0 \in 0 .. N + 1 /\ N + 1 \in 0 .. N + 1
    BY DEF PoolAssumption
  <2>2. boot' = [boot EXCEPT !.next = N + 1] \/ boot' = [next |-> 0, usable |-> FALSE]
    BY DEF BootEnd
  <2>3. \A n \in 0 .. N + 1 : [boot EXCEPT !.next = n] \in Boot
    BY <1>1, Zenon DEF Boot
  <2>4. [next |-> 0, usable |-> FALSE] \in Boot
    BY <2>1, Zenon DEF Boot
  <2> QED
    BY <2>1, <2>2, <2>3, <2>4
<1>6. TypeInv'
  BY <1>1, <1>2, <1>4, <1>5 DEF TypeInv, health
<1>7. CallsInv'
  BY <1>2, CallsStay DEF IInv, health
<1>8. ProbeInv'
  BY <1>2 DEF IInv, ProbeInv
<1>9. ArchiveSkipsNone'
  BY <1>2 DEF IInv, ArchiveSkipsNone, health
<1>10. SteadyStep
  BY <1>1, <1>3 DEF SteadyStep, TypeInv
<1> QED
  BY <1>6, <1>7, <1>8, <1>9, <1>10 DEF IInv

(* Time passes, an endpoint goes down or comes back, nothing happens. *)
LEMMA StepEnvironment ==
  ASSUME PoolAssumption, IInv, Tick \/ Down \/ Up \/ UNCHANGED vars
  PROVE  IInv' /\ SteadyStep
<1>1. UNCHANGED <<active, probing, health, at, boot, call, broke>>
  BY DEF Tick, Down, Up, vars, routing, health, environment
<1>2. cooling' = cooling \/ (cooling > 0 /\ cooling' = cooling - 1)
  BY DEF Tick, Down, Up, vars, routing
<1>3. up' \subseteq Endpoints /\ Steady \subseteq up'
  BY DEF Tick, Down, Up, vars, environment, IInv, TypeInv
<1>4. TypeInv
  BY DEF IInv
<1>5. cooling' \in 0 .. Cooldown
  BY <1>2, <1>4 DEF TypeInv, PoolAssumption
<1>6. TypeInv'
  BY <1>1, <1>3, <1>4, <1>5 DEF TypeInv, health
<1>7. CallsInv'
  BY <1>1, CallsStay DEF IInv, health
<1>8. ProbeInv'
  BY <1>1 DEF IInv, ProbeInv
<1>9. ArchiveSkipsNone'
  BY <1>1 DEF IInv, ArchiveSkipsNone, health
<1>10. SteadyStep
  BY <1>1 DEF SteadyStep
<1> QED
  BY <1>6, <1>7, <1>8, <1>9, <1>10 DEF IInv

-----------------------------------------------------------------------------
LEMMA InitIInv ==
  ASSUME PoolAssumption, Init
  PROVE  IInv
<1>1. TypeInv
  <2>1. boot \in Boot
    <3>1. 0 \in 0 .. N + 1
      BY DEF PoolAssumption
    <3> QED
      BY <3>1, Zenon DEF Init, Boot
  <2>2. 0 \in Endpoints /\ 0 \in 0 .. Cooldown /\ 0 \in 0 .. N
    BY EndpointNat DEF PoolAssumption
  <2> QED
    BY <2>1, <2>2 DEF TypeInv, Init
<1>2. call = [c \in Callers |-> Idle]
  BY DEF Init
<1>3. CallsInv
  BY <1>2, IdleCall DEF CallsInv
<1>4. ProbeInv
  BY <1>2, IdleCall DEF ProbeInv, Init
<1>5. ArchiveSkipsNone
  BY EndpointNat DEF ArchiveSkipsNone, Init, PoolAssumption
<1> QED
  BY <1>1, <1>3, <1>4, <1>5 DEF IInv

LEMMA NextIInv ==
  ASSUME PoolAssumption, IInv, [Next]_vars
  PROVE  IInv' /\ SteadyStep
<1>1. CASE BootCheck
  BY <1>1, StepBootCheck
<1>2. CASE BootEnd
  BY <1>2, StepBootEnd
<1>3. CASE Tick \/ Down \/ Up \/ UNCHANGED vars
  BY <1>3, StepEnvironment
<1>4. ASSUME NEW c \in Callers, Begin(c) \/ BeginArchive(c) \/ Cancel(c)
      PROVE  IInv' /\ SteadyStep
  BY <1>4, StepBegin, StepBeginArchive, StepCancel
<1>5. ASSUME NEW c \in Callers, Pick(c) \/ Probe(c) \/ Probed(c) \/ Verify(c)
      PROVE  IInv' /\ SteadyStep
  BY <1>5, StepPick, StepProbe, StepProbed, StepVerify
<1>6. ASSUME NEW c \in Callers, Send(c) \/ Answer(c) \/ FailOver(c) \/ PickArchive(c) \/ FailArchive(c)
      PROVE  IInv' /\ SteadyStep
  BY <1>6, StepSend, StepAnswer, StepFailOver, StepPickArchive, StepFailArchive
<1> QED
  BY <1>1, <1>2, <1>3, <1>4, <1>5, <1>6 DEF Next, Step

(* What the runs check follows from the invariant. *)
LEMMA OneProbes ==
  ASSUME IInv
  PROVE  ProbeOwned
<1> DEFINE S == {c \in Callers : call[c].pc \in {"probe", "probed"}}
<1>1. ProbeInv
  BY DEF IInv
<1>2. S = {c \in Callers : Probes(call[c])}
  BY DEF Probes
<1> HIDE DEF S
<1>3. CASE probing
  <2>1. PICK c \in Callers : Probes(call[c])
    BY <1>1, <1>3 DEF ProbeInv
  <2>2. S = {c}
    BY <1>1, <1>2, <2>1 DEF ProbeInv
  <2>3. Cardinality(S) = 1
    BY <2>2, FS_Singleton
  <2> QED
    BY <1>3, <2>3 DEF ProbeOwned, S
<1>4. CASE ~ probing
  <2>1. S = {}
    BY <1>1, <1>2, <1>4 DEF ProbeInv
  <2>2. Cardinality(S) = 0
    BY <2>1, FS_EmptySet
  <2> QED
    BY <1>4, <2>2 DEF ProbeOwned, S
<1> QED
  BY <1>3, <1>4

LEMMA Right ==
  ASSUME IInv
  PROVE  RightChain
  BY DEF IInv, TypeInv, CallsInv, Placed, RightChain

LEMMA Typed ==
  ASSUME PoolAssumption, IInv
  PROVE  TypeOK
<1>1. TypeInv /\ \A c \in Callers : call[c] \in Call
  BY DEF IInv, CallsInv
<1>2. \A c \in Callers : /\ call[c].pc \in Places /\ call[c].e \in Endpoints
                         /\ call[c].tried \in 0 .. N /\ call[c].stale \in 0 .. N
  BY <1>1 DEF Call
<1> QED
  BY <1>1, <1>2 DEF TypeOK, TypeInv

LEMMA Invariant ==
  ASSUME PoolAssumption
  PROVE  Spec => []IInv /\ [][SteadyStep]_vars
<1>1. Init => IInv
  BY InitIInv
<1>2. IInv /\ [Next]_vars => IInv' /\ SteadyStep
  BY NextIInv
<1> QED
  BY <1>1, <1>2, PTL DEF Spec

(* The pool's fields and the locals of its callers keep their types, and   *)
(* only an endpoint on another chain is ever disabled (check).             *)
THEOREM PoolTyped ==
  ASSUME PoolAssumption
  PROVE  Spec => []TypeOK
<1>1. IInv => TypeOK
  BY Typed
<1> QED
  BY <1>1, Invariant, PTL

(* However many callers fail at once, the routing moves once and only on   *)
(* evidence: one caller probes, and the flag is that caller; the pool      *)
(* leaves a steady endpoint only for the primary; the archive path passes  *)
(* none that did not fail; and only an endpoint whose chain id matched is  *)
(* sent anything else (pick, failOver, ArchivePool.failed, verify).        *)
THEOREM RoutingKept ==
  ASSUME PoolAssumption
  PROVE  Spec => RoutingSteady
<1>1. IInv => ProbeOwned /\ ArchiveSkipsNone /\ RightChain
  BY OneProbes, Right DEF IInv
<1> QED
  BY <1>1, Invariant, PTL DEF RoutingSteady
=============================================================================
