----------------------------- MODULE PacerProofs -----------------------------
(***************************************************************************)
(* The pacer for any number of callers, any rate and any size of a call:   *)
(* its balances stay within their bounds, no window of time lets more than *)
(* the budget through, and its turnstile implements the first-come one of  *)
(* module Turnstile.                                                       *)
(***************************************************************************)
EXTENDS Pacer, SequenceTheorems, TLAPS

Wants == 0 .. MaxWant
Pauses == 0 .. MaxPacerWait
Call == [pc : Places, class : Classes, want : Wants, left : Wants, sleep : Pauses, woken : BOOLEAN]

-----------------------------------------------------------------------------
(* Arithmetic of the operators. *)

(* Min and Max of two and of three integers. *)
LEMMA MinPair ==
  ASSUME NEW a \in Int, NEW b \in Int
  PROVE  Min({a, b}) = IF a <= b THEN a ELSE b
<1> DEFINE S == {a, b}
           m == IF a <= b THEN a ELSE b
<1>1. m \in S /\ \A x \in S : m <= x
  OBVIOUS
<1>2. \A n \in S : (\A x \in S : n <= x) => n = m
  OBVIOUS
<1>3. (CHOOSE n \in S : \A x \in S : n <= x) = m
  BY <1>1, <1>2
<1> QED
  BY <1>3 DEF Min

LEMMA MaxPair ==
  ASSUME NEW a \in Int, NEW b \in Int
  PROVE  Max({a, b}) = IF a >= b THEN a ELSE b
<1> DEFINE S == {a, b}
           m == IF a >= b THEN a ELSE b
<1>1. m \in S /\ \A x \in S : m >= x
  OBVIOUS
<1>2. \A n \in S : (\A x \in S : n >= x) => n = m
  OBVIOUS
<1>3. (CHOOSE n \in S : \A x \in S : n >= x) = m
  BY <1>1, <1>2
<1> QED
  BY <1>3 DEF Max

LEMMA MinTriple ==
  ASSUME NEW a \in Int, NEW b \in Int, NEW c \in Int
  PROVE  /\ Min({a, b, c}) \in {a, b, c}
         /\ Min({a, b, c}) <= a /\ Min({a, b, c}) <= b /\ Min({a, b, c}) <= c
<1> DEFINE S == {a, b, c}
           m == IF a <= b THEN IF a <= c THEN a ELSE c ELSE IF b <= c THEN b ELSE c
<1>1. m \in S /\ \A x \in S : m <= x
  OBVIOUS
<1>2. \A n \in S : (\A x \in S : n <= x) => n = m
  OBVIOUS
<1>3. (CHOOSE n \in S : \A x \in S : n <= x) = m
  BY <1>1, <1>2
<1> QED
  BY <1>1, <1>3 DEF Min

(* The rate, the burst and the reserve of NewPacer. *)
LEMMA Amounts ==
  ASSUME PacerAssumption
  PROVE  /\ Burst \in Nat /\ Reserve \in Nat /\ ReserveRate \in Nat /\ SharedCap \in Nat
         /\ Unit <= Reserve /\ Reserve <= Burst /\ 1 <= ReserveRate /\ ReserveRate <= Rate
<1>1. Rate \div 4 \in Nat /\ Rate \div 4 <= Rate
  BY DEF PacerAssumption
<1>2. Burst = IF 2 * Rate >= Unit THEN 2 * Rate ELSE Unit
  BY MaxPair DEF Burst, PacerAssumption
<1>3. Reserve = IF Unit >= Rate \div 4 THEN Unit ELSE Rate \div 4
  BY <1>1, MaxPair DEF Reserve, PacerAssumption
<1>4. ReserveRate = IF Reserve <= Rate THEN Reserve ELSE Rate
  BY <1>1, <1>3, MinPair DEF ReserveRate, PacerAssumption
<1> QED
  BY <1>1, <1>2, <1>3, <1>4 DEF PacerAssumption, SharedCap

(* Whole tokens are no more than the amount they are taken from. *)
LEMMA WholeFits ==
  ASSUME PacerAssumption, NEW n \in Nat
  PROVE  Whole(n) \in Nat /\ Whole(n) * Unit <= n
<1>1. Unit \in Nat /\ Unit > 0
  BY DEF PacerAssumption
<1> QED
  BY <1>1 DEF Whole

(* Every computed sleep is a number of ticks up to maxPacerWait. *)
LEMMA CappedBound ==
  ASSUME PacerAssumption, NEW d \in Int
  PROVE  Capped(d) \in 0 .. MaxPacerWait
<1>1. MaxPacerWait \in Nat
  BY DEF PacerAssumption
<1>2. Max({d, 0}) = IF d >= 0 THEN d ELSE 0
  BY MaxPair
<1> QED
  BY <1>1, <1>2, MinPair DEF Capped

LEMMA CeilDivInt ==
  ASSUME NEW a \in Int, NEW b \in Nat \ {0}
  PROVE  CeilDiv(a, b) \in Int
BY DEF CeilDiv

LEMMA WaitBounds ==
  ASSUME PacerAssumption, NEW t \in Nat, NEW f \in 0 .. Reserve, NEW class \in Classes,
         NEW want \in 0 .. MaxWant
  PROVE  /\ Open(class, t, f) \in Nat /\ Open(class, t, f) <= t
         /\ class = "fast" => Open(class, t, f) + f <= t \/ Open(class, t, f) = 0
         /\ OpenWait(class, want, t, f) \in 0 .. MaxPacerWait
         /\ ReserveWait(f) \in 0 .. MaxPacerWait
<1> DEFINE need == Min({want * Unit, ClassCap(class)})
           open == Open(class, t, f)
<1>1. /\ Unit \in Nat \ {0} /\ Rate \in Nat \ {0} /\ MaxPacerWait \in Nat /\ MaxWant \in Nat
      /\ Reserve \in Nat /\ ReserveRate \in Nat \ {0} /\ SharedCap \in Nat /\ Burst \in Nat
  BY Amounts DEF PacerAssumption
<1>2. Shared(t, f) \in Nat /\ (Shared(t, f) = 0 \/ Shared(t, f) = t - f)
  BY <1>1, MaxPair DEF Shared
<1>3. open \in Nat /\ open <= t /\ (class = "fast" => open + f <= t \/ open = 0)
  BY <1>1, <1>2 DEF Open, Classes
<1>4. want * Unit \in Nat /\ ClassCap(class) \in Nat
  BY <1>1 DEF ClassCap
<1>5. need \in Int
  BY <1>4, MinPair
<1>6. ReserveWait(f) \in 0 .. MaxPacerWait
  BY <1>1, CeilDivInt, CappedBound DEF ReserveWait
<1>7. OpenWait(class, want, t, f) \in 0 .. MaxPacerWait
  <2> DEFINE growth == Rate - ReserveRate
             short == Reserve - f
             slow == short * Rate + (need - open) * ReserveRate - growth * short
  <2>1. growth \in Int /\ short \in Int /\ slow \in Int
    BY <1>1, <1>3, <1>5
  <2>2. Capped(CeilDiv(need - open, Rate)) \in 0 .. MaxPacerWait
    BY <1>1, <1>3, <1>5, CeilDivInt, CappedBound
  <2>3. growth > 0 => Capped(CeilDiv(need - open, growth)) \in 0 .. MaxPacerWait
    <3> SUFFICES ASSUME growth > 0
                 PROVE  Capped(CeilDiv(need - open, growth)) \in 0 .. MaxPacerWait
      OBVIOUS
    <3>1. growth \in Nat \ {0} /\ need - open \in Int
      BY <2>1, <1>3, <1>5
    <3> HIDE DEF growth, need, open
    <3> QED
      BY <3>1, CeilDivInt, CappedBound
  <2>4. Capped(CeilDiv(slow, ReserveRate * Rate)) \in 0 .. MaxPacerWait
    <3>1. ReserveRate * Rate \in Nat \ {0}
      BY <1>1
    <3> HIDE DEF slow
    <3> QED
      BY <2>1, <3>1, CeilDivInt, CappedBound
  <2>5. 0 \in 0 .. MaxPacerWait
    BY <1>1
  <2> QED
    BY <2>2, <2>3, <2>4, <2>5 DEF OpenWait
<1> QED
  BY <1>3, <1>6, <1>7

(* What a Fast caller draws at once fits the reserve, and what it lacks    *)
(* still fits a call.                                                      *)
LEMMA DrawnFits ==
  ASSUME PacerAssumption, fastTokens \in 0 .. Reserve, NEW left \in 0 .. MaxWant
  PROVE  Drawn(left) \in 0 .. left /\ Drawn(left) * Unit <= fastTokens
<1>1. Unit \in Nat \ {0} /\ MaxWant \in Nat /\ Reserve \in Nat
  BY Amounts DEF PacerAssumption
<1>2. Whole(fastTokens) \in Nat /\ Whole(fastTokens) * Unit <= fastTokens
  BY <1>1, WholeFits
<1>3. Min({left, Whole(fastTokens)}) = IF left <= Whole(fastTokens) THEN left ELSE Whole(fastTokens)
  BY <1>1, <1>2, MinPair
<1>4. left <= Whole(fastTokens) => left * Unit <= Whole(fastTokens) * Unit
  BY <1>1, <1>2
<1> QED
  BY <1>1, <1>2, <1>3, <1>4 DEF Drawn

-----------------------------------------------------------------------------
(* The callers' places. *)
Balances == tokens \in 0 .. Burst /\ fastTokens \in 0 .. Reserve /\ fastTokens <= tokens
CallsOK == call \in [Callers -> Call]

(* The updates of a caller's record keep its type. *)
LEMMA Woken ==
  ASSUME NEW r \in Call
  PROVE  [r EXCEPT !.woken = TRUE] \in Call /\ [r EXCEPT !.woken = TRUE].pc = r.pc
<1>1. [r EXCEPT !.woken = TRUE] \in Call
  BY Zenon DEF Call
<1>2. [r EXCEPT !.woken = TRUE].pc = r.pc
  BY DEF Call
<1> QED
  BY <1>1, <1>2

LEMMA Put ==
  ASSUME NEW r \in Call, NEW p \in Places, NEW t \in Pauses
  PROVE  /\ [r EXCEPT !.pc = p] \in Call /\ [r EXCEPT !.pc = p].pc = p
         /\ [r EXCEPT !.pc = p, !.sleep = t] \in Call /\ [r EXCEPT !.pc = p, !.sleep = t].pc = p
BY DEF Call

LEMMA PutAwake ==
  ASSUME NEW r \in Call, NEW p \in Places
  PROVE  [r EXCEPT !.pc = p, !.woken = FALSE] \in Call /\ [r EXCEPT !.pc = p, !.woken = FALSE].pc = p
<1>1. [r EXCEPT !.pc = p, !.woken = FALSE] \in Call
  BY Zenon DEF Call
<1>2. [r EXCEPT !.pc = p, !.woken = FALSE].pc = p
  BY DEF Call
<1> QED
  BY <1>1, <1>2

LEMMA PutQuiet ==
  ASSUME PacerAssumption, NEW r \in Call, NEW p \in Places
  PROVE  [r EXCEPT !.pc = p, !.sleep = 0, !.woken = FALSE] \in Call
<1>1. 0 \in Pauses
  BY DEF Pauses, PacerAssumption
<1> QED
  BY <1>1, Zenon DEF Call

LEMMA PutAsleep ==
  ASSUME NEW r \in Call, NEW p \in Places, NEW l \in Wants, NEW t \in Pauses
  PROVE  /\ [r EXCEPT !.left = l, !.pc = p, !.sleep = t, !.woken = FALSE] \in Call
         /\ [r EXCEPT !.left = l, !.pc = p, !.sleep = t, !.woken = FALSE].pc = p
<1>1. [r EXCEPT !.left = l, !.pc = p, !.sleep = t, !.woken = FALSE] \in Call
  BY Zenon DEF Call
<1>2. [r EXCEPT !.left = l, !.pc = p, !.sleep = t, !.woken = FALSE].pc = p
  BY DEF Call
<1> QED
  BY <1>1, <1>2

(* The call a caller comes in with. *)
Entered(class, n, p) == [Out EXCEPT !.class = class, !.want = n, !.left = n, !.pc = p]

LEMMA Entering ==
  ASSUME PacerAssumption, NEW class \in Classes, NEW n \in Wants, NEW p \in Places
  PROVE  Out \in Call /\ Entered(class, n, p) \in Call /\ Entered(class, n, p).pc = p
<1>1. 0 \in Pauses /\ 0 \in Wants
  BY DEF PacerAssumption, Pauses, Wants
<1>2. Out \in Call
  BY <1>1 DEF Out, Call, Places, Classes
<1>3. Entered(class, n, p) \in Call
  BY <1>2, Zenon DEF Call, Entered
<1>4. Entered(class, n, p).pc = p
  BY <1>2 DEF Call, Entered
<1> QED
  BY <1>2, <1>3, <1>4

(* A step moves c alone from one place to another. *)
Moves(c, from, to) ==
  /\ CallsOK' /\ call[c].pc \in from /\ call'[c].pc \in to
  /\ \A d \in Callers \ {c} : call'[d].pc = call[d].pc

(* Waking the callers that wait for a turn moves nobody. *)
LEMMA NotifyKeeps ==
  ASSUME NEW calls \in [Callers -> Call]
  PROVE  /\ Notify(calls) \in [Callers -> Call]
         /\ \A d \in Callers : Notify(calls)[d].pc = calls[d].pc
<1>1. ASSUME NEW d \in Callers
      PROVE  /\ Notify(calls)[d] \in Call /\ Notify(calls)[d].pc = calls[d].pc
  <2>1. calls[d] \in Call
    OBVIOUS
  <2>2. Notify(calls)[d] = IF calls[d].pc \in {"turn", "turns_turn"}
                           THEN [calls[d] EXCEPT !.woken = TRUE] ELSE calls[d]
    BY DEF Notify
  <2> QED
    BY <2>1, <2>2, Woken
<1> QED
  BY <1>1 DEF Notify

LEMMA EnterMoves ==
  ASSUME PacerAssumption, CallsOK, NEW c \in Callers, Enter(c)
  PROVE  Moves(c, {"out"}, {"acquire", "turns", "draw"})
<1>1. PICK class \in Classes, n \in 1 .. MaxWant :
        call' = [call EXCEPT ![c] = [Out EXCEPT !.class = class, !.want = n, !.left = n,
          !.pc = IF class = "bulk" THEN "acquire" ELSE IF TimeShared THEN "turns" ELSE "draw"]]
  BY DEF Enter, Classes
<1> DEFINE place == IF class = "bulk" THEN "acquire" ELSE IF TimeShared THEN "turns" ELSE "draw"
           next == Entered(class, n, place)
<1>2. place \in Places /\ place \in {"acquire", "turns", "draw"} /\ n \in Wants
  BY DEF PacerAssumption, Places, Wants
<1>3. next \in Call /\ next.pc = place
  <2> HIDE DEF place
  <2> QED
    BY <1>2, Entering
<1>4. call' = [call EXCEPT ![c] = next] /\ call[c].pc = "out"
  BY <1>1 DEF Enter, Entered
<1> HIDE DEF next, place
<1> QED
  BY <1>2, <1>3, <1>4 DEF Moves, CallsOK

LEMMA DrawMoves ==
  ASSUME PacerAssumption, CallsOK, NEW c \in Callers, NEW next \in Call, DrawInto(c, next),
         NEW place, call[c].pc = place
  PROVE  Moves(c, {place}, {next.pc})
<1> DEFINE moved == [call EXCEPT ![c] = next]
<1>1. moved \in [Callers -> Call] /\ moved[c] = next /\ \A d \in Callers \ {c} : moved[d] = call[d]
  BY DEF CallsOK
<1>2. call' = Notify(moved) \/ call' = moved
  BY DEF DrawInto
<1> HIDE DEF moved
<1> QED
  BY <1>1, <1>2, NotifyKeeps DEF Moves, CallsOK

(* What c asks for and has left, before and after a draw. *)
LEMMA LeftOK ==
  ASSUME PacerAssumption, Balances, CallsOK, NEW c \in Callers
  PROVE  /\ call[c] \in Call
         /\ call[c].left - Drawn(call[c].left) \in Wants
         /\ fastTokens - Drawn(call[c].left) * Unit \in 0 .. Reserve
<1>1. call[c] \in Call /\ call[c].left \in 0 .. MaxWant
  BY DEF CallsOK, Call, Wants
<1>2. Reserve \in Nat /\ Unit \in Nat /\ MaxWant \in Nat
  BY Amounts DEF PacerAssumption
<1>3. Drawn(call[c].left) \in 0 .. call[c].left /\ Drawn(call[c].left) * Unit <= fastTokens
  BY <1>1, DrawnFits DEF Balances
<1>4. Drawn(call[c].left) * Unit \in Nat
  BY <1>1, <1>2, <1>3
<1> QED
  BY <1>1, <1>2, <1>3, <1>4 DEF Balances, Wants

LEMMA DrawReserveMoves ==
  ASSUME PacerAssumption, Balances, CallsOK, NEW c \in Callers, DrawReserve(c)
  PROVE  Moves(c, {"draw"}, {"leave", "acquire"})
<1> DEFINE left == call[c].left - Drawn(call[c].left)
           next == [call[c] EXCEPT !.left = left, !.pc = IF left = 0 THEN "leave" ELSE "acquire"]
<1>1. next \in Call /\ next.pc \in {"leave", "acquire"}
  BY LeftOK DEF Call, Places
<1>2. DrawInto(c, next) /\ call[c].pc = "draw"
  BY DEF DrawReserve
<1>3. Moves(c, {"draw"}, {next.pc})
  <2> HIDE DEF next
  <2> QED
    BY <1>1, <1>2, DrawMoves
<1> QED
  BY <1>1, <1>3 DEF Moves

LEMMA ParkFastMoves ==
  ASSUME PacerAssumption, Balances, CallsOK, NEW c \in Callers, ParkFast(c)
  PROVE  Moves(c, {"park"}, IF call[c].left - Drawn(call[c].left) = 0 THEN {"leave"} ELSE {"parked"})
<1> DEFINE left == call[c].left - Drawn(call[c].left)
           f == fastTokens - Drawn(call[c].left) * Unit
           next == IF left = 0 THEN [call[c] EXCEPT !.left = 0, !.pc = "leave"]
                   ELSE [call[c] EXCEPT !.left = left, !.pc = "parked", !.sleep = ReserveWait(f)]
<1>1. left \in Wants /\ f \in 0 .. Reserve /\ call[c] \in Call /\ MaxWant \in Nat
  BY LeftOK DEF PacerAssumption
<1>2. ReserveWait(f) \in Pauses
  <2>1. 0 \in Nat /\ "bulk" \in Classes /\ 0 \in 0 .. MaxWant
    BY <1>1 DEF Classes
  <2> HIDE DEF f
  <2> QED
    BY <1>1, <2>1, WaitBounds DEF Pauses
<1>3. next \in Call /\ next.pc = IF left = 0 THEN "leave" ELSE "parked"
  BY <1>1, <1>2 DEF Call, Places
<1>4. DrawInto(c, next) /\ call[c].pc = "park"
  BY DEF ParkFast
<1>5. Moves(c, {"park"}, {next.pc})
  <2> HIDE DEF next
  <2> QED
    BY <1>3, <1>4, DrawMoves
<1> QED
  BY <1>3, <1>5 DEF Moves

LEMMA WaitTurnsMoves ==
  ASSUME PacerAssumption, Balances, CallsOK, NEW c \in Callers, WaitTurns(c)
  PROVE  Moves(c, {"turns"}, {"leave", "turns_turn", "turns_asleep"})
<1> DEFINE k == Drawn(call[c].left)
           left == call[c].left - k
           last == IF k > 0 THEN TRUE ELSE lastFast
           yield == ~(Pending("bulk") = 0 \/ ~last)
           f == fastTokens - k * Unit
           next == [call[c] EXCEPT !.left = left,
               !.pc = IF left = 0 THEN "leave" ELSE IF yield THEN "turns_turn" ELSE "turns_asleep",
               !.sleep = IF left = 0 \/ yield THEN 0 ELSE ReserveWait(f), !.woken = FALSE]
<1>1. left \in Wants /\ f \in 0 .. Reserve /\ call[c] \in Call /\ MaxWant \in Nat
      /\ MaxPacerWait \in Nat
  BY LeftOK DEF PacerAssumption
<1>2. ReserveWait(f) \in Pauses
  <2>1. 0 \in Nat /\ "bulk" \in Classes /\ 0 \in 0 .. MaxWant
    BY <1>1 DEF Classes
  <2> HIDE DEF f
  <2> QED
    BY <1>1, <2>1, WaitBounds DEF Pauses
<1>3. next \in Call /\ next.pc \in {"leave", "turns_turn", "turns_asleep"}
  <2> DEFINE place == IF left = 0 THEN "leave" ELSE IF yield THEN "turns_turn" ELSE "turns_asleep"
             pause == IF left = 0 \/ yield THEN 0 ELSE ReserveWait(f)
  <2>1. place \in Places /\ place \in {"leave", "turns_turn", "turns_asleep"} /\ pause \in Pauses
    BY <1>1, <1>2 DEF Places, Pauses
  <2>2. next = [call[c] EXCEPT !.left = left, !.pc = place, !.sleep = pause, !.woken = FALSE]
    OBVIOUS
  <2> HIDE DEF next, left, place, pause
  <2>3. next \in Call
    BY <1>1, <2>1, <2>2, PutAsleep
  <2>4. next.pc = place
    BY <1>1, <2>2 DEF Call
  <2> QED
    BY <2>1, <2>3, <2>4
<1>4. DrawInto(c, next) /\ call[c].pc = "turns"
  BY DEF WaitTurns
<1>5. Moves(c, {"turns"}, {next.pc})
  <2> HIDE DEF next
  <2> QED
    BY <1>3, <1>4, DrawMoves
<1> QED
  BY <1>3, <1>5 DEF Moves

(* A caller's record replaced by next, with or without waking the others. *)
LEMMA ReplaceMoves ==
  ASSUME CallsOK, NEW c \in Callers, NEW next \in Call,
         call' = [call EXCEPT ![c] = next] \/ call' = Notify([call EXCEPT ![c] = next])
  PROVE  Moves(c, {call[c].pc}, {next.pc})
<1> DEFINE moved == [call EXCEPT ![c] = next]
<1>1. moved \in [Callers -> Call] /\ moved[c] = next /\ \A d \in Callers \ {c} : moved[d] = call[d]
  BY DEF CallsOK
<1>2. call' = Notify(moved) \/ call' = moved
  OBVIOUS
<1> HIDE DEF moved
<1> QED
  BY <1>1, <1>2, NotifyKeeps DEF Moves, CallsOK

LEMMA AcquireMoves ==
  ASSUME PacerAssumption, CallsOK, NEW c \in Callers, Acquire(c)
  PROVE  Moves(c, {"acquire"}, IF held THEN {"park", "parked"} ELSE {"spend"})
<1> DEFINE place == IF ~held THEN "spend" ELSE IF call[c].class = "fast" THEN "park" ELSE "parked"
           next == [call[c] EXCEPT !.pc = place]
<1>1. call[c] \in Call /\ place \in Places /\ place \in IF held THEN {"park", "parked"} ELSE {"spend"}
  BY DEF CallsOK, Places
<1>2. call' = [call EXCEPT ![c] = next] /\ call[c].pc = "acquire"
  BY <1>1 DEF Acquire, CallsOK, Call
<1>3. next \in Call /\ next.pc = place
  BY <1>1 DEF Call
<1>4. Moves(c, {"acquire"}, {next.pc})
  <2> HIDE DEF next
  <2> QED
    BY <1>2, <1>3, ReplaceMoves
<1> QED
  BY <1>1, <1>3, <1>4 DEF Moves

(* The steps that only move their caller on. *)
LEMMA GoesOn ==
  ASSUME PacerAssumption, CallsOK, NEW c \in Callers, NEW p \in Places,
         \/ call' = [call EXCEPT ![c].pc = p]
         \/ call' = [call EXCEPT ![c].pc = p, ![c].sleep = 0]
         \/ call' = [call EXCEPT ![c].pc = p, ![c].woken = FALSE]
         \/ call' = [call EXCEPT ![c].pc = p, ![c].sleep = 0, ![c].woken = FALSE]
  PROVE  Moves(c, {call[c].pc}, {p})
<1>1. call[c] \in Call /\ 0 \in Pauses
  BY DEF CallsOK, Pauses, PacerAssumption
<1>2. CASE call' = [call EXCEPT ![c].pc = p]
  <2> DEFINE next == [call[c] EXCEPT !.pc = p]
  <2>1. next \in Call /\ call' = [call EXCEPT ![c] = next]
    BY <1>1, <1>2 DEF Call
  <2>2. next.pc = p
    BY <1>1 DEF Call
  <2> HIDE DEF next
  <2> QED
    BY <2>1, <2>2, ReplaceMoves
<1>3. CASE call' = [call EXCEPT ![c].pc = p, ![c].sleep = 0]
  <2> DEFINE next == [call[c] EXCEPT !.pc = p, !.sleep = 0]
  <2>1. next \in Call
    BY <1>1 DEF Call
  <2>2. call' = [call EXCEPT ![c] = next]
    BY <1>1, <1>3 DEF CallsOK
  <2>3. next.pc = p
    BY <1>1 DEF Call
  <2> HIDE DEF next
  <2> QED
    BY <2>1, <2>2, <2>3, ReplaceMoves
<1>4. CASE call' = [call EXCEPT ![c].pc = p, ![c].woken = FALSE]
  <2> DEFINE next == [call[c] EXCEPT !.pc = p, !.woken = FALSE]
  <2>1. next \in Call
    BY <1>1, PutAwake
  <2>2. call' = [call EXCEPT ![c] = next]
    BY <1>1, <1>4 DEF CallsOK
  <2>3. next.pc = p
    BY <1>1 DEF Call
  <2> HIDE DEF next
  <2> QED
    BY <2>1, <2>2, <2>3, ReplaceMoves
<1>5. CASE call' = [call EXCEPT ![c].pc = p, ![c].sleep = 0, ![c].woken = FALSE]
  <2> DEFINE next == [call[c] EXCEPT !.pc = p, !.sleep = 0, !.woken = FALSE]
  <2>1. next \in Call
    BY <1>1, PutQuiet
  <2>2. call' = [call EXCEPT ![c] = next]
    BY <1>1, <1>5 DEF CallsOK
  <2>3. next.pc = p
    BY <1>1 DEF Call
  <2> HIDE DEF next
  <2> QED
    BY <2>1, <2>2, <2>3, ReplaceMoves
<1> QED
  BY <1>2, <1>3, <1>4, <1>5

LEMMA LeaveMoves ==
  ASSUME PacerAssumption, CallsOK, NEW c \in Callers, Leave(c)
  PROVE  Moves(c, {"leave"}, {"served", "out"})
<1> DEFINE next == IF call[c].left = 0 THEN [call[c] EXCEPT !.pc = "served"] ELSE Out
<1>1. call[c] \in Call /\ Out \in Call /\ Out.pc = "out"
  BY DEF CallsOK, Out, Call, PacerAssumption, Places, Classes, Wants, Pauses
<1>2. next \in Call /\ next.pc \in {"served", "out"}
  BY <1>1 DEF Call, Places
<1>3. call' = Notify([call EXCEPT ![c] = next]) /\ call[c].pc = "leave"
  BY DEF Leave
<1>4. Moves(c, {"leave"}, {next.pc})
  <2> HIDE DEF next
  <2> QED
    BY <1>2, <1>3, ReplaceMoves
<1> QED
  BY <1>2, <1>4 DEF Moves

LEMMA EndMoves ==
  ASSUME PacerAssumption, CallsOK, NEW c \in Callers, Sent(c) \/ Refund(c)
  PROVE  Moves(c, {"served"}, {"out"})
<1>1. Out \in Call /\ Out.pc = "out"
  BY DEF Out, Call, PacerAssumption, Places, Classes, Wants, Pauses
<1>2. /\ call' = [call EXCEPT ![c] = Out] \/ call' = Notify([call EXCEPT ![c] = Out])
      /\ call[c].pc = "served"
  BY DEF Sent, Refund
<1> QED
  BY <1>1, <1>2, ReplaceMoves

(* The tokens spend takes from the reserve and from the shared part. *)
FromReserve(c) == IF call[c].class = "fast" THEN Drawn(call[c].left) ELSE 0
FromShared(c) ==
  Min({call[c].left - FromReserve(c),
       Whole(Open(call[c].class, Taken(tokens, FromReserve(c)), fastTokens - FromReserve(c) * Unit))})
SpentTokens(c) == Taken(Taken(tokens, FromReserve(c)), FromShared(c))
SpentFast(c) == Min({fastTokens - FromReserve(c) * Unit, SpentTokens(c)})
SpentLeft(c) == call[c].left - FromReserve(c) - FromShared(c)

LEMMA SpendFits ==
  ASSUME PacerAssumption, Balances, CallsOK, NEW c \in Callers
  PROVE  /\ FromReserve(c) \in Nat /\ FromShared(c) \in Nat /\ SpentLeft(c) \in Wants
         /\ SpentTokens(c) = tokens - (FromReserve(c) + FromShared(c)) * Unit
         /\ SpentTokens(c) \in 0 .. Burst /\ SpentFast(c) \in 0 .. Reserve
         /\ SpentFast(c) <= SpentTokens(c)
<1> DEFINE k1 == FromReserve(c)
           k2 == FromShared(c)
           left == call[c].left
           t1 == tokens - k1 * Unit
           f1 == fastTokens - k1 * Unit
           open == Open(call[c].class, t1, f1)
<1>1. /\ Unit \in Nat \ {0} /\ MaxWant \in Nat /\ Reserve \in Nat /\ Burst \in Nat
      /\ left \in 0 .. MaxWant /\ call[c].class \in Classes
      /\ tokens \in 0 .. Burst /\ fastTokens \in 0 .. Reserve /\ fastTokens <= tokens
  BY Amounts DEF PacerAssumption, CallsOK, Call, Wants, Balances
<1>2. k1 \in 0 .. left /\ k1 * Unit \in Nat /\ k1 * Unit <= fastTokens
  <2>1. Drawn(left) \in 0 .. left /\ Drawn(left) * Unit <= fastTokens
    BY <1>1, DrawnFits
  <2>2. k1 = Drawn(left) \/ k1 = 0
    BY DEF FromReserve
  <2> HIDE DEF k1
  <2>3. k1 \in 0 .. left /\ k1 * Unit <= fastTokens
    BY <1>1, <2>1, <2>2
  <2> QED
    BY <1>1, <2>3
<1>3. t1 \in 0 .. Burst /\ f1 \in 0 .. Reserve /\ f1 <= t1
  <2> HIDE DEF k1
  <2> QED
    BY <1>1, <1>2
<1>4. open \in Nat /\ open <= t1
  <2>1. t1 \in Nat /\ 0 \in 0 .. MaxWant
    BY <1>1, <1>3
  <2> HIDE DEF t1, f1
  <2> QED
    BY <1>1, <1>3, <2>1, WaitBounds
<1>5. Whole(open) \in Nat /\ Whole(open) * Unit <= open
  BY <1>4, WholeFits
<1>6. k2 = Min({left - k1, Whole(open)})
  BY DEF FromShared, Taken
<1>7. k2 \in 0 .. left - k1 /\ k2 <= Whole(open)
  <2> HIDE DEF k1, k2, open, left
  <2> QED
    BY <1>1, <1>2, <1>5, <1>6, MinPair
<1>8. k2 * Unit \in Nat /\ k2 * Unit <= t1
  <2>1. k2 * Unit <= Whole(open) * Unit
    <3> HIDE DEF k1, k2, open, left
    <3> QED
      BY <1>1, <1>2, <1>5, <1>7
  <2> HIDE DEF k1, k2, open, left
  <2> QED
    BY <1>1, <1>2, <1>3, <1>4, <1>5, <1>7, <2>1
<1>9. SpentTokens(c) = t1 - k2 * Unit
  BY DEF SpentTokens, Taken
<1>10. SpentTokens(c) \in 0 .. Burst /\ SpentTokens(c) = tokens - (k1 + k2) * Unit
  <2> HIDE DEF k1, k2, left
  <2> QED
    BY <1>1, <1>2, <1>3, <1>7, <1>8, <1>9
<1>11. SpentFast(c) = IF f1 <= SpentTokens(c) THEN f1 ELSE SpentTokens(c)
  <2>1. SpentFast(c) = Min({f1, SpentTokens(c)})
    BY DEF SpentFast
  <2> HIDE DEF f1
  <2> QED
    BY <1>3, <1>10, <2>1, MinPair
<1>12. SpentLeft(c) = left - k1 - k2
  BY DEF SpentLeft
<1> HIDE DEF k1, k2, left, f1, t1
<1>13. SpentLeft(c) \in Wants
  BY <1>1, <1>2, <1>7, <1>12 DEF Wants
<1>14. k1 \in Nat /\ k2 \in Nat
  BY <1>1, <1>2, <1>7
<1>15. SpentFast(c) \in 0 .. Reserve /\ SpentFast(c) <= SpentTokens(c)
  BY <1>1, <1>3, <1>10, <1>11
<1> QED
  BY <1>10, <1>13, <1>14, <1>15 DEF k1, k2

LEMMA SpendMoves ==
  ASSUME PacerAssumption, Balances, CallsOK, NEW c \in Callers, Spend(c)
  PROVE  /\ Moves(c, {"spend"}, IF SpentLeft(c) = 0 THEN {"leave"} ELSE {"turn", "asleep"})
         /\ tokens' = SpentTokens(c) /\ fastTokens' = SpentFast(c)
         /\ Passed(FromReserve(c) + FromShared(c))
         /\ IF SpentLeft(c) = 0 THEN Release(c) ELSE UNCHANGED turnstile
         /\ lastFast \in BOOLEAN => lastFast' \in BOOLEAN
<1> DEFINE class == call[c].class
           k1 == FromReserve(c)
           k2 == FromShared(c)
           t2 == SpentTokens(c)
           f2 == SpentFast(c)
           left == SpentLeft(c)
           last == IF class = "bulk" /\ k2 > 0 THEN FALSE ELSE IF k1 > 0 THEN TRUE ELSE lastFast
           yield == class = "bulk" /\ TimeShared /\ ~(Pending("fast") = 0 \/ last)
           wait == IF class = "fast" THEN Min({OpenWait(class, left, t2, f2), ReserveWait(f2)})
                   ELSE OpenWait(class, left, t2, f2)
           place == IF left = 0 THEN "leave" ELSE IF yield THEN "turn" ELSE "asleep"
           pause == IF left = 0 \/ yield THEN 0 ELSE wait
           moved == [call EXCEPT ![c].left = left, ![c].pc = place, ![c].sleep = pause, ![c].woken = FALSE]
           next == [call[c] EXCEPT !.left = left, !.pc = place, !.sleep = pause, !.woken = FALSE]
<1>1. /\ call[c].pc = "spend"
      /\ tokens' = t2 /\ fastTokens' = f2 /\ lastFast' = last
      /\ Passed(k1 + k2)
      /\ call' = IF k1 > 0 \/ (class = "bulk" /\ k2 > 0) THEN [Notify(call) EXCEPT ![c] = moved[c]] ELSE moved
      /\ IF left = 0 THEN Release(c) ELSE UNCHANGED turnstile
  BY DEF Spend, FromReserve, FromShared, SpentTokens, SpentFast, SpentLeft
<1>2. /\ k1 \in Nat /\ k2 \in Nat /\ left \in Wants
      /\ t2 \in 0 .. Burst /\ f2 \in 0 .. Reserve
      /\ call[c] \in Call /\ class \in Classes
      /\ Burst \in Nat /\ MaxPacerWait \in Nat /\ Reserve \in Nat
  BY SpendFits, Amounts DEF CallsOK, Call, PacerAssumption
<1>3. wait \in Pauses
  <2>1. t2 \in Nat /\ left \in 0 .. MaxWant
    BY <1>2 DEF Wants
  <2> HIDE DEF t2, f2, left, class
  <2>2. OpenWait(class, left, t2, f2) \in 0 .. MaxPacerWait /\ ReserveWait(f2) \in 0 .. MaxPacerWait
    BY <1>2, <2>1, WaitBounds
  <2>3. Min({OpenWait(class, left, t2, f2), ReserveWait(f2)}) \in 0 .. MaxPacerWait
    BY <1>2, <2>2, MinPair
  <2> QED
    BY <2>2, <2>3 DEF Pauses
<1>4. place \in Places /\ place \in (IF left = 0 THEN {"leave"} ELSE {"turn", "asleep"}) /\ pause \in Pauses
  <2> HIDE DEF left, yield, wait
  <2> QED
    BY <1>2, <1>3 DEF Places, Pauses
<1> HIDE DEF left, yield, wait, last, place, pause, k1, k2, class
<1>5. next \in Call
  BY <1>2, <1>4, PutAsleep
<1>6. next.pc = place
  BY <1>2 DEF Call
<1>7. moved = [call EXCEPT ![c] = next]
  BY <1>2 DEF CallsOK
<1> HIDE DEF moved, next
<1>8. moved[c] = next /\ moved \in [Callers -> Call]
  BY <1>5, <1>7 DEF CallsOK
<1>9. /\ call' \in [Callers -> Call] /\ call'[c] = next
      /\ \A d \in Callers \ {c} : call'[d].pc = call[d].pc
  <2>1. CASE call' = moved
    BY <1>5, <1>7, <2>1 DEF CallsOK
  <2>2. CASE call' = [Notify(call) EXCEPT ![c] = moved[c]]
    <3>1. Notify(call) \in [Callers -> Call] /\ \A d \in Callers : Notify(call)[d].pc = call[d].pc
      BY NotifyKeeps DEF CallsOK
    <3> QED
      BY <1>5, <1>8, <2>2, <3>1
  <2> QED
    BY <1>1, <2>1, <2>2
<1>10. Moves(c, {"spend"}, IF left = 0 THEN {"leave"} ELSE {"turn", "asleep"})
  BY <1>1, <1>4, <1>6, <1>9 DEF Moves, CallsOK
<1>11. lastFast \in BOOLEAN => lastFast' \in BOOLEAN
  BY <1>1, Zenon DEF last
<1> QED
  BY <1>1, <1>10, <1>11 DEF left, k1, k2

(* The clock moves nobody. *)
LEMMA TickKeeps ==
  ASSUME PacerAssumption, CallsOK, Tick
  PROVE  CallsOK' /\ \A d \in Callers : call'[d].pc = call[d].pc
<1>1. ASSUME NEW d \in Callers
      PROVE  call'[d] \in Call /\ call'[d].pc = call[d].pc
  <2> DEFINE t == IF call[d].sleep > 0 THEN call[d].sleep - 1 ELSE 0
  <2>1. call[d] \in Call /\ call'[d] = [call[d] EXCEPT !.sleep = t]
    BY DEF CallsOK, Tick
  <2>2. t \in Pauses
    BY <2>1 DEF Call, Pauses, PacerAssumption
  <2> HIDE DEF t
  <2> QED
    BY <2>1, <2>2 DEF Call
<1>2. call' = [d \in Callers |-> call'[d]]
  BY DEF Tick
<1> QED
  BY <1>1, <1>2 DEF CallsOK

-----------------------------------------------------------------------------
(* The budget. *)

(* A watched window has let through no more than the burst, what came in   *)
(* since, and less what is still in the bucket.                            *)
WindowOK ==
  /\ window \in [on : BOOLEAN, ticks : Nat, passed : Int]
  /\ window.on => tokens + window.passed * Unit <= Burst + Rate * window.ticks
  /\ ~window.on => window.ticks = 0 /\ window.passed = 0

BudgetInv == Balances /\ lastFast \in BOOLEAN /\ WindowOK

(* k tokens leave the bucket and pass. *)
LEMMA PassedFits ==
  ASSUME PacerAssumption, BudgetInv, NEW k \in Nat, Passed(k), tokens' = tokens - k * Unit
  PROVE  WindowOK'
<1>1. /\ window \in [on : BOOLEAN, ticks : Nat, passed : Int] /\ tokens \in Int
      /\ Unit \in Nat /\ Rate \in Nat /\ Burst \in Nat
  BY Amounts DEF BudgetInv, WindowOK, Balances, PacerAssumption
<1>2. CASE window.on
  <2>1. window' = [window EXCEPT !.passed = @ + k]
    BY <1>2 DEF Passed
  <2>2. window' \in [on : BOOLEAN, ticks : Nat, passed : Int]
    <3>1. window.passed + k \in Int
      BY <1>1
    <3> QED
      BY <1>1, <2>1, <3>1, Zenon
  <2>3. window'.on = window.on /\ window'.ticks = window.ticks /\ window'.passed = window.passed + k
    BY <1>1, <2>1
  <2>4. (window.passed + k) * Unit = window.passed * Unit + k * Unit
    BY <1>1
  <2>5. tokens' + window'.passed * Unit = tokens + window.passed * Unit
    BY <1>1, <2>3, <2>4
  <2> QED
    BY <1>2, <2>2, <2>3, <2>5 DEF BudgetInv, WindowOK
<1>3. CASE ~window.on
  BY <1>3 DEF Passed, BudgetInv, WindowOK
<1> QED
  BY <1>2, <1>3

LEMMA DrawBudget ==
  ASSUME PacerAssumption, BudgetInv, CallsOK, NEW c \in Callers, NEW next, DrawInto(c, next)
  PROVE  BudgetInv'
<1> DEFINE k == Drawn(call[c].left)
<1>1. /\ Unit \in Nat \ {0} /\ Reserve \in Nat /\ Burst \in Nat
      /\ tokens \in 0 .. Burst /\ fastTokens \in 0 .. Reserve /\ fastTokens <= tokens
  BY Amounts DEF PacerAssumption, BudgetInv, Balances
<1>2. call[c].left \in 0 .. MaxWant /\ MaxWant \in Nat
  BY DEF CallsOK, Call, Wants, PacerAssumption
<1>3. k \in Nat /\ k * Unit <= fastTokens
  BY <1>1, <1>2, DrawnFits
<1>4. /\ tokens' = tokens - k * Unit /\ fastTokens' = Min({fastTokens - k * Unit, tokens'})
      /\ lastFast' = (IF k > 0 THEN TRUE ELSE lastFast) /\ Passed(k)
  BY DEF DrawInto, Taken
<1> HIDE DEF k
<1>5. k * Unit \in Nat
  BY <1>1, <1>3
<1>6. tokens' \in 0 .. Burst /\ fastTokens' = fastTokens - k * Unit
  BY <1>1, <1>3, <1>4, <1>5, MinPair
<1>7. Balances'
  BY <1>1, <1>3, <1>4, <1>5, <1>6 DEF Balances, Burst, Reserve
<1>8. lastFast' \in BOOLEAN
  BY <1>4, Zenon DEF BudgetInv
<1>9. WindowOK'
  BY <1>3, <1>4, PassedFits
<1> QED
  BY <1>7, <1>8, <1>9 DEF BudgetInv

LEMMA SpendBudget ==
  ASSUME PacerAssumption, BudgetInv, CallsOK, NEW c \in Callers, Spend(c)
  PROVE  BudgetInv'
<1> DEFINE k == FromReserve(c) + FromShared(c)
<1>1. Balances /\ lastFast \in BOOLEAN
  BY DEF BudgetInv
<1>2. /\ k \in Nat /\ SpentTokens(c) = tokens - k * Unit
      /\ SpentTokens(c) \in 0 .. Burst /\ SpentFast(c) \in 0 .. Reserve
      /\ SpentFast(c) <= SpentTokens(c)
  BY <1>1, SpendFits
<1>3. /\ tokens' = SpentTokens(c) /\ fastTokens' = SpentFast(c) /\ Passed(k) /\ lastFast' \in BOOLEAN
  BY <1>1, SpendMoves
<1> HIDE DEF k
<1>4. WindowOK'
  BY <1>2, <1>3, PassedFits
<1> QED
  BY <1>2, <1>3, <1>4 DEF BudgetInv, Balances, Burst, Reserve

LEMMA RefundBudget ==
  ASSUME PacerAssumption, BudgetInv, CallsOK, NEW c \in Callers, Refund(c)
  PROVE  BudgetInv'
<1> DEFINE n == call[c].want
<1>1. /\ Unit \in Nat /\ Rate \in Nat /\ Reserve \in Nat /\ Burst \in Nat
      /\ tokens \in 0 .. Burst /\ fastTokens \in 0 .. Reserve /\ fastTokens <= tokens
      /\ window \in [on : BOOLEAN, ticks : Nat, passed : Int]
  BY Amounts DEF PacerAssumption, BudgetInv, Balances, WindowOK
<1>2. n \in Nat
  BY DEF CallsOK, Call, Wants, PacerAssumption
<1>3. /\ tokens' = Min({tokens + n * Unit, Burst}) /\ fastTokens' = Min({fastTokens, tokens'})
      /\ lastFast' = lastFast
      /\ window' = IF window.on THEN [window EXCEPT !.passed = @ + (-n)] ELSE window
  BY DEF Refund, RefundCap, Passed
<1> HIDE DEF n
<1>4. n * Unit \in Nat
  BY <1>1, <1>2
<1>5. tokens' \in 0 .. Burst /\ tokens <= tokens' /\ tokens' <= tokens + n * Unit
  <2>1. tokens + n * Unit \in Int
    BY <1>1, <1>4
  <2>2. tokens' = IF tokens + n * Unit <= Burst THEN tokens + n * Unit ELSE Burst
    BY <1>1, <1>3, <2>1, MinPair
  <2> QED
    BY <1>1, <1>4, <2>1, <2>2
<1>6. fastTokens' = fastTokens
  <2>1. fastTokens \in Int /\ tokens' \in Int /\ fastTokens <= tokens'
    BY <1>1, <1>5
  <2>2. fastTokens' = IF fastTokens <= tokens' THEN fastTokens ELSE tokens'
    BY <1>3, <2>1, MinPair
  <2> QED
    BY <2>1, <2>2
<1>7. Balances'
  BY <1>1, <1>5, <1>6 DEF Balances, Burst, Reserve
<1>8. WindowOK'
  <2>1. CASE window.on
    <3>1. window' = [window EXCEPT !.passed = @ - n] /\ window.passed - n \in Int
      BY <1>1, <1>2, <1>3, <2>1
    <3>2. window' \in [on : BOOLEAN, ticks : Nat, passed : Int]
      BY <1>1, <3>1, Zenon
    <3>3. window'.on = window.on /\ window'.ticks = window.ticks /\ window'.passed = window.passed - n
      BY <1>1, <3>1
    <3>4. (window.passed - n) * Unit = window.passed * Unit - n * Unit /\ window.passed * Unit \in Int
      BY <1>1, <1>2
    <3>5. tokens' + window'.passed * Unit <= tokens + window.passed * Unit
      BY <1>1, <1>4, <1>5, <3>3, <3>4
    <3>6. Rate * window.ticks \in Int /\ window'.passed * Unit \in Int
      BY <1>1, <1>2, <3>3
    <3>7. tokens' + window'.passed * Unit <= Burst + Rate * window'.ticks
      BY <1>1, <1>5, <2>1, <3>3, <3>4, <3>5, <3>6 DEF BudgetInv, WindowOK
    <3> QED
      BY <2>1, <3>2, <3>3, <3>7 DEF WindowOK, Burst
  <2>2. CASE ~window.on
    BY <1>3, <2>2 DEF BudgetInv, WindowOK
  <2> QED
    BY <2>1, <2>2
<1> QED
  BY <1>3, <1>7, <1>8 DEF BudgetInv

LEMMA TickBudget ==
  ASSUME PacerAssumption, BudgetInv, Tick
  PROVE  BudgetInv'
<1>1. /\ Unit \in Nat /\ Rate \in Nat /\ Reserve \in Nat /\ Burst \in Nat /\ ReserveRate \in Nat
      /\ tokens \in 0 .. Burst /\ fastTokens \in 0 .. Reserve /\ fastTokens <= tokens
      /\ window \in [on : BOOLEAN, ticks : Nat, passed : Int]
  BY Amounts DEF PacerAssumption, BudgetInv, Balances, WindowOK
<1>2. /\ tokens' = Min({tokens + Rate, Burst})
      /\ fastTokens' = Min({fastTokens + ReserveRate, Reserve, tokens'})
      /\ window' = IF window.on /\ window.ticks < WindowSize THEN [window EXCEPT !.ticks = @ + 1]
                   ELSE [on |-> FALSE, ticks |-> 0, passed |-> 0]
      /\ lastFast' = lastFast
  BY DEF Tick
<1>3. tokens' \in 0 .. Burst /\ tokens' <= tokens + Rate
  BY <1>1, <1>2, MinPair
<1>4. /\ fastTokens' \in {fastTokens + ReserveRate, Reserve, tokens'}
      /\ fastTokens' <= Reserve /\ fastTokens' <= tokens'
  <2> DEFINE f == fastTokens + ReserveRate
             t == tokens'
  <2>1. f \in Int /\ t \in Int /\ fastTokens' = Min({f, Reserve, t})
    BY <1>1, <1>2, <1>3
  <2>2. fastTokens' \in {f, Reserve, t} /\ fastTokens' <= Reserve /\ fastTokens' <= t
    <3> DEFINE m == Min({f, Reserve, t})
    <3>1. Reserve \in Int
      BY <1>1
    <3> HIDE DEF f, t
    <3>2. m \in {f, Reserve, t} /\ m <= Reserve /\ m <= t
      BY <2>1, <3>1, MinTriple, Zenon
    <3> QED
      BY <2>1, <3>2
  <2> QED
    BY <2>2
<1>5. Balances'
  BY <1>1, <1>3, <1>4 DEF Balances, Burst, Reserve
<1>6. WindowOK'
  <2>1. CASE window.on /\ window.ticks < WindowSize
    <3>1. window' = [window EXCEPT !.ticks = @ + 1] /\ window.ticks + 1 \in Nat
      BY <1>1, <1>2, <2>1
    <3>2. window' \in [on : BOOLEAN, ticks : Nat, passed : Int]
      BY <1>1, <3>1, Zenon
    <3>3. window'.on = window.on /\ window'.ticks = window.ticks + 1 /\ window'.passed = window.passed
      BY <1>1, <3>1
    <3>4. Rate * (window.ticks + 1) = Rate * window.ticks + Rate /\ Rate * window.ticks \in Int
          /\ window.passed * Unit \in Int
      BY <1>1
    <3>5. tokens' + window'.passed * Unit <= Burst + Rate * window'.ticks
      BY <1>1, <1>3, <2>1, <3>3, <3>4 DEF BudgetInv, WindowOK
    <3> QED
      BY <2>1, <3>2, <3>3, <3>5 DEF WindowOK, Burst
  <2>2. CASE ~(window.on /\ window.ticks < WindowSize)
    BY <1>2, <2>2 DEF WindowOK
  <2> QED
    BY <2>1, <2>2
<1> QED
  BY <1>2, <1>5, <1>6 DEF BudgetInv

LEMMA WatchBudget ==
  ASSUME PacerAssumption, BudgetInv, Watch
  PROVE  BudgetInv'
<1>1. /\ tokens \in 0 .. Burst /\ Burst \in Nat /\ Unit \in Nat /\ Rate \in Nat
      /\ window \in [on : BOOLEAN, ticks : Nat, passed : Int]
      /\ window.ticks = 0 /\ window.passed = 0
  BY Amounts DEF BudgetInv, Balances, WindowOK, Watch, PacerAssumption
<1>2. window' = [window EXCEPT !.on = TRUE] /\ UNCHANGED <<tokens, fastTokens, lastFast>>
  BY DEF Watch
<1>3. window' \in [on : BOOLEAN, ticks : Nat, passed : Int]
  BY <1>1, <1>2, Zenon
<1>4. window'.on = TRUE /\ window'.ticks = 0 /\ window'.passed = 0
  BY <1>1, <1>2
<1>5. WindowOK'
  BY <1>1, <1>2, <1>3, <1>4 DEF WindowOK, Burst
<1> QED
  BY <1>2, <1>5 DEF BudgetInv, Balances, Burst, Reserve

-----------------------------------------------------------------------------
(* The turnstile. *)
Within == {c \in Callers : call[c].pc \in {"spend", "asleep", "turn"}}
Queuing == {c \in Callers : call[c].pc \in {"park", "parked"}}
InQueue(c) == \E i \in DOMAIN queue : queue[i] = c

(* A caller at the turnstile is in the queue or has been let in, never     *)
(* both and never twice, and held says whether somebody is inside.         *)
TurnInv ==
  /\ held \in BOOLEAN /\ queue \in Seq(Callers) /\ ready \subseteq Callers
  /\ \A i, j \in DOMAIN queue : queue[i] = queue[j] => i = j
  /\ \A c \in Callers : c \in Queuing <=> InQueue(c) \/ c \in ready
  /\ \A c \in ready : ~InQueue(c)
  /\ \A c, d \in Within \cup ready : c = d
  /\ held <=> Within \cup ready # {}

LEMMA InsideSplit ==
  ASSUME ready \subseteq Callers
  PROVE  Inside = Within \cup ready
BY DEF Inside, Within

(* The abstract holder is the only caller inside. *)
LEMMA HolderIs ==
  ASSUME TurnInv
  PROVE  /\ Inside = {} => Holder = NoOne
         /\ \A c \in Inside : Holder = c /\ Inside = {c} /\ c \in Callers
<1>1. Inside = Within \cup ready
  BY InsideSplit DEF TurnInv
<1>2. ASSUME NEW c \in Inside
      PROVE  Holder = c /\ Inside = {c} /\ c \in Callers
  <2>1. \A d \in Inside : d = c
    BY <1>1 DEF TurnInv
  <2>2. (CHOOSE d \in Inside : TRUE) \in Inside
    OBVIOUS
  <2> QED
    BY <1>1, <2>1, <2>2 DEF Holder, TurnInv, Within
<1> QED
  BY <1>2 DEF Holder

(* How a step of one caller moves the two sets of callers. *)
LEMMA MovesSets ==
  ASSUME NEW c \in Callers, NEW from, NEW to, Moves(c, from, to)
  PROVE  /\ Within' = IF call'[c].pc \in {"spend", "asleep", "turn"} THEN Within \cup {c} ELSE Within \ {c}
         /\ Queuing' = IF call'[c].pc \in {"park", "parked"} THEN Queuing \cup {c} ELSE Queuing \ {c}
         /\ c \in Within <=> call[c].pc \in {"spend", "asleep", "turn"}
         /\ c \in Queuing <=> call[c].pc \in {"park", "parked"}
BY DEF Moves, Within, Queuing

LEMMA StaysTurn ==
  ASSUME TurnInv, UNCHANGED turnstile, Within' = Within, Queuing' = Queuing
  PROVE  TurnInv' /\ UNCHANGED <<Holder, queue>>
<1>1. UNCHANGED <<held, queue, ready>>
  BY DEF turnstile
<1>2. TurnInv'
  BY <1>1 DEF TurnInv, InQueue
<1>3. Inside' = Inside
  <2>1. Inside = Within \cup ready /\ Inside' = Within' \cup ready'
    BY <1>1 DEF Inside, Within, TurnInv
  <2> QED
    BY <1>1, <2>1
<1>4. Holder' = Holder
  BY <1>3 DEF Holder
<1> QED
  BY <1>1, <1>2, <1>4

(* The turnstile is open: the caller goes in. *)
LEMMA GoesIn ==
  ASSUME PacerAssumption, TurnInv, NEW c \in Callers, c \notin Queuing, ~held, held' = TRUE,
         UNCHANGED <<queue, ready>>, Within' = Within \cup {c}, Queuing' = Queuing
  PROVE  TurnInv' /\ Abstract!Arrive(c)
<1>1. Within = {} /\ ready = {} /\ ~InQueue(c)
  BY DEF TurnInv
<1>2. TurnInv'
  BY <1>1 DEF TurnInv, InQueue
<1>3. Inside = {} /\ Inside' = {c}
  BY <1>1 DEF Inside, Within
<1>4. Holder = NoOne /\ Holder' = c
  BY <1>3 DEF Holder
<1> QED
  BY <1>1, <1>2, <1>4 DEF Abstract!Arrive, InQueue, PacerAssumption

(* It is held: the caller queues last. *)
LEMMA Queues ==
  ASSUME PacerAssumption, TurnInv, NEW c \in Callers, c \notin Queuing, c \notin Within, held,
         queue' = Append(queue, c), UNCHANGED <<held, ready>>, Within' = Within,
         Queuing' = Queuing \cup {c}
  PROVE  TurnInv' /\ Abstract!Arrive(c)
<1>1. ~InQueue(c) /\ c \notin ready /\ queue \in Seq(Callers)
  BY DEF TurnInv
<1>2. /\ queue' \in Seq(Callers) /\ Len(queue') = Len(queue) + 1 /\ Len(queue) \in Nat
      /\ DOMAIN queue = 1 .. Len(queue) /\ DOMAIN queue' = 1 .. Len(queue) + 1
      /\ \A i \in 1 .. Len(queue) : queue'[i] = queue[i]
      /\ queue'[Len(queue) + 1] = c
  BY <1>1
<1>3. \A d \in Callers : InQueue(d)' <=> InQueue(d) \/ d = c
  BY <1>2 DEF InQueue
<1>4. \A i, j \in DOMAIN queue' : queue'[i] = queue'[j] => i = j
  <2> SUFFICES ASSUME NEW i \in 1 .. Len(queue) + 1, NEW j \in 1 .. Len(queue) + 1, queue'[i] = queue'[j]
               PROVE  i = j
    BY <1>2
  <2>1. i \in 1 .. Len(queue) \/ i = Len(queue) + 1
    BY <1>2
  <2>2. j \in 1 .. Len(queue) \/ j = Len(queue) + 1
    BY <1>2
  <2>3. \A m \in 1 .. Len(queue) : queue[m] # c
    BY <1>1, <1>2 DEF InQueue
  <2> QED
    BY <1>2, <2>1, <2>2, <2>3 DEF TurnInv
<1>5. TurnInv'
  BY <1>1, <1>2, <1>3, <1>4 DEF TurnInv
<1>6. Inside = Within \cup ready /\ Inside' = Within' \cup ready'
  BY DEF Inside, Within, TurnInv
<1>7. Holder' = Holder
  BY <1>6 DEF Holder
<1>8. Inside # {} /\ c \notin Inside
  BY <1>1, <1>6 DEF TurnInv
<1>9. Holder # NoOne /\ Holder # c
  BY <1>8, HolderIs DEF PacerAssumption
<1> QED
  BY <1>1, <1>5, <1>7, <1>9 DEF Abstract!Arrive, InQueue

(* The caller that was let in notices. *)
LEMMA Notices ==
  ASSUME TurnInv, NEW c \in ready, ready' = ready \ {c}, UNCHANGED <<held, queue>>,
         Within' = Within \cup {c}, Queuing' = Queuing \ {c}
  PROVE  TurnInv' /\ UNCHANGED <<Holder, queue>>
<1>1. ~InQueue(c) /\ Within' \cup ready' = Within \cup ready
  BY DEF TurnInv
<1>2. TurnInv'
  BY <1>1 DEF TurnInv, InQueue
<1>3. Inside = Within \cup ready /\ Inside' = Within' \cup ready'
  BY <1>1 DEF Inside, Within, TurnInv
<1>4. Inside' = Inside
  BY <1>1, <1>3
<1> QED
  BY <1>2, <1>4 DEF Holder

(* What stands behind the first of two sequences. *)
LEMMA ConcatTail ==
  ASSUME NEW S, NEW p \in Seq(S), NEW q \in Seq(S), NEW j \in Len(p) + 1 .. Len(p) + Len(q)
  PROVE  (p \o q)[j] = q[j - Len(p)]
<1>1. \A i \in 1 .. Len(p) + Len(q) : (p \o q)[i] = IF i <= Len(p) THEN p[i] ELSE q[i - Len(p)]
  BY ConcatProperties, Zenon
<1>2. Len(p) \in Nat /\ Len(q) \in Nat
  OBVIOUS
<1>3. j \in 1 .. Len(p) + Len(q) /\ ~(j <= Len(p))
  BY <1>2
<1> QED
  BY <1>1, <1>3

(* What a queue keeps when one place is taken out of it. *)
LEMMA RemoveAtQueue ==
  ASSUME NEW s \in Seq(Callers), NEW i \in DOMAIN s, \A j, k \in DOMAIN s : s[j] = s[k] => j = k
  PROVE  /\ RemoveAt(s, i) \in Seq(Callers)
         /\ \A j, k \in DOMAIN RemoveAt(s, i) : RemoveAt(s, i)[j] = RemoveAt(s, i)[k] => j = k
         /\ \A d : (\E j \in DOMAIN RemoveAt(s, i) : RemoveAt(s, i)[j] = d)
                   <=> d # s[i] /\ \E j \in DOMAIN s : s[j] = d
<1> DEFINE n == Len(s)
           pre == SubSeq(s, 1, i - 1)
           post == SubSeq(s, i + 1, n)
           r == RemoveAt(s, i)
<1>1. n \in Nat /\ DOMAIN s = 1 .. n /\ i \in 1 .. n
  OBVIOUS
<1>2. /\ pre \in Seq(Callers) /\ Len(pre) = i - 1 /\ \A j \in 1 .. i - 1 : pre[j] = s[j]
  BY <1>1, SubSeqProperties
<1>3. /\ post \in Seq(Callers) /\ Len(post) = n - i /\ \A j \in 1 .. n - i : post[j] = s[i + j]
  BY <1>1, SubSeqProperties
<1>4. r = pre \o post
  BY DEF RemoveAt
<1> HIDE DEF pre, post, n
<1>5. r \in Seq(Callers) /\ DOMAIN r = 1 .. n - 1
  BY <1>1, <1>2, <1>3, <1>4, ConcatProperties
<1>6. \A j \in 1 .. n - 1 : r[j] = s[IF j < i THEN j ELSE j + 1]
  <2> TAKE j \in 1 .. n - 1
  <2>1. CASE j < i
    <3>1. j \in 1 .. Len(pre) /\ j \in 1 .. i - 1
      BY <1>1, <1>2, <2>1
    <3>2. (pre \o post)[j] = pre[j]
      BY <1>1, <1>2, <1>3, <3>1
    <3> QED
      BY <1>2, <1>4, <2>1, <3>1, <3>2
  <2>2. CASE ~(j < i)
    <3>1. j - (i - 1) \in 1 .. n - i /\ i + (j - (i - 1)) = j + 1
      BY <1>1, <2>2
    <3>2. (pre \o post)[j] = post[j - (i - 1)]
      <4>1. j \in Len(pre) + 1 .. Len(pre) + Len(post)
        <5>1. Len(pre) = i - 1 /\ Len(post) = n - i
          BY <1>2, <1>3
        <5> QED
          BY <1>1, <2>2, <5>1
      <4>2. (pre \o post)[j] = post[j - Len(pre)]
        <5>1. pre \in Seq(Callers) /\ post \in Seq(Callers)
          BY <1>2, <1>3
        <5> QED
          BY <4>1, <5>1, ConcatTail, Zenon
      <4> QED
        BY <1>2, <4>2
    <3> QED
      BY <1>3, <1>4, <2>2, <3>1, <3>2
  <2> QED
    BY <2>1, <2>2
<1> HIDE DEF r
<1>7. \A j, k \in 1 .. n - 1 : r[j] = r[k] => j = k
  <2> SUFFICES ASSUME NEW j \in 1 .. n - 1, NEW k \in 1 .. n - 1, r[j] = r[k]
               PROVE  j = k
    OBVIOUS
  <2> DEFINE jj == IF j < i THEN j ELSE j + 1
             kk == IF k < i THEN k ELSE k + 1
  <2>1. jj \in 1 .. n /\ kk \in 1 .. n
    BY <1>1
  <2>2. s[jj] = s[kk]
    BY <1>6
  <2>3. jj = kk
    <3> HIDE DEF jj, kk
    <3> QED
      BY <1>1, <2>1, <2>2
  <2> QED
    BY <1>1, <2>3
<1>8. ASSUME NEW d
      PROVE  (\E j \in 1 .. n - 1 : r[j] = d) <=> d # s[i] /\ \E j \in 1 .. n : s[j] = d
  <2>1. ASSUME NEW j \in 1 .. n - 1, r[j] = d
        PROVE  d # s[i] /\ \E k \in 1 .. n : s[k] = d
    <3> DEFINE jj == IF j < i THEN j ELSE j + 1
    <3>1. jj \in 1 .. n /\ jj # i
      BY <1>1
    <3>2. s[jj] = d
      BY <1>6, <2>1
    <3> HIDE DEF jj
    <3> QED
      BY <1>1, <3>1, <3>2
  <2>2. ASSUME d # s[i], NEW j \in 1 .. n, s[j] = d
        PROVE  \E k \in 1 .. n - 1 : r[k] = d
    <3>1. CASE j < i
      BY <1>1, <1>6, <2>2, <3>1
    <3>2. CASE j > i
      <4>1. j - 1 \in 1 .. n - 1 /\ ~(j - 1 < i) /\ (j - 1) + 1 = j
        BY <1>1, <3>2
      <4>2. r[j - 1] = s[j]
        BY <1>6, <4>1
      <4> QED
        BY <2>2, <4>1, <4>2
    <3>3. j # i
      BY <2>2
    <3> QED
      BY <1>1, <3>1, <3>2, <3>3
  <2> QED
    BY <2>1, <2>2
<1> QED
  BY <1>1, <1>5, <1>7, <1>8 DEF r

(* A queued caller gives up. *)
LEMMA GivesUp ==
  ASSUME PacerAssumption, TurnInv, NEW c \in Callers, NEW i \in DOMAIN queue, queue[i] = c,
         queue' = RemoveAt(queue, i), UNCHANGED <<held, ready>>,
         Within' = Within, Queuing' = Queuing \ {c}
  PROVE  TurnInv' /\ Abstract!GiveUp
<1>1. /\ queue' \in Seq(Callers)
      /\ \A j, k \in DOMAIN queue' : queue'[j] = queue'[k] => j = k
      /\ \A d \in Callers : InQueue(d)' <=> d # c /\ InQueue(d)
  <2>1. queue \in Seq(Callers) /\ \A j, k \in DOMAIN queue : queue[j] = queue[k] => j = k
    BY DEF TurnInv
  <2>2. /\ RemoveAt(queue, i) \in Seq(Callers)
        /\ \A j, k \in DOMAIN RemoveAt(queue, i) : RemoveAt(queue, i)[j] = RemoveAt(queue, i)[k] => j = k
        /\ \A d : (\E j \in DOMAIN RemoveAt(queue, i) : RemoveAt(queue, i)[j] = d)
                  <=> d # queue[i] /\ \E j \in DOMAIN queue : queue[j] = d
    BY <2>1, RemoveAtQueue
  <2> QED
    BY <2>2 DEF InQueue
<1>2. c \notin ready
  BY DEF TurnInv, InQueue
<1>3. TurnInv'
  BY <1>1, <1>2 DEF TurnInv
<1>4. Inside = Within \cup ready /\ Inside' = Within' \cup ready'
  BY DEF Inside, Within, TurnInv
<1>5. Holder' = Holder
  BY <1>4 DEF Holder
<1> QED
  BY <1>3, <1>5 DEF Abstract!GiveUp, Abstract!RemoveAt, RemoveAt

(* The caller inside goes out: the first of the queue is let in. *)
LEMMA GoesOut ==
  ASSUME PacerAssumption, TurnInv, NEW c \in Callers, c \in Within \cup ready, Release(c),
         Within' = Within \ {c}, Queuing' = Queuing \ {c}
  PROVE  TurnInv' /\ Abstract!Pass
<1>1. Inside = Within \cup ready /\ Within \cup ready = {c} /\ held
  BY InsideSplit DEF TurnInv
<1>2. Within' = {} /\ Holder = c /\ Holder # NoOne
  BY <1>1, HolderIs DEF PacerAssumption
<1>3. CASE queue = <<>>
  <2>1. held' = FALSE /\ ready' = {} /\ queue' = queue
    BY <1>1, <1>3 DEF Release
  <2>2. DOMAIN queue = {}
    BY <1>3
  <2>3. TurnInv'
    BY <1>1, <1>2, <2>1, <2>2 DEF TurnInv, InQueue
  <2>4. Inside' = {}
    BY <1>2, <2>1 DEF Inside, Within
  <2> QED
    BY <1>2, <1>3, <2>1, <2>3, <2>4 DEF Abstract!Pass, Holder
<1>4. CASE queue # <<>>
  <2> DEFINE h == Head(queue)
  <2>1. held' = held /\ queue' = Tail(queue) /\ ready' = (ready \ {c}) \cup {h}
    BY <1>4 DEF Release
  <2>2. queue \in Seq(Callers) /\ Len(queue) \in Nat /\ Len(queue) # 0 /\ DOMAIN queue = 1 .. Len(queue)
    BY <1>4 DEF TurnInv
  <2>3. h = queue[1] /\ h \in Callers /\ InQueue(h)
    BY <2>2 DEF InQueue
  <2>4. /\ queue' \in Seq(Callers) /\ DOMAIN queue' = 1 .. Len(queue) - 1
        /\ \A j \in 1 .. Len(queue) - 1 : queue'[j] = queue[j + 1]
    BY <1>4, <2>1, <2>2, HeadTailProperties
  <2>5. h \notin ready /\ h \in Queuing
    BY <2>3 DEF TurnInv
  <2>6. h # c
    BY <1>1, <2>3, <2>5 DEF Within, Queuing
  <2>7. ready' = {h}
    BY <1>1, <2>1
  <2>8. \A j, k \in DOMAIN queue' : queue'[j] = queue'[k] => j = k
    <3> SUFFICES ASSUME NEW j \in 1 .. Len(queue) - 1, NEW k \in 1 .. Len(queue) - 1, queue'[j] = queue'[k]
                 PROVE  j = k
      BY <2>4
    <3>1. j + 1 \in DOMAIN queue /\ k + 1 \in DOMAIN queue /\ queue[j + 1] = queue[k + 1]
      BY <2>2, <2>4
    <3>2. j + 1 = k + 1
      BY <3>1 DEF TurnInv
    <3> QED
      BY <2>2, <3>2
  <2>9. ASSUME NEW d \in Callers
        PROVE  InQueue(d)' <=> d # h /\ InQueue(d)
    <3>1. ASSUME NEW j \in 1 .. Len(queue) - 1, queue'[j] = d
          PROVE  d # h /\ InQueue(d)
      <4>1. j + 1 \in DOMAIN queue /\ 1 \in DOMAIN queue /\ j + 1 # 1 /\ queue[j + 1] = d
        BY <2>2, <2>4, <3>1
      <4> QED
        BY <2>3, <4>1 DEF TurnInv, InQueue
    <3>2. ASSUME d # h, NEW j \in 1 .. Len(queue), queue[j] = d
          PROVE  \E m \in 1 .. Len(queue) - 1 : queue'[m] = d
      <4>1. j - 1 \in 1 .. Len(queue) - 1 /\ (j - 1) + 1 = j
        BY <2>2, <2>3, <3>2
      <4> QED
        BY <2>4, <3>2, <4>1
    <3> QED
      BY <2>2, <2>4, <3>1, <3>2 DEF InQueue
  <2>10. Within' \cup ready' = {h}
    BY <1>2, <2>7
  <2>11. ASSUME NEW d \in Callers
         PROVE  d \in Queuing' <=> InQueue(d)' \/ d \in ready'
    <3>1. InQueue(d)' <=> d # h /\ InQueue(d)
      BY <2>9
    <3>2. d \in Queuing <=> InQueue(d) \/ d \in ready
      BY DEF TurnInv
    <3>3. d \in Queuing' <=> d \in Queuing /\ d # c
      OBVIOUS
    <3>4. d \in ready => d = c
      BY <1>1
    <3>5. InQueue(c) => c \notin ready
      BY DEF TurnInv
    <3>6. InQueue(c) => c \notin Within
      BY DEF TurnInv, Within, Queuing
    <3> QED
      BY <1>1, <2>3, <2>6, <2>7, <3>1, <3>2, <3>3, <3>4, <3>5, <3>6
  <2>12. TurnInv'
    <3>1. \A j \in DOMAIN queue' : queue'[j] # h
      BY <2>3, <2>9 DEF InQueue
    <3>2. held' \in BOOLEAN /\ held'
      BY <1>1, <2>1 DEF TurnInv
    <3> QED
      BY <2>3, <2>4, <2>7, <2>8, <2>10, <2>11, <3>1, <3>2 DEF TurnInv, InQueue
  <2>13. Inside' = {h}
    BY <1>2, <2>3, <2>7 DEF Inside, Within
  <2>14. Holder' = h
    BY <2>13 DEF Holder
  <2> QED
    BY <1>2, <1>4, <2>1, <2>12, <2>14 DEF Abstract!Pass
<1> QED
  BY <1>3, <1>4

-----------------------------------------------------------------------------
(* Every step. *)
IInv == BudgetInv /\ CallsOK /\ TurnInv
Kept == IInv' /\ [Abstract!Next]_(Abstract!vars)

LEMMA BucketRests ==
  ASSUME BudgetInv, UNCHANGED bucket
  PROVE  BudgetInv'
BY DEF BudgetInv, bucket, Balances, WindowOK, Burst, Reserve

(* A caller that neither comes to the turnstile nor leaves it. *)
LEMMA ElsewhereKept ==
  ASSUME TurnInv, BudgetInv', UNCHANGED turnstile, NEW c \in Callers, NEW from, NEW to, Moves(c, from, to),
         \A p \in from, q \in to : /\ p \in {"spend", "asleep", "turn"} <=> q \in {"spend", "asleep", "turn"}
                                   /\ p \in {"park", "parked"} <=> q \in {"park", "parked"}
  PROVE  Kept
<1>1. call[c].pc \in from /\ call'[c].pc \in to /\ CallsOK'
  BY DEF Moves
<1>2. Within' = Within /\ Queuing' = Queuing
  <2> DEFINE I == {"spend", "asleep", "turn"}
             Q == {"park", "parked"}
  <2>1. \A p \in from, q \in to : (p \in I <=> q \in I) /\ (p \in Q <=> q \in Q)
    OBVIOUS
  <2>2. /\ Within = {d \in Callers : call[d].pc \in I} /\ Within' = {d \in Callers : call'[d].pc \in I}
        /\ Queuing = {d \in Callers : call[d].pc \in Q} /\ Queuing' = {d \in Callers : call'[d].pc \in Q}
    BY DEF Within, Queuing
  <2> HIDE DEF I, Q
  <2>3. (call[c].pc \in I <=> call'[c].pc \in I) /\ (call[c].pc \in Q <=> call'[c].pc \in Q)
    BY <1>1, <2>1
  <2>4. \A d \in Callers : (call[d].pc \in I <=> call'[d].pc \in I) /\ (call[d].pc \in Q <=> call'[d].pc \in Q)
    BY <2>3 DEF Moves
  <2> QED
    BY <2>2, <2>4
<1>3. TurnInv' /\ UNCHANGED <<Holder, queue>>
  BY <1>2, StaysTurn
<1> QED
  BY <1>1, <1>3 DEF Kept, IInv, Abstract!vars

LEMMA EnterKept ==
  ASSUME PacerAssumption, IInv, NEW c \in Callers, Enter(c)
  PROVE  Kept
<1>1. Moves(c, {"out"}, {"acquire", "turns", "draw"})
  BY EnterMoves DEF IInv
<1>2. UNCHANGED turnstile /\ BudgetInv'
  BY BucketRests DEF Enter, IInv
<1> QED
  BY <1>1, <1>2, ElsewhereKept DEF IInv

LEMMA DrawReserveKept ==
  ASSUME PacerAssumption, IInv, NEW c \in Callers, DrawReserve(c)
  PROVE  Kept
<1>1. Moves(c, {"draw"}, {"leave", "acquire"})
  BY DrawReserveMoves DEF IInv, BudgetInv
<1>2. UNCHANGED turnstile /\ BudgetInv'
  BY DrawBudget DEF DrawReserve, IInv
<1> QED
  BY <1>1, <1>2, ElsewhereKept DEF IInv

LEMMA WaitTurnsKept ==
  ASSUME PacerAssumption, IInv, NEW c \in Callers, WaitTurns(c)
  PROVE  Kept
<1>1. Moves(c, {"turns"}, {"leave", "turns_turn", "turns_asleep"})
  BY WaitTurnsMoves DEF IInv, BudgetInv
<1>2. UNCHANGED turnstile /\ BudgetInv'
  BY DrawBudget DEF WaitTurns, IInv
<1> QED
  BY <1>1, <1>2, ElsewhereKept DEF IInv

(* Refill, Wake, WakeTurns and CancelTurns. *)
LEMMA RestsKept ==
  ASSUME PacerAssumption, IInv, NEW c \in Callers,
         Refill(c) \/ Wake(c) \/ WakeTurns(c) \/ CancelTurns(c)
  PROVE  Kept
<1>1. UNCHANGED turnstile /\ BudgetInv'
  BY BucketRests DEF Refill, Wake, WakeTurns, CancelTurns, IInv
<1>2. CASE Refill(c)
  <2>1. Moves(c, {"parked"}, {"park"})
    BY <1>2, GoesOn DEF Refill, IInv, Places
  <2> QED
    BY <1>1, <2>1, ElsewhereKept DEF IInv
<1>3. CASE Wake(c)
  <2>1. Moves(c, {call[c].pc}, {"spend"}) /\ call[c].pc \in {"asleep", "turn"}
    BY <1>3, GoesOn DEF Wake, IInv, Places
  <2> QED
    BY <1>1, <2>1, ElsewhereKept DEF IInv
<1>4. CASE WakeTurns(c)
  <2>1. Moves(c, {call[c].pc}, {"turns"}) /\ call[c].pc \in {"turns_asleep", "turns_turn"}
    BY <1>4, GoesOn DEF WakeTurns, IInv, Places
  <2> QED
    BY <1>1, <2>1, ElsewhereKept DEF IInv
<1>5. CASE CancelTurns(c)
  <2>1. Moves(c, {call[c].pc}, {"leave"}) /\ call[c].pc \in {"turns_asleep", "turns_turn"}
    BY <1>5, GoesOn DEF CancelTurns, IInv, Places
  <2> QED
    BY <1>1, <2>1, ElsewhereKept DEF IInv
<1> QED
  BY <1>2, <1>3, <1>4, <1>5

LEMMA EndsKept ==
  ASSUME PacerAssumption, IInv, NEW c \in Callers, Leave(c) \/ Sent(c) \/ Refund(c)
  PROVE  Kept
<1>1. CASE Leave(c)
  <2>1. Moves(c, {"leave"}, {"served", "out"})
    BY <1>1, LeaveMoves DEF IInv
  <2>2. UNCHANGED turnstile /\ BudgetInv'
    BY <1>1, BucketRests DEF Leave, IInv
  <2> QED
    BY <2>1, <2>2, ElsewhereKept DEF IInv
<1>2. CASE Sent(c) \/ Refund(c)
  <2>1. Moves(c, {"served"}, {"out"})
    BY <1>2, EndMoves DEF IInv
  <2>2. UNCHANGED turnstile /\ BudgetInv'
    BY <1>2, BucketRests, RefundBudget DEF Sent, Refund, IInv
  <2> QED
    BY <2>1, <2>2, ElsewhereKept DEF IInv
<1> QED
  BY <1>1, <1>2

LEMMA AcquireKept ==
  ASSUME PacerAssumption, IInv, NEW c \in Callers, Acquire(c)
  PROVE  Kept
<1>1. Moves(c, {"acquire"}, IF held THEN {"park", "parked"} ELSE {"spend"}) /\ TurnInv
  BY AcquireMoves DEF IInv
<1>2. CallsOK' /\ call[c].pc = "acquire" /\ call'[c].pc \in IF held THEN {"park", "parked"} ELSE {"spend"}
  BY <1>1 DEF Moves
<1>3. c \notin Within /\ c \notin Queuing
  BY <1>2 DEF Within, Queuing
<1>4. BudgetInv'
  BY BucketRests DEF Acquire, IInv
<1>5. CASE ~held
  <2>1. Within' = Within \cup {c} /\ Queuing' = Queuing
    BY <1>1, <1>2, <1>3, <1>5, MovesSets
  <2>2. held' = TRUE /\ UNCHANGED <<queue, ready>>
    BY <1>5 DEF Acquire
  <2>3. TurnInv' /\ Abstract!Arrive(c)
    BY <1>1, <1>3, <1>5, <2>1, <2>2, GoesIn
  <2> QED
    BY <1>2, <1>4, <2>3 DEF Kept, IInv, Abstract!Next
<1>6. CASE held
  <2>1. Within' = Within /\ Queuing' = Queuing \cup {c}
    BY <1>1, <1>2, <1>3, <1>6, MovesSets
  <2>2. queue' = Append(queue, c) /\ UNCHANGED <<held, ready>>
    BY <1>6 DEF Acquire
  <2>3. TurnInv' /\ Abstract!Arrive(c)
    BY <1>1, <1>3, <1>6, <2>1, <2>2, Queues
  <2> QED
    BY <1>2, <1>4, <2>3 DEF Kept, IInv, Abstract!Next
<1> QED
  BY <1>5, <1>6

(* A caller at the turnstile gives up. *)
LEMMA AbandonKept ==
  ASSUME PacerAssumption, TurnInv, BudgetInv', NEW c \in Callers, Abandon(c),
         NEW from, Moves(c, from, {"leave"}), from \subseteq {"park", "parked"}
  PROVE  Kept
<1>1. CallsOK' /\ call[c].pc \in {"park", "parked"} /\ call'[c].pc = "leave"
  BY DEF Moves
<1>2. c \in Queuing /\ c \notin Within
  BY <1>1 DEF Queuing, Within
<1>3. Within' = Within /\ Within' = Within \ {c} /\ Queuing' = Queuing \ {c}
  BY <1>1, <1>2, MovesSets
<1>4. CASE InQueue(c)
  <2>1. PICK i \in DOMAIN queue : queue[i] = c /\ queue' = RemoveAt(queue, i)
    BY <1>4 DEF Abandon, InQueue
  <2>2. UNCHANGED <<held, ready>>
    BY <1>4 DEF Abandon, InQueue
  <2>3. TurnInv' /\ Abstract!GiveUp
    BY <1>3, <2>1, <2>2, GivesUp
  <2> QED
    BY <1>1, <2>3 DEF Kept, IInv, Abstract!Next
<1>5. CASE ~InQueue(c)
  <2>1. Release(c) /\ c \in Within \cup ready
    BY <1>2, <1>5 DEF Abandon, InQueue, TurnInv
  <2>2. TurnInv' /\ Abstract!Pass
    BY <1>3, <2>1, GoesOut
  <2> QED
    BY <1>1, <2>2 DEF Kept, IInv, Abstract!Next
<1> QED
  BY <1>4, <1>5

LEMMA ParkFastKept ==
  ASSUME PacerAssumption, IInv, NEW c \in Callers, ParkFast(c)
  PROVE  Kept
<1> DEFINE left == call[c].left - Drawn(call[c].left)
<1>1. Moves(c, {"park"}, IF left = 0 THEN {"leave"} ELSE {"parked"})
  BY ParkFastMoves DEF IInv, BudgetInv
<1>2. BudgetInv'
  BY DrawBudget DEF ParkFast, IInv
<1>3. IF left = 0 THEN Abandon(c) ELSE UNCHANGED turnstile
  BY DEF ParkFast
<1> HIDE DEF left
<1>4. CASE left = 0
  <2>1. Moves(c, {"park"}, {"leave"})
    BY <1>1, <1>4
  <2> QED
    BY <1>2, <1>3, <1>4, <2>1, AbandonKept DEF IInv
<1>5. CASE left # 0
  <2>1. Moves(c, {"park"}, {"parked"})
    BY <1>1, <1>5
  <2> QED
    BY <1>2, <1>3, <1>5, <2>1, ElsewhereKept DEF IInv
<1> QED
  BY <1>4, <1>5

LEMMA CancelParkedKept ==
  ASSUME PacerAssumption, IInv, NEW c \in Callers, CancelParked(c)
  PROVE  Kept
<1>1. Moves(c, {"parked"}, {"leave"})
  BY GoesOn DEF CancelParked, IInv, Places
<1>2. BudgetInv' /\ Abandon(c)
  BY BucketRests DEF CancelParked, IInv
<1> QED
  BY <1>1, <1>2, AbandonKept DEF IInv

LEMMA UnparkKept ==
  ASSUME PacerAssumption, IInv, NEW c \in Callers, Unpark(c)
  PROVE  Kept
<1>1. Moves(c, {"parked"}, {"spend"}) /\ TurnInv /\ c \in ready
  BY GoesOn DEF Unpark, IInv, Places
<1>2. CallsOK' /\ call'[c].pc = "spend"
  BY <1>1 DEF Moves
<1>3. Within' = Within \cup {c} /\ Queuing' = Queuing \ {c}
  BY <1>1, <1>2, MovesSets
<1>4. ready' = ready \ {c} /\ UNCHANGED <<held, queue>> /\ BudgetInv'
  BY BucketRests DEF Unpark, IInv
<1>5. TurnInv' /\ UNCHANGED <<Holder, queue>>
  BY <1>1, <1>3, <1>4, Notices
<1> QED
  BY <1>2, <1>4, <1>5 DEF Kept, IInv, Abstract!vars

(* The caller inside leaves. *)
LEMMA ReleaseKept ==
  ASSUME PacerAssumption, TurnInv, BudgetInv', NEW c \in Callers, Release(c),
         NEW from, Moves(c, from, {"leave"}), from \subseteq {"spend", "asleep", "turn"}
  PROVE  Kept
<1>1. CallsOK' /\ call[c].pc \in {"spend", "asleep", "turn"} /\ call'[c].pc = "leave"
  BY DEF Moves
<1>2. Within' = Within \ {c} /\ Queuing' = Queuing \ {c} /\ c \in Within
  BY <1>1, MovesSets
<1>3. TurnInv' /\ Abstract!Pass
  BY <1>2, GoesOut
<1> QED
  BY <1>1, <1>3 DEF Kept, IInv, Abstract!Next

LEMMA SpendKept ==
  ASSUME PacerAssumption, IInv, NEW c \in Callers, Spend(c)
  PROVE  Kept
<1>1. /\ Moves(c, {"spend"}, IF SpentLeft(c) = 0 THEN {"leave"} ELSE {"turn", "asleep"})
      /\ IF SpentLeft(c) = 0 THEN Release(c) ELSE UNCHANGED turnstile
  BY SpendMoves DEF IInv, BudgetInv
<1>2. BudgetInv'
  BY SpendBudget DEF IInv
<1>3. CASE SpentLeft(c) = 0
  <2>1. Moves(c, {"spend"}, {"leave"}) /\ Release(c)
    BY <1>1, <1>3
  <2> QED
    BY <1>2, <2>1, ReleaseKept DEF IInv
<1>4. CASE SpentLeft(c) # 0
  <2>1. Moves(c, {"spend"}, {"turn", "asleep"}) /\ UNCHANGED turnstile
    BY <1>1, <1>4
  <2> QED
    BY <1>2, <2>1, ElsewhereKept DEF IInv
<1> QED
  BY <1>3, <1>4

LEMMA CancelSpendKept ==
  ASSUME PacerAssumption, IInv, NEW c \in Callers, CancelSpend(c)
  PROVE  Kept
<1>1. Moves(c, {call[c].pc}, {"leave"}) /\ call[c].pc \in {"asleep", "turn"}
  BY GoesOn DEF CancelSpend, IInv, Places
<1>2. BudgetInv' /\ Release(c)
  BY BucketRests DEF CancelSpend, IInv
<1> QED
  BY <1>1, <1>2, ReleaseKept DEF IInv

(* The clock and the history move nobody. *)
LEMMA TimeKept ==
  ASSUME PacerAssumption, IInv, Tick \/ Watch
  PROVE  Kept
<1>1. CallsOK' /\ \A d \in Callers : call'[d].pc = call[d].pc
  BY TickKeeps DEF Watch, IInv, CallsOK
<1>2. Within' = Within /\ Queuing' = Queuing
  BY <1>1 DEF Within, Queuing
<1>3. UNCHANGED turnstile /\ BudgetInv'
  BY TickBudget, WatchBudget DEF Tick, Watch, IInv, turnstile
<1>4. TurnInv' /\ UNCHANGED <<Holder, queue>>
  BY <1>2, <1>3, StaysTurn DEF IInv
<1> QED
  BY <1>1, <1>3, <1>4 DEF Kept, IInv, Abstract!vars

LEMMA NextKept ==
  ASSUME PacerAssumption, IInv, [Next]_vars
  PROVE  Kept
<1>1. CASE Tick \/ Watch
  BY <1>1, TimeKept
<1>2. ASSUME NEW c \in Callers,
             Enter(c) \/ Waiting(c) \/ Sent(c) \/ Refund(c) \/ CancelParked(c) \/ CancelSpend(c) \/ CancelTurns(c)
      PROVE  Kept
  <2>1. CASE Enter(c)
    BY <2>1, EnterKept
  <2>2. CASE DrawReserve(c)
    BY <2>2, DrawReserveKept
  <2>3. CASE Acquire(c)
    BY <2>3, AcquireKept
  <2>4. CASE ParkFast(c)
    BY <2>4, ParkFastKept
  <2>5. CASE Unpark(c)
    BY <2>5, UnparkKept
  <2>6. CASE Spend(c)
    BY <2>6, SpendKept
  <2>7. CASE WaitTurns(c)
    BY <2>7, WaitTurnsKept
  <2>8. CASE Refill(c) \/ Wake(c) \/ WakeTurns(c) \/ CancelTurns(c)
    BY <2>8, RestsKept
  <2>9. CASE Leave(c) \/ Sent(c) \/ Refund(c)
    BY <2>9, EndsKept
  <2>10. CASE CancelParked(c)
    BY <2>10, CancelParkedKept
  <2>11. CASE CancelSpend(c)
    BY <2>11, CancelSpendKept
  <2> QED
    BY <1>2, <2>1, <2>2, <2>3, <2>4, <2>5, <2>6, <2>7, <2>8, <2>9, <2>10, <2>11 DEF Waiting
<1>3. CASE UNCHANGED vars
  <2>1. UNCHANGED bucket /\ UNCHANGED turnstile /\ UNCHANGED call
    BY <1>3 DEF vars, bucket, turnstile
  <2>2. BudgetInv' /\ CallsOK' /\ Within' = Within /\ Queuing' = Queuing
    BY <2>1, BucketRests DEF IInv, CallsOK, Within, Queuing
  <2>3. TurnInv' /\ UNCHANGED <<Holder, queue>>
    BY <2>1, <2>2, StaysTurn DEF IInv
  <2> QED
    BY <2>2, <2>3 DEF Kept, IInv, Abstract!vars
<1> QED
  BY <1>1, <1>2, <1>3 DEF Next

LEMMA InitKept ==
  ASSUME PacerAssumption, Init
  PROVE  IInv /\ Abstract!Init
<1>1. Burst \in Nat /\ Reserve \in Nat /\ Reserve <= Burst /\ Unit \in Nat /\ Rate \in Nat
  BY Amounts DEF PacerAssumption
<1>2. Out \in Call /\ Out.pc = "out"
  BY DEF Out, Call, PacerAssumption, Places, Classes, Wants, Pauses
<1>3. CallsOK
  BY <1>2 DEF Init, CallsOK
<1>4. window = [on |-> FALSE, ticks |-> 0, passed |-> 0]
  BY DEF Init
<1>5. window.on = FALSE /\ window.ticks = 0 /\ window.passed = 0
  BY <1>4
<1>6. window \in [on : BOOLEAN, ticks : Nat, passed : Int]
  BY <1>4
<1>7. BudgetInv
  <2>1. tokens = Burst /\ fastTokens = Reserve /\ lastFast = FALSE
    BY DEF Init
  <2>2. tokens + window.passed * Unit <= Burst + Rate * window.ticks
    BY <1>1, <1>5, <2>1
  <2>3. Balances
    BY <1>1, <2>1 DEF Balances
  <2>4. WindowOK
    BY <1>5, <1>6, <2>2, Zenon DEF WindowOK
  <2> QED
    BY <2>1, <2>3, <2>4 DEF BudgetInv
<1>8. Within = {} /\ Queuing = {} /\ ready = {} /\ queue = <<>> /\ held = FALSE
  BY <1>2 DEF Init, Within, Queuing
<1>9. TurnInv
  <2>1. DOMAIN queue = {} /\ queue \in Seq(Callers)
    BY <1>8
  <2> QED
    BY <1>8, <2>1 DEF TurnInv, InQueue
<1>10. Inside = {}
  BY <1>8 DEF Inside, Within
<1> QED
  BY <1>3, <1>7, <1>8, <1>9, <1>10 DEF IInv, Abstract!Init, Holder

LEMMA PacerInvariant ==
  ASSUME PacerAssumption
  PROVE  Spec => []IInv
<1>1. Init => IInv
  BY InitKept
<1>2. IInv /\ [Next]_vars => IInv'
  BY NextKept DEF Kept
<1> QED
  BY <1>1, <1>2, PTL DEF Spec

-----------------------------------------------------------------------------
(* Wait, refund and the refill leave every balance, every call and the     *)
(* turnstile's queue in range, whatever the rate and the callers.          *)
THEOREM PacerTyped ==
  ASSUME PacerAssumption
  PROVE  Spec => []TypeOK
<1>1. IInv => TypeOK
  BY DEF IInv, BudgetInv, Balances, CallsOK, TurnInv, TypeOK, Call, Wants, Pauses
<1> QED
  BY <1>1, PacerInvariant, PTL

(* "at most burst + rate*w calls pass over any window of w seconds": for   *)
(* any number of callers of both lanes, with the calls the reserve, the    *)
(* shared part and the turns let through and those refund gives back.      *)
THEOREM BudgetKept ==
  ASSUME PacerAssumption
  PROVE  Spec => []WithinBudget
<1>1. IInv => WithinBudget
  <2> SUFFICES ASSUME IInv, window.on
               PROVE  window.passed * Unit <= Burst + Rate * window.ticks
    BY DEF WithinBudget
  <2>1. /\ window.passed \in Int /\ window.ticks \in Nat /\ Unit \in Nat /\ Rate \in Nat /\ Burst \in Nat
        /\ tokens \in 0 .. Burst /\ tokens + window.passed * Unit <= Burst + Rate * window.ticks
    BY Amounts DEF IInv, BudgetInv, Balances, WindowOK, PacerAssumption
  <2>2. window.passed * Unit \in Int /\ Rate * window.ticks \in Int
    BY <2>1
  <2> QED
    BY <2>1, <2>2
<1> QED
  BY <1>1, PacerInvariant, PTL

(* acquire, park, abandonLocked and releaseLocked let one caller past the  *)
(* turnstile at a time and leave it to nobody, whoever gives up when.      *)
THEOREM PacerOneInside ==
  ASSUME PacerAssumption
  PROVE  Spec => []OneInside
<1>1. IInv => OneInside
  BY InsideSplit DEF IInv, TurnInv, OneInside
<1> QED
  BY <1>1, PacerInvariant, PTL

(* The turnstile of park, parkFast and spend implements the first-come one *)
(* of Turnstile: callers pass in the order they queued.                    *)
THEOREM PacerFirstCome ==
  ASSUME PacerAssumption
  PROVE  Spec => FirstCome
<1>1. Init => Abstract!Init
  BY InitKept
<1>2. IInv /\ [Next]_vars => [Abstract!Next]_(Abstract!vars)
  BY NextKept DEF Kept
<1> QED
  BY <1>1, <1>2, PacerInvariant, PTL DEF Spec, FirstCome, Abstract!Spec
=============================================================================
