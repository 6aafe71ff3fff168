------------------------------- MODULE Pricer -------------------------------
(***************************************************************************)
(* The pricer (internal/pricer/pricer.go), a re-implementation of the gas  *)
(* pricing of Arbitrum Nitro in integer basis points.  Words keep their    *)
(* width, 64 bits in the code: an unsigned word is in 0..UMax, a Bips is   *)
(* signed.  Sums and products are reduced modulo the word first and        *)
(* repaired after, as the code does.  Fees are big integers and unbounded. *)
(***************************************************************************)
EXTENDS Integers, Sequences, SequencesExt

CONSTANTS
  Width,       \* bits of a word
  OneInBips    \* 100%: 10_000 in the code

Word == 2^Width
UMax == Word - 1
IMax == 2^(Width - 1) - 1
IMin == -(2^(Width - 1))
U == 0..UMax

PricerAssumption ==
  /\ Width \in Nat \ {0, 1}
  /\ OneInBips \in 1..IMax /\ 3 * OneInBips <= UMax
  /\ OneInBips + IMax \div 4 <= UMax

-----------------------------------------------------------------------------
(* Saturating words. *)

(* Plausible error: the sum is left to wrap. *)
WrappingUAdd(a, b) == (a + b) % Word

SaturatingUAdd(a, b) == LET sum == (a + b) % Word IN IF sum < a THEN UMax ELSE sum
SaturatingUSub(a, b) == IF b >= a THEN 0 ELSE a - b

SaturatingUMul(a, b) ==
  CASE a = 0 \/ b = 0 -> 0
    [] a # 0 /\ b # 0 /\ a > UMax \div b -> UMax
    [] OTHER -> (a * b) % Word

Signed(i) == ((i - IMin) % Word) + IMin
SaturatingAddBips(a, b) ==
  LET sum == Signed(a + b)
  IN CASE b > 0 /\ sum < a -> IMax
       [] b < 0 /\ sum > a -> IMin
       [] OTHER -> sum

SaturatingCastToBips(v) == IF v > IMax THEN IMax ELSE v
NaturalToBips(v) == SaturatingCastToBips(SaturatingUMul(v, OneInBips))

-----------------------------------------------------------------------------
(* The Taylor polynomial of exp of the given degree, by Horner's rule. *)

ApproxExpBips(x, accuracy) ==
  LET input == IF x < 0 THEN -x ELSE x
      horner(res, i) ==
        SaturatingUAdd(OneInBips, SaturatingUMul(res, input) \div (i * OneInBips))
      res == FoldLeft(horner, OneInBips + input \div accuracy,
                      [k \in 1..accuracy - 1 |-> accuracy - k])
  IN CASE accuracy = 0 -> OneInBips
       [] accuracy # 0 /\ x < 0 -> SaturatingCastToBips((OneInBips * OneInBips) \div res)
       [] OTHER -> SaturatingCastToBips(res)

BaseFeeFromExponent(minBaseFee, exponent) ==
  IF exponent <= 0 THEN minBaseFee
  ELSE (minBaseFee * ApproxExpBips(exponent, 4)) \div OneInBips

-----------------------------------------------------------------------------
(* The state: a sequence of constraints, the legacy parameters when the    *)
(* sequence is empty, and the floor.                                       *)
NoLegacy == [limit |-> -1, inertia |-> 0, tolerance |-> 0, backlog |-> 0]
IsLegacy(st) == st.constraints = <<>>

Backlogs(st) ==
  CASE ~IsLegacy(st) -> [i \in 1..Len(st.constraints) |-> st.constraints[i].backlog]
    [] IsLegacy(st) /\ st.legacy = NoLegacy -> <<>>
    [] OTHER -> <<st.legacy.backlog>>

(* The state with every backlog that has a value among bs replaced by it. *)
SetBacklogs(st, bs) ==
  CASE ~IsLegacy(st) ->
         [st EXCEPT !.constraints = [i \in 1..Len(@) |->
            IF i <= Len(bs) THEN [@[i] EXCEPT !.backlog = bs[i]] ELSE @[i]]]
    [] IsLegacy(st) /\ st.legacy # NoLegacy /\ bs # <<>> -> [st EXCEPT !.legacy.backlog = bs[1]]
    [] OTHER -> st

AddGas(st, gas) ==
  SetBacklogs(st, [i \in 1..Len(Backlogs(st)) |-> SaturatingUAdd(Backlogs(st)[i], gas)])

Exponent(c) ==
  LET divisor == SaturatingUMul(c.window, c.target)
  IN IF c.backlog = 0 \/ divisor = 0 THEN 0
     ELSE NaturalToBips(c.backlog) \div SaturatingCastToBips(divisor)

(* The tolerance times the speed limit is a plain product: it wraps. *)
LegacyExponent(l) ==
  LET threshold == (l.tolerance * l.limit) % Word
      inertia == SaturatingCastToBips(SaturatingUMul(l.inertia, l.limit))
  IN IF l.backlog > threshold /\ inertia > 0
     THEN NaturalToBips(l.backlog - threshold) \div inertia ELSE 0

PaidDown(b, dt, rate) == SaturatingUSub(b, SaturatingUMul(dt, rate))

(* The start of a block dt seconds after its parent: the state, and the    *)
(* group it prices the next block with.                                    *)
Step(st, dt) ==
  LET cs == [i \in 1..Len(st.constraints) |->
               [st.constraints[i] EXCEPT !.backlog = PaidDown(@, dt, st.constraints[i].target)]]
      per == [i \in 1..Len(cs) |-> Exponent(cs[i])]
      sum == FoldLeft(SaturatingAddBips, 0, per)
      legacy == [st.legacy EXCEPT !.backlog = PaidDown(@, dt, st.legacy.limit)]
      excess == LegacyExponent(legacy)
      Out(s, e, p) == [state |-> s, fee |-> BaseFeeFromExponent(st.min, e),
                       exponent |-> e, per |-> p]
  IN CASE ~IsLegacy(st) -> Out([st EXCEPT !.constraints = cs], sum, per)
       [] IsLegacy(st) /\ st.legacy = NoLegacy -> Out(st, 0, <<>>)
       [] OTHER -> Out([st EXCEPT !.legacy = legacy], excess, <<excess>>)

-----------------------------------------------------------------------------
(* Two chains of one shape.  The busier one is given at least as much gas  *)
(* and at most as much time in every block.                                *)
CONSTANTS
  Sizes,                         \* how many constraints a set may have
  Targets, Windows, Tolerances,  \* parameters drawn by the shapes
  Gases, Times,                  \* gas and seconds of a block
  Floors                         \* minimum base fees
VARIABLES calm, busy
vars == <<calm, busy>>

Constraints == [target : Targets, window : Windows, backlog : {0}]
Shapes ==
  [constraints : UNION {[1..n -> Constraints] : n \in Sizes},
   legacy : {NoLegacy}, min : Floors]
  \cup
  [constraints : {<<>>},
   legacy : [limit : Targets, inertia : Windows, tolerance : Tolerances, backlog : {0}],
   min : Floors]

Init == /\ calm \in Shapes
        /\ busy = calm
NextBlock(dt, more, gas, extra) ==
  /\ calm' = AddGas(Step(calm, SaturatingUAdd(dt, more)).state, gas)
  /\ busy' = AddGas(Step(busy, dt).state, SaturatingUAdd(gas, extra))
Sampled(b) ==
  /\ calm' = SetBacklogs(calm, [i \in 1..Len(Backlogs(calm)) |-> b])
  /\ busy' = SetBacklogs(busy, [i \in 1..Len(Backlogs(busy)) |-> b])
Next ==
  \/ \E dt, more \in Times, gas, extra \in Gases : NextBlock(dt, more, gas, extra)
  \/ \E b \in Gases : Sampled(b)
Spec == Init /\ [][Next]_vars

-----------------------------------------------------------------------------
(* Words stay words and exponents stay Bips. *)
TypeOK ==
  \A st \in {calm, busy} :
    /\ \A i \in 1..Len(Backlogs(st)) : Backlogs(st)[i] \in U
    /\ Step(st, 0).exponent \in 0..IMax
    /\ Step(st, 0).fee \in Nat

Clamp(i, top) == IF i > top THEN top ELSE IF i < 0 THEN 0 ELSE i
Top(i, top) == IF i > top THEN top ELSE i
(* Step in unbounded integers, clamped only where a value is stored or     *)
(* cast: what the wrapping arithmetic of the code must come to.            *)
IdealExponents(st, dt) ==
  LET paid(c) == Clamp(c.backlog - dt * c.target, UMax)
      one(c) == IF c.window * c.target = 0 THEN 0
                ELSE Top(paid(c) * OneInBips, IMax) \div Top(c.window * c.target, IMax)
  IN [i \in 1..Len(st.constraints) |-> one(st.constraints[i])]
IdealSum(per) == Top(FoldLeft(+, 0, per), IMax)

(* Over whole words, through every wrap and saturation, a step pays down   *)
(* what time paid for and adds up the exact exponents, and gas never wraps *)
(* a backlog around.                                                       *)
Saturates ==
  ~IsLegacy(busy) =>
    \A dt \in Times :
      LET s == Step(busy, dt)
      IN /\ s.per = IdealExponents(busy, dt)
         /\ s.exponent = IdealSum(s.per)
         /\ \A g \in Gases, i \in 1..Len(busy.constraints) :
              Backlogs(AddGas(s.state, g))[i]
                = Clamp(Clamp(busy.constraints[i].backlog - dt * busy.constraints[i].target, UMax)
                        + g, UMax)

(* More gas or less time never makes the next block cheaper, whatever      *)
(* wraps or saturates on the way.                                          *)
MoreGasNeverCheaper ==
  /\ \A i \in 1..Len(Backlogs(calm)) : Backlogs(calm)[i] <= Backlogs(busy)[i]
  /\ \A dt \in Times : Step(calm, dt).fee <= Step(busy, dt).fee

(* 24 OneInBips^3 times the polynomial of degree four at x, and times the  *)
(* polynomial of degree three that bounds what its divisions round away.   *)
Quartic(x) == LET o == OneInBips
              IN 24 * o * o * o * o + 24 * x * o * o * o + 12 * x * x * o * o
                 + 4 * x * x * x * o + x * x * x * x
Cubic(x) == LET o == OneInBips
            IN 24 * o * o * o + 24 * x * o * o + 12 * x * x * o + 4 * x * x * x
(* The multiplier is the exponential's polynomial of degree four, short of *)
(* it by rounding alone while its products fit a word, never above it.     *)
MultiplierIsTaylor ==
  LET e == Step(busy, 0).exponent
      scaled == 24 * OneInBips * OneInBips * OneInBips * ApproxExpBips(e, 4)
      fits == e * (Quartic(e) \div (24 * OneInBips * OneInBips * OneInBips)) <= IMax
  IN /\ scaled <= Quartic(e)
     /\ fits => Quartic(e) - scaled <= Cubic(e)
=============================================================================
