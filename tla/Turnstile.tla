----------------------------- MODULE Turnstile ------------------------------
(***************************************************************************)
(* What the pacer's turnstile promises: one caller at a time is inside,    *)
(* the others are let in in the order they arrived, a caller may give up   *)
(* while it queues, and nobody but the caller inside lets the next one in. *)
(***************************************************************************)
EXTENDS Naturals, Sequences, SequencesExt

CONSTANTS Callers, NoOne

TurnstileAssumption == NoOne \notin Callers

VARIABLES
    holder,     \* who is inside
    line        \* who queues, in order of arrival

vars == <<holder, line>>

Init == holder = NoOne /\ line = <<>>

Arrive(c) ==
    /\ c # holder /\ \A i \in DOMAIN line : line[i] # c
    /\ IF holder = NoOne THEN holder' = c /\ line' = line
       ELSE holder' = holder /\ line' = Append(line, c)

GiveUp ==
    \E i \in DOMAIN line : holder' = holder /\ line' = RemoveAt(line, i)

Pass ==
    /\ holder # NoOne
    /\ IF line = <<>> THEN holder' = NoOne /\ line' = line
       ELSE holder' = Head(line) /\ line' = Tail(line)

Next == (\E c \in Callers : Arrive(c)) \/ GiveUp \/ Pass

Spec == Init /\ [][Next]_vars
=============================================================================
