----------------------------- MODULE BoundedFeed -----------------------------
(***************************************************************************)
(* What the price guard promises whoever lends against its price, with     *)
(* sources, medians, freshness and settings left out: the trusted value    *)
(* moves in bounded steps, stays within a bound of a reference that is     *)
(* itself replaced only once per window, and a move that is too large      *)
(* freezes the value until a human lets exactly that move through.         *)
(***************************************************************************)
EXTENDS Integers

CONSTANTS
    BPS_DENOMINATOR,
    None,
    MaxPrice,       \* largest value that can be trusted
    MaxDailyBand,   \* widest single move the settings ever allow
    MaxWindowBand,  \* widest drift from the reference they ever allow
    MinWindow       \* shortest life of a reference they ever allow

VARIABLES
    clock,
    lastGood,     \* the trusted value
    rolling,      \* the reference: [value, updated]
    halted,
    pendingHalt   \* the value that froze the feed

feedVars == <<clock, lastGood, rolling, halted, pendingHalt>>

Values == 1 .. MaxPrice

Distance(a, b) == IF a >= b THEN a - b ELSE b - a

StepBps(v, from) == (Distance(v, from) * BPS_DENOMINATOR) \div from

Init ==
    /\ clock = 0
    /\ lastGood = None
    /\ rolling = None
    /\ halted = FALSE
    /\ pendingHalt = None

(* The reference may be replaced by the value being trusted, but a         *)
(* reference younger than the window may not.                              *)
Rereference(v) ==
    \/ /\ rolling # None
       /\ UNCHANGED rolling
    \/ /\ rolling # None => clock - rolling.updated >= MinWindow
       /\ rolling' = [value |-> v, updated |-> clock]

Accept(v) ==
    /\ ~halted
    /\ lastGood # None => StepBps(v, lastGood) <= MaxDailyBand
    /\ rolling # None => StepBps(v, rolling.value) <= MaxWindowBand
    /\ lastGood' = v
    /\ Rereference(v)
    /\ UNCHANGED <<clock, halted, pendingHalt>>

Latch(v) ==
    /\ ~halted
    /\ lastGood # None
    /\ halted' = TRUE
    /\ pendingHalt' = v
    /\ UNCHANGED <<clock, lastGood, rolling>>

Confirm ==
    /\ halted
    /\ lastGood' = pendingHalt
    /\ rolling' = [value |-> pendingHalt, updated |-> clock]
    /\ halted' = FALSE
    /\ pendingHalt' = None
    /\ UNCHANGED clock

Advance ==
    /\ clock' = clock + 1
    /\ UNCHANGED <<lastGood, rolling, halted, pendingHalt>>

Next ==
    \/ \E v \in Values : Accept(v) \/ Latch(v)
    \/ Confirm
    \/ Advance

Spec == Init /\ [][Next]_feedVars
=============================================================================
