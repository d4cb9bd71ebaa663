------------------------------ MODULE MCSlotScan ------------------------------
(* SlotScan on every sorted list of up to MaxSlots times of a small floating-  *)
(* point clock, where the sum with the period is rounded down, up, and not.    *)
EXTENDS SlotScan, FloatClock

\* The arithmetic is as the proofs assume, and where it rounds, the first slot
\* after a window is the float before the sum for some and the one after it for
\* others.
ASSUME RoundingAssumption ==
  /\ RoundsToNearest(0..(MaxTime + 1))
  /\ \E f \in 0..MaxTime : MinusPer(PlusPer(f) - 1) >= f
  /\ \E f \in 0..MaxTime : MinusPer(PlusPer(f)) < f
=============================================================================
