------------------------------- MODULE MCTimers -------------------------------
(***************************************************************************)
(* Two calls of after_nanos, on Longs of a few bits: delays that are       *)
(* negative, short, and so long that now and the delay make no Long.       *)
(***************************************************************************)
EXTENDS Timers

CONSTANTS r1, r2, none

SomeDelays == {-1, 1, 2, 6}
==============================================================================
