-------------------------------- MODULE Alarm --------------------------------
(***************************************************************************)
(* What the timer service promises (std.time's Timer): a reply it is given *)
(* is answered once, with a reading of the clock that is not before the    *)
(* deadline and that the clock has reached.                                *)
(*                                                                         *)
(* There is no table here, no wheel, no thread that sleeps.                *)
(***************************************************************************)
EXTENDS Integers

CONSTANTS Replies, None

VARIABLES clock,
          due,       \* reply -> its deadline, None before it is set
          fired      \* reply -> the reading it was answered with, None before
alarmVars == <<clock, due, fired>>

Init ==
    /\ clock = 0
    /\ due = [r \in Replies |-> None]
    /\ fired = [r \in Replies |-> None]

Set(r) ==
    /\ due[r] = None
    /\ due'[r] \in Int
    /\ due' = [due EXCEPT ![r] = due'[r]]
    /\ UNCHANGED <<clock, fired>>

\* The clock goes on, and some of those due may be answered.
Fire ==
    /\ clock' >= clock
    /\ \A r \in Replies :
          \/ fired'[r] = fired[r]
          \/ /\ fired[r] = None /\ due[r] # None
             /\ due[r] <= fired'[r] /\ fired'[r] <= clock'
    /\ UNCHANGED due

Next == Fire \/ \E r \in Replies : Set(r)
Spec == Init /\ [][Next]_alarmVars
==============================================================================
