-------------------------------- MODULE Timers --------------------------------
(***************************************************************************)
(* The deadline service of lib/std/runtime/timers.sv: a table of pending   *)
(* deadlines under a lock, and the wheel, an actor on a thread of its own  *)
(* that answers what is due and sleeps until the earliest left.  On the    *)
(* virtual runtime of actor tests there is no wheel: the scheduler moves   *)
(* the clock to the earliest deadline when nothing else can run.           *)
(*                                                                         *)
(* Each reply stands for one call of after_nanos, on a thread of its own.  *)
(* Between activations the wheel's thread is the scheduler's (Scheduler),  *)
(* which may use up a permit the table's callers gave.                     *)
(***************************************************************************)
EXTENDS Integers, FiniteSets

CONSTANTS
    Replies,
    Delays,        \* what after_nanos is asked for
    MaxLong,       \* the greatest Long; the least is -MaxLong - 1
    MaxClock,      \* the last reading of the clock there is
    Capacity,      \* of the wheel's mailbox
    None

ASSUME TimersAssumption ==
    /\ MaxLong \in Nat /\ MaxClock \in 0..MaxLong
    /\ Delays \subseteq -MaxLong - 1..MaxLong
    /\ Capacity \in Nat \ {0}
    /\ None \notin Int

Long == -MaxLong - 1..MaxLong
Wrapped(x) ==
    IF x > MaxLong THEN x - 2 * (MaxLong + 1)
    ELSE IF x < -MaxLong - 1 THEN x + 2 * (MaxLong + 1) ELSE x

VARIABLES
    virtual,       \* whether this is the virtual runtime
    clock,
    \* Deadlines, the table
    table,         \* the replies registered and not yet taken
    running,
    parker,        \* whether it has the wheel's parker
    \* the callers
    pc,            \* reply -> where its call is
    asked,         \* reply -> when it asked to be answered: now and its delay
    fired,         \* reply -> the reading it was answered with, or None
    \* the wheel
    runs,          \* the messages in its mailbox
    wheel,         \* where its thread is
    now,           \* its reading of the clock
    due,           \* what it has taken and not yet answered
    until,         \* the earliest deadline it saw
    permit,        \* its thread has an unpark pending
    \* the virtual runtime
    hooks          \* the clock hooks the scheduler holds

lock    == <<table, running, parker>>
thread  == <<wheel, now, due, until>>
vars    == <<virtual, clock, lock, asked, pc, fired, runs, thread, permit, hooks>>

\* The deadline a reply is registered with, a Long.
At(r) == Wrapped(asked[r])

Init ==
    /\ virtual \in BOOLEAN
    /\ clock = 0
    /\ table = {} /\ running = FALSE /\ parker = FALSE
    /\ asked = [r \in Replies |-> 0]
    /\ pc = [r \in Replies |-> "none"]
    /\ fired = [r \in Replies |-> None]
    /\ runs = 0 /\ wheel = "rest" /\ now = 0 /\ due = {} /\ until = 0
    /\ permit = FALSE
    /\ hooks = 0

Tick ==
    /\ ~virtual /\ clock < MaxClock
    /\ clock' = clock + 1
    /\ UNCHANGED <<virtual, lock, asked, pc, fired, runs, thread, permit, hooks>>

------------------------------------------------------------------------------
(***************************************************************************)
(* after_nanos.                                                            *)
(***************************************************************************)

\* Less than 0 counts as 0.
Asks(r, delay) == asked' = [asked EXCEPT ![r] = clock + IF delay < 0 THEN 0 ELSE delay]
Call(r, delay) ==
    /\ ~virtual /\ pc[r] = "none"
    /\ Asks(r, delay)
    /\ pc' = [pc EXCEPT ![r] = "register"]
    /\ UNCHANGED <<virtual, clock, lock, fired, runs, thread, permit, hooks>>

\* register: whoever finds the wheel stopped is to start it.  (The mutant starts it
\* each time.)
Always  == TRUE
Stopped == ~running
Register(r) ==
    /\ pc[r] = "register"
    /\ table' = table \cup {r}
    /\ running' = TRUE
    /\ pc' = [pc EXCEPT ![r] = IF Stopped THEN "start" ELSE "waker"]
    /\ UNCHANGED <<virtual, clock, parker, asked, fired, runs, thread, permit, hooks>>

\* run(), a send to the wheel's mailbox, which parks when it is full.
Start(r) ==
    /\ pc[r] \in {"start", "full"}
    /\ IF runs < Capacity
       THEN /\ runs' = runs + 1
            /\ pc' = [pc EXCEPT ![r] = "set"]
       ELSE /\ pc' = [pc EXCEPT ![r] = "full"]
            /\ UNCHANGED runs
    /\ UNCHANGED <<virtual, clock, lock, asked, fired, thread, permit, hooks>>

\* waker, and the unpark.  (The mutant wakes nobody.)
NoWaker  == FALSE
HasWaker == running /\ parker
Waker(r) ==
    /\ pc[r] = "waker"
    /\ pc' = [pc EXCEPT ![r] = IF HasWaker THEN "unpark" ELSE "set"]
    /\ UNCHANGED <<virtual, clock, lock, asked, fired, runs, thread, permit, hooks>>
Unpark(r) ==
    /\ pc[r] = "unpark"
    /\ permit' = TRUE
    /\ pc' = [pc EXCEPT ![r] = "set"]
    /\ UNCHANGED <<virtual, clock, lock, asked, fired, runs, thread, hooks>>

------------------------------------------------------------------------------
(***************************************************************************)
(* Wheeling.run, on the wheel's thread.                                    *)
(***************************************************************************)
Begin ==
    /\ wheel = "rest" /\ runs > 0
    /\ runs' = runs - 1
    /\ wheel' = "parker"
    /\ permit' \in {permit, FALSE}
    /\ UNCHANGED <<virtual, clock, lock, asked, pc, fired, now, due, until, hooks>>

WheelParker ==
    /\ wheel = "parker"
    /\ parker' = TRUE
    /\ wheel' = "now"
    /\ UNCHANGED <<virtual, clock, table, running, asked, pc, fired, runs, now, due, until,
                   permit, hooks>>

ReadsClock ==
    /\ wheel = "now"
    /\ now' = clock
    /\ wheel' = "take"
    /\ UNCHANGED <<virtual, clock, lock, asked, pc, fired, runs, due, until, permit, hooks>>

\* take_due.  (The mutants take those due at the next reading too, and leave them in.)
DueSoon(t) == {r \in table : At(r) <= t + 1}
DueBy(t)   == {r \in table : At(r) <= t}
LeftIn     == UNCHANGED table
Removed    == table' = table \ DueBy(now)
TakeDue ==
    /\ wheel = "take"
    /\ due' = DueBy(now)
    /\ Removed
    /\ wheel' = "answer"
    /\ UNCHANGED <<virtual, clock, running, parker, asked, pc, fired, runs, now, until, permit,
                   hooks>>

\* answer_all, one reply at a time.
AnswerNext ==
    /\ wheel = "answer"
    /\ \E r \in due :
          /\ fired' = [fired EXCEPT ![r] = now]
          /\ due' = due \ {r}
    /\ UNCHANGED <<virtual, clock, lock, asked, pc, runs, wheel, now, until, permit, hooks>>

Earliest(r) == r \in table /\ \A q \in table : At(r) <= At(q)

\* next_deadline: without one the wheel is marked stopped, and its activation ends.
\* (The mutant forgets to.)
StaysRunning == UNCHANGED running
MarksStopped == running' = FALSE
NoDeadline ==
    /\ wheel = "answer" /\ due = {} /\ table = {}
    /\ MarksStopped
    /\ wheel' = "rest" /\ now' = 0
    /\ UNCHANGED <<virtual, clock, table, parker, asked, pc, fired, runs, due, until, permit,
                   hooks>>
NextDeadline ==
    /\ wheel = "answer" /\ due = {}
    /\ \E r \in table : Earliest(r) /\ until' = At(r)
    /\ wheel' = "wait" /\ now' = 0
    /\ UNCHANGED <<virtual, clock, lock, asked, pc, fired, runs, due, permit, hooks>>

\* until is from here on when the nap ends.
Naps ==
    LET wait == Wrapped(until - clock) IN
    /\ wheel = "wait"
    /\ IF wait > 0
       THEN /\ until' = clock + wait
            /\ wheel' = "nap"
       ELSE /\ wheel' = "now" /\ until' = 0
    /\ UNCHANGED <<virtual, clock, lock, asked, pc, fired, runs, now, due, permit, hooks>>

\* park_nanos returns: on a permit, at its end, or for no reason.
Woken ==
    /\ wheel = "nap"
    /\ permit \/ clock >= until
    /\ permit' = FALSE
    /\ wheel' = "now" /\ until' = 0
    /\ UNCHANGED <<virtual, clock, lock, asked, pc, fired, runs, now, due, hooks>>
WokenForNothing ==
    /\ wheel = "nap"
    /\ wheel' = "now" /\ until' = 0
    /\ UNCHANGED <<virtual, clock, lock, asked, pc, fired, runs, now, due, permit, hooks>>

------------------------------------------------------------------------------
(***************************************************************************)
(* The virtual runtime: one thread, so a call is one step.                 *)
(***************************************************************************)
AfterVirtual(r, delay) ==
    /\ virtual /\ pc[r] = "none"
    /\ Asks(r, delay)
    /\ table' = table \cup {r}
    /\ running' = TRUE
    /\ hooks' = IF Stopped THEN hooks + 1 ELSE hooks
    /\ pc' = [pc EXCEPT ![r] = "set"]
    /\ UNCHANGED <<virtual, clock, parker, fired, runs, thread, permit>>

\* advance, the task the clock hook runs.  (The mutant leaves the clock where it is.)
Still(t)     == clock' = clock
AdvanceTo(t) == clock' = IF t > clock THEN t ELSE clock
Advance ==
    /\ virtual /\ hooks > 0
    /\ \E r \in table :
          /\ Earliest(r)
          /\ AdvanceTo(At(r))
    /\ fired' = [r \in Replies |-> IF r \in DueBy(clock') THEN clock' ELSE fired[r]]
    /\ table' = table \ DueBy(clock')
    /\ running' = (table' # {})
    /\ hooks' = IF table' # {} THEN hooks ELSE hooks - 1
    /\ UNCHANGED <<virtual, parker, asked, pc, runs, thread, permit>>

------------------------------------------------------------------------------
Caller(r) == Register(r) \/ Start(r) \/ Waker(r) \/ Unpark(r)
Wheel ==
    \/ Begin \/ WheelParker \/ ReadsClock \/ TakeDue \/ AnswerNext
    \/ NoDeadline \/ NextDeadline \/ Naps \/ Woken
Next ==
    \/ Tick \/ Wheel \/ WokenForNothing \/ Advance
    \/ \E r \in Replies : Caller(r) \/ \E d \in Delays : Call(r, d) \/ AfterVirtual(r, d)
Spec == Init /\ [][Next]_vars

\* Time passes, calls begun go on, the wheel's thread runs, and so does the test's.
FairSpec ==
    /\ Spec
    /\ WF_vars(Tick) /\ WF_vars(Wheel) /\ WF_vars(Advance)
    /\ \A r \in Replies : WF_vars(Caller(r))

------------------------------------------------------------------------------
(***************************************************************************)
(* Properties.                                                             *)
(***************************************************************************)

\* Every variable holds a value of its kind, and at most one clock hook is armed.
TypeOK ==
    /\ virtual \in BOOLEAN /\ clock \in 0..MaxLong
    /\ table \subseteq Replies /\ running \in BOOLEAN /\ parker \in BOOLEAN
    /\ asked \in [Replies -> 0..2 * MaxLong]
    /\ pc \in [Replies -> {"none", "register", "start", "full", "waker", "unpark", "set"}]
    /\ fired \in [Replies -> 0..MaxLong \cup {None}]
    /\ runs \in 0..Capacity
    /\ wheel \in {"rest", "parker", "now", "take", "answer", "wait", "nap"}
    /\ now \in 0..MaxLong /\ now <= clock /\ due \subseteq Replies /\ until \in Int
    /\ permit \in BOOLEAN
    /\ hooks \in 0..1

\* The wheel is started once for each time it is found stopped: while it is marked
\* running there is exactly one of a caller about to start it, a `run` in its mailbox and
\* an activation under way, so a deadline pending is work on its way, and the mailbox of
\* two never makes a caller wait.
Starting == {r \in Replies : pc[r] \in {"start", "full"}}
Starts   == Cardinality(Starting) + runs + IF wheel = "rest" THEN 0 ELSE 1
WheelIsStartedOnce ==
    /\ ~virtual => Starts = IF running THEN 1 ELSE 0
    /\ table # {} => running
    /\ \A r \in Replies : pc[r] # "full"

\* No deadline is slept on: the wheel sleeps past none that is registered, but for one
\* whose caller is about to unpark it.
NoDeadlineIsSleptOn ==
    wheel = "nap" /\ ~permit =>
        \A r \in table : until <= At(r) \/ \E q \in Replies : pc[q] \in {"waker", "unpark"}

\* A reply is answered not before the delay it asked for has passed, whatever the clock
\* did meanwhile, and on the virtual runtime exactly then; but a deadline past the
\* greatest Long is in the past.
FiredAtTheDeadline ==
    \A r \in Replies :
        fired[r] # None /\ asked[r] <= MaxLong =>
            /\ fired[r] >= asked[r]
            /\ virtual => fired[r] = asked[r]

\* Timers implements Alarm: a deadline is set when its call asks the clock, and what was
\* answered stays answered.
Promise == INSTANCE Alarm WITH due <- [r \in Replies |-> IF pc[r] = "none" THEN None ELSE At(r)]
KeepsItsPromise == Promise!Spec

\* Every deadline the clock reaches fires.
EveryDeadlineFires ==
    \A r \in Replies : (pc[r] # "none" /\ At(r) <= MaxClock) ~> (fired[r] # None)
==============================================================================
