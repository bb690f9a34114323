----------------------------- MODULE TimersProofs -----------------------------
(***************************************************************************)
(* Proofs about Timers, for any number of calls, delays and widths of Long. *)
(***************************************************************************)
EXTENDS Timers, FiniteSetTheorems, TLAPS

(***************************************************************************)
(* Longs.                                                                  *)
(***************************************************************************)

\* What is no more than one overflow away wraps to a Long, and a Long to itself.
LEMMA WrapsToLong ==
    ASSUME NEW x \in -2 * (MaxLong + 1)..2 * MaxLong + 1
    PROVE  Wrapped(x) \in Long /\ (x \in Long => Wrapped(x) = x)
BY TimersAssumption DEF Wrapped, Long

LEMMA DeadlinesAreLongs ==
    ASSUME TypeOK, NEW r \in Replies
    PROVE  At(r) \in Long /\ (asked[r] <= MaxLong => At(r) = asked[r])
BY WrapsToLong, TimersAssumption DEF TypeOK, At, Long

(***************************************************************************)
(* The inductive invariant.                                                *)
(***************************************************************************)

\* Each runtime leaves the other's variables alone; a hook is armed while deadlines are
\* pending.
Modes ==
    /\ virtual => /\ runs = 0 /\ wheel = "rest" /\ due = {}
                  /\ \A r \in Replies : pc[r] \in {"none", "set"}
                  /\ hooks = IF running THEN 1 ELSE 0
    /\ ~virtual => hooks = 0

\* Exactly one start is on its way or under way while running.
Once ==
    /\ table # {} => running
    /\ \A r \in Replies : pc[r] # "full"
    /\ ~virtual =>
        \/ ~running /\ runs = 0 /\ wheel = "rest" /\ Starting = {}
        \/ running /\ runs = 0 /\ wheel = "rest" /\ \E r \in Replies : Starting = {r}
        \/ running /\ runs = 1 /\ wheel = "rest" /\ Starting = {}
        \/ running /\ runs = 0 /\ wheel # "rest" /\ Starting = {}

\* Unless it is about to be woken, the wheel has seen every deadline in the table: none
\* is before the one it waits for, nor before the first reading of the clock.
Waking == permit \/ \E q \in Replies : pc[q] \in {"waker", "unpark"}
Seen ==
    /\ wheel \notin {"rest", "parker"} => parker
    /\ wheel = "wait" => \E r \in table : until = At(r)
    /\ wheel \in {"wait", "nap"} /\ ~Waking => \A r \in table : until <= At(r)
    /\ wheel \in {"answer", "wait", "nap"} /\ ~Waking => \A r \in table : At(r) >= 0

\* A reply is in the table, taken or answered, one after the other.
Orderly ==
    /\ \A r \in table \cup due : fired[r] = None
    /\ \A r \in Replies :
          r \in table \cup due \/ fired[r] # None => pc[r] \notin {"none", "register"}
    /\ table \cap due = {}
    /\ due # {} => wheel = "answer"
    /\ \A r \in due : At(r) <= now

\* On the virtual runtime no deadline is behind the clock.
Exact ==
    /\ FiredAtTheDeadline
    /\ virtual => \A r \in table : asked[r] <= MaxLong => asked[r] >= clock

Served == TypeOK /\ Modes /\ Once /\ Seen /\ Orderly /\ Exact

\* What a call asked for stays what it asked for.
LEMMA DeadlinesStay ==
    ASSUME asked' = asked
    PROVE  \A r : At(r)' = At(r)
BY DEF At

LEMMA InitServed == Init => Served
<1>1. Init => TypeOK
  <2>1. Init => virtual \in BOOLEAN /\ running \in BOOLEAN /\ parker \in BOOLEAN /\ permit \in BOOLEAN
    BY DEF Init
  <2> QED BY <2>1, TimersAssumption DEF Init, TypeOK
<1>2. Init => Modes /\ Once /\ Seen /\ Orderly /\ Exact
  BY DEF Init, Modes, Once, Starting, Seen, Orderly, Exact, FiredAtTheDeadline
<1>3. QED
  BY <1>1, <1>2 DEF Served

LEMMA TickServes == ASSUME Served, Tick PROVE Served'
<1> USE DEF Served
<1>1. TypeOK'
  BY TimersAssumption DEF Tick, lock, thread, TypeOK
<1>2. Modes'
  BY DEF Tick, lock, thread, TypeOK, Modes, Once
<1>3. Once'
  BY TimersAssumption DEF Tick, lock, thread, TypeOK, Modes, Once, Starting
<1>4. Seen'
  BY DEF Tick, lock, thread, TypeOK, Modes, Once, Seen, Waking, At
<1>5. Orderly'
  BY TimersAssumption DEF Tick, lock, thread, TypeOK, Modes, Orderly, At
<1>6. Exact'
  BY TimersAssumption, DeadlinesAreLongs DEF Tick, lock, thread, TypeOK, Modes, Orderly, Exact, FiredAtTheDeadline
<1>7. QED
  BY <1>1, <1>2, <1>3, <1>4, <1>5, <1>6

LEMMA CallServes == ASSUME Served, NEW r \in Replies, NEW d \in Delays, Call(r, d) PROVE Served'
<1> USE DEF Served
<1>1. TypeOK'
  BY TimersAssumption DEF Call, Asks, lock, thread, TypeOK
<1>2. Modes'
  BY DEF Call, Asks, lock, thread, TypeOK, Modes, Once
<1>3. Once'
  BY TimersAssumption DEF Call, Asks, lock, thread, TypeOK, Modes, Once, Starting
<1>4. Seen'
  <2>1. \A q \in table : asked'[q] = asked[q] /\ At(q)' = At(q)
    BY DEF Call, Asks, TypeOK, Orderly, At
  <2>2. UNCHANGED <<wheel, until, table, parker, permit>> /\ (Waking => Waking')
    BY DEF Call, Waking, lock, thread, TypeOK
  <2> QED BY <2>1, <2>2 DEF Seen
<1>5. Orderly'
  BY TimersAssumption DEF Call, Asks, lock, thread, TypeOK, Modes, Orderly, At
<1>6. Exact'
  BY TimersAssumption, DeadlinesAreLongs DEF Call, Asks, lock, thread, TypeOK, Modes, Orderly, Exact, FiredAtTheDeadline
<1>7. QED
  BY <1>1, <1>2, <1>3, <1>4, <1>5, <1>6

LEMMA RegisterServes == ASSUME Served, NEW r \in Replies, Register(r) PROVE Served'
<1> USE DEF Served
<1>1. TypeOK'
  BY TimersAssumption DEF Register, Stopped, lock, thread, TypeOK
<1>2. Modes'
  BY DEF Register, Stopped, lock, thread, TypeOK, Modes, Once
<1>3. Once'
  BY TimersAssumption DEF Register, Stopped, lock, thread, TypeOK, Modes, Once, Starting
<1>4. Seen'
  BY DEF Register, Stopped, lock, thread, TypeOK, Modes, Once, Seen, Waking, At
<1>5. Orderly'
  BY TimersAssumption DEF Register, Stopped, lock, thread, TypeOK, Modes, Orderly, At
<1>6. Exact'
  BY TimersAssumption, DeadlinesAreLongs DEF Register, Stopped, lock, thread, TypeOK, Modes, Orderly, Exact, FiredAtTheDeadline
<1>7. QED
  BY <1>1, <1>2, <1>3, <1>4, <1>5, <1>6

LEMMA StartServes == ASSUME Served, NEW r \in Replies, Start(r) PROVE Served'
<1> USE DEF Served
<1>1. TypeOK'
  BY TimersAssumption DEF Start, lock, thread, TypeOK
<1>2. Modes'
  BY DEF Start, lock, thread, TypeOK, Modes, Once
<1>3. Once'
  BY TimersAssumption DEF Start, lock, thread, TypeOK, Modes, Once, Starting
<1>4. Seen'
  BY DEF Start, lock, thread, TypeOK, Modes, Once, Seen, Waking, At
<1>5. Orderly'
  BY TimersAssumption DEF Start, lock, thread, TypeOK, Modes, Orderly, At
<1>6. Exact'
  BY TimersAssumption, DeadlinesAreLongs DEF Start, lock, thread, TypeOK, Modes, Orderly, Exact, FiredAtTheDeadline
<1>7. QED
  BY <1>1, <1>2, <1>3, <1>4, <1>5, <1>6

LEMMA WakerServes == ASSUME Served, NEW r \in Replies, Waker(r) PROVE Served'
<1> USE DEF Served
<1>1. TypeOK'
  BY TimersAssumption DEF Waker, HasWaker, lock, thread, TypeOK
<1>2. Modes'
  BY DEF Waker, HasWaker, lock, thread, TypeOK, Modes, Once
<1>3. Once'
  BY TimersAssumption DEF Waker, HasWaker, lock, thread, TypeOK, Modes, Once, Starting
<1>4. Seen'
  BY DEF Waker, HasWaker, lock, thread, TypeOK, Modes, Once, Seen, Waking, At
<1>5. Orderly'
  BY TimersAssumption DEF Waker, HasWaker, lock, thread, TypeOK, Modes, Orderly, At
<1>6. Exact'
  BY TimersAssumption, DeadlinesAreLongs DEF Waker, HasWaker, lock, thread, TypeOK, Modes, Orderly, Exact, FiredAtTheDeadline
<1>7. QED
  BY <1>1, <1>2, <1>3, <1>4, <1>5, <1>6

LEMMA UnparkServes == ASSUME Served, NEW r \in Replies, Unpark(r) PROVE Served'
<1> USE DEF Served
<1>1. TypeOK'
  BY TimersAssumption DEF Unpark, lock, thread, TypeOK
<1>2. Modes'
  BY DEF Unpark, lock, thread, TypeOK, Modes, Once
<1>3. Once'
  BY TimersAssumption DEF Unpark, lock, thread, TypeOK, Modes, Once, Starting
<1>4. Seen'
  BY DEF Unpark, lock, thread, TypeOK, Modes, Once, Seen, Waking, At
<1>5. Orderly'
  BY TimersAssumption DEF Unpark, lock, thread, TypeOK, Modes, Orderly, At
<1>6. Exact'
  BY TimersAssumption, DeadlinesAreLongs DEF Unpark, lock, thread, TypeOK, Modes, Orderly, Exact, FiredAtTheDeadline
<1>7. QED
  BY <1>1, <1>2, <1>3, <1>4, <1>5, <1>6

LEMMA BeginServes == ASSUME Served, Begin PROVE Served'
<1> USE DEF Served
<1>1. TypeOK'
  <2>1. permit' \in BOOLEAN
    BY DEF Begin, TypeOK
  <2> QED BY <2>1, TimersAssumption DEF Begin, lock, TypeOK
<1>2. Modes'
  BY DEF Begin, lock, thread, TypeOK, Modes, Once
<1>3. Once'
  BY TimersAssumption DEF Begin, lock, thread, TypeOK, Modes, Once, Starting
<1>4. Seen'
  BY DEF Begin, lock, thread, TypeOK, Modes, Once, Seen, Waking, At
<1>5. Orderly'
  BY TimersAssumption DEF Begin, lock, thread, TypeOK, Modes, Orderly, At
<1>6. Exact'
  BY TimersAssumption, DeadlinesAreLongs DEF Begin, lock, thread, TypeOK, Modes, Orderly, Exact, FiredAtTheDeadline
<1>7. QED
  BY <1>1, <1>2, <1>3, <1>4, <1>5, <1>6

LEMMA WheelParkerServes == ASSUME Served, WheelParker PROVE Served'
<1> USE DEF Served
<1>1. TypeOK'
  BY TimersAssumption DEF WheelParker, lock, thread, TypeOK
<1>2. Modes'
  BY DEF WheelParker, lock, thread, TypeOK, Modes, Once
<1>3. Once'
  BY TimersAssumption DEF WheelParker, lock, thread, TypeOK, Modes, Once, Starting
<1>4. Seen'
  BY DEF WheelParker, lock, thread, TypeOK, Modes, Once, Seen, Waking, At
<1>5. Orderly'
  BY TimersAssumption DEF WheelParker, lock, thread, TypeOK, Modes, Orderly, At
<1>6. Exact'
  BY TimersAssumption, DeadlinesAreLongs DEF WheelParker, lock, thread, TypeOK, Modes, Orderly, Exact, FiredAtTheDeadline
<1>7. QED
  BY <1>1, <1>2, <1>3, <1>4, <1>5, <1>6

LEMMA ReadsClockServes == ASSUME Served, ReadsClock PROVE Served'
<1> USE DEF Served
<1>1. TypeOK'
  BY TimersAssumption DEF ReadsClock, lock, thread, TypeOK
<1>2. Modes'
  BY DEF ReadsClock, lock, thread, TypeOK, Modes, Once
<1>3. Once'
  BY TimersAssumption DEF ReadsClock, lock, thread, TypeOK, Modes, Once, Starting
<1>4. Seen'
  BY DEF ReadsClock, lock, thread, TypeOK, Modes, Once, Seen, Waking, At
<1>5. Orderly'
  BY TimersAssumption DEF ReadsClock, lock, thread, TypeOK, Modes, Orderly, At
<1>6. Exact'
  BY TimersAssumption, DeadlinesAreLongs DEF ReadsClock, lock, thread, TypeOK, Modes, Orderly, Exact, FiredAtTheDeadline
<1>7. QED
  BY <1>1, <1>2, <1>3, <1>4, <1>5, <1>6

LEMMA TakeDueServes == ASSUME Served, TakeDue PROVE Served'
<1> USE DEF Served
<1>1. TypeOK'
  BY TimersAssumption DEF TakeDue, Removed, DueBy, lock, thread, TypeOK
<1>2. Modes'
  BY DEF TakeDue, Removed, DueBy, lock, thread, TypeOK, Modes, Once
<1>3. Once'
  BY TimersAssumption DEF TakeDue, Removed, DueBy, lock, thread, TypeOK, Modes, Once, Starting
<1>4. Seen'
  <2>1. \A r \in table' : r \in Replies /\ At(r) > now
    <3>1. \A r \in Replies : At(r) \in Int
      BY DeadlinesAreLongs DEF Long
    <3> QED BY <3>1 DEF TakeDue, Removed, DueBy, TypeOK
  <2>2. \A r \in table' : At(r)' >= 0
    BY <2>1, DeadlinesAreLongs DEF TakeDue, At, Long, TypeOK
  <2> QED BY <2>2 DEF TakeDue, Seen
<1>5. Orderly'
  BY TimersAssumption DEF TakeDue, Removed, DueBy, lock, thread, TypeOK, Modes, Orderly, At
<1>6. Exact'
  BY TimersAssumption, DeadlinesAreLongs DEF TakeDue, Removed, DueBy, lock, thread, TypeOK, Modes, Orderly, Exact, FiredAtTheDeadline
<1>7. QED
  BY <1>1, <1>2, <1>3, <1>4, <1>5, <1>6

LEMMA AnswerNextServes == ASSUME Served, AnswerNext PROVE Served'
<1> USE DEF Served
<1>1. TypeOK'
  BY TimersAssumption DEF AnswerNext, lock, thread, TypeOK
<1>2. Modes'
  BY DEF AnswerNext, lock, thread, TypeOK, Modes, Once
<1>3. Once'
  BY TimersAssumption DEF AnswerNext, lock, thread, TypeOK, Modes, Once, Starting
<1>4. Seen'
  BY DEF AnswerNext, lock, thread, TypeOK, Modes, Once, Seen, Waking, At
<1>5. Orderly'
  BY TimersAssumption DEF AnswerNext, lock, thread, TypeOK, Modes, Orderly, At
<1>6. Exact'
  BY TimersAssumption, DeadlinesAreLongs DEF AnswerNext, lock, thread, TypeOK, Modes, Orderly, Exact, FiredAtTheDeadline
<1>7. QED
  BY <1>1, <1>2, <1>3, <1>4, <1>5, <1>6

LEMMA NoDeadlineServes == ASSUME Served, NoDeadline PROVE Served'
<1> USE DEF Served
<1>1. TypeOK'
  <2>1. running' \in BOOLEAN
    BY DEF NoDeadline, MarksStopped
  <2> QED BY <2>1, TimersAssumption DEF NoDeadline, TypeOK
<1>2. Modes'
  BY DEF NoDeadline, MarksStopped, lock, thread, TypeOK, Modes, Once
<1>3. Once'
  BY TimersAssumption DEF NoDeadline, MarksStopped, lock, thread, TypeOK, Modes, Once, Starting
<1>4. Seen'
  BY DEF NoDeadline, MarksStopped, lock, thread, TypeOK, Modes, Once, Seen, Waking, At
<1>5. Orderly'
  BY TimersAssumption DEF NoDeadline, MarksStopped, lock, thread, TypeOK, Modes, Orderly, At
<1>6. Exact'
  BY TimersAssumption, DeadlinesAreLongs DEF NoDeadline, MarksStopped, lock, thread, TypeOK, Modes, Orderly, Exact, FiredAtTheDeadline
<1>7. QED
  BY <1>1, <1>2, <1>3, <1>4, <1>5, <1>6

LEMMA NextDeadlineServes == ASSUME Served, NextDeadline PROVE Served'
<1> USE DEF Served
<1>1. TypeOK'
  <2>1. until' \in Int
    BY DeadlinesAreLongs DEF NextDeadline, Long, TypeOK
  <2> QED BY <2>1, TimersAssumption DEF NextDeadline, lock, TypeOK
<1>2. Modes'
  BY DEF NextDeadline, Earliest, lock, thread, TypeOK, Modes, Once
<1>3. Once'
  BY TimersAssumption DEF NextDeadline, Earliest, lock, thread, TypeOK, Modes, Once, Starting
<1>4. Seen'
  BY DEF NextDeadline, Earliest, lock, thread, TypeOK, Modes, Once, Seen, Waking, At
<1>5. Orderly'
  BY TimersAssumption DEF NextDeadline, Earliest, lock, thread, TypeOK, Modes, Orderly, At
<1>6. Exact'
  BY TimersAssumption, DeadlinesAreLongs DEF NextDeadline, Earliest, lock, thread, TypeOK, Modes, Orderly, Exact, FiredAtTheDeadline
<1>7. QED
  BY <1>1, <1>2, <1>3, <1>4, <1>5, <1>6

LEMMA NapsServes == ASSUME Served, Naps PROVE Served'
<1> USE DEF Served
<1>1. TypeOK'
  <2>1. Wrapped(until - clock) \in Int /\ clock \in Int
    BY TimersAssumption DEF TypeOK, Wrapped
  <2>2. until' \in Int
    BY <2>1 DEF Naps, TypeOK
  <2>3. wheel' \in {"nap", "now"}
    BY DEF Naps
  <2> QED BY <2>2, <2>3 DEF Naps, lock, TypeOK
<1>2. Modes'
  BY DEF Naps, lock, thread, TypeOK, Modes, Once
<1>3. Once'
  BY TimersAssumption DEF Naps, lock, thread, TypeOK, Modes, Once, Starting
<1>4. Seen'
  <2>1. wheel' \in {"nap", "now"} /\ parker'
    BY DEF Naps, lock, Seen
  <2>2. UNCHANGED <<table, asked, pc, permit>>
    BY DEF Naps, lock
  <2>3. CASE wheel' = "nap" /\ ~Waking
    <3>1. \A r \in table : until <= At(r) /\ At(r) >= 0
      BY <2>3 DEF Naps, Seen
    <3>2. PICK r \in table : until = At(r)
      BY DEF Naps, Seen
    <3>3. until \in 0..MaxLong
      BY <3>1, <3>2, DeadlinesAreLongs, TimersAssumption DEF Long, TypeOK
    <3>4. until - clock \in Long
      BY <3>3, TimersAssumption DEF Long, TypeOK
    <3>5. Wrapped(until - clock) = until - clock
      BY <3>4, TimersAssumption, WrapsToLong DEF Long
    <3>6. until' = until
      BY <2>3, <3>3, <3>5 DEF Naps, TypeOK
    <3> QED BY <2>1, <2>2, <2>3, <3>1, <3>6 DEF Seen, Waking, At
  <2>4. CASE wheel' = "now" \/ Waking
    BY <2>1, <2>2, <2>4 DEF Seen, Waking
  <2> QED BY <2>1, <2>3, <2>4
<1>5. Orderly'
  BY TimersAssumption DEF Naps, lock, thread, TypeOK, Modes, Orderly, At
<1>6. Exact'
  BY TimersAssumption, DeadlinesAreLongs DEF Naps, lock, thread, TypeOK, Modes, Orderly, Exact, FiredAtTheDeadline
<1>7. QED
  BY <1>1, <1>2, <1>3, <1>4, <1>5, <1>6

LEMMA WokenServes == ASSUME Served, Woken PROVE Served'
<1> USE DEF Served
<1>1. TypeOK'
  <2>1. permit' \in BOOLEAN
    BY DEF Woken
  <2> QED BY <2>1, TimersAssumption DEF Woken, lock, TypeOK
<1>2. Modes'
  BY DEF Woken, lock, thread, TypeOK, Modes, Once
<1>3. Once'
  BY TimersAssumption DEF Woken, lock, thread, TypeOK, Modes, Once, Starting
<1>4. Seen'
  BY DEF Woken, lock, thread, TypeOK, Modes, Once, Seen, Waking, At
<1>5. Orderly'
  BY TimersAssumption DEF Woken, lock, thread, TypeOK, Modes, Orderly, At
<1>6. Exact'
  BY TimersAssumption, DeadlinesAreLongs DEF Woken, lock, thread, TypeOK, Modes, Orderly, Exact, FiredAtTheDeadline
<1>7. QED
  BY <1>1, <1>2, <1>3, <1>4, <1>5, <1>6

LEMMA WokenForNothingServes == ASSUME Served, WokenForNothing PROVE Served'
<1> USE DEF Served
<1>1. TypeOK'
  BY TimersAssumption DEF WokenForNothing, lock, thread, TypeOK
<1>2. Modes'
  BY DEF WokenForNothing, lock, thread, TypeOK, Modes, Once
<1>3. Once'
  BY TimersAssumption DEF WokenForNothing, lock, thread, TypeOK, Modes, Once, Starting
<1>4. Seen'
  BY DEF WokenForNothing, lock, thread, TypeOK, Modes, Once, Seen, Waking, At
<1>5. Orderly'
  BY TimersAssumption DEF WokenForNothing, lock, thread, TypeOK, Modes, Orderly, At
<1>6. Exact'
  BY TimersAssumption, DeadlinesAreLongs DEF WokenForNothing, lock, thread, TypeOK, Modes, Orderly, Exact, FiredAtTheDeadline
<1>7. QED
  BY <1>1, <1>2, <1>3, <1>4, <1>5, <1>6

LEMMA AfterVirtualServes == ASSUME Served, NEW r \in Replies, NEW d \in Delays, AfterVirtual(r, d) PROVE Served'
<1> USE DEF Served
<1>1. TypeOK'
  <2>1. asked' \in [Replies -> 0..2 * MaxLong]
    BY TimersAssumption DEF AfterVirtual, Asks, TypeOK
  <2>2. hooks' \in 0..1
    BY DEF AfterVirtual, Stopped, TypeOK, Modes
  <2>3. running' \in BOOLEAN
    BY DEF AfterVirtual
  <2> QED BY <2>1, <2>2, <2>3 DEF AfterVirtual, thread, TypeOK
<1>2. Modes'
  BY DEF AfterVirtual, Asks, Stopped, lock, thread, TypeOK, Modes, Once
<1>3. Once'
  BY TimersAssumption DEF AfterVirtual, Asks, Stopped, lock, thread, TypeOK, Modes, Once, Starting
<1>4. Seen'
  BY DEF AfterVirtual, Asks, Stopped, lock, thread, TypeOK, Modes, Once, Seen, Waking, At
<1>5. Orderly'
  BY TimersAssumption DEF AfterVirtual, Asks, Stopped, lock, thread, TypeOK, Modes, Orderly, At
<1>6. Exact'
  BY TimersAssumption, DeadlinesAreLongs DEF AfterVirtual, Asks, Stopped, lock, thread, TypeOK, Modes, Orderly, Exact, FiredAtTheDeadline
<1>7. QED
  BY <1>1, <1>2, <1>3, <1>4, <1>5, <1>6

LEMMA AdvanceServes == ASSUME Served, Advance PROVE Served'
<1> USE DEF Served
<1>0. PICK r \in table : Earliest(r) /\ clock' = IF At(r) > clock THEN At(r) ELSE clock
  BY DEF Advance, AdvanceTo
<1>8. /\ At(r) \in Long /\ clock' \in 0..MaxLong /\ clock' >= clock /\ r \in DueBy(clock')
      /\ \A q \in table : At(q) \in Long /\ At(r) <= At(q)
  BY <1>0, DeadlinesAreLongs DEF Earliest, DueBy, Long, TypeOK
<1>9. /\ table' = table \ DueBy(clock') /\ (running' <=> table' # {}) /\ running' \in BOOLEAN
      /\ hooks' = IF table' # {} THEN hooks ELSE hooks - 1
      /\ virtual /\ hooks = 1 /\ running
  BY DEF Advance, Modes, Once
<1>1. TypeOK'
  <2>1. fired' \in [Replies -> 0..MaxLong \cup {None}]
    BY <1>8 DEF Advance, TypeOK
  <2>2. now <= clock'
    BY <1>8 DEF TypeOK
  <2>3. hooks' \in 0..1
    BY <1>9
  <2> QED BY <1>8, <1>9, <2>1, <2>2, <2>3 DEF Advance, thread, TypeOK
<1>2. Modes'
  BY <1>9 DEF Advance, Modes, thread
<1>3. Once'
  BY TimersAssumption DEF Advance, Earliest, AdvanceTo, DueBy, lock, thread, TypeOK, Modes, Once, Starting
<1>4. Seen'
  BY DEF Advance, Earliest, AdvanceTo, DueBy, lock, thread, TypeOK, Modes, Once, Seen, Waking, At
<1>5. Orderly'
  BY TimersAssumption DEF Advance, Earliest, AdvanceTo, DueBy, lock, thread, TypeOK, Modes, Orderly, At
<1>6. Exact'
  <2>1. \A q \in Replies : At(q)' = At(q) /\ asked'[q] = asked[q]
    BY DEF Advance, At
  <2>2. \A q \in table : asked[q] <= MaxLong => asked[q] = At(q) /\ asked[q] >= clock
    BY <1>9, DeadlinesAreLongs DEF Exact, TypeOK
  <2>3. ASSUME NEW q \in Replies, fired'[q] # None, asked[q] <= MaxLong PROVE fired'[q] = asked[q]
    <3>1. CASE q \in DueBy(clock')
      <4>1. q \in table /\ fired'[q] = clock' /\ At(q) <= clock'
        BY <3>1 DEF Advance, DueBy
      <4>2. asked[q] = At(q) /\ asked[q] >= clock /\ At(r) <= At(q) /\ asked[q] \in Int
        BY <2>2, <2>3, <4>1, <1>8 DEF Long
      <4> QED BY <1>0, <1>8, <4>1, <4>2 DEF Long, TypeOK
    <3>2. CASE q \notin DueBy(clock')
      BY <1>9, <2>3, <3>2 DEF Advance, Exact, FiredAtTheDeadline
    <3> QED BY <3>1, <3>2
  <2>4. ASSUME NEW q \in table', asked[q] <= MaxLong PROVE asked[q] >= clock'
    <3>1. q \in table /\ ~(At(q) <= clock') /\ q \in Replies
      BY <1>9, <2>4 DEF DueBy, TypeOK
    <3>2. asked[q] = At(q) /\ At(q) \in Int
      BY <2>2, <2>4, <3>1, <1>8 DEF Long
    <3> QED BY <1>8, <3>1, <3>2
  <2>5. \A q \in Replies : asked[q] \in Int
    BY TimersAssumption DEF TypeOK
  <2> QED BY <1>9, <2>1, <2>3, <2>4, <2>5 DEF Advance, Exact, FiredAtTheDeadline, TypeOK
<1>7. QED
  BY <1>1, <1>2, <1>3, <1>4, <1>5, <1>6

LEMMA ServedIsKept == Spec => []Served
<1>1. Served /\ [Next]_vars => Served'
  <2> SUFFICES ASSUME Served, [Next]_vars PROVE Served'
    OBVIOUS
  <2>1. CASE Tick
    BY <2>1, TickServes
  <2>2. CASE Wheel
    BY <2>2, BeginServes, WheelParkerServes, ReadsClockServes, TakeDueServes, AnswerNextServes,
       NoDeadlineServes, NextDeadlineServes, NapsServes, WokenServes DEF Wheel
  <2>3. CASE WokenForNothing
    BY <2>3, WokenForNothingServes
  <2>4. CASE Advance
    BY <2>4, AdvanceServes
  <2>5. ASSUME NEW r \in Replies, Caller(r) PROVE Served'
    BY <2>5, RegisterServes, StartServes, WakerServes, UnparkServes DEF Caller
  <2>6. ASSUME NEW r \in Replies, NEW d \in Delays, Call(r, d) \/ AfterVirtual(r, d) PROVE Served'
    BY <2>6, CallServes, AfterVirtualServes
  <2>7. CASE UNCHANGED vars
    BY <2>7 DEF Served, TypeOK, Modes, Once, Starting, Seen, Waking, Orderly, Exact,
                FiredAtTheDeadline, At, vars, lock, thread
  <2> QED BY <2>1, <2>2, <2>3, <2>4, <2>5, <2>6, <2>7 DEF Next
<1>2. QED
  BY InitServed, <1>1, PTL DEF Spec

(***************************************************************************)
(* The theorems.                                                           *)
(***************************************************************************)

\* The type invariant; with it, at most one clock hook is armed.
THEOREM TypeCorrect == Spec => []TypeOK
<1>1. Served => TypeOK
  BY DEF Served
<1>2. QED
  BY <1>1, ServedIsKept, PTL

\* The wheel is started once for each stop, so its mailbox is never full (register,
\* next_deadline, Wheeling.run).
THEOREM OneStartAtATime == Spec => []WheelIsStartedOnce
<1>1. Served => WheelIsStartedOnce
  <2> SUFFICES ASSUME Served, ~virtual PROVE Starts = IF running THEN 1 ELSE 0
    BY DEF Served, Once, WheelIsStartedOnce
  <2>1. Cardinality({}) = 0 /\ \A r : Cardinality({r}) = 1
    BY FS_EmptySet, FS_Singleton
  <2>2. CASE Starting = {}
    <3>1. Starts = runs + IF wheel = "rest" THEN 0 ELSE 1
      BY <2>1, <2>2 DEF Starts, Served, TypeOK
    <3> QED BY <2>2, <3>1 DEF Served, Once
  <2>3. CASE Starting # {}
    <3>1. Cardinality(Starting) = 1 /\ runs = 0 /\ wheel = "rest" /\ running
      BY <2>1, <2>3 DEF Served, Once
    <3> QED BY <3>1 DEF Starts
  <2> QED BY <2>2, <2>3
<1>2. QED
  BY <1>1, ServedIsKept, PTL

\* No wakeup is lost between what is earliest and going to sleep (next_deadline, park_nanos,
\* waker).
THEOREM NothingIsSleptOn == Spec => []NoDeadlineIsSleptOn
<1>1. Served => NoDeadlineIsSleptOn
  BY DEF Served, Seen, Waking, NoDeadlineIsSleptOn
<1>2. QED
  BY <1>1, ServedIsKept, PTL

\* No reply is answered before its delay has passed, and on the virtual runtime not after.
THEOREM FiresInTime == Spec => []FiredAtTheDeadline
<1>1. Served => FiredAtTheDeadline
  BY DEF Served, Exact
<1>2. QED
  BY <1>1, ServedIsKept, PTL

\* A step of the service is a step of Alarm's, or none that it sees.
LEMMA StepIsPromised ==
    ASSUME Served, Served', [Next]_vars
    PROVE  [Promise!Next]_(Promise!alarmVars)
<1> DEFINE Due == [r \in Replies |-> IF pc[r] = "none" THEN None ELSE At(r)]
<1>1. \A r \in Replies : At(r) \in Int /\ At(r) # None
  BY DeadlinesAreLongs, TimersAssumption DEF Long, Served
<1>2. ASSUME UNCHANGED asked, \A r \in Replies : pc'[r] = "none" <=> pc[r] = "none" PROVE Due' = Due
  BY <1>2 DEF At
<1>3. ASSUME NEW r \in Replies, NEW d \in Delays, Asks(r, d), pc[r] = "none",
             pc' = [pc EXCEPT ![r] = pc'[r]], pc'[r] # "none", UNCHANGED <<clock, fired>>
      PROVE  Promise!Set(r)
  <2>1. At(r)' \in Int
    BY DeadlinesAreLongs, TimersAssumption, WrapsToLong DEF At, Long, Served, TypeOK
  <2>2. \A q \in Replies \ {r} : At(q)' = At(q) /\ pc'[q] = pc[q]
    BY <1>3 DEF Asks, At, Served, TypeOK
  <2>3. Due[r] = None /\ Due'[r] = At(r)'
    BY <1>3
  <2>4. Due' = [Due EXCEPT ![r] = Due'[r]]
    BY <2>2, <2>3
  <2> QED BY <1>3, <2>1, <2>3, <2>4 DEF Promise!Set
<1>4. ASSUME UNCHANGED <<asked, pc>>, clock' >= clock,
             \A r \in Replies :
                \/ fired'[r] = fired[r]
                \/ fired[r] = None /\ pc[r] # "none" /\ At(r) <= fired'[r] /\ fired'[r] <= clock'
      PROVE  Promise!Fire
  <2>1. Due' = Due
    BY <1>2, <1>4
  <2>2. \A r \in Replies : pc[r] # "none" => Due[r] = At(r) /\ Due[r] # None
    BY <1>1
  <2> QED BY <1>4, <2>1, <2>2 DEF Promise!Fire
<1>5. CASE Tick
  BY <1>4, <1>5 DEF Tick, Promise!Next, Served, TypeOK
<1>6. CASE AnswerNext
  <2>1. clock' >= clock
    BY <1>6 DEF AnswerNext, Served, TypeOK
  <2> QED BY <1>4, <1>6, <2>1 DEF AnswerNext, lock, Promise!Next, Served, Orderly, TypeOK
<1>7. CASE Advance
  <2>1. clock' >= clock
    BY <1>1, <1>7 DEF Advance, AdvanceTo, Served, TypeOK
  <2>2. \A r \in Replies :
           fired'[r] = fired[r] \/ (r \in table /\ At(r) <= clock' /\ fired'[r] = clock')
    BY <1>7 DEF Advance, DueBy, Served, TypeOK
  <2>3. clock' <= clock'
    BY DEF Served, TypeOK
  <2> QED BY <1>4, <1>7, <2>1, <2>2, <2>3 DEF Advance, Promise!Next, Served, Orderly, TypeOK
<1>8. ASSUME NEW r \in Replies, NEW d \in Delays, Call(r, d) \/ AfterVirtual(r, d)
      PROVE  Promise!Next
  <2>1. Promise!Set(r)
    BY <1>3, <1>8 DEF Call, AfterVirtual, Served, TypeOK
  <2> QED BY <2>1 DEF Promise!Next
<1>9. ASSUME UNCHANGED <<clock, fired, asked>>, \A r \in Replies : pc'[r] = "none" <=> pc[r] = "none"
      PROVE  UNCHANGED Promise!alarmVars
  BY <1>2, <1>9 DEF Promise!alarmVars
<1>10. ASSUME NEW r \in Replies, Caller(r) PROVE UNCHANGED Promise!alarmVars
  BY <1>9, <1>10 DEF Caller, Register, Start, Waker, Unpark, Served, TypeOK
<1>11. CASE \/ Begin \/ WheelParker \/ ReadsClock \/ TakeDue \/ NoDeadline \/ NextDeadline \/ Naps
            \/ Woken \/ WokenForNothing \/ UNCHANGED vars
  BY <1>9, <1>11 DEF Begin, WheelParker, ReadsClock, TakeDue, NoDeadline, NextDeadline, Naps, Woken,
                     WokenForNothing, vars
<1>12. QED
  BY <1>5, <1>6, <1>7, <1>8, <1>10, <1>11 DEF Next, Wheel

\* Timers implements Alarm: every reply is answered at most once, at or after its deadline,
\* with a reading the clock has reached.
THEOREM ThePromiseIsKept == Spec => KeepsItsPromise
<1>1. Init => Promise!Init
  BY DEF Init, Promise!Init
<1>2. Served /\ Served' /\ [Next]_vars => [Promise!Next]_(Promise!alarmVars)
  BY StepIsPromised
<1>3. QED
  BY <1>1, <1>2, ServedIsKept, PTL DEF Spec, KeepsItsPromise, Promise!Spec
==============================================================================
