------------------------- MODULE SchedulerHangProofs --------------------------
(***************************************************************************)
(* What the deadlock report does not miss, for every value of the          *)
(* constants.  First, that work finds a thread: what is queued on a pool,  *)
(* by a step of any kind, wakes the first thread asleep there unless one   *)
(* is already about to look.  Then, that a system with no thread awake has *)
(* no work, so its frames all wait and nothing is on its way to them; and  *)
(* that whoever made it so by going to sleep or ending woke main to look.  *)
(* Two kinds of rest escape the report, and the theorem names them: an     *)
(* answer that lies with a frame buried under another wait of its thread,  *)
(* and a pool that has retired.  Last, for programs that never wait: their *)
(* lists name whoever sleeps, once and truly, so each push wakes a thread  *)
(* for what it pushed and each dequeue a sender for the room it made.      *)
(***************************************************************************)
EXTENDS SchedulerReportProofs

(***************************************************************************)
(* Who is there to take work.                                              *)
(***************************************************************************)
Busy(p) == tasks[p] # <<>> \/ readyQ[p] # <<>>
Alive(t) == pc[t] \notin {"unborn", "done"}
Unemployed(t) == pc[t] = "park" /\ t \notin permit

\* Threads are born with their pool, main's before; those of a pool end when it
\* retires, and so do the entries of its idle list.
Crewed ==
    /\ \A t \in Workers \cup {Main} : Serves[t] \in made => pc[t] # "unborn"
    /\ \A t \in Threads : pc[t] = "done" => t \in Hosts \/ Serves[t] \in retired
    /\ \A p \in Pools : \A t \in ToSet(idle[p]) :
         Serves[t] = p /\ pc[t] # "unborn" /\ (pc[t] = "done" => p \in retired)

\* How a step may move a thread.
Shifts(u) ==
    \/ pc'[u] = pc[u]
    \/ Alive(u) /\ Alive(u)' /\ pc'[u] # "park"
    \/ pc[u] = "look" /\ pc'[u] = "park" /\ ~Busy(Serves[u])'
    \/ pc[u] = "look" /\ pc'[u] = "done" /\ Serves[u] \in retired
    \/ pc[u] = "unborn" /\ pc'[u] = "run" /\ u \in Hosts
    \/ pc[u] = "unborn" /\ pc'[u] = "look" /\ Serves[u] \in made'
    \/ pc'[u] = "done" /\ u \in Hosts /\ \A p \in Pools : idle'[p] = <<>>

\* Whoever is on an idle list was there before, or has just gone to sleep.
Dozes == \A p \in Pools : \A u \in ToSet(idle'[p]) :
    u \in ToSet(idle[p]) \/ (Serves[u] = p /\ pc[u] = "look" /\ pc'[u] = "park")

\* The actors on a stack live on the pool its thread serves.
AtHome == \A t \in Threads : \A i \in DOMAIN stack[t] :
    stack[t][i].who \in Actors => Home[stack[t][i].who] = Serves[t]

\* New work on a pool finds somebody awake there, or wakes the first asleep.
Wakes(p) == \/ Busy(p)
            \/ idle'[p] = <<>>
            \/ idle[p] # <<>> /\ Head(idle[p]) \in permit'
            \/ \E t \in Threads : Serves[t] = p /\ pc'[t] = "look"

\* Every thread stands on a pool.
LEMMA ServesAPool == \A t \in Threads : Serves[t] \in Pools
BY ConstantsAssumption

\* One thread moves, between labels of a thread that lives.
LEMMA GotoShifts ==
    ASSUME TypeOK, NEW t \in Threads, NEW l, l \notin {"unborn", "done", "park"}, Goto(t, l),
           Alive(t)
    PROVE  \A u \in Threads : Shifts(u)
BY GotoEffect DEF Shifts, Alive

\* The same in the room of a step.
LEMMA LivesOn ==
    ASSUME TypeOK, NEW t \in Threads, Goto(t, "run") \/ Goto(t, "look") \/ Goto(t, "full") \/ Goto(t, "send"),
           pc[t] \in {"run", "look", "park", "send", "full"}
    PROVE  \A u \in Threads : Shifts(u)
BY GotoShifts DEF Alive

\* How program code moves the threads.
LEMMA ProgramShifts ==
    ASSUME TypeOK, FramesAreNested, WaitersExist, NEW t \in Threads, Program(t)
    PROVE  \A u \in Threads : Shifts(u)
<1>1. ASSUME UNCHANGED pc PROVE \A u \in Threads : Shifts(u)
  BY <1>1 DEF Shifts
<1>2. CASE \/ \E gated \in BOOLEAN : MintActor(t, gated)
           \/ \E p \in Pools, c \in SUBSET Slots : MintTask(t, p, c)
           \/ MintWaiter(t)
           \/ \E s \in Slots : Answer(t, s) \/ OnIdle(t, s)
           \/ \E a \in Actors, s \in Slots : Watch(t, a, s)
           \/ \E a \in Actors : NewActor(t, a)
  <2>1. UNCHANGED pc
    BY <1>2 DEF MintActor, MintTask, MintWaiter, Answer, OnIdle, Watch, NewActor, threadVars
  <2>. QED  BY <1>1, <2>1
<1>3. ASSUME NEW a \in Actors, NEW s \in Slots \cup {0}, Send(t, a, s)
      PROVE  \A u \in Threads : Shifts(u)
  <2>1. pc[t] = "run" /\ (Goto(t, "run") \/ Goto(t, "full"))
    BY <1>3 DEF Send, Does, Runs, Enqueue
  <2>. QED  BY <2>1, LivesOn
<1>4. CASE Await(t)
  <2>1. pc[t] = "run" /\ Goto(t, "look")
    BY <1>4 DEF Await
  <2>. QED  BY <2>1, LivesOn
<1>5. ASSUME NEW p \in Pools, NewPool(t, p)
      PROVE  \A u \in Threads : Shifts(u)
  <2>1. /\ p \notin made /\ p \in made'
        /\ \A u \in Threads : IF u \in Workers /\ Serves[u] = p THEN pc'[u] = "look" ELSE pc'[u] = pc[u]
    BY <1>5 DEF NewPool
  <2>2. \A u \in Workers : Serves[u] = p => pc[u] = "unborn"
    BY <2>1 DEF FramesAreNested
  <2>. QED  BY <2>1, <2>2 DEF Shifts
<1>6. ASSUME NEW h \in Hosts, NEW c \in SUBSET Slots, HostOpens(t, h, c)
      PROVE  \A u \in Threads : Shifts(u)
  <2>1. /\ h \in Threads /\ pc[h] = "unborn" /\ pc'[h] = "run"
        /\ \A u \in Threads : u # h => pc'[u] = pc[u]
    BY <1>6, HostOpening
  <2>. QED  BY <2>1 DEF Shifts
<1>7. CASE ActorFaults(t) \/ TaskFaults(t)
  <2>1. pc[t] = "run" /\ Goto(t, "look")
    BY <1>7 DEF ActorFaults, TaskFaults, TaskEnds, Ends, Runs
  <2>. QED  BY <2>1, LivesOn
<1>. QED  BY <1>2, <1>3, <1>4, <1>5, <1>6, <1>7 DEF Program

\* With nothing to do for anyone, a pool is not busy.
LEMMA IdlesShift ==
    ASSUME TypeOK, NEW t \in Threads, NEW own, NoWork(Serves[t], own), UNCHANGED tasks,
           Goto(t, "park"), pc[t] = "look"
    PROVE  \A u \in Threads : Shifts(u)
<1>1. Serves[t] \in Pools
  BY ServesAPool
<1>2. ~Busy(Serves[t])'
  BY <1>1 DEF Busy, NoWork, HasWork, TypeOK
<1>. QED  BY <1>2, GotoEffect DEF Shifts

\* How every step does.
LEMMA StepShifts ==
    ASSUME TypeOK, FramesAreNested, WaitersExist, [Next]_vars
    PROVE  \A u \in Threads : Shifts(u)
<1>1. ASSUME UNCHANGED pc PROVE \A u \in Threads : Shifts(u)
  BY <1>1 DEF Shifts
<1>2. ASSUME NEW t \in Threads, Runtime(t)
      PROVE  \A u \in Threads : Shifts(u)
  <2>1. CASE Resend(t)
    <3>1. pc[t] = "send" /\ (Goto(t, "run") \/ Goto(t, "full"))
      BY <2>1 DEF Resend, Enqueue
    <3>. QED  BY <3>1, LivesOn
  <2>2. CASE Park(t)
    <3>1. pc[t] \in {"park", "full"} /\ (Goto(t, "look") \/ Goto(t, "send"))
      BY <2>2 DEF Park
    <3>. QED  BY <3>1, LivesOn
  <2>3. CASE ActorReturns(t) \/ TaskReturns(t)
    <3>1. pc[t] = "run" /\ Goto(t, "look")
      BY <2>3 DEF ActorReturns, TaskReturns, TaskEnds, Ends, Runs
    <3>. QED  BY <3>1, LivesOn
  <2>4. CASE NextRetires(t)
    <3>1. pc[t] = "look" /\ Goto(t, "done") /\ Serves[t] \in retired
      BY <2>4 DEF NextRetires, Looks
    <3>. QED  BY <3>1, GotoEffect DEF Shifts
  <2>5. CASE NextWork(t) \/ WaitGot(t) \/ WaitWork(t)
    <3>1. pc[t] = "look" /\ Goto(t, "run")
      BY <2>5 DEF NextWork, WaitGot, WaitWork, TakeWork, WaitLooks, Looks
    <3>. QED  BY <3>1, LivesOn
  <2>6. CASE NextSleeps(t)
    BY <2>6, IdlesShift DEF NextSleeps, Looks
  <2>7. CASE WaitIdles(t)
    <3>1. pc[t] = "look" /\ NoWork(Serves[t], Me(t)) /\ UNCHANGED tasks
      BY <2>7 DEF WaitIdles, WaitLooks, Looks
    <3>2. UNCHANGED pc \/ Goto(t, "park")
      BY <2>7 DEF WaitIdles
    <3>. QED  BY <1>1, <3>1, <3>2, IdlesShift
  <2>. QED  BY <1>2, <2>1, <2>2, <2>3, <2>4, <2>5, <2>6, <2>7 DEF Runtime
<1>3. ASSUME NEW h \in Threads, HostCloses(h)
      PROVE  \A u \in Threads : Shifts(u)
  <2>1. h \in Hosts /\ Goto(h, "done") /\ WakeEvery(Pools, {})
    BY <1>3 DEF HostCloses
  <2>2. \A p \in Pools : idle'[p] = <<>>
    BY <2>1 DEF WakeEvery
  <2>. QED  BY <2>1, <2>2, GotoEffect DEF Shifts
<1>4. CASE UNCHANGED vars \/ DeliverNext \/ EndBulk \/ MainReturns \/ Exited
  <2>1. UNCHANGED pc
    BY <1>4 DEF vars, DeliverNext, EndBulk, MainReturns, Exited, threadVars
  <2>. QED  BY <1>1, <2>1
<1>. QED  BY <1>2, <1>3, <1>4, ProgramShifts DEF Next

(***************************************************************************)
(* Who a step wakes.                                                       *)
(***************************************************************************)
\* A step that puts nobody to sleep, and wakes somebody where work arrives.
IdleShrinks == \A p \in Pools : ToSet(idle'[p]) \subseteq ToSet(idle[p])
Stirs == IdleShrinks /\ \A p \in Pools : Busy(p)' => Wakes(p)

\* What waking does to an idle list.
LEMMA PoolIsWoken ==
    ASSUME TypeOK, NEW p \in Pools, NEW also, WakePool(p, also)
    PROVE  /\ IdleShrinks
           /\ idle'[p] = <<>> \/ (idle[p] # <<>> /\ Head(idle[p]) \in permit')
<1>1. idle[p] \in Seq(Threads)
  BY DEF TypeOK
<1>2. /\ idle'[p] = (IF idle[p] = <<>> THEN idle[p] ELSE Tail(idle[p]))
      /\ \A q \in Pools : q # p => idle'[q] = idle[q]
  BY DEF WakePool, TypeOK
<1>3. idle[p] # <<>> => ToSet(Tail(idle[p])) \subseteq ToSet(idle[p])
  BY <1>1, ToSetTail
<1>4. IdleShrinks
  BY <1>2, <1>3 DEF IdleShrinks
<1>5. idle[p] # <<>> => Head(idle[p]) \in permit'
  BY DEF WakePool
<1>. QED  BY <1>2, <1>4, <1>5

\* Every list of a set of pools is emptied.
LEMMA EveryIsWoken ==
    ASSUME NEW ps, NEW also, WakeEvery(ps, also)
    PROVE  IdleShrinks /\ \A p \in Pools \cap ps : idle'[p] = <<>>
BY DEF WakeEvery, IdleShrinks, ToSet

\* Without new work, it is enough that nobody goes to sleep.
LEMMA StirsStill ==
    ASSUME IdleShrinks, UNCHANGED <<tasks, readyQ>>
    PROVE  Stirs
BY DEF Stirs, Wakes, Busy

\* An actor marked ready has its pool woken.
LEMMA StirsReady ==
    ASSUME TypeOK, NEW b \in Actors, NEW also, MarkReadyAndWake(b, also), UNCHANGED tasks
    PROVE  Stirs
<1>1. Home[b] \in Pools
  BY ConstantsAssumption
<1>2. CASE MayQueue(b)
  <2>1. /\ WakePool(Home[b], also)
        /\ readyQ' = [readyQ EXCEPT ![Home[b]] = Append(@, b)]
    BY <1>2 DEF MarkReadyAndWake, MarkReady
  <2>2. \A p \in Pools : p # Home[b] => readyQ'[p] = readyQ[p]
    BY <2>1 DEF TypeOK
  <2>. QED  BY <1>1, <2>1, <2>2, PoolIsWoken DEF Stirs, Wakes, Busy
<1>3. CASE ~MayQueue(b)
  <2>1. UNCHANGED <<readyQ, idle>>
    BY <1>3 DEF MarkReadyAndWake, MarkReady
  <2>. QED  BY <2>1, StirsStill DEF IdleShrinks
<1>. QED  BY <1>2, <1>3

\* So has the pool of a task, or of the actor an answer is for.
LEMMA StirsDelivery ==
    ASSUME TypeOK, NEW s \in Slots, DeliverTo(s)
    PROVE  Stirs
<1>1. CASE DeliverToActor(s)
  <2>1. target[s] \in Actors /\ MarkReadyAndWake(target[s], {}) /\ UNCHANGED tasks
    BY <1>1 DEF DeliverToActor
  <2>. QED  BY <2>1, StirsReady
<1>2. CASE DeliverToWaiter(s)
  BY <1>2, StirsStill DEF DeliverToWaiter, IdleShrinks
<1>3. CASE DeliverToTask(s)
  <2>1. /\ target[s] \in Pools /\ WakePool(target[s], {}) /\ UNCHANGED readyQ
        /\ tasks' = [tasks EXCEPT ![target[s]] = Append(@, s)]
    BY <1>3 DEF DeliverToTask
  <2>2. \A p \in Pools : p # target[s] => tasks'[p] = tasks[p]
    BY <2>1 DEF TypeOK
  <2>. QED  BY <2>1, <2>2, PoolIsWoken DEF Stirs, Wakes, Busy
<1>. QED  BY <1>1, <1>2, <1>3 DEF DeliverTo

\* A message does the same.
LEMMA StirsEnqueue ==
    ASSUME TypeOK, NEW t \in Threads, NEW a \in Actors, NEW s \in Slots \cup {0},
           Enqueue(t, a, s), UNCHANGED tasks
    PROVE  Stirs
<1>1. CASE UNCHANGED <<readyQ, idle>>
  BY <1>1, StirsStill DEF IdleShrinks
<1>2. CASE MarkReadyAndWake(a, {})
  BY <1>2, StirsReady
<1>. QED  BY <1>1, <1>2 DEF Enqueue

\* What is taken out leaves no new work.
LEMMA StirsTake ==
    ASSUME TypeOK, NEW t \in Threads, NEW own, TakeWork(t, own)
    PROVE  Stirs
<1>. PICK p \in Pools : p = Serves[t]
  BY ServesAPool
<1>1. UNCHANGED idle
  BY DEF TakeWork
<1>2. HasWork(p, own) => Busy(p)
  BY DEF HasWork, Busy, Hits
<1>3. CASE TakeTask(t)
  <2>1. tasks[p] # <<>> /\ tasks' = [tasks EXCEPT ![p] = Tail(@)] /\ UNCHANGED readyQ
    BY <1>3 DEF TakeTask
  <2>2. \A q \in Pools : q # p => tasks'[q] = tasks[q]
    BY <2>1 DEF TypeOK
  <2>. QED  BY <1>1, <2>1, <2>2 DEF Stirs, IdleShrinks, Wakes, Busy
<1>4. ASSUME NEW a \in Actors, NEW k \in DOMAIN queue[a], TakeEntryOf(t, own, a, k)
      PROVE  Stirs
  <2>1. PICK j \in DOMAIN readyQ[p] : readyQ' = [readyQ EXCEPT ![p] = SubSeq(@, j + 1, Len(@))]
    BY <1>4 DEF TakeEntryOf
  <2>2. readyQ[p] # <<>> /\ UNCHANGED tasks
    BY <1>4, <2>1 DEF TakeEntryOf
  <2>3. \A q \in Pools : q # p => readyQ'[q] = readyQ[q]
    BY <2>1 DEF TypeOK
  <2>. QED  BY <1>1, <2>2, <2>3 DEF Stirs, IdleShrinks, Wakes, Busy
<1>. QED  BY <1>3, <1>4 DEF TakeWork, TakeEntry

\* The end of an activation or a task: what it leaves queued its own thread
\* looks for, and the report of a fault wakes somebody.
LEMMA StirsEnds ==
    ASSUME TypeOK, FramesAreNested, AtHome, NEW t \in Threads,
           ActorReturns(t) \/ ActorFaults(t) \/ TaskReturns(t) \/ TaskFaults(t)
    PROVE  Stirs
<1>1. CASE ActorReturns(t)
  <2>1. /\ Runs(t) /\ Me(t) \in Actors /\ Goto(t, "look") /\ MarkReady(Me(t))
        /\ UNCHANGED <<idle, tasks>>
    BY <1>1 DEF ActorReturns, Ends
  <2>2. Home[Me(t)] = Serves[t] /\ Serves[t] \in Pools
    <3>1. Len(stack[t]) \in DOMAIN stack[t] /\ Top(t) = stack[t][Len(stack[t])]
      BY <2>1, RunsHasFrame, TopType DEF Runs
    <3>. QED  BY <2>1, <3>1, ServesAPool DEF AtHome, Me
  <2>3. \A p \in Pools : p # Serves[t] => readyQ'[p] = readyQ[p]
    BY <2>1, <2>2 DEF MarkReady, TypeOK
  <2>4. pc'[t] = "look"
    BY <2>1, GotoEffect
  <2>. QED  BY <2>1, <2>3, <2>4 DEF Stirs, IdleShrinks, Wakes, Busy
<1>2. CASE ActorFaults(t)
  <2>1. Me(t) \in Actors /\ UNCHANGED tasks
    BY <1>2 DEF ActorFaults
  <2>2. CASE UNCHANGED <<readyQ, idle>>
    BY <2>1, <2>2, StirsStill DEF IdleShrinks
  <2>3. CASE /\ LiveSink(Home[Me(t)]) # {}
             /\ MarkReadyAndWake(Sink[Home[Me(t)]], ToSet(blocked[Me(t)]))
    <3>1. Home[Me(t)] \in Pools
      BY <2>1, ConstantsAssumption
    <3>2. Sink[Home[Me(t)]] \in Actors
      BY <2>3, <3>1, LiveSinkIsActor
    <3>. QED  BY <2>1, <2>3, <3>2, StirsReady
  <2>. QED  BY <1>2, <2>2, <2>3 DEF ActorFaults
<1>3. ASSUME NEW S, TaskEnds(t, S), S \in {{}, LiveSink(Serves[t])}
      PROVE  Stirs
  <2>1. UNCHANGED tasks /\ Serves[t] \in Pools
    BY <1>3, ServesAPool DEF TaskEnds
  <2>2. CASE S # {}
    <3>1. Sink[Serves[t]] \in Actors
      BY <1>3, <2>1, <2>2, LiveSinkIsActor
    <3>. QED  BY <1>3, <2>1, <2>2, <3>1, StirsReady DEF TaskEnds
  <2>3. CASE S = {}
    BY <1>3, <2>1, <2>3, EveryIsWoken, StirsStill DEF TaskEnds
  <2>. QED  BY <2>2, <2>3
<1>. QED  BY <1>1, <1>2, <1>3 DEF TaskReturns, TaskFaults

\* Every step stirs, but for those that go to sleep, which bring no work.
LEMMA StepStirs ==
    ASSUME TypeOK, FramesAreNested, AtHome, [Next]_vars
    PROVE  Dozes /\ \A p \in Pools : Busy(p)' => Wakes(p)
<1>0. Stirs => Dozes /\ \A p \in Pools : Busy(p)' => Wakes(p)
  <2>1. IdleShrinks => Dozes
    BY DEF IdleShrinks, Dozes
  <2>2. Stirs => IdleShrinks
    BY DEF Stirs
  <2>3. Stirs => \A p \in Pools : Busy(p)' => Wakes(p)
    BY DEF Stirs
  <2>. QED  BY <2>1, <2>2, <2>3
<1>1. ASSUME UNCHANGED <<idle, tasks, readyQ>> PROVE Stirs
  BY <1>1, StirsStill DEF IdleShrinks
<1>2. ASSUME NEW t \in Threads, Program(t)
      PROVE  Stirs
  <2>1. ASSUME NEW a \in Actors, NEW s \in Slots \cup {0}, Send(t, a, s)
        PROVE  Stirs
    <3>1. Enqueue(t, a, s) /\ UNCHANGED tasks
      BY <2>1 DEF Send
    <3>. QED  BY <3>1, StirsEnqueue
  <2>2. CASE \/ \E gated \in BOOLEAN : MintActor(t, gated)
             \/ \E p \in Pools, c \in SUBSET Slots : MintTask(t, p, c)
             \/ MintWaiter(t) \/ Await(t)
             \/ \E p \in Pools : NewPool(t, p)
             \/ \E a \in Actors : NewActor(t, a)
    <3>1. UNCHANGED <<idle, tasks, readyQ>>
      BY <2>2 DEF MintActor, MintTask, MintWaiter, Await, NewPool, NewActor, poolVars
    <3>. QED  BY <1>1, <3>1
  <2>3. ASSUME NEW s \in Slots, Answer(t, s)
        PROVE  Stirs
    BY <2>3, StirsDelivery DEF Answer
  <2>4. ASSUME NEW a \in Actors, NEW s \in Slots, Watch(t, a, s)
        PROVE  Stirs
    <3>1. DeliverTo(s) \/ UNCHANGED <<idle, tasks, readyQ>>
      BY <2>4 DEF Watch, poolVars
    <3>. QED  BY <1>1, <3>1, StirsDelivery
  <2>5. CASE \/ \E s \in Slots : OnIdle(t, s)
             \/ \E h \in Hosts, c \in SUBSET Slots : HostOpens(t, h, c)
    <3>1. WakeEvery(Pools, {}) /\ UNCHANGED <<tasks, readyQ>>
      BY <2>5 DEF OnIdle, HostOpens
    <3>. QED  BY <3>1, EveryIsWoken, StirsStill
  <2>6. CASE ActorFaults(t) \/ TaskFaults(t)
    BY <2>6, StirsEnds
  <2>. QED  BY <1>2, <2>1, <2>2, <2>3, <2>4, <2>5, <2>6 DEF Program
<1>3. ASSUME NEW t \in Threads, Looks(t), NEW own, NoWork(Serves[t], own), UNCHANGED tasks,
             UNCHANGED idle \/ (pc'[t] = "park" /\ idle' = [idle EXCEPT ![Serves[t]] = Append(@, t)])
      PROVE  Dozes /\ \A p \in Pools : Busy(p)' => Wakes(p)
  <2>. PICK p \in Pools : p = Serves[t]
    BY ServesAPool
  <2>1. \A q \in Pools : Busy(q)' => Busy(q)
    <3>1. \A q \in Pools : q # p => readyQ'[q] = readyQ[q]
      BY <1>3 DEF NoWork, TypeOK
    <3>2. readyQ'[p] = <<>>
      BY <1>3 DEF NoWork, TypeOK
    <3>. QED  BY <1>3, <3>1, <3>2 DEF Busy
  <2>2. CASE UNCHANGED idle
    BY <2>1, <2>2 DEF Dozes, Wakes
  <2>3. CASE pc'[t] = "park" /\ idle' = [idle EXCEPT ![p] = Append(@, t)]
    <3>1. ToSet(idle'[p]) = ToSet(idle[p]) \cup {t}
      BY <2>3, ToSetAppend DEF TypeOK
    <3>2. \A q \in Pools : q # p => idle'[q] = idle[q]
      BY <2>3 DEF TypeOK
    <3>3. pc[t] = "look"
      BY <1>3 DEF Looks
    <3>4. Dozes
      BY <2>3, <3>1, <3>2, <3>3 DEF Dozes
    <3>. QED  BY <2>1, <3>4 DEF Wakes
  <2>. QED  BY <1>3, <2>2, <2>3
<1>4. ASSUME NEW t \in Threads, Runtime(t), ~NextSleeps(t), ~WaitIdles(t)
      PROVE  Stirs
  <2>1. CASE Resend(t)
    <3>1. /\ Enqueue(t, sending[t].to, sending[t].tok) /\ UNCHANGED tasks
          /\ sending[t].to \in Actors /\ sending[t].tok \in Slots \cup {0}
      <4>1. pc[t] = "send"
        BY <2>1 DEF Resend
      <4>2. sending[t].to \in Actors
        BY <4>1 DEF FramesAreNested, NestedOn
      <4>. QED  BY <2>1, <4>2 DEF Resend, TypeOK, SendRec
    <3>. QED  BY <3>1, StirsEnqueue
  <2>2. CASE Park(t) \/ NextRetires(t)
    BY <1>1, <2>2 DEF Park, NextRetires, poolVars
  <2>3. CASE ActorReturns(t) \/ TaskReturns(t)
    BY <2>3, StirsEnds
  <2>4. CASE NextWork(t) \/ WaitWork(t)
    BY <2>4, StirsTake DEF NextWork, WaitWork
  <2>5. CASE WaitGot(t)
    <3>1. WakePool(Serves[t], {}) /\ UNCHANGED <<tasks, readyQ>> /\ Serves[t] \in Pools
      BY <2>5, ServesAPool DEF WaitGot
    <3>. QED  BY <3>1, PoolIsWoken, StirsStill
  <2>. QED  BY <1>4, <2>1, <2>2, <2>3, <2>4, <2>5 DEF Runtime
<1>5. ASSUME NEW t \in Threads, NextSleeps(t) \/ WaitIdles(t)
      PROVE  Dozes /\ \A p \in Pools : Busy(p)' => Wakes(p)
  <2>1. CASE NextSleeps(t)
    <3>1. /\ Looks(t) /\ NoWork(Serves[t], Nobody) /\ UNCHANGED tasks /\ Goto(t, "park")
          /\ idle' = [idle EXCEPT ![Serves[t]] = Append(@, t)]
      BY <2>1 DEF NextSleeps
    <3>. QED  BY <1>3, <3>1, GotoEffect
  <2>2. CASE WaitIdles(t)
    <3>1. /\ Looks(t) /\ NoWork(Serves[t], Me(t)) /\ UNCHANGED tasks
          /\ \/ UNCHANGED idle
             \/ Goto(t, "park") /\ idle' = [idle EXCEPT ![Serves[t]] = Append(@, t)]
      BY <2>2 DEF WaitIdles, WaitLooks
    <3>. QED  BY <1>3, <3>1, GotoEffect
  <2>. QED  BY <1>5, <2>1, <2>2
<1>6. ASSUME NEW h \in Threads, HostCloses(h)
      PROVE  Stirs
  <2>1. WakeEvery(Pools, {}) /\ UNCHANGED <<tasks, readyQ>>
    BY <1>6 DEF HostCloses
  <2>. QED  BY <2>1, EveryIsWoken, StirsStill
<1>7. CASE DeliverNext
  <2>1. bulk.tokens # <<>> /\ bulk.tokens \in Seq(Slots) /\ DeliverTo(Head(bulk.tokens))
    BY <1>7 DEF DeliverNext, TypeOK, BulkRec
  <2>. QED  BY <2>1, StirsDelivery, <1>0
<1>8. CASE EndBulk
  <2>1. UNCHANGED <<tasks, readyQ>>
    BY <1>8 DEF EndBulk
  <2>2. IdleShrinks
    BY <1>8, EveryIsWoken DEF EndBulk, IdleShrinks
  <2>. QED  BY <2>1, <2>2, StirsStill, <1>0
<1>9. CASE UNCHANGED vars \/ MainReturns \/ Exited
  <2>1. UNCHANGED <<idle, tasks, readyQ>>
    BY <1>9 DEF vars, MainReturns, Exited, poolVars
  <2>. QED  BY <1>0, <1>1, <2>1
<1>. QED  BY <1>0, <1>2, <1>4, <1>5, <1>6, <1>7, <1>8, <1>9 DEF Next

(***************************************************************************)
(* What there is, when it is used.                                         *)
(***************************************************************************)
\* Homes, sinks, the places tokens are aimed at, the actors under way or sent
\* to, and the pools with work: all have been made.
Founded ==
    /\ MainPool \in made
    /\ \A a \in Actors \cap made : Home[a] \in made
    /\ \A p \in Pools \cap made : Sink[p] \in made \cup {Nobody}
    /\ \A s \in Slots : target[s] \in made \cup Wids
    /\ \A t \in Threads : sending[t].to \in made \cup {Nobody}
    /\ \A t \in Threads : \A i \in DOMAIN stack[t] : stack[t][i].who \in Actors => stack[t][i].who \in made
    /\ \A p \in Pools : ToSet(readyQ[p]) \subseteq made /\ (tasks[p] # <<>> => p \in made)

\* Actors and pools are made one by one, on a pool or with a sink there is.
LEMMA MadeKinds ==
    ASSUME [Next]_vars
    PROVE  /\ made \subseteq made'
           /\ \A x \in made' \ made :
                \/ x \in Actors /\ Home[x] \in made /\ UNCHANGED pc
                \/ /\ x \in Pools /\ Sink[x] \in made \cup {Nobody}
                   /\ pc' = [u \in Threads |-> IF u \in Workers /\ Serves[u] = x THEN "look" ELSE pc[u]]
<1>1. ASSUME NEW t \in Threads, Program(t)
      PROVE  \/ UNCHANGED made
             \/ \E p \in Pools : NewPool(t, p)
             \/ \E a \in Actors : NewActor(t, a)
  BY <1>1 DEF Program, Send, MintActor, MintTask, MintWaiter, Await, Answer, Watch, OnIdle,
              HostOpens, ActorFaults, TaskFaults, TaskEnds, Ends
<1>2. ASSUME NEW t \in Threads, Runtime(t)
      PROVE  UNCHANGED made
  BY <1>2 DEF Runtime, Resend, Park, ActorReturns, TaskReturns, TaskEnds, Ends, NextRetires,
              NextWork, NextSleeps, WaitGot, WaitWork, WaitIdles, TakeWork
<1>3. CASE \E t \in Threads, p \in Pools : NewPool(t, p)
  BY <1>3 DEF NewPool
<1>4. CASE \E t \in Threads, a \in Actors : NewActor(t, a)
  BY <1>4 DEF NewActor, threadVars
<1>5. CASE \/ UNCHANGED vars \/ DeliverNext \/ EndBulk \/ MainReturns \/ Exited
           \/ \E h \in Threads : HostCloses(h)
  <2>1. UNCHANGED made
    BY <1>5 DEF vars, DeliverNext, EndBulk, MainReturns, Exited, HostCloses
  <2>. QED  BY <2>1
<1>. QED  BY <1>1, <1>2, <1>3, <1>4, <1>5 DEF Next

\* A pool once retired stays so.
LEMMA RetiredStay ==
    ASSUME [Next]_vars
    PROVE  retired \subseteq retired'
<1>1. ASSUME NEW t \in Threads, Program(t)
      PROVE  retired \subseteq retired'
  BY <1>1 DEF Program, Send, MintActor, MintTask, MintWaiter, Await, Answer, Watch, OnIdle, DeliverTo,
              HostOpens, ActorFaults, TaskFaults, TaskEnds, NewPool, NewActor, poolVars
<1>2. ASSUME NEW t \in Threads, Runtime(t)
      PROVE  retired \subseteq retired'
  BY <1>2 DEF Runtime, Resend, Park, ActorReturns, TaskReturns, TaskEnds, NextRetires,
              NextWork, NextSleeps, WaitGot, WaitWork, WaitIdles, TakeWork, poolVars
<1>. QED  BY <1>1, <1>2 DEF Next, vars, DeliverNext, DeliverTo, EndBulk, MainReturns, Exited,
                            HostCloses, poolVars

\* An actor that comes onto a stack comes from the ready queue of its thread's
\* pool.
LEMMA FramesComeFrom ==
    ASSUME TypeOK, FramesAreNested, WaitersExist, OwnRecords, [Next]_vars
    PROVE  \A u \in Threads : \A i \in DOMAIN stack'[u] :
             \/ i \in DOMAIN stack[u] /\ stack'[u][i].who = stack[u][i].who
             \/ stack'[u][i].who \notin Actors
             \/ stack'[u][i].who \in ToSet(readyQ[Serves[u]])
<1>. DEFINE Comes(u) == \A i \in DOMAIN stack'[u] :
             \/ i \in DOMAIN stack[u] /\ stack'[u][i].who = stack[u][i].who
             \/ stack'[u][i].who \notin Actors
             \/ stack'[u][i].who \in ToSet(readyQ[Serves[u]])
<1>1. ASSUME UNCHANGED stack
      PROVE  \A u \in Threads : Comes(u)
  BY <1>1
<1>2. ASSUME NEW t \in Threads, NEW w \in Wids \cup {0}, SetWid(t, w), stack[t] # <<>>
      PROVE  \A u \in Threads : Comes(u)
  <2>. PICK n : n = Len(stack[t])
    OBVIOUS
  <2>1. /\ \A u \in Threads : u # t => stack'[u] = stack[u]
        /\ n \in DOMAIN stack[t] /\ Top(t) = stack[t][n]
        /\ DOMAIN stack'[t] = DOMAIN stack[t]
        /\ \A i \in DOMAIN stack[t] : i # n => stack'[t][i] = stack[t][i]
        /\ stack'[t][n] = [who |-> Me(t), wid |-> w]
    BY <1>2, SetWidEffect, TopType
  <2>. QED  BY <2>1 DEF Me
<1>3. ASSUME NEW t \in Threads, NEW o \in Owners, Push(t, o),
             o \in Actors => o \in ToSet(readyQ[Serves[t]])
      PROVE  \A u \in Threads : Comes(u)
  <2>. PICK n : n = Len(stack[t])
    OBVIOUS
  <2>1. n \in Nat
    BY LenProperties DEF TypeOK
  <2>2. /\ \A u \in Threads : u # t => stack'[u] = stack[u]
        /\ DOMAIN stack[t] = 1 .. n /\ DOMAIN stack'[t] = 1 .. n + 1
        /\ \A i \in DOMAIN stack[t] : stack'[t][i] = stack[t][i]
        /\ stack'[t][n + 1] = Running(o)
    BY <1>3, PushEffect
  <2>3. stack'[t][n + 1].who = o
    BY <2>2 DEF Running
  <2>4. \A i \in DOMAIN stack'[t] : i \in DOMAIN stack[t] \/ i = n + 1
    BY <2>1, <2>2
  <2>. QED  BY <1>3, <2>2, <2>3, <2>4
<1>4. ASSUME NEW t \in Threads, TopEnds(t)
      PROVE  \A u \in Threads : Comes(u)
  <2>1. stack[t] # <<>> /\ Pop(t)
    BY <1>4, RunsHasFrame DEF TopEnds, Ends, Runs
  <2>2. /\ \A u \in Threads : u # t => stack'[u] = stack[u]
        /\ Len(stack[t]) \in Nat \ {0} /\ DOMAIN stack[t] = 1 .. Len(stack[t])
        /\ DOMAIN stack'[t] = 1 .. Len(stack[t]) - 1
        /\ \A i \in DOMAIN stack'[t] : stack'[t][i] = stack[t][i]
    BY <2>1, PopEffect
  <2>3. \A i \in DOMAIN stack'[t] : i \in DOMAIN stack[t]
    BY <2>2
  <2>. QED  BY <2>2, <2>3
<1>5. ASSUME NEW t \in Threads, NEW own, TakeWork(t, own)
      PROVE  \A u \in Threads : Comes(u)
  <2>1. CASE TakeTask(t)
    <3>1. PICK q \in Pools : q = Serves[t]
      BY ServesAPool
    <3>2. tasks[q] \in Seq(Slots) /\ tasks[q] # <<>> /\ Push(t, Head(tasks[q]))
      BY <2>1, <3>1 DEF TakeTask, TypeOK
    <3>3. Head(tasks[q]) \in Slots
      BY <3>2, HeadTailProperties
    <3>4. Head(tasks[q]) \in Owners /\ Head(tasks[q]) \notin Actors
      BY <3>3, ConstantsAssumption, NamesAreDistinct DEF Owners, Slots
    <3>. QED  BY <1>3, <3>2, <3>4
  <2>2. ASSUME NEW a \in Actors, NEW k \in DOMAIN queue[a], TakeEntryOf(t, own, a, k)
        PROVE  \A u \in Threads : Comes(u)
    <3>1. Push(t, a) /\ a \in Owners /\ \E j \in DOMAIN readyQ[Serves[t]] : readyQ[Serves[t]][j] = a
      BY <2>2 DEF TakeEntryOf, Owners
    <3>2. a \in ToSet(readyQ[Serves[t]])
      BY <3>1 DEF ToSet
    <3>. QED  BY <1>3, <3>1, <3>2
  <2>. QED  BY <1>5, <2>1, <2>2 DEF TakeWork, TakeEntry
<1>6. ASSUME NEW t \in Threads, NEW h \in Hosts, NEW c \in SUBSET Slots, HostOpens(t, h, c)
      PROVE  \A u \in Threads : Comes(u)
  <2>1. h \in Threads /\ h \in Owners /\ h \notin Actors /\ Push(h, h)
    BY <1>6, NamesAreDistinct DEF HostOpens, Threads, Owners
  <2>. QED  BY <1>3, <2>1
<1>7. ASSUME NEW t \in Threads, WaitGot(t)
      PROVE  \A u \in Threads : Comes(u)
  <2>1. SetWid(t, 0) /\ stack[t] # <<>>
    BY <1>7 DEF WaitGot, WaitLooks
  <2>. QED  BY <1>2, <2>1
<1>8. CASE Quietly \/ \E t \in Threads : WaitIdles(t)
  <2>1. UNCHANGED stack
    BY <1>8 DEF Quietly, WaitIdles
  <2>. QED  BY <1>1, <2>1
<1>9. ASSUME NEW t \in Threads, MintWaiter(t)
      PROVE  \A u \in Threads : Comes(u)
  <2>1. \E w \in Wids : SetWid(t, w) /\ stack[t] # <<>>
    BY <1>9, MintWaiterEffect
  <2>. QED  BY <1>2, <2>1
<1>10. \A u \in Threads : Comes(u)
  <2>1. ASSUME NEW t \in Threads, NextWork(t) \/ WaitWork(t)
        PROVE  \A u \in Threads : Comes(u)
    BY <1>5, <2>1 DEF NextWork, WaitWork
  <2>. QED  BY <1>4, <1>6, <1>7, <1>8, <1>9, <2>1, StepKinds
<1>. QED  BY <1>10

\* So every actor runs on a thread of its own pool.
LEMMA AtHomeStep ==
    ASSUME TypeOK, FramesAreNested, WaitersExist, OwnRecords, QueuesInv, AtHome, [Next]_vars
    PROVE  AtHome'
<1>1. \A p \in Pools : \A a \in ToSet(readyQ[p]) : Home[a] = p
  BY DEF QueuesInv, EntriesAreGood, ToSet
<1>. QED  BY <1>1, FramesComeFrom, ServesAPool DEF AtHome

\* Where the tokens are aimed and the messages go, after a step, there was
\* something before; and so where work is queued.
PlacesStand == /\ \A s \in Slots : target'[s] \in made \cup Wids
               /\ \A t \in Threads : sending'[t].to \in made \cup {Nobody}
WorkStands == \A p \in Pools : /\ ToSet(readyQ'[p]) \subseteq made
                               /\ tasks'[p] # <<>> => p \in made

\* An actor that is marked ready has been made.
LEMMA MarkStands ==
    ASSUME TypeOK, Founded, NEW b \in Actors, b \in made, MarkReady(b), UNCHANGED tasks
    PROVE  WorkStands
<1>. PICK h \in Pools : h = Home[b]
  BY ConstantsAssumption
<1>1. CASE readyQ' = [readyQ EXCEPT ![h] = Append(@, b)]
  <2>1. ToSet(readyQ'[h]) = ToSet(readyQ[h]) \cup {b}
    BY <1>1, ToSetAppend DEF TypeOK
  <2>2. \A q \in Pools : q # h => readyQ'[q] = readyQ[q]
    BY <1>1 DEF TypeOK
  <2>. QED  BY <2>1, <2>2 DEF Founded, WorkStands
<1>2. CASE UNCHANGED readyQ
  BY <1>2 DEF Founded, WorkStands
<1>. QED  BY <1>1, <1>2 DEF MarkReady

\* So has whoever a token is delivered to.
LEMMA DeliveryStands ==
    ASSUME TypeOK, Founded, NEW s \in Slots, DeliverTo(s)
    PROVE  WorkStands
<1>0. Wids \cap (Actors \cup Pools) = {}
  BY ConstantsAssumption, NamesAreDistinct DEF Wids
<1>1. CASE DeliverToActor(s)
  <2>1. target[s] \in Actors /\ MarkReady(target[s]) /\ UNCHANGED tasks
    BY <1>1, MarkedAndWoken DEF DeliverToActor
  <2>2. target[s] \in made
    BY <1>0, <2>1 DEF Founded
  <2>. QED  BY <2>1, <2>2, MarkStands
<1>2. CASE DeliverToWaiter(s)
  BY <1>2 DEF DeliverToWaiter, WorkStands, Founded
<1>3. CASE DeliverToTask(s)
  <2>1. /\ target[s] \in Pools /\ UNCHANGED readyQ
        /\ tasks' = [tasks EXCEPT ![target[s]] = Append(@, s)]
    BY <1>3 DEF DeliverToTask
  <2>2. target[s] \in made
    BY <1>0, <2>1 DEF Founded
  <2>3. \A p \in Pools : p # target[s] => tasks'[p] = tasks[p]
    BY <2>1 DEF TypeOK
  <2>. QED  BY <2>1, <2>2, <2>3 DEF WorkStands, Founded
<1>. QED  BY <1>1, <1>2, <1>3 DEF DeliverTo

\* And the sink a fault is reported to.
LEMMA SinkStands ==
    ASSUME TypeOK, Founded, NEW p \in Pools, p \in made, LiveSink(p) # {}
    PROVE  Sink[p] \in Actors /\ Sink[p] \in made
<1>1. Sink[p] \in Actors /\ Sink[p] # Nobody
  BY LiveSinkIsActor, NamesAreDistinct
<1>. QED  BY <1>1 DEF Founded

\* What runs, runs on a pool there is.
LEMMA RunnersStand ==
    ASSUME TypeOK, FramesAreNested, Founded, NEW t \in Threads, pc[t] = "run"
    PROVE  /\ Serves[t] \in Pools /\ Serves[t] \in made
           /\ Me(t) \in Actors => Me(t) \in made /\ Home[Me(t)] \in Pools /\ Home[Me(t)] \in made
<1>1. Serves[t] \in Pools /\ Serves[t] \in made
  <2>1. t \in Workers \/ Serves[t] = MainPool
    BY ConstantsAssumption DEF Threads
  <2>. QED  BY <2>1, ServesAPool DEF Founded, FramesAreNested
<1>2. Len(stack[t]) \in DOMAIN stack[t] /\ Top(t) = stack[t][Len(stack[t])]
  BY RunsHasFrame, TopType
<1>3. Me(t) \in Actors => Me(t) \in made
  BY <1>2 DEF Founded, Me
<1>4. \A a \in Actors : Home[a] \in Pools
  BY ConstantsAssumption
<1>. QED  BY <1>1, <1>3, <1>4 DEF Founded

\* No step sends to what is not there, or aims a reply at it.
LEMMA PlacesStandStep ==
    ASSUME TypeOK, FramesAreNested, Founded, [Next]_vars
    PROVE  PlacesStand
<1>1. ASSUME UNCHANGED <<target, sending>> PROVE PlacesStand
  BY <1>1 DEF PlacesStand, Founded
<1>2. ASSUME NEW t \in Threads, NEW a \in made, NEW s, Enqueue(t, a, s), UNCHANGED target
      PROVE  PlacesStand
  <2>1. \/ sending' = [sending EXCEPT ![t] = NotSending]
        \/ sending' = [sending EXCEPT ![t] = [to |-> a, tok |-> s]]
    BY <1>2 DEF Enqueue
  <2>2. \A u \in Threads : sending'[u] = sending[u] \/ sending'[u].to \in {a, Nobody}
    BY <2>1 DEF TypeOK, NotSending
  <2>. QED  BY <1>2, <2>2 DEF PlacesStand, Founded
<1>3. ASSUME NEW t \in Threads, NEW x \in made \cup Wids, NEW to, NEW c, Mint(t, x, to, c),
             UNCHANGED sending
      PROVE  PlacesStand
  <2>1. target' = [target EXCEPT ![nextSlot + 1] = x]
    BY <1>3 DEF Mint
  <2>2. \A s \in Slots : target'[s] = target[s] \/ target'[s] = x
    BY <2>1 DEF TypeOK
  <2>. QED  BY <1>3, <2>2 DEF PlacesStand, Founded
<1>4. ASSUME NEW t \in Threads, Program(t)
      PROVE  PlacesStand
  <2>1. ASSUME NEW a \in Actors, NEW s \in Slots \cup {0}, Send(t, a, s)
        PROVE  PlacesStand
    BY <1>2, <2>1 DEF Send
  <2>2. ASSUME NEW gated \in BOOLEAN, MintActor(t, gated)
        PROVE  PlacesStand
    <3>1. Mint(t, Me(t), Me(t), {}) /\ Me(t) \in Actors /\ pc[t] = "run" /\ UNCHANGED sending
      BY <2>2 DEF MintActor, Runs, threadVars
    <3>2. Me(t) \in made
      BY <3>1, RunnersStand
    <3>. QED  BY <1>3, <3>1, <3>2
  <2>3. ASSUME NEW p \in Pools, NEW c \in SUBSET Slots, MintTask(t, p, c)
        PROVE  PlacesStand
    BY <1>3, <2>3 DEF MintTask, threadVars
  <2>4. CASE MintWaiter(t)
    <3>1. \E w \in Wids : Mint(t, w, Serves[t], {})
      BY <2>4 DEF MintWaiter
    <3>2. UNCHANGED sending
      BY <2>4 DEF MintWaiter
    <3>. QED  BY <1>3, <3>1, <3>2
  <2>5. CASE \/ \E s \in Slots : Answer(t, s) \/ OnIdle(t, s)
             \/ \E a \in Actors, s \in Slots : Watch(t, a, s)
             \/ \E p \in Pools : NewPool(t, p)
             \/ \E a \in Actors : NewActor(t, a)
             \/ \E h \in Hosts, c \in SUBSET Slots : HostOpens(t, h, c)
             \/ ActorFaults(t) \/ TaskFaults(t) \/ Await(t)
    <3>1. UNCHANGED <<target, sending>>
      BY <2>5 DEF Answer, OnIdle, Watch, NewPool, NewActor, HostOpens, ActorFaults, TaskFaults,
                  TaskEnds, Ends, Await, tokenVars, threadVars
    <3>. QED  BY <1>1, <3>1
  <2>. QED  BY <1>4, <2>1, <2>2, <2>3, <2>4, <2>5 DEF Program
<1>5. ASSUME NEW t \in Threads, Runtime(t)
      PROVE  PlacesStand
  <2>1. CASE Resend(t)
    <3>1. /\ Enqueue(t, sending[t].to, sending[t].tok) /\ UNCHANGED target
          /\ pc[t] = "send"
      BY <2>1 DEF Resend, tokenVars
    <3>2. sending[t].to \in made
      BY <3>1, NamesAreDistinct DEF Founded, FramesAreNested, NestedOn
    <3>. QED  BY <1>2, <3>1, <3>2
  <2>2. CASE ~Resend(t)
    <3>1. UNCHANGED <<target, sending>>
      BY <1>5, <2>2 DEF Runtime, Park, ActorReturns, TaskReturns, TaskEnds, Ends, NextRetires,
                        NextWork, NextSleeps, WaitGot, WaitWork, WaitIdles, TakeWork, tokenVars
    <3>. QED  BY <1>1, <3>1
  <2>. QED  BY <2>1, <2>2
<1>6. CASE \/ UNCHANGED vars \/ DeliverNext \/ EndBulk \/ MainReturns \/ Exited
           \/ \E h \in Threads : HostCloses(h)
  <2>1. UNCHANGED <<target, sending>>
    BY <1>6 DEF vars, DeliverNext, EndBulk, MainReturns, Exited, HostCloses, tokenVars, threadVars
  <2>. QED  BY <1>1, <2>1
<1>. QED  BY <1>4, <1>5, <1>6 DEF Next

\* No step queues work where nobody is.
LEMMA WorkStandsStep ==
    ASSUME TypeOK, FramesAreNested, Founded, [Next]_vars
    PROVE  WorkStands
<1>1. ASSUME UNCHANGED <<readyQ, tasks>> PROVE WorkStands
  BY <1>1 DEF WorkStands, Founded
<1>2. ASSUME NEW t \in Threads, NEW a \in Actors, a \in made, NEW s, Enqueue(t, a, s), UNCHANGED tasks
      PROVE  WorkStands
  <2>1. UNCHANGED readyQ \/ MarkReady(a)
    BY <1>2, MarkedAndWoken DEF Enqueue
  <2>. QED  BY <1>1, <1>2, <2>1, MarkStands
<1>3. ASSUME NEW t \in Threads, ActorReturns(t) \/ ActorFaults(t) \/ TaskReturns(t) \/ TaskFaults(t)
      PROVE  WorkStands
  <2>1. CASE ActorReturns(t)
    <3>1. pc[t] = "run" /\ Me(t) \in Actors /\ MarkReady(Me(t)) /\ UNCHANGED tasks
      BY <2>1 DEF ActorReturns, Runs
    <3>. QED  BY <3>1, RunnersStand, MarkStands
  <2>2. CASE ActorFaults(t)
    <3>1. pc[t] = "run" /\ Me(t) \in Actors /\ UNCHANGED tasks
      BY <2>2 DEF ActorFaults, Does, Runs
    <3>2. Me(t) \in made /\ Home[Me(t)] \in Pools /\ Home[Me(t)] \in made
      BY <3>1, RunnersStand
    <3>3. \/ UNCHANGED readyQ
          \/ LiveSink(Home[Me(t)]) # {} /\ MarkReady(Sink[Home[Me(t)]])
      BY <2>2, MarkedAndWoken DEF ActorFaults
    <3>. QED  BY <1>1, <3>1, <3>2, <3>3, SinkStands, MarkStands
  <2>3. ASSUME NEW S, TaskEnds(t, S), S \in {{}, LiveSink(Serves[t])}
        PROVE  WorkStands
    <3>1. pc[t] = "run" /\ UNCHANGED tasks
      BY <2>3 DEF TaskEnds, Ends, Runs
    <3>2. Serves[t] \in Pools /\ Serves[t] \in made
      BY <3>1, RunnersStand
    <3>3. \/ UNCHANGED readyQ
          \/ LiveSink(Serves[t]) # {} /\ MarkReady(Sink[Serves[t]])
      BY <2>3, MarkedAndWoken DEF TaskEnds
    <3>. QED  BY <1>1, <3>1, <3>2, <3>3, SinkStands, MarkStands
  <2>. QED  BY <1>3, <2>1, <2>2, <2>3 DEF TaskReturns, TaskFaults
<1>4. ASSUME NEW t \in Threads, Program(t)
      PROVE  WorkStands
  <2>1. ASSUME NEW a \in Actors, NEW s \in Slots \cup {0}, Send(t, a, s)
        PROVE  WorkStands
    BY <1>2, <2>1 DEF Send
  <2>2. CASE \/ \E gated \in BOOLEAN : MintActor(t, gated)
             \/ \E p \in Pools, c \in SUBSET Slots : MintTask(t, p, c)
             \/ MintWaiter(t) \/ Await(t)
             \/ \E s \in Slots : OnIdle(t, s)
             \/ \E p \in Pools : NewPool(t, p)
             \/ \E a \in Actors : NewActor(t, a)
             \/ \E h \in Hosts, c \in SUBSET Slots : HostOpens(t, h, c)
    <3>1. UNCHANGED <<readyQ, tasks>>
      BY <2>2 DEF MintActor, MintTask, MintWaiter, Await, OnIdle, NewPool, NewActor, HostOpens, poolVars
    <3>. QED  BY <1>1, <3>1
  <2>3. CASE \/ \E s \in Slots : Answer(t, s)
             \/ \E a \in Actors, s \in Slots : Watch(t, a, s)
    <3>1. UNCHANGED <<readyQ, tasks>> \/ \E s \in Slots : DeliverTo(s)
      BY <2>3 DEF Answer, Watch, poolVars
    <3>. QED  BY <1>1, <3>1, DeliveryStands
  <2>. QED  BY <1>3, <1>4, <2>1, <2>2, <2>3 DEF Program
<1>5. ASSUME NEW t \in Threads, NEW own, TakeWork(t, own)
      PROVE  WorkStands
  <2>. PICK p \in Pools : p = Serves[t]
    BY ServesAPool
  <2>1. CASE TakeTask(t)
    <3>1. tasks[p] # <<>> /\ tasks' = [tasks EXCEPT ![p] = Tail(@)] /\ UNCHANGED readyQ
      BY <2>1 DEF TakeTask
    <3>2. \A q \in Pools : q # p => tasks'[q] = tasks[q]
      BY <3>1 DEF TypeOK
    <3>. QED  BY <3>1, <3>2 DEF WorkStands, Founded
  <2>2. ASSUME NEW a \in Actors, NEW k \in DOMAIN queue[a], TakeEntryOf(t, own, a, k)
        PROVE  WorkStands
    <3>1. PICK j \in DOMAIN readyQ[p] : readyQ' = [readyQ EXCEPT ![p] = SubSeq(@, j + 1, Len(@))]
      BY <2>2 DEF TakeEntryOf
    <3>2. UNCHANGED tasks
      BY <2>2 DEF TakeEntryOf
    <3>3. \A q \in Pools : q # p => readyQ'[q] = readyQ[q]
      BY <3>1 DEF TypeOK
    <3>4. ToSet(readyQ'[p]) \subseteq ToSet(readyQ[p])
      <4>1. readyQ[p] \in Seq(Actors) /\ readyQ'[p] = SubSeq(readyQ[p], j + 1, Len(readyQ[p]))
        BY <3>1 DEF TypeOK
      <4>. QED  BY <4>1 DEF ToSet
    <3>. QED  BY <3>2, <3>3, <3>4 DEF WorkStands, Founded
  <2>. QED  BY <1>5, <2>1, <2>2 DEF TakeWork, TakeEntry
<1>6. ASSUME NEW t \in Threads, NEW own, NoWork(Serves[t], own), UNCHANGED tasks
      PROVE  WorkStands
  <2>1. \A q \in Pools : readyQ'[q] = readyQ[q] \/ readyQ'[q] = <<>>
    BY <1>6 DEF NoWork, TypeOK
  <2>. QED  BY <1>6, <2>1 DEF WorkStands, Founded, ToSet
<1>7. ASSUME NEW t \in Threads, Runtime(t)
      PROVE  WorkStands
  <2>1. CASE Resend(t)
    <3>1. /\ Enqueue(t, sending[t].to, sending[t].tok) /\ UNCHANGED tasks
          /\ pc[t] = "send"
      BY <2>1 DEF Resend
    <3>2. sending[t].to \in made /\ sending[t].to \in Actors
      BY <3>1, NamesAreDistinct DEF Founded, FramesAreNested, NestedOn
    <3>. QED  BY <1>2, <3>1, <3>2
  <2>2. CASE Park(t) \/ NextRetires(t) \/ WaitGot(t)
    BY <1>1, <2>2 DEF Park, NextRetires, WaitGot, poolVars
  <2>3. CASE NextWork(t) \/ WaitWork(t)
    BY <1>5, <2>3 DEF NextWork, WaitWork
  <2>4. CASE NextSleeps(t) \/ WaitIdles(t)
    BY <1>6, <2>4 DEF NextSleeps, WaitIdles
  <2>. QED  BY <1>3, <1>7, <2>1, <2>2, <2>3, <2>4 DEF Runtime
<1>8. CASE DeliverNext
  <2>1. bulk.tokens # <<>> /\ bulk.tokens \in Seq(Slots) /\ DeliverTo(Head(bulk.tokens))
    BY <1>8 DEF DeliverNext, TypeOK, BulkRec
  <2>. QED  BY <2>1, DeliveryStands
<1>9. CASE \/ UNCHANGED vars \/ EndBulk \/ MainReturns \/ Exited
           \/ \E h \in Threads : HostCloses(h)
  <2>1. UNCHANGED <<readyQ, tasks>>
    BY <1>9 DEF vars, EndBulk, MainReturns, Exited, HostCloses, poolVars
  <2>. QED  BY <1>1, <2>1
<1>. QED  BY <1>4, <1>7, <1>8, <1>9 DEF Next

\* All of it stays made.
LEMMA FoundedStep ==
    ASSUME TypeOK, FramesAreNested, WaitersExist, OwnRecords, Founded, [Next]_vars
    PROVE  Founded'
<1>1. /\ made \subseteq made'
      /\ \A x \in made' \ made :
           \/ x \in Actors /\ Home[x] \in made
           \/ x \in Pools /\ Sink[x] \in made \cup {Nobody}
  BY MadeKinds
<1>2. PlacesStand /\ WorkStands
  BY PlacesStandStep, WorkStandsStep
<1>3. \A a \in Actors \cap made' : Home[a] \in made'
  BY <1>1, NamesAreDistinct DEF Founded
<1>4. \A p \in Pools \cap made' : Sink[p] \in made' \cup {Nobody}
  BY <1>1, NamesAreDistinct DEF Founded
<1>5. \A t \in Threads : \A i \in DOMAIN stack'[t] :
        stack'[t][i].who \in Actors => stack'[t][i].who \in made'
  BY <1>1, FramesComeFrom, ServesAPool DEF Founded
<1>6. \A p \in Pools : ToSet(readyQ'[p]) \subseteq made' /\ (tasks'[p] # <<>> => p \in made')
  BY <1>1, <1>2 DEF WorkStands
<1>7. /\ \A s \in Slots : target'[s] \in made' \cup Wids
      /\ \A t \in Threads : sending'[t].to \in made' \cup {Nobody}
  BY <1>1, <1>2 DEF PlacesStand
<1>8. MainPool \in made'
  BY <1>1 DEF Founded
<1>. QED  BY <1>3, <1>4, <1>5, <1>6, <1>7, <1>8 DEF Founded

(***************************************************************************)
(* Work is never left with nobody awake to take it.                        *)
(***************************************************************************)
\* The threads of a pool end only with it.
LEMMA CrewedStep ==
    ASSUME TypeOK, FramesAreNested, WaitersExist, AtHome, Crewed, Founded, [Next]_vars
    PROVE  Crewed'
<1>1. \A u \in Threads : Shifts(u)
  BY StepShifts
<1>2. Dozes
  BY StepStirs
<1>3. retired \subseteq retired'
  BY RetiredStay
<1>4. Workers \cup {Main} \subseteq Threads /\ Main \notin Hosts /\ Workers \cap Hosts = {}
  BY NamesAreDistinct DEF Threads
<1>5. \A u \in Workers \cup {Main} : Serves[u] \in made' => pc'[u] # "unborn"
  <2>1. SUFFICES ASSUME NEW u \in Workers \cup {Main}, Serves[u] \in made'
                 PROVE  pc'[u] # "unborn"
    OBVIOUS
  <2>2. CASE Serves[u] \in made
    BY <1>1, <1>4, <2>2 DEF Crewed, Shifts, Alive
  <2>3. CASE Serves[u] \notin made
    <3>1. Serves[u] \in Pools /\ Serves[u] \notin Actors
      BY <1>4, ServesAPool, NamesAreDistinct
    <3>2. pc' = [v \in Threads |-> IF v \in Workers /\ Serves[v] = Serves[u] THEN "look" ELSE pc[v]]
      BY <2>1, <2>3, <3>1, MadeKinds
    <3>3. u \in Workers
      BY <2>1, <2>3, ConstantsAssumption DEF Founded
    <3>. QED  BY <1>4, <3>2, <3>3
  <2>. QED  BY <2>2, <2>3
<1>6. \A u \in Threads : pc'[u] = "done" => u \in Hosts \/ Serves[u] \in retired'
  BY <1>1, <1>3 DEF Crewed, Shifts, Alive
<1>7. \A p \in Pools : \A u \in ToSet(idle'[p]) :
        Serves[u] = p /\ pc'[u] # "unborn" /\ (pc'[u] = "done" => p \in retired')
  <2>1. SUFFICES ASSUME NEW p \in Pools, NEW u \in ToSet(idle'[p])
                 PROVE  Serves[u] = p /\ pc'[u] # "unborn" /\ (pc'[u] = "done" => p \in retired')
    OBVIOUS
  <2>2. u \in Threads /\ idle'[p] # <<>>
    <3>1. idle'[p] \in Seq(Threads)
      BY StepType DEF TypeOK
    <3>. QED  BY <2>1, <3>1, ToSetSeq DEF ToSet
  <2>3. CASE u \in ToSet(idle[p])
    <3>1. Serves[u] = p /\ pc[u] # "unborn" /\ (pc[u] = "done" => p \in retired)
      BY <2>3 DEF Crewed
    <3>. QED  BY <1>1, <1>3, <2>2, <3>1 DEF Shifts, Alive
  <2>4. CASE Serves[u] = p /\ pc[u] = "look" /\ pc'[u] = "park"
    BY <2>4
  <2>. QED  BY <1>2, <2>1, <2>3, <2>4 DEF Dozes
<1>. QED  BY <1>5, <1>6, <1>7 DEF Crewed

\* A pool that is made has a thread: main's pool main's, any other a worker.
Staffed == \A p \in Pools \ {MainPool} : \E t \in Workers : Serves[t] = p
Awake(t) == Alive(t) /\ ~Unemployed(t)

\* While a pool has work queued, some thread of it is under way and not asleep
\* for want of work.
WorkHasAThread ==
    \A p \in Pools \cap made : Busy(p) /\ p \notin retired
        => \E t \in Threads : Serves[t] = p /\ Awake(t)

\* A pool nobody sleeps on has somebody awake.
LEMMA NobodySleeps ==
    ASSUME Staffed, SleepersAreListed', Crewed', NEW p \in Pools, p \in made',
           p \notin retired', idle'[p] = <<>>
    PROVE  \E t \in Threads : Serves[t] = p /\ Awake(t)'
<1>1. PICK t \in Workers \cup {Main} : Serves[t] = p
  BY ConstantsAssumption DEF Staffed, Threads
<1>2. t \in Threads /\ t \notin Hosts
  BY NamesAreDistinct DEF Threads
<1>3. Alive(t)'
  BY <1>1, <1>2 DEF Crewed, Alive
<1>4. ~Unemployed(t)'
  BY <1>1, <1>2 DEF SleepersAreListed, Unemployed, ToSet
<1>. QED  BY <1>1, <1>2, <1>3, <1>4 DEF Awake

\* Work finds somebody awake, or wakes somebody, and nobody falls asleep on it.
LEMMA WorkStep ==
    ASSUME TypeOK, FramesAreNested, WaitersExist, AtHome, Crewed, Founded, Listed, WorkHasAThread,
           Staffed, [Next]_vars
    PROVE  WorkHasAThread'
<1>1. SUFFICES ASSUME NEW p \in Pools, p \in made', Busy(p)', p \notin retired'
               PROVE  \E t \in Threads : Serves[t] = p /\ Awake(t)'
  BY DEF WorkHasAThread
<1>2. /\ \A u \in Threads : Shifts(u)
      /\ Wakes(p) /\ p \notin retired
      /\ Crewed' /\ SleepersAreListed'
  BY <1>1, StepShifts, StepStirs, RetiredStay, CrewedStep, ListedAll DEF Listed
<1>3. ASSUME idle'[p] = <<>>
      PROVE  \E t \in Threads : Serves[t] = p /\ Awake(t)'
  BY <1>1, <1>2, <1>3, NobodySleeps
\* A thread of the pool that is alive stays so, or the last host closes.
<1>4. ASSUME NEW u \in Threads, Serves[u] = p, Alive(u), idle'[p] # <<>>
      PROVE  Alive(u)' /\ (pc'[u] = "park" => pc[u] = "park")
  BY <1>1, <1>2, <1>4 DEF Shifts, Alive
<1>5. CASE p \notin made
  <2>1. p \notin Actors /\ p # MainPool
    BY <1>5, NamesAreDistinct DEF Founded
  <2>2. PICK t \in Workers : Serves[t] = p
    BY <2>1 DEF Staffed
  <2>3. t \in Threads
    BY DEF Threads
  <2>4. pc' = [u \in Threads |-> IF u \in Workers /\ Serves[u] = p THEN "look" ELSE pc[u]]
    BY <1>1, <1>5, <2>1, MadeKinds
  <2>5. pc'[t] = "look"
    BY <2>2, <2>3, <2>4
  <2>. QED  BY <2>2, <2>3, <2>5 DEF Awake, Alive, Unemployed
<1>6. CASE p \in made /\ Busy(p) /\ idle'[p] # <<>>
  <2>1. PICK u \in Threads : Serves[u] = p /\ Alive(u) /\ ~Unemployed(u)
    BY <1>2, <1>6 DEF WorkHasAThread, Awake
  <2>2. Alive(u)' /\ (pc'[u] = "park" => pc[u] = "park")
    BY <1>4, <1>6, <2>1
  <2>3. ~Unemployed(u)'
    BY <2>1, <2>2, PermitsStay DEF Unemployed
  <2>. QED  BY <2>1, <2>2, <2>3 DEF Awake
<1>7. CASE idle[p] # <<>> /\ Head(idle[p]) \in permit' /\ idle'[p] # <<>>
  <2>. PICK u : u = Head(idle[p])
    OBVIOUS
  <2>1. u \in Threads /\ u \in ToSet(idle[p])
    BY <1>7, HeadTailProperties, ToSetTail DEF TypeOK
  <2>2. Serves[u] = p /\ Alive(u)
    BY <1>2, <2>1 DEF Crewed, Alive
  <2>3. Alive(u)' /\ ~Unemployed(u)'
    BY <1>4, <1>7, <2>1, <2>2 DEF Unemployed
  <2>. QED  BY <2>1, <2>2, <2>3 DEF Awake
<1>8. CASE \E u \in Threads : Serves[u] = p /\ pc'[u] = "look"
  BY <1>8 DEF Awake, Alive, Unemployed
<1>. QED  BY <1>2, <1>3, <1>5, <1>6, <1>7, <1>8 DEF Wakes

(***************************************************************************)
(* Every wait that is counted is on a stack, and every stack is waits.     *)
(***************************************************************************)
\* All frames of a stack but the top one have begun to wait, and that one too
\* on a thread asleep in it; a wait that has begun is some frame's; main's own
\* code is at the bottom of its stack.
Begun == \A t \in Threads : \A i \in DOMAIN stack[t] :
            i < Len(stack[t]) \/ pc[t] = "park" => Waiting(t, i)
BookedIsOwned == \A v \in DOMAIN waiters : waiters[v].waiting > 0
                   => \E t \in Threads : \E i \in DOMAIN stack[t] : stack[t][i].wid = v
MainRooted == stack[Main] # <<>> /\ stack[Main][1].who = Main

\* A step of one thread that leaves the frames under its top waiting.
LEMMA BegunTouches ==
    ASSUME TypeOK, WaitersExist, Begun, NEW t \in Threads, NEW w, Touches(t, w),
           \A i \in DOMAIN stack'[t] : i < Len(stack'[t]) \/ pc'[t] = "park" => Waiting(t, i)'
    PROVE  Begun'
<1>1. \A u \in Threads : u # t => /\ stack'[u] = stack[u] /\ pc'[u] = pc[u]
                                  /\ \A i \in DOMAIN stack[u] : Waiting(u, i)' <=> Waiting(u, i)
  BY OthersStay
<1>. QED  BY <1>1 DEF Begun

\* A step of one thread that keeps the records of its frames, but for the one
\* it writes to.
LEMMA OwnedTouches ==
    ASSUME TypeOK, WaitersExist, BookedIsOwned, NEW t \in Threads, NEW w, Touches(t, w),
           DOMAIN waiters' \subseteq DOMAIN waiters \cup {w},
           \A i \in DOMAIN stack[t] : stack[t][i].wid # 0 /\ stack[t][i].wid # w /\ Waiting(t, i)
             => i \in DOMAIN stack'[t] /\ stack'[t][i].wid = stack[t][i].wid,
           w \in DOMAIN waiters' /\ waiters'[w].waiting > 0
             => \E i \in DOMAIN stack'[t] : stack'[t][i].wid = w
    PROVE  BookedIsOwned'
<1>1. SUFFICES ASSUME NEW v \in DOMAIN waiters', waiters'[v].waiting > 0
               PROVE  \E u \in Threads : \E i \in DOMAIN stack'[u] : stack'[u][i].wid = v
  BY DEF BookedIsOwned
<1>2. CASE v = w
  BY <1>1, <1>2
<1>3. CASE v # w
  <2>1. v \in DOMAIN waiters /\ waiters[v].waiting > 0 /\ v # 0
    <3>1. DOMAIN waiters = 1 .. Len(waiters) /\ Len(waiters) \in Nat
      BY LenProperties DEF TypeOK
    <3>. QED  BY <1>1, <1>3, <3>1 DEF Touches
  <2>2. PICK u \in Threads : \E i \in DOMAIN stack[u] : stack[u][i].wid = v
    BY <2>1 DEF BookedIsOwned
  <2>3. PICK i \in DOMAIN stack[u] : stack[u][i].wid = v
    BY <2>2
  <2>4. CASE u = t
    BY <1>3, <2>1, <2>3, <2>4 DEF Waiting
  <2>5. CASE u # t
    BY <2>3, <2>5 DEF Touches
  <2>. QED  BY <2>4, <2>5
<1>. QED  BY <1>2, <1>3

\* What a push leaves: the frames below, all of them waiting.
LEMMA BegunPush ==
    ASSUME TypeOK, WaitersExist, Begun, BookedIsOwned, NEW t \in Threads, NEW w, Touches(t, w),
           NEW o \in Owners, Push(t, o), pc'[t] = "run", DOMAIN waiters' = DOMAIN waiters,
           w = 0 \/ (stack[t] # <<>> /\ w = Top(t).wid /\ waiters'[w].waiting > 0),
           \A i \in DOMAIN stack[t] : i # Len(stack[t]) => (Waiting(t, i)' <=> Waiting(t, i)),
           NEW n, n = Len(stack[t]), stack[t] # <<>> => Waiting(t, n)'
    PROVE  Begun' /\ BookedIsOwned'
<1>1. /\ n \in Nat /\ DOMAIN stack[t] = 1 .. n
      /\ DOMAIN stack'[t] = 1 .. n + 1 /\ Len(stack'[t]) = n + 1
      /\ \A i \in DOMAIN stack[t] : stack'[t][i] = stack[t][i]
  BY PushEffect, LenProperties DEF TypeOK
<1>2. \A i \in 1 .. n : Waiting(t, i)'
  <2>1. \A i \in 1 .. n : i # n => i < n /\ Waiting(t, i)
    BY <1>1 DEF Begun
  <2>2. n \in 1 .. n => stack[t] # <<>>
    BY <1>1
  <2>3. \A i \in 1 .. n : i # n => Waiting(t, i)'
    BY <1>1, <2>1
  <2>. QED  BY <2>2, <2>3
<1>3. \A i \in DOMAIN stack'[t] : i < Len(stack'[t]) \/ pc'[t] = "park" => Waiting(t, i)'
  BY <1>1, <1>2
<1>4. \A i \in DOMAIN stack[t] : i \in DOMAIN stack'[t] /\ stack'[t][i].wid = stack[t][i].wid
  BY <1>1
<1>5. w \in DOMAIN waiters' => \E i \in DOMAIN stack'[t] : stack'[t][i].wid = w
  <2>1. DOMAIN waiters = 1 .. Len(waiters) /\ Len(waiters) \in Nat
    BY LenProperties DEF TypeOK
  <2>2. stack[t] # <<>> => n \in DOMAIN stack[t] /\ Top(t) = stack[t][n]
    BY TopType
  <2>. QED  BY <1>4, <2>1, <2>2
<1>6. Begun'
  BY <1>3, BegunTouches
<1>7. DOMAIN waiters' \subseteq DOMAIN waiters \cup {w}
  OBVIOUS
<1>8. BookedIsOwned'
  BY <1>4, <1>5, <1>7, OwnedTouches
<1>. QED  BY <1>6, <1>8

\* The waits stay on the stacks.
LEMMA WaitsStep ==
    ASSUME TypeOK, FramesAreNested, WaitersExist, OwnRecords, RunnersDoNotWait, Begun, BookedIsOwned,
           [Next]_vars
    PROVE  Begun' /\ BookedIsOwned'
<1>1. CASE Quietly
  <2>1. \A u \in Threads : \A i \in DOMAIN stack[u] : Waiting(u, i)' <=> Waiting(u, i)
    BY <1>1, QuietWaits
  <2>2. /\ UNCHANGED stack /\ DOMAIN waiters' = DOMAIN waiters
        /\ \A v \in DOMAIN waiters : waiters'[v].waiting = waiters[v].waiting
        /\ \A u \in Threads : pc'[u] = "park" => pc[u] = "park" \/ stack[u] = <<>>
    BY <1>1 DEF Quietly
  <2>3. \A u \in Threads : stack[u] = <<>> => DOMAIN stack[u] = {}
    OBVIOUS
  <2>4. Begun'
    BY <2>1, <2>2, <2>3 DEF Begun
  <2>5. BookedIsOwned'
    BY <2>2 DEF BookedIsOwned
  <2>. QED  BY <2>4, <2>5
<1>2. ASSUME NEW t \in Threads, MintWaiter(t)
      PROVE  Begun' /\ BookedIsOwned'
  <2>1. PICK w \in Wids :
             /\ stack[t] # <<>> /\ Top(t).wid = 0 /\ SetWid(t, w)
             /\ \A u \in Threads : \A i \in DOMAIN stack[u] : stack[u][i].wid # w
             /\ waiters'[w].waiting = 0
             /\ \A v \in DOMAIN waiters : v # w => waiters'[v] = waiters[v]
    BY <1>2, MintWaiterEffect
  <2>. PICK n : n = Len(stack[t])
    OBVIOUS
  <2>a. w \in Wids \cup {0}
    OBVIOUS
  <2>b. stack'[t][n] = [who |-> Me(t), wid |-> w]
    BY <2>1, <2>a, SetWidEffect
  <2>c. stack'[t][n].wid = w
    BY <2>b
  <2>2. /\ Len(stack'[t]) = n /\ n \in DOMAIN stack[t] /\ Top(t) = stack[t][n]
        /\ DOMAIN stack'[t] = DOMAIN stack[t] /\ n \in Nat \ {0} /\ DOMAIN stack[t] = 1 .. n
        /\ \A i \in DOMAIN stack[t] : i # n => stack'[t][i] = stack[t][i]
    BY <2>1, <2>a, SetWidEffect, TopType
  <2>3. Touches(t, w)
    BY <1>2, <2>1, MintTouches
  <2>4. pc'[t] = "run"
    BY <1>2 DEF MintWaiter, Does, Runs
  <2>5. \A i \in DOMAIN stack[t] : i # n => (Waiting(t, i)' <=> Waiting(t, i))
    BY <2>1, <2>2 DEF Waiting, WaitersExist
  <2>6. \A i \in DOMAIN stack'[t] : i < n => Waiting(t, i)'
    BY <2>2, <2>5 DEF Begun
  <2>7. Begun'
    BY <2>2, <2>3, <2>4, <2>6, BegunTouches
  <2>8. DOMAIN waiters' \subseteq DOMAIN waiters \cup {w}
    <3>1. PICK v \in Wids, rec \in WaiterRec :
             /\ \/ waiters' = [waiters EXCEPT ![v] = rec]
                \/ v = Len(waiters) + 1 /\ waiters' = Append(waiters, rec)
             /\ SetWid(t, v)
      BY <1>2, MintWaiterRecord
    <3>2. v = w
      <4>1. v \in Wids \cup {0}
        OBVIOUS
      <4>2. stack'[t][n] = [who |-> Me(t), wid |-> v]
        BY <2>1, <3>1, <4>1, SetWidEffect
      <4>. QED  BY <2>c, <4>2
    <3>3. DOMAIN waiters = 1 .. Len(waiters) /\ Len(waiters) \in Nat
      BY LenProperties DEF TypeOK
    <3>4. DOMAIN Append(waiters, rec) = 1 .. Len(waiters) + 1
      BY AppendProperties, LenProperties DEF TypeOK
    <3>. QED  BY <3>1, <3>2, <3>3, <3>4
  <2>9. BookedIsOwned'
    BY <2>1, <2>2, <2>3, <2>8, <2>c, OwnedTouches
  <2>. QED  BY <2>7, <2>9
<1>3. ASSUME NEW t \in Threads, TopEnds(t)
      PROVE  Begun' /\ BookedIsOwned'
  <2>. PICK n : n = Len(stack[t])
    OBVIOUS
  <2>1. /\ Touches(t, 0) /\ UNCHANGED waiters /\ stack[t] # <<>> /\ pc[t] = "run" /\ pc'[t] = "look"
        /\ Pop(t)
    BY <1>3, EndTouches
  <2>2. /\ n \in Nat \ {0} /\ DOMAIN stack[t] = 1 .. n
        /\ DOMAIN stack'[t] = 1 .. n - 1 /\ Len(stack'[t]) = n - 1
        /\ \A i \in DOMAIN stack'[t] : stack'[t][i] = stack[t][i]
    BY <2>1, PopEffect
  <2>3. ~Waiting(t, n)
    BY <2>1 DEF RunnersDoNotWait
  <2>4. \A i \in DOMAIN stack[t] : i # n => Waiting(t, i) /\ i \in DOMAIN stack'[t]
    BY <2>2 DEF Begun
  <2>5. \A i \in DOMAIN stack'[t] : i < Len(stack'[t]) => Waiting(t, i)'
    BY <2>1, <2>2, <2>4 DEF Waiting
  <2>6. Begun'
    BY <2>1, <2>5, BegunTouches
  <2>7. DOMAIN waiters' \subseteq DOMAIN waiters \cup {0} /\ 0 \notin DOMAIN waiters'
    <3>1. DOMAIN waiters = 1 .. Len(waiters) /\ Len(waiters) \in Nat
      BY LenProperties DEF TypeOK
    <3>. QED  BY <2>1, <3>1
  <2>8. BookedIsOwned'
    BY <2>1, <2>2, <2>3, <2>4, <2>7, OwnedTouches
  <2>. QED  BY <2>6, <2>8
<1>4. ASSUME NEW t \in Threads, stack[t] = <<>>, NEW o \in Owners, Push(t, o), Goto(t, "run"),
             UNCHANGED waiters
      PROVE  Begun' /\ BookedIsOwned'
  <2>1. Touches(t, 0) /\ pc'[t] = "run"
    BY <1>4, PushTouches
  <2>2. \A i \in DOMAIN stack[t] : FALSE
    BY <1>4
  <2>. PICK n : n = Len(stack[t])
    OBVIOUS
  <2>. QED  BY <1>4, <2>1, <2>2, BegunPush
<1>5. ASSUME NEW t \in Threads, NextWork(t)
      PROVE  Begun' /\ BookedIsOwned'
  <2>1. PICK o \in Owners : Push(t, o)
    BY <1>5, TakenOwner DEF NextWork
  <2>2. Goto(t, "run") /\ UNCHANGED waiters /\ stack[t] = <<>>
    BY <1>5 DEF NextWork, TakeWork
  <2>. QED  BY <1>4, <2>1, <2>2
<1>6. ASSUME NEW h \in Hosts, NEW t \in Threads, NEW c \in SUBSET Slots, HostOpens(t, h, c)
      PROVE  Begun' /\ BookedIsOwned'
  <2>1. h \in Threads /\ h \in Owners
    BY DEF Threads, Owners
  <2>2. Push(h, h) /\ Goto(h, "run") /\ UNCHANGED waiters /\ pc[h] = "unborn"
    BY <1>6 DEF HostOpens, waiterVars
  <2>3. stack[h] = <<>>
    BY <2>1, <2>2 DEF FramesAreNested, NestedOn
  <2>. QED  BY <1>4, <2>1, <2>2, <2>3
<1>7. ASSUME NEW t \in Threads, WaitLooks(t), NEW x,
             x \in {Booked(t), [Booked(t) EXCEPT ![Top(t).wid].parker = t]}, waiters' = x,
             NEW n, n = Len(stack[t]), stack'[t][n] = stack[t][n]
      PROVE  DOMAIN waiters' = DOMAIN waiters /\ Waiting(t, n)' /\ waiters'[Top(t).wid].waiting > 0
  <2>1. /\ stack[t] # <<>> /\ Top(t).wid # 0 /\ Kind(t) > 0
        /\ x[Top(t).wid].waiting = Kind(t)
    BY <1>7, BookEffect
  <2>2. Top(t) = stack[t][n]
    BY <1>7, <2>1, TopType
  <2>3. DOMAIN waiters' = DOMAIN waiters
    BY <1>7, WaitFrame
  <2>4. waiters'[Top(t).wid].waiting > 0
    BY <1>7, <2>1
  <2>5. stack'[t][n].wid = Top(t).wid
    BY <1>7, <2>2
  <2>. QED  BY <2>1, <2>3, <2>4, <2>5 DEF Waiting
<1>8. ASSUME NEW t \in Threads, WaitWork(t)
      PROVE  Begun' /\ BookedIsOwned'
  <2>1. PICK o \in Owners : Push(t, o)
    BY <1>8, TakenOwner DEF WaitWork
  <2>2. /\ Touches(t, Top(t).wid) /\ pc'[t] = "run" /\ waiters' = Booked(t) /\ WaitLooks(t)
    BY <1>8, WorkTouches
  <2>. PICK n : n = Len(stack[t])
    OBVIOUS
  <2>3. /\ stack[t] # <<>> /\ n \in DOMAIN stack[t]
        /\ \A i \in DOMAIN stack[t] : stack'[t][i] = stack[t][i]
    BY <2>1, <2>2, PushEffect, TopType DEF WaitLooks
  <2>4. Booked(t) \in {Booked(t), [Booked(t) EXCEPT ![Top(t).wid].parker = t]}
    OBVIOUS
  <2>5. /\ DOMAIN waiters' = DOMAIN waiters /\ Waiting(t, n)'
        /\ waiters'[Top(t).wid].waiting > 0
    BY <1>7, <2>2, <2>3, <2>4
  <2>6. \A i \in DOMAIN stack[t] : i # n => (Waiting(t, i)' <=> Waiting(t, i))
    BY <2>2, <2>3, BooksWait
  <2>. QED  BY <2>1, <2>2, <2>3, <2>5, <2>6, BegunPush
<1>9. ASSUME NEW t \in Threads, WaitIdles(t)
      PROVE  Begun' /\ BookedIsOwned'
  <2>. PICK n : n = Len(stack[t])
    OBVIOUS
  <2>1. /\ Touches(t, Top(t).wid) /\ UNCHANGED stack /\ WaitLooks(t)
        /\ waiters' \in {Booked(t), [Booked(t) EXCEPT ![Top(t).wid].parker = t]}
    BY <1>9, IdlesTouches
  <2>2. n \in Nat /\ n \in DOMAIN stack[t] /\ Top(t) = stack[t][n] /\ DOMAIN stack[t] = 1 .. n
    BY <2>1, TopType, LenProperties DEF WaitLooks, TypeOK
  <2>3. DOMAIN waiters' = DOMAIN waiters /\ Waiting(t, n)'
    BY <1>7, <2>1
  <2>4. \A i \in DOMAIN stack[t] : i # n => (Waiting(t, i)' <=> Waiting(t, i))
    BY <2>1, BooksWait
  <2>5. \A i \in DOMAIN stack'[t] : Waiting(t, i)'
    BY <2>1, <2>2, <2>3, <2>4 DEF Begun
  <2>6. Begun'
    BY <2>1, <2>5, BegunTouches
  <2>7. BookedIsOwned'
    BY <2>1, <2>2, <2>3, OwnedTouches
  <2>. QED  BY <2>6, <2>7
<1>10. ASSUME NEW t \in Threads, WaitGot(t)
       PROVE  Begun' /\ BookedIsOwned'
  <2>. PICK n : n = Len(stack[t])
    OBVIOUS
  <2>. PICK w : w = Top(t).wid
    OBVIOUS
  <2>1. /\ 0 \in Wids \cup {0} /\ SetWid(t, 0) /\ stack[t] # <<>> /\ Touches(t, w)
        /\ WaitLooks(t) /\ pc'[t] = "run" /\ w \in DOMAIN waiters
    BY <1>10, GotTouches
  <2>2. /\ Len(stack'[t]) = n /\ n \in DOMAIN stack[t] /\ Top(t) = stack[t][n]
        /\ DOMAIN stack'[t] = DOMAIN stack[t] /\ n \in Nat \ {0} /\ DOMAIN stack[t] = 1 .. n
        /\ \A i \in DOMAIN stack[t] : i # n => stack'[t][i] = stack[t][i]
    BY <2>1, SetWidEffect, TopType
  <2>3. \A i \in DOMAIN stack[t] : i # n => (Waiting(t, i)' <=> Waiting(t, i))
    BY <2>1, <2>2, BooksWait
  <2>4. \A i \in DOMAIN stack'[t] : i < Len(stack'[t]) => Waiting(t, i)'
    BY <2>2, <2>3 DEF Begun
  <2>5. Begun'
    BY <2>1, <2>4, BegunTouches
  <2>6. /\ DOMAIN waiters' = DOMAIN waiters
        /\ waiters'[w].waiting = 0
    <3>1. waiters' = [waiters EXCEPT ![w] = [@ EXCEPT !.filled = FALSE, !.parker = Nobody, !.waiting = 0]]
      BY <1>10 DEF WaitGot
    <3>2. waiters[w] \in WaiterRec
      BY <2>1, WaitFrame
    <3>3. [waiters[w] EXCEPT !.filled = FALSE, !.parker = Nobody, !.waiting = 0].waiting = 0
      BY <3>2 DEF WaiterRec
    <3>. QED  BY <2>1, <3>1, <3>3, ExceptAnywhere
  <2>7. BookedIsOwned'
    BY <2>1, <2>2, <2>6, OwnedTouches
  <2>. QED  BY <2>5, <2>7
<1>. QED  BY <1>1, <1>2, <1>3, <1>5, <1>6, <1>8, <1>9, <1>10, StepKinds

\* main's own code stays at the bottom of its stack.
LEMMA MainSets ==
    ASSUME TypeOK, MainRooted, NEW t \in Threads, stack[t] # <<>>, NEW w \in Wids \cup {0}, SetWid(t, w)
    PROVE  MainRooted'
<1>. PICK n : n = Len(stack[t])
  OBVIOUS
<1>1. /\ \A u \in Threads : u # t => stack'[u] = stack[u]
      /\ stack'[t] # <<>> /\ n \in Nat \ {0} /\ DOMAIN stack[t] = 1 .. n
      /\ \A i \in DOMAIN stack[t] : i # n => stack'[t][i] = stack[t][i]
      /\ stack'[t][n] = [who |-> Me(t), wid |-> w]
  BY SetWidEffect
<1>2. stack'[t][n].who = stack[t][n].who
  <2>1. Top(t) = stack[t][n]
    BY TopType
  <2>. QED  BY <1>1, <2>1 DEF Me
<1>3. stack'[t][1].who = stack[t][1].who
  BY <1>1, <1>2
<1>. QED  BY <1>1, <1>3 DEF MainRooted, Threads

\* main's own frame stays the first of its stack, whoever pushes one ...
LEMMA MainPushes ==
    ASSUME TypeOK, MainRooted, NEW t \in Threads, NEW o \in Owners, Push(t, o)
    PROVE  MainRooted'
<1>1. /\ \A u \in Threads : u # t => stack'[u] = stack[u]
      /\ Len(stack[t]) \in Nat /\ DOMAIN stack'[t] = 1 .. Len(stack[t]) + 1
      /\ \A i \in 1 .. Len(stack[t]) : stack'[t][i] = stack[t][i]
  BY PushEffect, LenProperties DEF TypeOK
<1>2. CASE t # Main
  BY <1>1, <1>2 DEF MainRooted, Threads
<1>3. CASE t = Main
  <2>1. 1 \in 1 .. Len(stack[t])
    BY <1>3, LenProperties, EmptySeq DEF MainRooted, TypeOK
  <2>2. stack'[t][1] = stack[t][1]
    BY <1>1, <2>1
  <2>3. 1 \in DOMAIN stack'[t]
    <3>1. 1 \in 1 .. Len(stack[t]) + 1
      BY <1>1
    <3>. QED  BY <1>1, <3>1
  <2>. QED  BY <1>3, <2>2, <2>3 DEF MainRooted
<1>. QED  BY <1>2, <1>3

\* ... and whatever else a step does.
LEMMA MainStep ==
    ASSUME TypeOK, FramesAreNested, WaitersExist, OwnRecords, RunnersDoNotWait, MainRooted, [Next]_vars
    PROVE  MainRooted'
<1>1. CASE Quietly
  BY <1>1 DEF Quietly, MainRooted
<1>2. ASSUME NEW t \in Threads, MintWaiter(t)
      PROVE  MainRooted'
  BY <1>2, MintWaiterEffect, MainSets
<1>3. ASSUME NEW t \in Threads, TopEnds(t)
      PROVE  MainRooted'
  <2>. PICK n : n = Len(stack[t])
    OBVIOUS
  <2>1. stack[t] # <<>> /\ Pop(t)
    BY <1>3, EndTouches
  <2>2. /\ \A u \in Threads : u # t => stack'[u] = stack[u]
        /\ n \in Nat \ {0} /\ DOMAIN stack[t] = 1 .. n /\ DOMAIN stack'[t] = 1 .. n - 1
        /\ \A i \in DOMAIN stack'[t] : stack'[t][i] = stack[t][i]
    BY <2>1, PopEffect
  <2>3. stack[t][n].who \notin Threads
    BY <1>3, PopFrames, FrameIs
  <2>4. CASE t # Main
    BY <2>2, <2>4 DEF MainRooted, Threads
  <2>5. CASE t = Main
    <3>1. n # 1
      BY <2>3, <2>5 DEF MainRooted, Threads
    <3>a. n \in Nat \ {0}
      BY <2>2
    <3>2. 1 \in 1 .. n - 1
      BY <3>a, <3>1, NotTheLast
    <3>3. 1 \in DOMAIN stack'[t]
      BY <2>2, <3>2
    <3>4. stack'[t][1] = stack[t][1]
      BY <2>2, <3>3
    <3>. QED  BY <2>5, <3>3, <3>4 DEF MainRooted
  <2>. QED  BY <2>4, <2>5
<1>4. ASSUME NEW t \in Threads, NextWork(t) \/ WaitWork(t)
      PROVE  MainRooted'
  BY <1>4, TakenOwner, MainPushes DEF NextWork, WaitWork
<1>5. ASSUME NEW t \in Threads, NEW h \in Hosts, NEW c \in SUBSET Slots, HostOpens(t, h, c)
      PROVE  MainRooted'
  <2>1. h \in Threads /\ h \in Owners
    BY DEF Threads, Owners
  <2>. QED  BY <1>5, <2>1, MainPushes DEF HostOpens
<1>6. ASSUME NEW t \in Threads, WaitGot(t)
      PROVE  MainRooted'
  BY <1>6, GotTouches, MainSets
<1>7. ASSUME NEW t \in Threads, WaitIdles(t)
      PROVE  MainRooted'
  BY <1>7, IdlesTouches DEF MainRooted
<1>. QED  BY <1>1, <1>2, <1>3, <1>4, <1>5, <1>6, <1>7, StepKinds

(***************************************************************************)
(* Somebody notices that nothing is left to run.                           *)
(***************************************************************************)
Looker == \E t \in Threads : pc[t] = "look" \/ (pc[t] = "park" /\ t \in permit)
StillRuns == exit = "no" /\ bulk = Free /\ retired = {}

\* A settled system that main waits in has a thread about to look, which will
\* see it.
Noticed ==
    /\ StillRuns /\ Settled(parkedFrames, waiters) /\ mainWaits > 0 => Looker
    /\ bulk.what = "again" => \E t \in Threads : pc[t] = "look"
    /\ bulk.what = "free" => bulk = Free

\* With every activation in a wait, main too, and no host thread open, all
\* frames that are not a closed host's wait, and no thread is at work.
AllOfItWaits ==
    active = parkedFrames /\ externals = 0 /\ mainWaits > 0
      => /\ \A t \in Threads \ Hosts : \A i \in DOMAIN stack[t] : Waiting(t, i)
         /\ \A t \in Threads : pc[t] \in {"look", "park", "unborn", "done"}
         /\ stack[Main] # <<>> /\ pc[Main] \in {"look", "park"}

\* By the books: when as many activations wait as there are, every frame waits and
\* no thread runs.
LEMMA SettledWaits ==
    ASSUME TypeOK, FramesAreNested, Accounted
    PROVE  AllOfItWaits
<1>1. SUFFICES ASSUME active = parkedFrames, externals = 0, mainWaits > 0
               PROVE  /\ \A t \in Threads \ Hosts : \A i \in DOMAIN stack[t] : Waiting(t, i)
                      /\ \A t \in Threads : pc[t] \in {"look", "park", "unborn", "done"}
                      /\ stack[Main] # <<>> /\ pc[Main] \in {"look", "park"}
  BY DEF AllOfItWaits
<1>2. /\ Counts(Activations, active) /\ Counts(Activations \cap WaitSet, parkedFrames)
      /\ Counts(WaitSet \ Activations, mainWaits) /\ Counts(OpenHosts, externals)
      /\ RunnersDoNotWait /\ Rooted
  BY DEF Accounted, BooksInv
<1>3. Activations \subseteq WaitSet
  BY <1>1, <1>2, AllOfThem
<1>4. \A h \in Hosts : pc[h] \in {"unborn", "done"}
  <2>1. OpenHosts = {}
    BY <1>1, <1>2, FS_EmptySet DEF Counts
  <2>. QED  BY <2>1 DEF OpenHosts
<1>5. PICK f : f \in WaitSet \ Activations
  <2>1. WaitSet \ Activations # {}
    BY <1>1, <1>2, FS_EmptySet DEF Counts
  <2>. QED  BY <2>1
<1>6. PICK u \in Threads : \E i \in DOMAIN stack[u] : f = <<u, i>> /\ Waiting(u, i)
  BY <1>5, WaitIs
<1>7. PICK i \in DOMAIN stack[u] : f = <<u, i>> /\ Waiting(u, i)
  BY <1>6
<1>8. u = Main /\ i = 1
  <2>1. stack[u][i].who \in Threads
    BY <1>5, <1>7, FrameIs
  <2>2. i = 1 /\ u \notin Workers /\ stack[u][1].wid # 0
    BY <1>2, <1>7, <2>1 DEF Rooted, Waiting
  <2>3. ASSUME u \in Hosts PROVE FALSE
    <3>1. pc[u] = "done" \/ pc[u] = "unborn"
      BY <1>4, <2>3
    <3>2. pc[u] # "done"
      BY <1>2, <2>2, <2>3 DEF Rooted
    <3>3. stack[u] = <<>>
      BY <3>1, <3>2 DEF FramesAreNested, NestedOn
    <3>. QED  BY <1>7, <3>3
  <2>. QED  BY <2>2, <2>3 DEF Threads
<1>9. ASSUME NEW v \in Threads \ Hosts, NEW j \in DOMAIN stack[v]
      PROVE  Waiting(v, j)
  <2>1. CASE stack[v][j].who \notin Threads
    BY <1>3, <2>1, FrameIs
  <2>2. CASE stack[v][j].who \in Threads
    <3>1. j = 1 /\ v \notin Workers
      BY <1>2, <2>2 DEF Rooted
    <3>2. v = Main
      BY <3>1 DEF Threads
    <3>. QED  BY <1>7, <1>8, <3>1, <3>2
  <2>. QED  BY <2>1, <2>2
<1>10. ASSUME NEW v \in Threads \ Hosts, stack[v] # <<>>
       PROVE  pc[v] \in {"look", "park"}
  <2>1. Len(stack[v]) \in DOMAIN stack[v]
    BY <1>10, TopType
  <2>2. Waiting(v, Len(stack[v]))
    BY <1>9, <2>1
  <2>. QED  BY <1>2, <1>10, <2>2 DEF RunnersDoNotWait
<1>11. ASSUME NEW v \in Threads
       PROVE  pc[v] \in {"look", "park", "unborn", "done"}
  <2>1. CASE v \in Hosts
    BY <1>4, <2>1
  <2>2. CASE v \notin Hosts /\ stack[v] # <<>>
    BY <1>10, <2>2
  <2>3. CASE stack[v] = <<>>
    BY <2>3 DEF FramesAreNested, NestedOn, TypeOK, Label
  <2>. QED  BY <2>1, <2>2, <2>3
<1>12. stack[Main] # <<>> /\ Main \in Threads \ Hosts
  BY <1>7, <1>8, NamesAreDistinct DEF Threads
<1>. QED  BY <1>9, <1>10, <1>11, <1>12

\* What the list being delivered was begun for: a thread that found nothing to
\* do but the hooks still looks.
LEMMA BulkIsNoticed ==
    ASSUME TypeOK, FramesAreNested, WaitersExist, Noticed, [Next]_vars
    PROVE  /\ bulk'.what = "again" => \E t \in Threads : pc'[t] = "look"
           /\ bulk'.what = "free" => bulk' = Free
<1>. DEFINE Goal == /\ bulk'.what = "again" => \E t \in Threads : pc'[t] = "look"
                    /\ bulk'.what = "free" => bulk' = Free
<1>1. ASSUME bulk' = Free \/ bulk'.what \in {"finish", "settled"}
      PROVE  Goal
  BY <1>1 DEF Free
<1>2. ASSUME UNCHANGED bulk, \A u \in Threads : pc[u] = "look" => pc'[u] = "look"
      PROVE  Goal
  BY <1>2 DEF Noticed
<1>3. ASSUME NEW t \in Threads, Program(t)
      PROVE  Goal
  <2>1. CASE Await(t)
    <3>1. UNCHANGED bulk /\ pc[t] = "run" /\ Goto(t, "look")
      BY <2>1 DEF Await
    <3>. QED  BY <1>2, <3>1, GotoEffect
  <2>2. CASE ActorFaults(t)
    BY <1>1, <2>2 DEF ActorFaults
  <2>3. CASE ~Await(t) /\ ~ActorFaults(t)
    <3>1. UNCHANGED bulk /\ bulk = Free
      BY <1>3, <2>3 DEF Program, Send, MintActor, MintTask, MintWaiter, Answer, Watch, OnIdle, HostOpens,
                  TaskFaults, TaskEnds, NewPool, NewActor, Does, Runs, Ends
    <3>. QED  BY <1>1, <3>1
  <2>. QED  BY <2>1, <2>2, <2>3
<1>4. ASSUME NEW t \in Threads, Runtime(t)
      PROVE  Goal
  <2>1. CASE Park(t)
    <3>1. UNCHANGED bulk /\ pc[t] \in {"park", "full"} /\ \E l : Goto(t, l)
      BY <2>1 DEF Park
    <3>. QED  BY <1>2, <3>1, GotoEffect
  <2>2. CASE NextSleeps(t)
    <3>1. bulk'.what = "settled" \/ bulk' = Free
      BY <2>2 DEF NextSleeps
    <3>. QED  BY <1>1, <3>1
  <2>3. CASE WaitIdles(t)
    <3>1. pc[t] = "look" /\ bulk = Free /\ (UNCHANGED pc \/ UNCHANGED bulk)
      BY <2>3 DEF WaitIdles, WaitLooks, Looks
    <3>2. CASE UNCHANGED bulk
      BY <1>1, <3>1, <3>2
    <3>3. CASE UNCHANGED pc /\ bulk' # Free
      <4>1. bulk'.what = "again"
        BY <2>3, <3>1, <3>3 DEF WaitIdles
      <4>. QED  BY <3>1, <3>3, <4>1
    <3>. QED  BY <1>1, <3>1, <3>2, <3>3
  <2>4. CASE Resend(t) \/ ActorReturns(t) \/ TaskReturns(t) \/ NextRetires(t) \/ NextWork(t) \/ WaitGot(t)
             \/ WaitWork(t)
    <3>1. UNCHANGED bulk /\ bulk = Free
      BY <2>4 DEF Resend, ActorReturns, TaskReturns, TaskEnds, Ends, Runs, NextRetires, NextWork, TakeWork,
                  WaitGot, WaitWork, WaitLooks, Looks
    <3>. QED  BY <1>1, <3>1
  <2>. QED  BY <1>4, <2>1, <2>2, <2>3, <2>4 DEF Runtime
<1>5. CASE DeliverNext
  <2>1. bulk.tokens # <<>> /\ bulk'.what = bulk.what /\ UNCHANGED pc
    BY <1>5 DEF DeliverNext, TypeOK, BulkRec
  <2>2. bulk.what # "free"
    BY <2>1 DEF Noticed, Free
  <2>. QED  BY <2>1, <2>2 DEF Noticed
<1>6. CASE EndBulk
  BY <1>1, <1>6 DEF EndBulk
<1>7. ASSUME NEW h \in Threads, HostCloses(h)
      PROVE  Goal
  BY <1>1, <1>7 DEF HostCloses, Runs
<1>8. CASE UNCHANGED vars \/ MainReturns \/ Exited
  <2>1. UNCHANGED <<bulk, pc>>
    BY <1>8 DEF vars, MainReturns, Exited, threadVars
  <2>. QED  BY <1>2, <2>1
<1>. QED  BY <1>3, <1>4, <1>5, <1>6, <1>7, <1>8 DEF Next

\* Going to sleep for want of work leaves a system that is not settled, and
\* waking the waiting frames wakes main's.
LEMMA SleepsUnsettled ==
    ASSUME TypeOK, FramesAreNested, WaitersExist, NEW t \in Threads,
           NextSleeps(t) \/ (WaitIdles(t) /\ pc'[t] = "park"),
           bulk' = Free, Settled(parkedFrames, waiters)', mainWaits' > 0
    PROVE  FALSE
<1>1. active' = parkedFrames' /\ Quiet(waiters)'
  BY DEF Settled
<1>2. CASE NextSleeps(t)
  <2>1. UNCHANGED <<externals, tasks, running, dead, queue, gate, waiters, active, parkedFrames>>
    BY <1>2 DEF NextSleeps, actorVars, waiterVars, countVars
  <2>2. Settled(parkedFrames, waiters)
    BY <1>1, <2>1 DEF Settled, Quiet
  <2>3. bulk'.what = "settled"
    BY <1>2, <2>2 DEF NextSleeps
  <2>. QED  BY <2>3 DEF Free
<1>3. CASE WaitIdles(t) /\ pc'[t] = "park"
  <2>1. /\ UNCHANGED <<externals, tasks, running, dead, queue, gate, active>>
        /\ parkedFrames' = ParkedNow(t) /\ mainWaits' = MainNow(t) /\ pc[t] = "look" /\ WaitLooks(t)
    BY <1>3 DEF WaitIdles, WaitLooks, Looks, actorVars
  <2>2. /\ ~(Settled(ParkedNow(t), Booked(t)) /\ MainNow(t) > 0)
        /\ waiters' = [Booked(t) EXCEPT ![Top(t).wid].parker = t]
    BY <1>3, <2>1 DEF WaitIdles
  <2>3. /\ DOMAIN waiters' = DOMAIN Booked(t)
        /\ \A w \in DOMAIN Booked(t) : /\ waiters'[w].waiting = Booked(t)[w].waiting
                                       /\ waiters'[w].filled = Booked(t)[w].filled
    <3>1. Booked(t) \in Seq(WaiterRec)
      BY <2>1, WaitFrame
    <3>2. \A w \in DOMAIN Booked(t) : Booked(t)[w] \in WaiterRec
      BY <3>1, LenProperties, ElementOfSeq
    <3>. QED  BY <2>2, <3>2 DEF WaiterRec
  <2>4. Quiet(Booked(t))
    BY <1>1, <2>1, <2>3 DEF Quiet
  <2>. QED  BY <1>1, <2>1, <2>2, <2>4 DEF Settled
<1>. QED  BY <1>2, <1>3

\* A settled system does not go unnoticed.
LEMMA NoticedStep ==
    ASSUME TypeOK, FramesAreNested, WaitersExist, WaitersAreWoken, Noticed, [Next]_vars,
           AllOfItWaits', SleepersAreListed'
    PROVE  Noticed'
<1>1. SUFFICES ASSUME StillRuns', Settled(parkedFrames, waiters)', mainWaits' > 0, ~Looker'
               PROVE  FALSE
  BY BulkIsNoticed DEF Noticed
<1>2. /\ exit' = "no" /\ bulk' = Free /\ retired' = {} /\ active' = parkedFrames' /\ externals' = 0
      /\ \A u \in Threads : /\ pc'[u] \in {"park", "unborn", "done"}
                            /\ pc'[u] = "park" => u \notin permit'
      /\ stack'[Main] # <<>> /\ pc'[Main] = "park" /\ Main \in Threads \ Hosts
      /\ \A i \in DOMAIN stack'[Main] : Waiting(Main, i)'
  <2>1. exit' = "no" /\ bulk' = Free /\ retired' = {} /\ active' = parkedFrames' /\ externals' = 0
    BY <1>1 DEF StillRuns, Settled, Quiet
  <2>2. /\ \A u \in Threads : pc'[u] \in {"look", "park", "unborn", "done"}
        /\ stack'[Main] # <<>> /\ pc'[Main] \in {"look", "park"}
        /\ \A u \in Threads \ Hosts : \A i \in DOMAIN stack'[u] : Waiting(u, i)'
    BY <1>1, <2>1 DEF AllOfItWaits
  <2>3. Main \in Threads \ Hosts
    BY NamesAreDistinct DEF Threads
  <2>4. \A u \in Threads : pc'[u] # "look" /\ (pc'[u] = "park" => u \notin permit')
    BY <1>1 DEF Looker
  <2>5. \A u \in Threads : /\ pc'[u] \in {"park", "unborn", "done"}
                           /\ pc'[u] = "park" => u \notin permit'
    BY <2>2, <2>4
  <2>6. pc'[Main] = "park"
    BY <2>2, <2>3, <2>4
  <2>. QED  BY <2>1, <2>2, <2>3, <2>5, <2>6
\* main is on its pool's idle list.
<1>3. ASSUME \A p \in Pools : idle'[p] = <<>>
      PROVE  FALSE
  <2>1. Main \in ToSet(idle'[Serves[Main]])
    BY <1>2 DEF SleepersAreListed
  <2>. QED  BY <1>2, <1>3, <2>1, ServesAPool DEF ToSet
<1>4. \A u \in Threads : pc'[u] = pc[u] \/ (pc[u] = "look" /\ pc'[u] = "park")
  <2>1. SUFFICES ASSUME NEW u \in Threads, pc'[u] # pc[u]
                 PROVE  pc[u] = "look" /\ pc'[u] = "park"
    OBVIOUS
  <2>2. Shifts(u) /\ retired = {}
    BY <1>2, StepShifts, RetiredStay
  <2>. QED  BY <1>2, <1>3, <2>1, <2>2 DEF Shifts, Alive
<1>5. ASSUME NEW t \in Threads, pc[t] \notin {"look", "park", "unborn", "done"}
      PROVE  FALSE
  BY <1>2, <1>4, <1>5
<1>6. ASSUME NEW t \in Threads, Program(t)
      PROVE  FALSE
  <2>1. pc[t] = "run"
    BY <1>6 DEF Program, Send, MintActor, MintTask, MintWaiter, Await, Answer, Watch, OnIdle, HostOpens,
                ActorFaults, TaskFaults, NewPool, NewActor, Does, Runs
  <2>. QED  BY <1>5, <2>1
<1>7. ASSUME NEW t \in Threads, Runtime(t)
      PROVE  FALSE
  <2>1. CASE Resend(t) \/ ActorReturns(t) \/ TaskReturns(t)
    BY <1>5, <2>1 DEF Resend, ActorReturns, TaskReturns, Runs
  <2>2. CASE Park(t) \/ NextRetires(t) \/ NextWork(t) \/ WaitGot(t) \/ WaitWork(t)
    <3>1. \E l \in {"look", "send", "done", "run"} : Goto(t, l) /\ (l = "done" => pc[t] = "look")
      BY <2>2 DEF Park, NextRetires, Looks, NextWork, WaitGot, WaitWork, TakeWork
    <3>2. pc'[t] \in {"look", "send", "run"} \/ (pc'[t] = "done" /\ pc[t] = "look")
      BY <3>1, GotoEffect
    <3>. QED  BY <1>2, <1>4, <3>2
  <2>3. CASE NextSleeps(t) \/ WaitIdles(t)
    <3>1. NextSleeps(t) \/ pc'[t] = "park"
      <4>1. WaitIdles(t) => pc'[t] = "look" \/ pc'[t] = "park"
        BY GotoEffect DEF WaitIdles, WaitLooks, Looks
      <4>. QED  BY <1>2, <2>3, <4>1
    <3>. QED  BY <1>1, <1>2, <2>3, <3>1, SleepsUnsettled
  <2>. QED  BY <1>7, <2>1, <2>2, <2>3 DEF Runtime
<1>8. ASSUME NEW h \in Threads, HostCloses(h)
      PROVE  FALSE
  BY <1>5, <1>8 DEF HostCloses, Runs
<1>9. CASE MainReturns
  BY <1>2, <1>5, <1>9 DEF MainReturns, Runs
<1>10. CASE DeliverNext
  <2>1. bulk.tokens # <<>> /\ bulk'.what = bulk.what
    BY <1>10 DEF DeliverNext, TypeOK, BulkRec
  <2>2. bulk'.what = "free"
    BY <1>2 DEF Free
  <2>. QED  BY <2>1, <2>2 DEF Noticed, Free
<1>11. CASE EndBulk
  <2>1. UNCHANGED <<stack, pc, waiters>>
    BY <1>11 DEF EndBulk, waiterVars
  <2>2. CASE bulk.what = "finish"
    <3>1. \A p \in Pools : idle'[p] = <<>>
      BY <1>11, <2>2 DEF EndBulk, WakeEvery
    <3>. QED  BY <1>3, <3>1
  <2>3. CASE bulk.what = "again"
    BY <1>2, <2>1, <2>3 DEF Noticed
  <2>4. CASE bulk.what = "settled"
    <3>. PICK n : n = Len(stack[Main])
      OBVIOUS
    <3>1. permit \subseteq permit'
      BY <1>11, <2>4 DEF EndBulk, WakeEvery
    <3>2. pc[Main] = "park" /\ stack[Main] # <<>> /\ Main \notin permit /\ Main \in Threads
      BY <1>2, <2>1, <3>1
    <3>3. waiters[Top(Main).wid].parker = Main
      BY <3>2 DEF WaitersAreWoken
    <3>4. n \in DOMAIN stack[Main] /\ Top(Main) = stack[Main][n]
      BY <3>2, TopType
    <3>5. waiters[Top(Main).wid].waiting > 0
      BY <1>2, <2>1, <3>4 DEF Waiting
    <3>6. Top(Main).wid \in DOMAIN waiters
      BY <3>2, SleeperHasRecord
    <3>7. Main # Nobody
      BY <3>2, NamesAreDistinct
    <3>8. Main \in permit'
      BY <1>11, <2>4, <3>3, <3>5, <3>6, <3>7 DEF EndBulk, WakeEvery
    <3>. QED  BY <1>2, <3>8
  <2>. QED  BY <1>11, <2>2, <2>3, <2>4 DEF EndBulk
<1>12. CASE Exited
  BY <1>2, <1>12 DEF Exited, vars
<1>13. CASE UNCHANGED vars
  <2>1. Noticed'
    <3>1. UNCHANGED <<exit, bulk, retired, active, parkedFrames, mainWaits, waiters, externals, tasks,
                      running, dead, queue, gate, pc, permit>>
      BY <1>13 DEF vars, actorVars, poolVars, waiterVars, countVars, threadVars
    <3>. QED  BY <3>1 DEF Noticed, StillRuns, Settled, Quiet, Looker
  <2>. QED  BY <1>1, <2>1 DEF Noticed
<1>. QED  BY <1>6, <1>7, <1>8, <1>9, <1>10, <1>11, <1>12, <1>13 DEF Next

(***************************************************************************)
(* The system that has come to rest.                                       *)
(***************************************************************************)
\* An answer waits for a frame that is not the top one of its thread.
Buried == \E t \in Threads : \E i \in DOMAIN stack[t] :
            i < Len(stack[t]) /\ stack[t][i].wid # 0 /\ waiters[stack[t][i].wid].filled

\* At rest every pool is out of work.
LEMMA RestIsIdle ==
    ASSUME Founded, WorkHasAThread, QueuesInv, retired = {}, \A t \in Threads : ~Awake(t), TypeOK
    PROVE  \A p \in Pools : ~Busy(p)
<1>1. SUFFICES ASSUME NEW p \in Pools, Busy(p)
               PROVE  FALSE
  OBVIOUS
<1>2. p \in made
  <2>1. CASE tasks[p] # <<>>
    BY <2>1 DEF Founded
  <2>2. CASE readyQ[p] # <<>>
    <3>0. readyQ[p] \in Seq(Actors)
      BY DEF TypeOK
    <3>1. PICK k \in DOMAIN readyQ[p] : TRUE
      <4>1. Len(readyQ[p]) \in DOMAIN readyQ[p]
        BY <2>2, <3>0, EmptySeq, LenProperties
      <4>. QED  BY <4>1
    <3>2. readyQ[p][k] \in Actors /\ readyQ[p][k] \in ToSet(readyQ[p]) /\ Home[readyQ[p][k]] = p
      BY LenProperties, ElementOfSeq DEF QueuesInv, EntriesAreGood, ToSet, TypeOK
    <3>. QED  BY <3>2 DEF Founded
  <2>. QED  BY <1>1, <2>1, <2>2 DEF Busy
<1>. QED  BY <1>1, <1>2 DEF WorkHasAThread

\* Then nothing is queued anywhere, and no answer is left lying, but for the
\* buried.
LEMMA RestIsQuiet ==
    ASSUME TypeOK, FramesAreNested, WaitersExist, Accounted, Crewed, Founded, WorkHasAThread, QueuesInv,
           WaitersAreWoken, BookedIsOwned, ~Buried, retired = {}, externals = 0,
           \A t \in Threads : pc[t] \in {"park", "done", "unborn"} /\ t \notin permit
    PROVE  Quiet(waiters)
<1>1. \A p \in Pools : ~Busy(p)
  BY RestIsIdle DEF Awake, Alive, Unemployed
<1>2. ASSUME NEW a \in Actors \ (running \cup dead)
      PROVE  Deliverable(queue[a], gate[a]) = {}
  <2>1. SUFFICES ASSUME Deliverable(queue[a], gate[a]) # {}
                 PROVE  FALSE
    OBVIOUS
  <2>2. a \in ToSet(readyQ[Home[a]]) /\ Home[a] \in Pools
    BY <2>1, NamesAreDistinct, ConstantsAssumption DEF QueuesInv, WorkIsQueued, Takeable, Ready
  <2>. QED  BY <1>1, <2>2 DEF Busy, ToSet
<1>3. ASSUME NEW w \in DOMAIN waiters, waiters[w].waiting > 0, waiters[w].filled
      PROVE  FALSE
  <2>1. PICK t \in Threads : \E i \in DOMAIN stack[t] : stack[t][i].wid = w
    BY <1>3 DEF BookedIsOwned
  <2>2. PICK i \in DOMAIN stack[t] : stack[t][i].wid = w
    BY <2>1
  <2>3. w # 0
    <3>1. DOMAIN waiters = 1 .. Len(waiters) /\ Len(waiters) \in Nat
      BY LenProperties DEF TypeOK
    <3>. QED  BY <3>1
  <2>. PICK n : n = Len(stack[t])
    OBVIOUS
  <2>4. n \in Nat /\ DOMAIN stack[t] = 1 .. n /\ stack[t] # <<>>
    BY LenProperties DEF TypeOK
  <2>5. i = n
    <3>1. ~(i < n)
      BY <1>3, <2>2, <2>3 DEF Buried
    <3>. QED  BY <2>4, <3>1
  <2>6. CASE pc[t] = "park"
    <3>1. ~waiters[Top(t).wid].filled
      BY <2>4, <2>6 DEF WaitersAreWoken, Unanswered
    <3>2. Top(t) = stack[t][n]
      BY <2>4, TopType
    <3>. QED  BY <1>3, <2>2, <2>5, <3>1, <3>2
  <2>7. CASE pc[t] = "unborn"
    BY <2>4, <2>7 DEF FramesAreNested, NestedOn
  <2>8. CASE pc[t] = "done"
    <3>1. t \in Hosts
      BY <2>8 DEF Crewed
    <3>2. Len(stack[t]) = 1 /\ stack[t][1].wid = 0
      BY <2>8, <3>1 DEF Accounted, Rooted
    <3>. QED  BY <2>2, <2>3, <2>5, <3>2
  <2>. QED  BY <2>6, <2>7, <2>8
<1>4. \A p \in Pools : tasks[p] = <<>>
  BY <1>1 DEF Busy
<1>. QED  BY <1>2, <1>3, <1>4 DEF Quiet

\* And every activation is in a wait.
LEMMA RestIsParked ==
    ASSUME TypeOK, FramesAreNested, Accounted, Crewed, Begun, retired = {},
           \A t \in Threads : pc[t] \in {"park", "done", "unborn"}
    PROVE  active = parkedFrames
<1>1. ASSUME NEW f \in Activations
      PROVE  f \in WaitSet
  <2>1. PICK t \in Threads : \E i \in DOMAIN stack[t] : f = <<t, i>> /\ stack[t][i].who \notin Threads
    BY <1>1, ActivationIs
  <2>2. PICK i \in DOMAIN stack[t] : f = <<t, i>> /\ stack[t][i].who \notin Threads
    BY <2>1
  <2>3. CASE pc[t] = "park"
    BY <2>2, <2>3, FrameIs DEF Begun
  <2>4. CASE pc[t] = "unborn"
    BY <2>2, <2>4 DEF FramesAreNested, NestedOn
  <2>5. CASE pc[t] = "done"
    <3>1. t \in Hosts
      BY <2>5 DEF Crewed
    <3>2. Len(stack[t]) = 1 /\ stack[t][1].who = t
      BY <2>5, <3>1 DEF Accounted, Rooted
    <3>3. i = 1
      <4>1. DOMAIN stack[t] = 1 .. Len(stack[t])
        BY LenProperties DEF TypeOK
      <4>. QED  BY <2>2, <3>2, <4>1
    <3>. QED  BY <2>2, <3>2, <3>3
  <2>. QED  BY <2>3, <2>4, <2>5
<1>2. Activations \cap WaitSet = Activations
  BY <1>1
<1>. QED  BY <1>2 DEF Accounted, BooksInv, Counts

\* So main, asleep in its wait, would have been woken to report it.
LEMMA RestIsReported ==
    ASSUME TypeOK, FramesAreNested, WaitersExist, Accounted, Crewed, Founded, WorkHasAThread, QueuesInv,
           WaitersAreWoken, Begun, BookedIsOwned, MainRooted, Noticed
    PROVE  NoSilentHang \/ Buried \/ retired # {}
<1>1. SUFFICES ASSUME ~Buried, retired = {}, exit = "no", bulk = Free, externals = 0, pc[Main] = "park",
                      \A t \in Threads : pc[t] \in {"park", "done", "unborn"} /\ t \notin permit
               PROVE  FALSE
  BY DEF NoSilentHang
<1>2. Settled(parkedFrames, waiters)
  BY <1>1, RestIsQuiet, RestIsParked DEF Settled
<1>3. mainWaits > 0
  <2>1. Main \in Threads /\ 1 \in DOMAIN stack[Main]
    BY EmptySeq, LenProperties DEF MainRooted, TypeOK, Threads
  <2>2. Waiting(Main, 1)
    BY <1>1, <2>1 DEF Begun
  <2>3. <<Main, 1>> \in WaitSet \ Activations
    BY <2>1, <2>2, FrameIs DEF MainRooted
  <2>4. IsFiniteSet(WaitSet \ Activations) /\ mainWaits = Cardinality(WaitSet \ Activations)
    BY DEF Accounted, BooksInv, Counts
  <2>5. mainWaits \in Nat /\ mainWaits # 0
    BY <2>3, <2>4, FS_CardinalityType, FS_EmptySet
  <2>. QED  BY <2>5
<1>4. Looker
  BY <1>1, <1>2, <1>3 DEF Noticed, StillRuns
<1>. QED  BY <1>1, <1>4 DEF Looker

(***************************************************************************)
(* The theorems.                                                           *)
(***************************************************************************)
\* What holds of every state besides the books.
HangInv == Crewed /\ AtHome /\ Founded /\ Begun /\ BookedIsOwned /\ MainRooted /\ Noticed

\* All of it holds at the start.
LEMMA InitHang == Init => HangInv /\ WorkHasAThread
<1>. SUFFICES ASSUME Init PROVE HangInv /\ WorkHasAThread
  OBVIOUS
<1>1. /\ \A t \in Threads : t # Main => stack[t] = <<>>
      /\ stack[Main] = <<Running(Main)>> /\ pc[Main] = "run" /\ Main \in Threads
      /\ \A t \in Threads : pc[t] \in {"run", "look", "unborn"}
      /\ \A t \in Workers : Serves[t] \in Early => pc[t] = "look"
      /\ made = Early \cup {MainPool} /\ waiters = <<>> /\ bulk = Free /\ retired = {}
      /\ \A p \in Pools : idle[p] = <<>> /\ tasks[p] = <<>> /\ readyQ[p] = <<>>
      /\ \A s \in Slots : target[s] = MainPool
      /\ \A t \in Threads : sending[t] = NotSending
      /\ mainWaits = 0
  BY NamesAreDistinct DEF Init, Threads
<1>2. /\ DOMAIN stack[Main] = {1} /\ Len(stack[Main]) = 1 /\ stack[Main][1] = Running(Main)
      /\ \A t \in Threads : t # Main => DOMAIN stack[t] = {}
  BY <1>1
<1>3. Crewed
  <2>1. \A t \in Workers : Serves[t] \in made => pc[t] # "unborn"
    BY <1>1, ConstantsAssumption DEF Threads
  <2>2. \A p \in Pools : ToSet(idle[p]) = {}
    BY <1>1 DEF ToSet
  <2>. QED  BY <1>1, <2>1, <2>2 DEF Crewed
<1>4. AtHome /\ Begun /\ MainRooted
  <2>1. Main \notin Actors
    BY <1>1, NamesAreDistinct
  <2>2. \A t \in Threads : \A i \in DOMAIN stack[t] : t = Main /\ i = 1
    BY <1>1, <1>2
  <2>3. AtHome
    BY <1>2, <2>1, <2>2 DEF AtHome, Running
  <2>4. Begun
    <3>1. \A t \in Threads : pc[t] # "park"
      BY <1>1
    <3>2. ASSUME NEW t \in Threads, NEW i \in DOMAIN stack[t]
          PROVE  ~(i < Len(stack[t]))
      <4>1. t = Main /\ i = 1
        BY <2>2
      <4>. QED  BY <4>1, <1>2
    <3>. QED  BY <3>1, <3>2 DEF Begun
  <2>5. MainRooted
    BY <1>1, <1>2 DEF MainRooted, Running
  <2>. QED  BY <2>3, <2>4, <2>5
<1>5. Founded
  <2>1. \A p \in Pools : ToSet(readyQ[p]) = {}
    BY <1>1 DEF ToSet
  <2>2. \A a \in Actors \cap made : Home[a] \in made
    <3>1. MainPool \notin Actors
      BY ConstantsAssumption, NamesAreDistinct
    <3>. QED  BY <1>1, <3>1, EarlyAssumption
  <2>3. \A p \in Pools \cap made : Sink[p] \in made \cup {Nobody}
    BY <1>1, EarlyAssumption, ConstantsAssumption
  <2>4. \A t \in Threads : \A i \in DOMAIN stack[t] : stack[t][i].who \notin Actors
    BY <1>1, <1>2, NamesAreDistinct DEF Running
  <2>. QED  BY <1>1, <2>1, <2>2, <2>3, <2>4 DEF Founded, NotSending
<1>6. BookedIsOwned
  BY <1>1 DEF BookedIsOwned
<1>7. Noticed
  BY <1>1 DEF Noticed, Free
<1>8. WorkHasAThread
  BY <1>1 DEF WorkHasAThread, Busy
<1>. QED  BY <1>3, <1>4, <1>5, <1>6, <1>7, <1>8 DEF HangInv

\* What the steps above need of the other proofs.
Surely == Typed /\ Accounted /\ OneActivation /\ QueuesInv /\ Listed /\ WaitersAreWoken /\ AllOfItWaits

\* What the steps need, the other proofs provide.
LEMMA SurelyHolds == Spec => []Surely
<1>1. Typed /\ Accounted /\ OneActivation /\ QueuesInv /\ Listed /\ WaitersAreWoken /\ [Next]_vars
        => (Accounted /\ OneActivation /\ QueuesInv /\ Listed /\ WaitersAreWoken)'
  <2>1. Accounted => OwnRecords
    BY DEF Accounted
  <2>. QED  BY <2>1, AccountedStep, OneStep, QueuesStep, ListedAll, WokenStep DEF Typed
<1>2. Typed /\ Accounted => AllOfItWaits
  BY SettledWaits DEF Typed
<1>3. Init => Accounted
  BY InitAccounted
<1>4. Init => WaitersAreWoken
  BY InitWaits
<1>. QED  BY <1>1, <1>2, <1>3, <1>4, InitOne, InitQueues, InitListed, TypesAreKept, PTL DEF Spec, Surely

\* Every step keeps what the report rests on.
LEMMA HangStep ==
    ASSUME Surely, Surely', HangInv, [Next]_vars
    PROVE  HangInv'
<1>1. /\ TypeOK /\ FramesAreNested /\ WaitersExist /\ OwnRecords /\ RunnersDoNotWait /\ QueuesInv
      /\ WaitersAreWoken /\ AllOfItWaits' /\ SleepersAreListed'
  BY DEF Surely, Typed, Accounted, Listed
<1>2. Crewed /\ AtHome /\ Founded /\ Begun /\ BookedIsOwned /\ MainRooted /\ Noticed
  BY DEF HangInv
<1>3. Crewed' /\ AtHome' /\ Founded'
  BY <1>1, <1>2, CrewedStep, AtHomeStep, FoundedStep
<1>4. Begun' /\ BookedIsOwned' /\ MainRooted'
  BY <1>1, <1>2, WaitsStep, MainStep
<1>5. Noticed'
  BY <1>1, <1>2, NoticedStep
<1>. QED  BY <1>3, <1>4, <1>5 DEF HangInv

\* So it holds of every state.
LEMMA HangInvHolds == Spec => []HangInv
<1>1. Surely /\ Surely' /\ HangInv /\ [Next]_vars => HangInv'
  BY HangStep
<1>2. Init => HangInv
  BY InitHang
<1>. QED  BY <1>1, <1>2, SurelyHolds, PTL DEF Spec

\* Work queued on a pool finds a thread: as long as every pool but main's was
\* made with one, a pool that has work and has not retired has a thread that is
\* not asleep for want of work.  (It may be asleep in a send: see
\* WorkIsNotSleptOn.)
THEOREM WorkFindsAThread ==
    ASSUME Staffed
    PROVE  Spec => []WorkHasAThread
<1>1. Surely /\ HangInv /\ WorkHasAThread /\ [Next]_vars => WorkHasAThread'
  BY WorkStep DEF Surely, Typed, HangInv
<1>2. Init => WorkHasAThread
  BY InitHang
<1>. QED  BY <1>1, <1>2, SurelyHolds, HangInvHolds, PTL DEF Spec

\* "... a waiting frame prints a report and the process exits with status 1,
\* rather than hang": the settled system is reported, unless the answer to a
\* wait lies buried under another wait of its thread, or a dedicated pool has
\* retired, as long as every pool but main's was made with a thread.
THEOREM HangsAreReported ==
    ASSUME Staffed
    PROVE  Spec => [](NoSilentHang \/ Buried \/ retired # {})
<1>1. Surely /\ HangInv /\ WorkHasAThread => (NoSilentHang \/ Buried \/ retired # {})
  BY RestIsReported DEF Surely, Typed, HangInv
<1>. QED  BY <1>1, SurelyHolds, HangInvHolds, WorkFindsAThread, PTL

(***************************************************************************)
(* Programs that never wait.                                               *)
(***************************************************************************)
\* No waitfor in the program's code, finitely many threads, and a park that
\* returns only when its thread is unparked.
Calm == /\ MaxSpurious = 0
        /\ \A m \in May : m.op # "waiter"
        /\ IsFiniteSet(Threads)

\* No record is ever made.
NoRecords == waiters = <<>>

\* Then no frame is in a wait, no token is aimed at one, and whoever looks for
\* work or sleeps for want of it has an empty stack.
LEMMA NobodyWaits ==
    ASSUME TypeOK, FramesAreNested, WaitersExist, NoRecords
    PROVE  /\ \A t \in Threads : pc[t] \in {"look", "park"} => stack[t] = <<>>
           /\ \A s \in Slots : target[s] \notin Wids
           /\ \A w : w \notin DOMAIN waiters
<1>1. \A w : w \notin DOMAIN waiters
  BY EmptySeq DEF NoRecords
<1>2. ASSUME NEW t \in Threads, pc[t] \in {"look", "park"}, stack[t] # <<>>
      PROVE  FALSE
  <2>1. Top(t).wid # 0
    BY <1>2 DEF FramesAreNested, NestedOn
  <2>2. Top(t).wid \in DOMAIN waiters
    BY <1>2, <2>1, TopType DEF WaitersExist
  <2>. QED  BY <1>1, <2>2
<1>. QED  BY <1>1, <1>2 DEF WaitersExist

\* A platform handler's thread never looks for work.
LEMMA HostsNeverLook ==
    ASSUME TypeOK, FramesAreNested, WaitersExist, NoRecords, Rooted, NEW h \in Hosts
    PROVE  pc[h] \notin {"look", "park"}
<1>1. h \in Threads
  BY DEF Threads
<1>. QED  BY <1>1, NobodyWaits DEF Rooted

\* No step of such a program makes one.
LEMMA NoRecordsStep ==
    ASSUME TypeOK, FramesAreNested, WaitersExist, Calm, NoRecords, [Next]_vars
    PROVE  NoRecords'
<1>1. CASE Quietly
  <2>1. DOMAIN waiters' = DOMAIN waiters
    BY <1>1 DEF Quietly
  <2>2. waiters \in Seq(WaiterRec) /\ waiters = <<>> /\ waiters' \in Seq(WaiterRec)
    BY StepType DEF TypeOK, NoRecords
  <2>3. DOMAIN waiters' = {}
    BY <2>1, <2>2
  <2>. QED  BY <2>2, <2>3 DEF NoRecords
<1>2. ASSUME NEW t \in Threads, MintWaiter(t)
      PROVE  FALSE
  BY <1>2 DEF MintWaiter, Does, Calm
<1>3. ASSUME NEW t \in Threads, TopEnds(t) \/ NextWork(t) \/ \E h \in Hosts, c \in SUBSET Slots : HostOpens(t, h, c)
      PROVE  UNCHANGED waiters
  BY <1>3 DEF TopEnds, Ends, NextWork, HostOpens, waiterVars
<1>4. ASSUME NEW t \in Threads, WaitGot(t) \/ WaitWork(t) \/ WaitIdles(t)
      PROVE  FALSE
  BY <1>4, NobodyWaits DEF WaitGot, WaitWork, WaitIdles, WaitLooks, Looks
<1>. QED  BY <1>1, <1>2, <1>3, <1>4, StepKinds DEF NoRecords

(***************************************************************************)
(* The lists are true of who sleeps.                                       *)
(***************************************************************************)
\* Whoever is on a list sleeps there, is there once, and has no permit; and a
\* permit is for somebody asleep.
Punctual ==
    /\ \A t \in permit : pc[t] \in {"park", "full"}
    /\ \A p \in Pools : Once(idle[p], Threads)
    /\ \A p \in Pools : \A t \in ToSet(idle[p]) : pc[t] = "park" /\ t \notin permit
    /\ \A a \in Actors : Once(blocked[a], Threads)
    /\ \A a \in Actors : \A t \in ToSet(blocked[a]) :
         pc[t] = "full" /\ t \notin permit /\ sending[t].to = a
    /\ \A p \in retired : idle[p] = <<>>

\* What a list loses.
Shortened(l, m) == m = l \/ m = <<>> \/ (l # <<>> /\ m = Tail(l))
Gone(u) == \/ \E p \in Pools : u \in ToSet(idle[p]) /\ u \notin ToSet(idle'[p])
           \/ \E a \in Actors : u \in ToSet(blocked[a]) /\ u \notin ToSet(blocked'[a])

\* A step that puts nobody to sleep, wakes nobody who does not, and unparks
\* only whom it takes off a list.
Tidy ==
    /\ \A p \in Pools : Shortened(idle[p], idle'[p])
    /\ \A a \in Actors : Shortened(blocked[a], blocked'[a])
    /\ \A u \in permit' : u \in permit \/ Gone(u)
    /\ \A u \in Threads : IF pc[u] \in {"park", "full"}
                          THEN pc'[u] = pc[u] /\ sending'[u].to = sending[u].to
                          ELSE pc'[u] \notin {"park", "full"}
    /\ \A p \in retired' : p \in retired \/ idle'[p] = <<>>

\* A list that loses its head, or all, keeps no one it did not have, nor one twice.
LEMMA ShorterList ==
    ASSUME NEW S, NEW l \in Seq(S), NEW m, Shortened(l, m), Once(l, S)
    PROVE  m \in Seq(S) /\ Once(m, S) /\ ToSet(m) \subseteq ToSet(l)
<1>1. CASE m = <<>>
  BY <1>1 DEF Once, ToSet
<1>2. CASE l # <<>> /\ m = Tail(l)
  BY <1>2, OnceTail, ToSetTail
<1>. QED  BY <1>1, <1>2 DEF Shortened

\* A tidy step keeps the lists true.
LEMMA TidyKeeps ==
    ASSUME TypeOK, Crewed, Punctual, Tidy
    PROVE  Punctual'
<1>1. ASSUME NEW p \in Pools
      PROVE  Once(idle'[p], Threads) /\ ToSet(idle'[p]) \subseteq ToSet(idle[p]) /\ ToSet(idle[p]) \subseteq Threads
  <2>1. idle[p] \in Seq(Threads) /\ Once(idle[p], Threads) /\ Shortened(idle[p], idle'[p])
    BY DEF TypeOK, Punctual, Tidy
  <2>2. ToSet(idle[p]) \subseteq Threads
    BY <2>1 DEF ToSet
  <2>. QED  BY <2>1, <2>2, ShorterList
<1>2. ASSUME NEW a \in Actors
      PROVE  Once(blocked'[a], Threads) /\ ToSet(blocked'[a]) \subseteq ToSet(blocked[a]) /\ ToSet(blocked[a]) \subseteq Threads
  <2>1. blocked[a] \in Seq(Threads) /\ Once(blocked[a], Threads) /\ Shortened(blocked[a], blocked'[a])
    BY DEF TypeOK, Punctual, Tidy
  <2>2. ToSet(blocked[a]) \subseteq Threads
    BY <2>1 DEF ToSet
  <2>. QED  BY <2>1, <2>2, ShorterList
<1>3. ASSUME NEW u \in permit'
      PROVE  u \in Threads /\ pc'[u] \in {"park", "full"}
  <2>1. u \in Threads /\ pc[u] \in {"park", "full"}
    <3>1. u \in permit \/ Gone(u)
      BY <1>3 DEF Tidy
    <3>2. CASE u \in permit
      BY <3>2 DEF Punctual, TypeOK
    <3>3. ASSUME NEW p \in Pools, u \in ToSet(idle[p])
          PROVE  u \in Threads /\ pc[u] \in {"park", "full"}
      BY <1>1, <3>3 DEF Punctual
    <3>4. ASSUME NEW a \in Actors, u \in ToSet(blocked[a])
          PROVE  u \in Threads /\ pc[u] \in {"park", "full"}
      BY <1>2, <3>4 DEF Punctual
    <3>. QED  BY <3>1, <3>2, <3>3, <3>4 DEF Gone
  <2>. QED  BY <2>1 DEF Tidy
<1>4. ASSUME NEW p \in Pools, NEW u \in ToSet(idle'[p])
      PROVE  pc'[u] = "park" /\ u \notin permit'
  <2>1. u \in Threads /\ u \in ToSet(idle[p]) /\ pc[u] = "park" /\ u \notin permit /\ Serves[u] = p
    BY <1>1, <1>4 DEF Punctual, Crewed
  <2>2. ~Gone(u)
    <3>1. \A q \in Pools : u \in ToSet(idle[q]) => q = p
      BY <2>1 DEF Crewed
    <3>2. \A a \in Actors : u \notin ToSet(blocked[a])
      BY <2>1 DEF Punctual
    <3>. QED  BY <1>4, <3>1, <3>2 DEF Gone
  <2>. QED  BY <2>1, <2>2 DEF Tidy
<1>5. ASSUME NEW a \in Actors, NEW u \in ToSet(blocked'[a])
      PROVE  pc'[u] = "full" /\ u \notin permit' /\ sending'[u].to = a
  <2>1. u \in Threads /\ u \in ToSet(blocked[a]) /\ pc[u] = "full" /\ u \notin permit /\ sending[u].to = a
    BY <1>2, <1>5 DEF Punctual
  <2>2. ~Gone(u)
    <3>1. \A q \in Pools : u \notin ToSet(idle[q])
      BY <2>1 DEF Punctual
    <3>2. \A b \in Actors : u \in ToSet(blocked[b]) => b = a
      BY <2>1 DEF Punctual
    <3>. QED  BY <1>5, <3>1, <3>2 DEF Gone
  <2>. QED  BY <2>1, <2>2 DEF Tidy
<1>6. ASSUME NEW p \in retired'
      PROVE  idle'[p] = <<>>
  <2>1. CASE p \in retired
    <3>1. p \in Pools /\ idle[p] = <<>> /\ Shortened(idle[p], idle'[p])
      BY <2>1 DEF Punctual, Tidy, TypeOK
    <3>. QED  BY <3>1 DEF Shortened
  <2>. QED  BY <1>6, <2>1 DEF Tidy
<1>. QED  BY <1>1, <1>2, <1>3, <1>4, <1>5, <1>6 DEF Punctual

\* Whoever falls asleep for want of work joins the list of its pool.
LEMMA SleepKeeps ==
    ASSUME TypeOK, Crewed, Punctual, NEW t \in Threads, pc[t] = "look", Goto(t, "park"),
           idle' = [idle EXCEPT ![Serves[t]] = Append(@, t)], Serves[t] \notin retired,
           UNCHANGED <<blocked, permit, sending, retired>>
    PROVE  Punctual'
<1>. PICK p \in Pools : p = Serves[t]
  BY ServesAPool
<1>1. pc'[t] = "park" /\ \A u \in Threads : u # t => pc'[u] = pc[u]
  BY GotoEffect
<1>2. /\ t \notin permit
      /\ \A q \in Pools : t \notin ToSet(idle[q])
      /\ \A a \in Actors : t \notin ToSet(blocked[a])
  BY DEF Punctual
<1>3. /\ \A q \in Pools : idle[q] \in Seq(Threads) /\ ToSet(idle[q]) \subseteq Threads
      /\ \A a \in Actors : ToSet(blocked[a]) \subseteq Threads
      /\ permit \subseteq Threads
  BY DEF TypeOK, ToSet
<1>4. idle'[p] = Append(idle[p], t) /\ \A q \in Pools : q # p => idle'[q] = idle[q]
  BY DEF TypeOK
<1>5. ToSet(idle'[p]) = ToSet(idle[p]) \cup {t} /\ Once(idle'[p], Threads)
  <2>1. Once(idle[p], Threads)
    BY DEF Punctual
  <2>. QED  BY <1>2, <1>3, <1>4, <2>1, ToSetAppend, OnceAppend
<1>6. \A q \in Pools : Once(idle'[q], Threads)
  BY <1>4, <1>5 DEF Punctual
<1>7. ASSUME NEW q \in Pools, NEW u \in ToSet(idle'[q])
      PROVE  pc'[u] = "park" /\ u \notin permit'
  <2>1. CASE u = t
    BY <1>1, <1>2, <2>1
  <2>2. CASE u # t
    <3>1. u \in ToSet(idle[q])
      BY <1>4, <1>5, <1>7, <2>2
    <3>. QED  BY <1>1, <1>3, <2>2, <3>1 DEF Punctual
  <2>. QED  BY <2>1, <2>2
<1>8. ASSUME NEW a \in Actors
      PROVE  /\ Once(blocked'[a], Threads)
             /\ \A u \in ToSet(blocked'[a]) : pc'[u] = "full" /\ u \notin permit' /\ sending'[u].to = a
  BY <1>1, <1>2, <1>3 DEF Punctual
<1>9. ASSUME NEW q \in retired'
      PROVE  idle'[q] = <<>>
  <2>1. q \in Pools /\ q # p /\ idle[q] = <<>>
    BY <1>9 DEF Punctual, TypeOK
  <2>. QED  BY <1>4, <2>1
<1>10. \A u \in permit' : pc'[u] \in {"park", "full"}
  BY <1>1, <1>2, <1>3 DEF Punctual
<1>. QED  BY <1>6, <1>7, <1>8, <1>9, <1>10 DEF Punctual

\* Whoever is stopped in a send joins the list of the mailbox.
LEMMA BlockKeeps ==
    ASSUME TypeOK, Punctual, NEW t \in Threads, NEW a \in Actors, NEW s, pc[t] \notin {"park", "full"},
           Goto(t, "full"), blocked' = [blocked EXCEPT ![a] = Append(@, t)],
           sending' = [sending EXCEPT ![t] = [to |-> a, tok |-> s]],
           UNCHANGED <<idle, permit, retired>>
    PROVE  Punctual'
<1>1. pc'[t] = "full" /\ \A u \in Threads : u # t => pc'[u] = pc[u]
  BY GotoEffect
<1>2. /\ t \notin permit
      /\ \A q \in Pools : t \notin ToSet(idle[q])
      /\ \A b \in Actors : t \notin ToSet(blocked[b])
  BY DEF Punctual
<1>3. /\ \A q \in Pools : ToSet(idle[q]) \subseteq Threads
      /\ \A b \in Actors : blocked[b] \in Seq(Threads) /\ ToSet(blocked[b]) \subseteq Threads
      /\ permit \subseteq Threads
  BY DEF TypeOK, ToSet
<1>4. blocked'[a] = Append(blocked[a], t) /\ \A b \in Actors : b # a => blocked'[b] = blocked[b]
  BY DEF TypeOK
<1>5. ToSet(blocked'[a]) = ToSet(blocked[a]) \cup {t} /\ Once(blocked'[a], Threads)
  <2>1. Once(blocked[a], Threads)
    BY DEF Punctual
  <2>. QED  BY <1>2, <1>3, <1>4, <2>1, ToSetAppend, OnceAppend
<1>6. \A b \in Actors : Once(blocked'[b], Threads)
  BY <1>4, <1>5 DEF Punctual
<1>7. sending'[t].to = a /\ \A u \in Threads : u # t => sending'[u] = sending[u]
  BY DEF TypeOK
<1>8. ASSUME NEW b \in Actors, NEW u \in ToSet(blocked'[b])
      PROVE  pc'[u] = "full" /\ u \notin permit' /\ sending'[u].to = b
  <2>1. CASE u = t
    <3>1. b = a
      BY <1>2, <1>4, <1>8, <2>1
    <3>. QED  BY <1>1, <1>2, <1>7, <2>1, <3>1
  <2>2. CASE u # t
    <3>1. u \in ToSet(blocked[b])
      BY <1>4, <1>5, <1>8, <2>2
    <3>. QED  BY <1>1, <1>3, <1>7, <2>2, <3>1 DEF Punctual
  <2>. QED  BY <2>1, <2>2
<1>9. ASSUME NEW q \in Pools
      PROVE  /\ Once(idle'[q], Threads)
             /\ \A u \in ToSet(idle'[q]) : pc'[u] = "park" /\ u \notin permit'
  BY <1>1, <1>2, <1>3 DEF Punctual
<1>10. \A u \in permit' : pc'[u] \in {"park", "full"}
  BY <1>1, <1>2, <1>3 DEF Punctual
<1>11. \A q \in retired' : idle'[q] = <<>>
  BY DEF Punctual
<1>. QED  BY <1>6, <1>8, <1>9, <1>10, <1>11 DEF Punctual

\* Whoever wakes with a permit is on no list.
LEMMA ParkKeeps ==
    ASSUME TypeOK, Punctual, NEW t \in permit, permit' = permit \ {t},
           \A u \in Threads : u # t => pc'[u] = pc[u],
           UNCHANGED <<idle, blocked, sending, retired>>
    PROVE  Punctual'
<1>1. /\ \A q \in Pools : ToSet(idle[q]) \subseteq Threads \ {t}
      /\ \A b \in Actors : ToSet(blocked[b]) \subseteq Threads \ {t}
      /\ permit \subseteq Threads
  BY DEF TypeOK, ToSet, Punctual
<1>. QED  BY <1>1 DEF Punctual

\* Without spurious returns, only who has a permit wakes.
LEMMA ParkHasPermit ==
    ASSUME TypeOK, FramesAreNested, Listed, Calm, NEW t \in Threads, Park(t)
    PROVE  t \in permit
<1>1. SUFFICES ASSUME t \notin permit PROVE FALSE
  OBVIOUS
<1>2. pc[t] \in {"park", "full"} /\ Len(SleepsOn(t)) <= 0
  BY <1>1 DEF Park, Calm
<1>3. \A S : \A l \in Seq(S) : Len(l) <= 0 => ToSet(l) = {}
  BY DEF ToSet
<1>4. CASE pc[t] = "park"
  <2>1. t \in ToSet(idle[Serves[t]]) /\ idle[Serves[t]] \in Seq(Threads) /\ Len(idle[Serves[t]]) <= 0
    BY <1>1, <1>2, <1>4, ServesAPool DEF Listed, SleepersAreListed, SleepsOn, TypeOK
  <2>. QED  BY <1>3, <2>1
<1>5. CASE pc[t] = "full"
  <2>1. sending[t].to \in Actors
    BY <1>5 DEF FramesAreNested, NestedOn
  <2>2. /\ t \in ToSet(blocked[sending[t].to]) /\ blocked[sending[t].to] \in Seq(Threads)
        /\ Len(blocked[sending[t].to]) <= 0
    BY <1>1, <1>2, <1>5, <2>1 DEF Listed, BlockedAreListed, SleepsOn, TypeOK
  <2>. QED  BY <1>3, <2>2
<1>. QED  BY <1>2, <1>4, <1>5

(***************************************************************************)
(* Which steps are tidy.                                                   *)
(***************************************************************************)
\* Whoever sleeps sleeps on, and nobody else falls asleep.
SleepsOnly(u) == IF pc[u] \in {"park", "full"}
            THEN pc'[u] = pc[u] /\ sending'[u].to = sending[u].to
            ELSE pc'[u] \notin {"park", "full"}

\* The part of it that is about the idle lists, but for `also'.
IdleTidy(also) ==
    /\ \A p \in Pools : Shortened(idle[p], idle'[p])
    /\ \A u \in permit' : \/ u \in permit \cup also
                          \/ \E p \in Pools : u \in ToSet(idle[p]) /\ u \notin ToSet(idle'[p])

\* An idle list left alone.
LEMMA IdleTidySame ==
    ASSUME NEW also, UNCHANGED idle, permit' \subseteq permit \cup also
    PROVE  IdleTidy(also)
BY DEF IdleTidy, Shortened

\* wake_pool unparks the one it takes off.
LEMMA IdleTidyPool ==
    ASSUME TypeOK, Punctual, NEW p \in Pools, NEW also, WakePool(p, also)
    PROVE  IdleTidy(also)
<1>1. /\ idle'[p] = (IF idle[p] = <<>> THEN idle[p] ELSE Tail(idle[p]))
      /\ \A q \in Pools : q # p => idle'[q] = idle[q]
  BY DEF WakePool, TypeOK
<1>2. permit' = permit \cup also \cup (IF idle[p] = <<>> THEN {} ELSE {Head(idle[p])})
  BY DEF WakePool
<1>3. ASSUME idle[p] # <<>>
      PROVE  Head(idle[p]) \in ToSet(idle[p]) /\ Head(idle[p]) \notin ToSet(idle'[p])
  <2>1. idle[p] \in Seq(Threads) /\ Once(idle[p], Threads) /\ idle'[p] = Tail(idle[p])
    BY <1>1, <1>3 DEF TypeOK, Punctual
  <2>2. Head(idle[p]) \in Threads
    BY <1>3, <2>1, HeadTailProperties
  <2>. QED  BY <1>3, <2>1, <2>2, OnceTail, ToSetTail
<1>. QED  BY <1>1, <1>2, <1>3 DEF IdleTidy, Shortened

\* Waking every thread of some pools unparks those who were on their lists.
LEMMA IdleTidyEvery ==
    ASSUME TypeOK, NEW ps \in SUBSET Pools, NEW also, WakeEvery(ps, also)
    PROVE  IdleTidy(also)
<1>1. \A p \in Pools : idle'[p] = IF p \in ps THEN <<>> ELSE idle[p]
  BY DEF WakeEvery
<1>2. permit' = permit \cup also \cup UNION {ToSet(idle[p]) : p \in ps}
  BY DEF WakeEvery
<1>3. ToSet(<<>>) = {}
  BY DEF ToSet
<1>. QED  BY <1>1, <1>2, <1>3 DEF IdleTidy, Shortened

\* mark_ready wakes its actor's pool, if it wakes anybody.
LEMMA IdleTidyReady ==
    ASSUME TypeOK, Punctual, NEW b \in Actors, NEW also, MarkReadyAndWake(b, also)
    PROVE  IdleTidy(also)
<1>1. Home[b] \in Pools
  BY ConstantsAssumption
<1>2. CASE MayQueue(b)
  <2>1. WakePool(Home[b], also)
    BY <1>2 DEF MarkReadyAndWake
  <2>. QED  BY <1>1, <2>1, IdleTidyPool
<1>3. CASE ~MayQueue(b)
  <2>1. permit' = permit \cup also /\ UNCHANGED idle
    BY <1>3 DEF MarkReadyAndWake
  <2>. QED  BY <2>1, IdleTidySame
<1>. QED  BY <1>2, <1>3

\* Where no frame waits, a delivery wakes a pool if it wakes anybody.
LEMMA IdleTidyDelivery ==
    ASSUME TypeOK, FramesAreNested, WaitersExist, NoRecords, Punctual, NEW s \in Slots, DeliverTo(s)
    PROVE  IdleTidy({})
<1>1. CASE DeliverToActor(s)
  <2>1. target[s] \in Actors /\ MarkReadyAndWake(target[s], {})
    BY <1>1 DEF DeliverToActor
  <2>. QED  BY <2>1, IdleTidyReady
<1>2. CASE DeliverToTask(s)
  <2>1. target[s] \in Pools /\ WakePool(target[s], {})
    BY <1>2 DEF DeliverToTask
  <2>. QED  BY <2>1, IdleTidyPool
<1>3. ~DeliverToWaiter(s)
  BY NobodyWaits DEF DeliverToWaiter
<1>. QED  BY <1>1, <1>2, <1>3 DEF DeliverTo

\* A step that leaves the senders' lists alone.
LEMMA TidyIdle ==
    ASSUME IdleTidy({}), UNCHANGED blocked, \A u \in Threads : SleepsOnly(u),
           \A p \in retired' : p \in retired \/ idle'[p] = <<>>
    PROVE  Tidy
<1>1. \A u \in permit' : u \in permit \/ Gone(u)
  BY DEF IdleTidy, Gone
<1>2. \A p \in Pools : Shortened(idle[p], idle'[p])
  BY DEF IdleTidy
<1>3. \A a \in Actors : Shortened(blocked[a], blocked'[a])
  BY DEF Shortened
<1>. QED  BY <1>1, <1>2, <1>3 DEF Tidy, SleepsOnly

\* One thread that does not sleep moves to where it does not either.
LEMMA GotoSleepsOnly ==
    ASSUME TypeOK, NEW t \in Threads, NEW l, l \notin {"park", "full"}, Goto(t, l),
           pc[t] \notin {"park", "full"}, \A u \in Threads : u # t => sending'[u] = sending[u]
    PROVE  \A u \in Threads : SleepsOnly(u)
<1>1. pc'[t] = l
  BY GotoEffect
<1>2. \A u \in Threads : u # t => pc'[u] = pc[u]
  BY GotoEffect
<1>3. \A u \in Threads : SleepsOnly(u)
  BY <1>1, <1>2 DEF SleepsOnly
<1>. QED  BY <1>3

\* Nobody moves.
LEMMA StillSleepsOnly ==
    ASSUME UNCHANGED <<pc, sending>>
    PROVE  \A u \in Threads : SleepsOnly(u)
BY DEF SleepsOnly

\* A piece of work taken out: the first sender for its room is unparked.
LEMMA TakesTidy ==
    ASSUME TypeOK, Punctual, NEW t \in Threads, NEW own, TakeWork(t, own), pc[t] = "look"
    PROVE  Tidy
<1>1. UNCHANGED <<idle, retired, sending>> /\ Goto(t, "run")
  BY DEF TakeWork
<1>2. \A u \in Threads : SleepsOnly(u)
  BY <1>1, GotoSleepsOnly
<1>3. CASE UNCHANGED <<blocked, permit>>
  BY <1>1, <1>2, <1>3, IdleTidySame, TidyIdle
<1>4. ASSUME NEW a \in Actors, WakeSender(a)
      PROVE  Tidy
  <2>1. /\ blocked'[a] = (IF blocked[a] = <<>> THEN blocked[a] ELSE Tail(blocked[a]))
        /\ \A b \in Actors : b # a => blocked'[b] = blocked[b]
    BY <1>4 DEF WakeSender, TypeOK
  <2>2. permit' = (IF blocked[a] = <<>> THEN permit ELSE permit \cup {Head(blocked[a])})
    BY <1>4 DEF WakeSender
  <2>3. ASSUME blocked[a] # <<>>
        PROVE  Gone(Head(blocked[a]))
    <3>1. blocked[a] \in Seq(Threads) /\ Once(blocked[a], Threads) /\ blocked'[a] = Tail(blocked[a])
      BY <2>1, <2>3 DEF TypeOK, Punctual
    <3>2. Head(blocked[a]) \in Threads
      BY <2>3, <3>1, HeadTailProperties
    <3>3. Head(blocked[a]) \in ToSet(blocked[a]) /\ Head(blocked[a]) \notin ToSet(blocked'[a])
      BY <2>3, <3>1, <3>2, OnceTail, ToSetTail
    <3>. QED  BY <3>3 DEF Gone
  <2>4. /\ \A p \in Pools : Shortened(idle[p], idle'[p])
        /\ \A b \in Actors : Shortened(blocked[b], blocked'[b])
    BY <1>1, <2>1 DEF Shortened
  <2>5. \A u \in permit' : u \in permit \/ Gone(u)
    BY <2>2, <2>3
  <2>. QED  BY <1>1, <1>2, <2>4, <2>5 DEF Tidy, SleepsOnly
<1>5. CASE TakeTask(t)
  <2>1. UNCHANGED <<blocked, permit>>
    BY <1>5 DEF TakeTask, actorVars
  <2>. QED  BY <1>3, <2>1
<1>6. ASSUME NEW a \in Actors, NEW k \in DOMAIN queue[a], TakeEntryOf(t, own, a, k)
      PROVE  UNCHANGED <<blocked, permit>> \/ WakeSender(a)
  BY <1>6 DEF TakeEntryOf
<1>. QED  BY <1>3, <1>4, <1>5, <1>6 DEF TakeWork, TakeEntry

\* An activation or a task ends: a dead actor's senders are unparked, and a
\* pool that retires has its threads woken.
LEMMA EndsTidy ==
    ASSUME TypeOK, Punctual, NEW t \in Threads,
           ActorReturns(t) \/ ActorFaults(t) \/ TaskReturns(t) \/ TaskFaults(t)
    PROVE  Tidy
<1>1. Ends(t)
  BY DEF ActorReturns, ActorFaults, TaskReturns, TaskFaults, TaskEnds
<1>2. \A u \in Threads : SleepsOnly(u)
  <2>1. UNCHANGED sending /\ Goto(t, "look") /\ pc[t] \notin {"park", "full"}
    BY <1>1 DEF Ends, Runs
  <2>. QED  BY <2>1, GotoSleepsOnly
<1>3. CASE ActorReturns(t)
  <2>1. UNCHANGED <<idle, blocked, permit, retired>>
    BY <1>3 DEF ActorReturns
  <2>. QED  BY <1>2, <2>1, IdleTidySame, TidyIdle
<1>4. ASSUME NEW S \in {{}, LiveSink(Serves[t])}, TaskEnds(t, S)
      PROVE  Tidy
  <2>1. UNCHANGED blocked /\ Serves[t] \in Pools
    BY <1>4, ServesAPool DEF TaskEnds
  <2>2. CASE S # {}
    <3>1. Sink[Serves[t]] \in Actors
      BY <1>4, <2>1, <2>2, LiveSinkIsActor
    <3>2. MarkReadyAndWake(Sink[Serves[t]], {}) /\ UNCHANGED retired
      BY <1>4, <2>2 DEF TaskEnds
    <3>. QED  BY <1>2, <2>1, <3>1, <3>2, IdleTidyReady, TidyIdle
  <2>3. CASE S = {}
    <3>. DEFINE ps == IF Done(Serves[t]) THEN {Serves[t]} ELSE {}
    <3>1. WakeEvery(ps, {}) /\ retired' = retired \cup ps
      BY <1>4, <2>3 DEF TaskEnds
    <3>2. ps \in SUBSET Pools
      BY <2>1
    <3>3. IdleTidy({})
      BY <3>1, <3>2, IdleTidyEvery
    <3>4. \A p \in retired' : p \in retired \/ idle'[p] = <<>>
      BY <2>1, <3>1 DEF WakeEvery
    <3>. QED  BY <1>2, <2>1, <3>3, <3>4, TidyIdle
  <2>. QED  BY <2>2, <2>3
<1>5. CASE ActorFaults(t)
  <2>. DEFINE a == Me(t)
  <2>1. /\ a \in Actors /\ Home[a] \in Pools /\ UNCHANGED retired
        /\ blocked'[a] = <<>> /\ \A b \in Actors : b # a => blocked'[b] = blocked[b]
    <3>1. a \in Actors /\ blocked' = [blocked EXCEPT ![a] = <<>>] /\ UNCHANGED retired
      BY <1>5 DEF ActorFaults
    <3>. QED  BY <3>1, ConstantsAssumption DEF TypeOK
  <2>2. IdleTidy(ToSet(blocked[a]))
    <3>1. CASE permit' = permit \cup ToSet(blocked[a]) /\ UNCHANGED idle
      BY <3>1, IdleTidySame
    <3>2. CASE LiveSink(Home[a]) # {} /\ MarkReadyAndWake(Sink[Home[a]], ToSet(blocked[a]))
      <4>1. Sink[Home[a]] \in Actors
        BY <2>1, <3>2, LiveSinkIsActor
      <4>. QED  BY <3>2, <4>1, IdleTidyReady
    <3>. QED  BY <1>5, <3>1, <3>2 DEF ActorFaults
  <2>3. ASSUME NEW u \in ToSet(blocked[a])
        PROVE  Gone(u)
    <3>1. u \notin ToSet(blocked'[a])
      BY <2>1 DEF ToSet
    <3>. QED  BY <2>1, <2>3, <3>1 DEF Gone
  <2>4. \A u \in permit' : u \in permit \/ Gone(u)
    BY <2>2, <2>3 DEF IdleTidy, Gone
  <2>5. \A p \in Pools : Shortened(idle[p], idle'[p])
    BY <2>2 DEF IdleTidy
  <2>6. \A b \in Actors : Shortened(blocked[b], blocked'[b])
    BY <2>1 DEF Shortened
  <2>. QED  BY <1>2, <2>1, <2>4, <2>5, <2>6 DEF Tidy, SleepsOnly
<1>. QED  BY <1>3, <1>4, <1>5 DEF TaskReturns, TaskFaults

\* A step of program code either is tidy, or stops its thread in a send.
LEMMA ProgramTidy ==
    ASSUME TypeOK, FramesAreNested, WaitersExist, NoRecords, Punctual, NEW t \in Threads, Program(t),
           ~\E a \in Actors, s \in Slots \cup {0} : Send(t, a, s)
    PROVE  Tidy
<1>1. CASE \/ \E gated \in BOOLEAN : MintActor(t, gated)
           \/ \E p \in Pools, c \in SUBSET Slots : MintTask(t, p, c)
           \/ MintWaiter(t)
           \/ \E a \in Actors : NewActor(t, a)
  <2>1. UNCHANGED <<idle, blocked, permit, retired, pc, sending>>
    BY <1>1 DEF MintActor, MintTask, MintWaiter, NewActor, threadVars, poolVars, actorVars
  <2>. QED  BY <2>1, IdleTidySame, TidyIdle, StillSleepsOnly
<1>2. CASE Await(t)
  <2>1. /\ UNCHANGED <<idle, blocked, permit, retired, sending>>
        /\ Goto(t, "look") /\ pc[t] \notin {"park", "full"}
    BY <1>2 DEF Await, poolVars, actorVars
  <2>. QED  BY <2>1, IdleTidySame, TidyIdle, GotoSleepsOnly
<1>3. ASSUME NEW s \in Slots, Answer(t, s)
      PROVE  Tidy
  <2>1. DeliverTo(s) /\ UNCHANGED <<blocked, retired, pc, sending>>
    BY <1>3 DEF Answer, DeliverTo
  <2>. QED  BY <2>1, IdleTidyDelivery, TidyIdle, StillSleepsOnly
<1>4. ASSUME NEW a \in Actors, NEW s \in Slots, Watch(t, a, s)
      PROVE  Tidy
  <2>1. CASE DeliverTo(s)
    <3>1. UNCHANGED <<blocked, retired, pc, sending>>
      BY <1>4, <2>1 DEF Watch, DeliverTo
    <3>. QED  BY <2>1, <3>1, IdleTidyDelivery, TidyIdle, StillSleepsOnly
  <2>2. CASE UNCHANGED <<blocked, poolVars, permit>>
    <3>1. UNCHANGED <<idle, blocked, permit, retired, pc, sending>>
      BY <1>4, <2>2 DEF Watch, poolVars
    <3>. QED  BY <3>1, IdleTidySame, TidyIdle, StillSleepsOnly
  <2>. QED  BY <1>4, <2>1, <2>2 DEF Watch
<1>5. ASSUME NEW s \in Slots, OnIdle(t, s)
      PROVE  Tidy
  <2>1. WakeEvery(Pools, {}) /\ UNCHANGED <<blocked, retired, pc, sending>>
    BY <1>5 DEF OnIdle, actorVars
  <2>. QED  BY <2>1, IdleTidyEvery, TidyIdle, StillSleepsOnly
<1>6. ASSUME NEW p \in Pools, NewPool(t, p)
      PROVE  Tidy
  <2>1. /\ UNCHANGED <<idle, blocked, permit, retired, sending>> /\ p \notin made
        /\ \A u \in Threads : pc'[u] = IF u \in Workers /\ Serves[u] = p THEN "look" ELSE pc[u]
    BY <1>6 DEF NewPool, poolVars, actorVars
  <2>2. \A u \in Workers : Serves[u] = p => pc[u] = "unborn"
    BY <2>1 DEF FramesAreNested
  <2>3. \A u \in Threads : SleepsOnly(u)
    BY <2>1, <2>2 DEF SleepsOnly
  <2>. QED  BY <2>1, <2>3, IdleTidySame, TidyIdle
<1>7. ASSUME NEW h \in Hosts, NEW c \in SUBSET Slots, HostOpens(t, h, c)
      PROVE  Tidy
  <2>1. h \in Threads
    BY DEF Threads
  <2>2. /\ WakeEvery(Pools, {}) /\ UNCHANGED <<blocked, retired, sending>>
        /\ Goto(h, "run") /\ pc[h] \notin {"park", "full"}
    BY <1>7 DEF HostOpens, actorVars
  <2>. QED  BY <2>1, <2>2, IdleTidyEvery, TidyIdle, GotoSleepsOnly
<1>8. CASE ActorFaults(t) \/ TaskFaults(t)
  BY <1>8, EndsTidy
<1>. QED  BY <1>1, <1>2, <1>3, <1>4, <1>5, <1>6, <1>7, <1>8 DEF Program

\* So is one of the runtime, unless it puts its thread to sleep or wakes it.
LEMMA RuntimeTidy ==
    ASSUME TypeOK, FramesAreNested, WaitersExist, NoRecords, Punctual, NEW t \in Threads, Runtime(t),
           ~Resend(t), ~Park(t), ~NextSleeps(t)
    PROVE  Tidy
<1>1. CASE ActorReturns(t) \/ TaskReturns(t)
  BY <1>1, EndsTidy
<1>2. CASE NextRetires(t)
  <2>1. /\ UNCHANGED <<idle, blocked, permit, retired, sending>>
        /\ Goto(t, "done") /\ pc[t] \notin {"park", "full"}
    BY <1>2 DEF NextRetires, Looks, poolVars, actorVars
  <2>. QED  BY <2>1, IdleTidySame, TidyIdle, GotoSleepsOnly
<1>3. CASE NextWork(t)
  BY <1>3, TakesTidy DEF NextWork, Looks
<1>4. ~WaitGot(t) /\ ~WaitWork(t) /\ ~WaitIdles(t)
  BY NobodyWaits DEF WaitGot, WaitWork, WaitIdles, WaitLooks, Looks
<1>. QED  BY <1>1, <1>2, <1>3, <1>4 DEF Runtime

\* A send goes through, or puts its thread on the list.
LEMMA EnqueueKeeps ==
    ASSUME TypeOK, Crewed, Punctual, NEW t \in Threads, NEW a \in Actors, NEW s,
           Enqueue(t, a, s), pc[t] \in {"run", "send"}, UNCHANGED retired
    PROVE  Punctual'
<1>1. ASSUME Goto(t, "run"), sending' = [sending EXCEPT ![t] = NotSending], UNCHANGED blocked,
             IdleTidy({})
      PROVE  Punctual'
  <2>1. \A u \in Threads : u # t => sending'[u] = sending[u]
    BY <1>1 DEF TypeOK
  <2>2. \A u \in Threads : SleepsOnly(u)
    BY <1>1, <2>1, GotoSleepsOnly
  <2>3. Tidy
    BY <1>1, <2>2, TidyIdle
  <2>. QED  BY <2>3, TidyKeeps
<1>2. CASE a \in dead
  <2>1. /\ Goto(t, "run") /\ sending' = [sending EXCEPT ![t] = NotSending]
        /\ UNCHANGED <<blocked, idle, permit>>
    BY <1>2 DEF Enqueue
  <2>. QED  BY <1>1, <2>1, IdleTidySame
<1>3. CASE a \notin dead /\ userLen[a] < Bound[a]
  <2>1. ~(userLen[a] >= Bound[a])
    BY <1>3, ConstantsAssumption DEF TypeOK
  <2>2. /\ Goto(t, "run") /\ sending' = [sending EXCEPT ![t] = NotSending]
        /\ UNCHANGED blocked /\ MarkReadyAndWake(a, {})
    BY <1>3, <2>1 DEF Enqueue
  <2>. QED  BY <1>1, <2>2, IdleTidyReady
<1>4. CASE a \notin dead /\ userLen[a] >= Bound[a]
  <2>1. ~(userLen[a] < Bound[a])
    BY <1>4, ConstantsAssumption DEF TypeOK
  <2>2. /\ Goto(t, "full") /\ sending' = [sending EXCEPT ![t] = [to |-> a, tok |-> s]]
        /\ blocked' = [blocked EXCEPT ![a] = Append(@, t)] /\ UNCHANGED <<idle, permit>>
    BY <1>4, <2>1 DEF Enqueue
  <2>. QED  BY <2>2, BlockKeeps
<1>. QED  BY <1>2, <1>3, <1>4 DEF Enqueue

\* Every step of a program that never waits keeps the lists true.
LEMMA PunctualStep ==
    ASSUME TypeOK, FramesAreNested, WaitersExist, Listed, Crewed, Calm, NoRecords, Punctual,
           [Next]_vars
    PROVE  Punctual'
<1>1. ASSUME UNCHANGED <<idle, blocked, permit, retired, pc, sending>>
      PROVE  Punctual'
  BY <1>1 DEF Punctual
<1>2. ASSUME NEW t \in Threads, Program(t)
      PROVE  Punctual'
  <2>1. ASSUME NEW a \in Actors, NEW s \in Slots \cup {0}, Send(t, a, s)
        PROVE  Punctual'
    <3>1. Enqueue(t, a, s) /\ pc[t] = "run" /\ UNCHANGED retired
      BY <2>1 DEF Send, Does, Runs
    <3>. QED  BY <3>1, EnqueueKeeps
  <2>. QED  BY <1>2, <2>1, ProgramTidy, TidyKeeps
<1>3. ASSUME NEW t \in Threads, Runtime(t)
      PROVE  Punctual'
  <2>1. CASE Resend(t)
    <3>1. /\ Enqueue(t, sending[t].to, sending[t].tok) /\ pc[t] = "send" /\ UNCHANGED retired
      BY <2>1 DEF Resend
    <3>2. sending[t].to \in Actors
      BY <3>1 DEF FramesAreNested, NestedOn
    <3>. QED  BY <3>1, <3>2, EnqueueKeeps
  <2>2. CASE Park(t)
    <3>1. t \in permit
      BY <2>2, ParkHasPermit
    <3>2. /\ permit' = permit \ {t} /\ UNCHANGED <<idle, blocked, sending, retired>>
          /\ \A u \in Threads : u # t => pc'[u] = pc[u]
      BY <2>2, GotoEffect DEF Park, poolVars, actorVars
    <3>. QED  BY <3>1, <3>2, ParkKeeps
  <2>3. CASE NextSleeps(t)
    <3>1. /\ pc[t] = "look" /\ Goto(t, "park") /\ idle' = [idle EXCEPT ![Serves[t]] = Append(@, t)]
          /\ Serves[t] \notin retired /\ UNCHANGED <<blocked, permit, sending, retired>>
      BY <2>3 DEF NextSleeps, Looks, actorVars
    <3>. QED  BY <3>1, SleepKeeps
  <2>. QED  BY <1>3, <2>1, <2>2, <2>3, RuntimeTidy, TidyKeeps
<1>4. ASSUME NEW h \in Threads, HostCloses(h)
      PROVE  Punctual'
  <2>1. /\ WakeEvery(Pools, {}) /\ UNCHANGED <<blocked, retired, sending>>
        /\ Goto(h, "done") /\ pc[h] \notin {"park", "full"}
    BY <1>4 DEF HostCloses, Runs, actorVars
  <2>2. Tidy
    BY <2>1, IdleTidyEvery, TidyIdle, GotoSleepsOnly
  <2>. QED  BY <2>2, TidyKeeps
<1>5. CASE DeliverNext
  <2>1. Head(bulk.tokens) \in Slots
    BY <1>5, HeadTailProperties DEF DeliverNext, TypeOK, BulkRec
  <2>2. DeliverTo(Head(bulk.tokens)) /\ UNCHANGED <<blocked, retired, pc, sending>>
    BY <1>5 DEF DeliverNext, DeliverTo
  <2>3. Tidy
    BY <2>1, <2>2, IdleTidyDelivery, TidyIdle, StillSleepsOnly
  <2>. QED  BY <2>3, TidyKeeps
<1>6. CASE EndBulk
  <2>1. UNCHANGED <<blocked, pc, sending>>
    BY <1>6 DEF EndBulk, actorVars
  <2>2. IdleTidy({}) /\ \A p \in retired' : p \in retired \/ idle'[p] = <<>>
    <3>1. CASE WakeEvery(Pools, {})
      <4>1. IdleTidy({})
        BY <3>1, IdleTidyEvery
      <4>2. \A p \in Pools : idle'[p] = <<>>
        BY <3>1 DEF WakeEvery
      <4>3. retired' \subseteq Pools
        BY StepType DEF TypeOK
      <4>. QED  BY <4>1, <4>2, <4>3
    <3>2. CASE /\ WakeEvery({}, {waiters[w].parker :
                        w \in {v \in DOMAIN waiters : waiters[v].waiting > 0}} \ {Nobody})
               /\ UNCHANGED retired
      <4>1. {waiters[w].parker : w \in {v \in DOMAIN waiters : waiters[v].waiting > 0}} \ {Nobody} = {}
        BY NobodyWaits
      <4>2. WakeEvery({}, {})
        BY <3>2, <4>1
      <4>. QED  BY <3>2, <4>2, IdleTidyEvery
    <3>3. CASE UNCHANGED <<retired, idle, permit>>
      BY <3>3, IdleTidySame
    <3>. QED  BY <1>6, <3>1, <3>2, <3>3 DEF EndBulk
  <2>3. Tidy
    BY <2>1, <2>2, TidyIdle, StillSleepsOnly
  <2>. QED  BY <2>3, TidyKeeps
<1>7. CASE UNCHANGED vars \/ MainReturns \/ Exited
  BY <1>1, <1>7 DEF vars, MainReturns, Exited, threadVars, poolVars, actorVars
<1>. QED  BY <1>2, <1>3, <1>4, <1>5, <1>6, <1>7 DEF Next

(***************************************************************************)
(* Work and those who come for it.                                         *)
(***************************************************************************)
\* What is to be done grows by no more than those who come to do it.
Keeps(n, m, S, T) == \/ m <= n /\ S \subseteq T
                     \/ m <= n + 1 /\ S \subseteq T /\ \E u \in T : u \notin S
                     \/ m <= n - 1 /\ \E u : S \ {u} \subseteq T

\* So if there were enough of them there still are.
LEMMA Counting ==
    ASSUME NEW n \in Int, NEW m \in Int, NEW S, NEW T, IsFiniteSet(S), IsFiniteSet(T),
           Keeps(n, m, S, T), n <= Cardinality(S)
    PROVE  m <= Cardinality(T)
<1>1. Cardinality(S) \in Nat /\ Cardinality(T) \in Nat
  BY FS_CardinalityType
<1>2. ASSUME S \subseteq T
      PROVE  Cardinality(S) <= Cardinality(T)
  BY <1>2, FS_Subset
<1>3. ASSUME S \subseteq T, NEW u \in T, u \notin S
      PROVE  Cardinality(S) + 1 <= Cardinality(T)
  <2>1. /\ IsFiniteSet(S \cup {u}) /\ Cardinality(S \cup {u}) = Cardinality(S) + 1
        /\ S \cup {u} \subseteq T
    BY <1>3, FS_AddElement
  <2>. QED  BY <2>1, FS_Subset
<1>4. ASSUME NEW u, S \ {u} \subseteq T
      PROVE  Cardinality(S) <= Cardinality(T) + 1
  <2>1. CASE u \in S
    <3>1. IsFiniteSet(S \ {u}) /\ Cardinality(S \ {u}) = Cardinality(S) - 1
      BY <2>1, FS_RemoveElement
    <3>2. Cardinality(S \ {u}) <= Cardinality(T)
      BY <1>4, <3>1, FS_Subset
    <3>. QED  BY <1>1, <3>1, <3>2
  <2>2. CASE u \notin S
    <3>1. S \subseteq T
      BY <1>4, <2>2
    <3>. QED  BY <1>1, <1>2, <3>1
  <2>. QED  BY <2>1, <2>2
<1>5. CASE m <= n /\ S \subseteq T
  BY <1>1, <1>2, <1>5
<1>6. CASE m <= n + 1 /\ S \subseteq T /\ \E u \in T : u \notin S
  BY <1>1, <1>3, <1>6
<1>7. CASE m <= n - 1 /\ \E u : S \ {u} \subseteq T
  BY <1>1, <1>4, <1>7
<1>. QED  BY <1>5, <1>6, <1>7 DEF Keeps

\* Who looks for work on a pool, or has been unparked to.
Wakeful(u) == pc[u] = "look" \/ (pc[u] = "park" /\ u \in permit)
Lookers(p) == {u \in Threads : Serves[u] = p /\ Wakeful(u)}
Load(p) == Len(tasks[p]) + Len(readyQ[p])

\* While anybody sleeps for want of work, there are as many who look for it as
\* there are pieces of it.
Matched == \A p \in Pools : idle[p] # <<>> => Load(p) <= Cardinality(Lookers(p))

\* How a step may change the work of a pool and who looks for it.
WorkMoves(p) == \/ idle'[p] = <<>>
                \/ Load(p)' = 0
                \/ idle[p] # <<>> /\ Keeps(Load(p), Load(p)', Lookers(p), Lookers(p)')
LookersStay == \A p \in Pools : Lookers(p) \subseteq Lookers(p)'

\* Enough look before the step, so enough look after it.
LEMMA MatchedMoves ==
    ASSUME TypeOK, TypeOK', Calm, Matched, \A p \in Pools : WorkMoves(p)
    PROVE  Matched'
<1>1. SUFFICES ASSUME NEW p \in Pools, idle'[p] # <<>>
               PROVE  Load(p)' <= Cardinality(Lookers(p)')
  BY DEF Matched
<1>2. Load(p) \in Int /\ Load(p)' \in Int
  <2>1. tasks[p] \in Seq(Slots) /\ readyQ[p] \in Seq(Actors)
    BY DEF TypeOK
  <2>2. tasks'[p] \in Seq(Slots) /\ readyQ'[p] \in Seq(Actors)
    BY DEF TypeOK
  <2>. QED  BY <2>1, <2>2 DEF Load
<1>3. IsFiniteSet(Lookers(p)) /\ IsFiniteSet(Lookers(p)')
  BY FS_Subset DEF Calm, Lookers
<1>4. CASE Load(p)' = 0
  BY <1>3, <1>4, FS_CardinalityType
<1>5. CASE idle[p] # <<>> /\ Keeps(Load(p), Load(p)', Lookers(p), Lookers(p)')
  <2>1. Load(p) <= Cardinality(Lookers(p))
    BY <1>5 DEF Matched
  <2>. QED  BY <1>2, <1>3, <1>5, <2>1, Counting
<1>. QED  BY <1>1, <1>4, <1>5 DEF WorkMoves

\* Nobody who looks goes away, and no work comes.
LEMMA WorkStill ==
    ASSUME TypeOK, LookersStay, UNCHANGED <<idle, tasks, readyQ>>
    PROVE  \A p \in Pools : WorkMoves(p)
<1>1. SUFFICES ASSUME NEW p \in Pools PROVE WorkMoves(p)
  OBVIOUS
<1>2. Load(p)' = Load(p) /\ Load(p) \in Int
  BY DEF Load, TypeOK
<1>. QED  BY <1>2 DEF WorkMoves, LookersStay, Keeps

\* Everybody is woken.
LEMMA WorkEvery ==
    ASSUME WakeEvery(Pools, {})
    PROVE  \A p \in Pools : WorkMoves(p)
BY DEF WakeEvery, WorkMoves

\* One piece of work comes, and the first asleep on its pool for it.
LEMMA WorkWakes ==
    ASSUME TypeOK, Crewed, Punctual, NEW p \in Pools, NEW also, WakePool(p, also),
           Load(p)' = Load(p) + 1, LookersStay, \A u \in Threads : SleepsOnly(u)
    PROVE  WorkMoves(p)
<1>1. CASE idle[p] = <<>>
  <2>1. idle'[p] = <<>>
    BY <1>1 DEF WakePool, TypeOK
  <2>. QED  BY <2>1 DEF WorkMoves
<1>2. CASE idle[p] # <<>>
  <2>. DEFINE u == Head(idle[p])
  <2>1. u \in Threads /\ u \in ToSet(idle[p])
    BY <1>2, HeadTailProperties, ToSetTail DEF TypeOK
  <2>2. Serves[u] = p /\ pc[u] = "park" /\ u \notin permit
    BY <2>1 DEF Crewed, Punctual
  <2>3. pc'[u] = "park" /\ u \in permit'
    BY <1>2, <2>1, <2>2 DEF SleepsOnly, WakePool
  <2>4. u \in Lookers(p)' /\ u \notin Lookers(p)
    BY <2>1, <2>2, <2>3 DEF Lookers, Wakeful
  <2>5. Load(p) \in Int
    BY DEF Load, TypeOK
  <2>. QED  BY <1>2, <2>4, <2>5 DEF WorkMoves, Keeps, LookersStay
<1>. QED  BY <1>1, <1>2

\* Nobody stops looking in a step that leaves every thread where it is and takes
\* no permit back.
LEMMA LookersStill ==
    ASSUME UNCHANGED pc, permit \subseteq permit'
    PROVE  LookersStay
BY DEF LookersStay, Lookers, Wakeful

\* One thread moves that does not look.
LEMMA LookersGoto ==
    ASSUME TypeOK, NEW t \in Threads, NEW l, Goto(t, l), pc[t] \notin {"look", "park"},
           permit \subseteq permit'
    PROVE  LookersStay
<1>1. \A u \in Threads : u # t => pc'[u] = pc[u]
  BY GotoEffect
<1>. QED  BY <1>1 DEF LookersStay, Lookers, Wakeful

\* A pool whose queues, sleepers and lookers are left alone.
LEMMA WorkElsewhere ==
    ASSUME TypeOK, NEW p \in Pools, idle'[p] = idle[p], tasks'[p] = tasks[p], readyQ'[p] = readyQ[p],
           Lookers(p) \subseteq Lookers(p)'
    PROVE  WorkMoves(p)
<1>1. Load(p)' = Load(p) /\ Load(p) \in Int
  BY DEF Load, TypeOK
<1>. QED  BY <1>1 DEF WorkMoves, Keeps

\* mark_ready: an actor is queued and its pool woken.
LEMMA WorkReady ==
    ASSUME TypeOK, Crewed, Punctual, NEW b \in Actors, NEW also, MarkReadyAndWake(b, also),
           UNCHANGED tasks, LookersStay, \A u \in Threads : SleepsOnly(u)
    PROVE  \A p \in Pools : WorkMoves(p)
<1>1. Home[b] \in Pools
  BY ConstantsAssumption
<1>2. CASE MayQueue(b)
  <2>1. /\ WakePool(Home[b], also)
        /\ readyQ' = [readyQ EXCEPT ![Home[b]] = Append(@, b)]
    BY <1>2 DEF MarkReadyAndWake, MarkReady
  <2>2. readyQ'[Home[b]] = Append(readyQ[Home[b]], b) /\ readyQ[Home[b]] \in Seq(Actors)
    BY <1>1, <2>1 DEF TypeOK
  <2>3. Load(Home[b])' = Load(Home[b]) + 1
    BY <1>1, <2>2 DEF Load, TypeOK
  <2>4. WorkMoves(Home[b])
    BY <1>1, <2>1, <2>3, WorkWakes
  <2>5. ASSUME NEW p \in Pools, p # Home[b]
        PROVE  WorkMoves(p)
    <3>1. idle'[p] = idle[p] /\ readyQ'[p] = readyQ[p]
      BY <2>1, <2>5 DEF WakePool, TypeOK
    <3>. QED  BY <3>1, WorkElsewhere DEF LookersStay
  <2>. QED  BY <2>4, <2>5
<1>3. CASE ~MayQueue(b)
  <2>1. UNCHANGED <<readyQ, idle>>
    BY <1>3 DEF MarkReadyAndWake, MarkReady
  <2>. QED  BY <2>1, WorkStill
<1>. QED  BY <1>2, <1>3

\* A delivery queues an actor or a task.
LEMMA WorkDelivery ==
    ASSUME TypeOK, Crewed, Punctual, NEW s \in Slots, DeliverTo(s), UNCHANGED <<pc, sending>>
    PROVE  \A p \in Pools : WorkMoves(p)
<1>0. LookersStay /\ \A u \in Threads : SleepsOnly(u)
  <2>1. permit \subseteq permit'
    BY WokenByDelivery DEF IdleAreWoken
  <2>. QED  BY <2>1, LookersStill, StillSleepsOnly
<1>1. CASE DeliverToActor(s)
  <2>1. target[s] \in Actors /\ MarkReadyAndWake(target[s], {}) /\ UNCHANGED tasks
    BY <1>1 DEF DeliverToActor
  <2>. QED  BY <1>0, <2>1, WorkReady
<1>2. CASE DeliverToWaiter(s)
  BY <1>0, <1>2, WorkStill DEF DeliverToWaiter
<1>3. CASE DeliverToTask(s)
  <2>. PICK p \in Pools : p = target[s]
    BY <1>3 DEF DeliverToTask
  <2>1. /\ WakePool(p, {}) /\ UNCHANGED readyQ /\ tasks' = [tasks EXCEPT ![p] = Append(@, s)]
    BY <1>3 DEF DeliverToTask
  <2>2. tasks'[p] = Append(tasks[p], s) /\ tasks[p] \in Seq(Slots)
    BY <2>1 DEF TypeOK
  <2>3. Load(p)' = Load(p) + 1
    BY <2>1, <2>2 DEF Load, TypeOK
  <2>4. WorkMoves(p)
    BY <1>0, <2>1, <2>3, WorkWakes
  <2>5. ASSUME NEW q \in Pools, q # p
        PROVE  WorkMoves(q)
    <3>1. idle'[q] = idle[q] /\ tasks'[q] = tasks[q]
      BY <2>1, <2>5 DEF WakePool, TypeOK
    <3>. QED  BY <1>0, <2>1, <3>1, WorkElsewhere DEF LookersStay
  <2>. QED  BY <2>4, <2>5
<1>. QED  BY <1>1, <1>2, <1>3 DEF DeliverTo

\* A message queues its actor, or its thread stops.
LEMMA WorkEnqueue ==
    ASSUME TypeOK, Crewed, Punctual, NEW t \in Threads, NEW a \in Actors, NEW s,
           Enqueue(t, a, s), pc[t] \in {"run", "send"}, UNCHANGED tasks
    PROVE  \A p \in Pools : WorkMoves(p)
<1>1. CASE UNCHANGED <<readyQ, idle, permit>>
  <2>1. \E l : Goto(t, l)
    BY DEF Enqueue
  <2>2. LookersStay
    BY <1>1, <2>1, LookersGoto
  <2>. QED  BY <1>1, <2>2, WorkStill
<1>2. CASE /\ MarkReadyAndWake(a, {}) /\ Goto(t, "run")
           /\ sending' = [sending EXCEPT ![t] = NotSending]
  <2>1. permit \subseteq permit'
    BY <1>2, WokenByReady DEF IdleAreWoken
  <2>2. LookersStay
    BY <1>2, <2>1, LookersGoto
  <2>3. \A u \in Threads : u # t => sending'[u] = sending[u]
    BY <1>2 DEF TypeOK
  <2>4. \A u \in Threads : SleepsOnly(u)
    BY <1>2, <2>3, GotoSleepsOnly
  <2>. QED  BY <1>2, <2>2, <2>4, WorkReady
<1>. QED  BY <1>1, <1>2 DEF Enqueue

\* One of the two queues of a pool gets shorter.
LEMMA LessLoad ==
    ASSUME NEW p, tasks[p] \in Seq(Slots), readyQ[p] \in Seq(Actors), NEW j \in Nat, j > 0,
           \/ Len(tasks'[p]) = Len(tasks[p]) - j /\ readyQ'[p] = readyQ[p]
           \/ Len(readyQ'[p]) = Len(readyQ[p]) - j /\ tasks'[p] = tasks[p]
    PROVE  Load(p)' <= Load(p) - 1
<1>1. Len(tasks[p]) \in Nat /\ Len(readyQ[p]) \in Nat
  BY LenProperties
<1>2. CASE Len(tasks'[p]) = Len(tasks[p]) - j /\ readyQ'[p] = readyQ[p]
  <2>1. Len(readyQ'[p]) = Len(readyQ[p])
    BY <1>2
  <2>. QED  BY <1>1, <1>2, <2>1 DEF Load
<1>3. CASE Len(readyQ'[p]) = Len(readyQ[p]) - j /\ tasks'[p] = tasks[p]
  <2>1. Len(tasks'[p]) = Len(tasks[p])
    BY <1>3
  <2>. QED  BY <1>1, <1>3, <2>1 DEF Load
<1>. QED  BY <1>2, <1>3

\* A piece of work taken leaves one fewer, for one who looked.
LEMMA WorkTaken ==
    ASSUME TypeOK, NEW t \in Threads, NEW own, TakeWork(t, own), pc[t] = "look"
    PROVE  \A p \in Pools : WorkMoves(p)
<1>. PICK p \in Pools : p = Serves[t]
  BY ServesAPool
<1>1. UNCHANGED idle /\ Goto(t, "run")
  BY DEF TakeWork
<1>2. permit \subseteq permit'
  <2>1. CASE TakeTask(t)
    BY <2>1 DEF TakeTask
  <2>2. ASSUME NEW a \in Actors, NEW k \in DOMAIN queue[a], TakeEntryOf(t, own, a, k)
        PROVE  permit \subseteq permit'
    BY <2>2 DEF TakeEntryOf, WakeSender
  <2>. QED  BY <2>1, <2>2 DEF TakeWork, TakeEntry
<1>3. \A u \in Threads : u # t => (Wakeful(u) => Wakeful(u)')
  BY <1>1, <1>2, GotoEffect DEF Wakeful
<1>4. \A q \in Pools : q # p => tasks'[q] = tasks[q] /\ readyQ'[q] = readyQ[q]
  <2>1. CASE TakeTask(t)
    BY <2>1 DEF TakeTask, TypeOK
  <2>2. ASSUME NEW a \in Actors, NEW k \in DOMAIN queue[a], TakeEntryOf(t, own, a, k)
        PROVE  \A q \in Pools : q # p => tasks'[q] = tasks[q] /\ readyQ'[q] = readyQ[q]
    <3>1. UNCHANGED tasks /\ \E j : readyQ' = [readyQ EXCEPT ![p] = SubSeq(@, j + 1, Len(@))]
      BY <2>2 DEF TakeEntryOf
    <3>. QED  BY <3>1 DEF TypeOK
  <2>. QED  BY <2>1, <2>2 DEF TakeWork, TakeEntry
<1>5. ASSUME NEW q \in Pools, q # p
      PROVE  WorkMoves(q)
  <2>1. Lookers(q) \subseteq Lookers(q)'
    BY <1>3, <1>5 DEF Lookers
  <2>. QED  BY <1>1, <1>4, <1>5, <2>1, WorkElsewhere
<1>6. Load(p)' <= Load(p) - 1
  <2>1. tasks[p] \in Seq(Slots) /\ readyQ[p] \in Seq(Actors)
    BY DEF TypeOK
  <2>2. CASE TakeTask(t)
    <3>1. tasks[p] # <<>> /\ tasks'[p] = Tail(tasks[p]) /\ readyQ'[p] = readyQ[p]
      BY <2>2 DEF TakeTask, TypeOK
    <3>2. Len(tasks'[p]) = Len(tasks[p]) - 1
      BY <2>1, <3>1
    <3>3. 1 \in Nat /\ 1 > 0
      OBVIOUS
    <3>. QED  BY <2>1, <3>1, <3>2, <3>3, LessLoad
  <2>3. ASSUME NEW a \in Actors, NEW k \in DOMAIN queue[a], TakeEntryOf(t, own, a, k)
        PROVE  Load(p)' <= Load(p) - 1
    <3>1. PICK j \in DOMAIN readyQ[p] : readyQ' = [readyQ EXCEPT ![p] = SubSeq(@, j + 1, Len(@))]
      BY <2>3 DEF TakeEntryOf
    <3>2. readyQ'[p] = SubSeq(readyQ[p], j + 1, Len(readyQ[p]))
      BY <3>1 DEF TypeOK
    <3>3. Len(readyQ'[p]) = Len(readyQ[p]) - j /\ j \in Nat /\ j > 0
      BY <2>1, <3>2
    <3>4. tasks'[p] = tasks[p]
      BY <2>3 DEF TakeEntryOf
    <3>. QED  BY <2>1, <3>3, <3>4, LessLoad
  <2>. QED  BY <2>2, <2>3 DEF TakeWork, TakeEntry
<1>7. Lookers(p) \ {t} \subseteq Lookers(p)'
  BY <1>3 DEF Lookers
<1>8. WorkMoves(p)
  BY <1>1, <1>6, <1>7 DEF WorkMoves, Keeps
<1>. QED  BY <1>5, <1>8

\* The end of an activation or a task: its thread looks for what it left.
LEMMA WorkEnds ==
    ASSUME TypeOK, FramesAreNested, AtHome, Crewed, Punctual, NEW t \in Threads,
           ActorReturns(t) \/ ActorFaults(t) \/ TaskReturns(t) \/ TaskFaults(t)
    PROVE  \A p \in Pools : WorkMoves(p)
<1>1. Goto(t, "look") /\ pc[t] = "run" /\ UNCHANGED sending
  BY DEF ActorReturns, ActorFaults, TaskReturns, TaskFaults, TaskEnds, Ends, Runs
<1>2. \A u \in Threads : SleepsOnly(u)
  BY <1>1, GotoSleepsOnly
<1>3. ASSUME permit \subseteq permit'
      PROVE  LookersStay
  BY <1>1, <1>3, LookersGoto
<1>4. CASE ActorReturns(t)
  <2>. DEFINE a == Me(t)
  <2>1. /\ a \in Actors /\ MarkReady(a) /\ UNCHANGED <<idle, tasks, permit>>
    BY <1>4 DEF ActorReturns
  <2>2. Home[a] = Serves[t] /\ Serves[t] \in Pools
    <3>1. Len(stack[t]) \in DOMAIN stack[t] /\ Top(t) = stack[t][Len(stack[t])]
      BY <1>1, RunsHasFrame, TopType
    <3>. QED  BY <2>1, <3>1, ServesAPool DEF AtHome, Me
  <2>3. CASE UNCHANGED readyQ
    BY <1>3, <2>1, <2>3, WorkStill
  <2>4. CASE readyQ' = [readyQ EXCEPT ![Home[a]] = Append(@, a)]
    <3>1. readyQ'[Serves[t]] = Append(readyQ[Serves[t]], a) /\ readyQ[Serves[t]] \in Seq(Actors)
      BY <2>2, <2>4 DEF TypeOK
    <3>2. Load(Serves[t])' = Load(Serves[t]) + 1 /\ Load(Serves[t]) \in Int
      BY <2>1, <2>2, <3>1 DEF Load, TypeOK
    <3>3. t \in Lookers(Serves[t])' /\ t \notin Lookers(Serves[t])
      BY <1>1, GotoEffect DEF Lookers, Wakeful
    <3>4. WorkMoves(Serves[t])
      BY <1>3, <2>1, <2>2, <3>2, <3>3 DEF WorkMoves, Keeps, LookersStay
    <3>5. ASSUME NEW p \in Pools, p # Serves[t]
          PROVE  WorkMoves(p)
      <4>1. readyQ'[p] = readyQ[p]
        BY <2>2, <2>4, <3>5 DEF TypeOK
      <4>. QED  BY <1>3, <2>1, <4>1, WorkElsewhere DEF LookersStay
    <3>. QED  BY <3>4, <3>5
  <2>. QED  BY <2>1, <2>3, <2>4 DEF MarkReady
<1>5. ASSUME NEW S \in {{}, LiveSink(Serves[t])}, TaskEnds(t, S)
      PROVE  \A p \in Pools : WorkMoves(p)
  <2>1. UNCHANGED tasks /\ Serves[t] \in Pools
    BY <1>5, ServesAPool DEF TaskEnds
  <2>2. CASE S # {}
    <3>1. Sink[Serves[t]] \in Actors
      BY <1>5, <2>1, <2>2, LiveSinkIsActor
    <3>2. MarkReadyAndWake(Sink[Serves[t]], {})
      BY <1>5, <2>2 DEF TaskEnds
    <3>3. LookersStay
      BY <1>3, <3>1, <3>2, WokenByReady DEF IdleAreWoken
    <3>. QED  BY <1>2, <2>1, <3>1, <3>2, <3>3, WorkReady
  <2>3. CASE S = {}
    <3>. DEFINE ps == IF Done(Serves[t]) THEN {Serves[t]} ELSE {}
    <3>1. WakeEvery(ps, {}) /\ UNCHANGED readyQ
      BY <1>5, <2>3 DEF TaskEnds
    <3>2. LookersStay
      BY <1>3, <3>1 DEF WakeEvery
    <3>3. ASSUME NEW p \in Pools
          PROVE  WorkMoves(p)
      <4>1. CASE p \in ps
        BY <3>1, <4>1 DEF WakeEvery, WorkMoves
      <4>2. CASE p \notin ps
        <5>1. idle'[p] = idle[p]
          BY <3>1, <4>2 DEF WakeEvery
        <5>. QED  BY <2>1, <3>1, <3>2, <5>1, WorkElsewhere DEF LookersStay
      <4>. QED  BY <4>1, <4>2
    <3>. QED  BY <3>3
  <2>. QED  BY <2>2, <2>3
<1>6. CASE ActorFaults(t)
  <2>. DEFINE a == Me(t)
  <2>1. a \in Actors /\ Home[a] \in Pools /\ UNCHANGED tasks
    BY <1>6, ConstantsAssumption DEF ActorFaults
  <2>2. CASE permit' = permit \cup ToSet(blocked[a]) /\ UNCHANGED <<readyQ, idle>>
    BY <1>3, <2>1, <2>2, WorkStill
  <2>3. CASE LiveSink(Home[a]) # {} /\ MarkReadyAndWake(Sink[Home[a]], ToSet(blocked[a]))
    <3>1. Sink[Home[a]] \in Actors
      BY <2>1, <2>3, LiveSinkIsActor
    <3>2. LookersStay
      BY <1>3, <2>3, <3>1, WokenByReady DEF IdleAreWoken
    <3>. QED  BY <1>2, <2>1, <2>3, <3>1, <3>2, WorkReady
  <2>. QED  BY <1>6, <2>2, <2>3 DEF ActorFaults
<1>. QED  BY <1>4, <1>5, <1>6 DEF TaskReturns, TaskFaults

\* Every step of a program that never waits.
LEMMA WorkProgram ==
    ASSUME TypeOK, FramesAreNested, WaitersExist, AtHome, Crewed, Punctual, NEW t \in Threads, Program(t)
    PROVE  \A p \in Pools : WorkMoves(p)
<1>1. ASSUME NEW a \in Actors, NEW s \in Slots \cup {0}, Send(t, a, s)
      PROVE  \A p \in Pools : WorkMoves(p)
  <2>1. Enqueue(t, a, s) /\ pc[t] = "run" /\ UNCHANGED tasks
    BY <1>1 DEF Send, Does, Runs
  <2>. QED  BY <2>1, WorkEnqueue
<1>2. CASE \/ \E gated \in BOOLEAN : MintActor(t, gated)
           \/ \E p \in Pools, c \in SUBSET Slots : MintTask(t, p, c)
           \/ MintWaiter(t)
           \/ \E a \in Actors : NewActor(t, a)
  <2>1. UNCHANGED <<idle, tasks, readyQ, permit, pc>>
    BY <1>2 DEF MintActor, MintTask, MintWaiter, NewActor, threadVars, poolVars
  <2>. QED  BY <2>1, LookersStill, WorkStill
<1>3. CASE Await(t)
  <2>1. UNCHANGED <<idle, tasks, readyQ, permit>> /\ Goto(t, "look") /\ pc[t] = "run"
    BY <1>3 DEF Await, poolVars
  <2>. QED  BY <2>1, LookersGoto, WorkStill
<1>4. ASSUME NEW s \in Slots, Answer(t, s)
      PROVE  \A p \in Pools : WorkMoves(p)
  BY <1>4, WorkDelivery DEF Answer
<1>5. ASSUME NEW a \in Actors, NEW s \in Slots, Watch(t, a, s)
      PROVE  \A p \in Pools : WorkMoves(p)
  <2>1. UNCHANGED <<pc, sending>> /\ (DeliverTo(s) \/ UNCHANGED <<poolVars, permit>>)
    BY <1>5 DEF Watch
  <2>2. CASE UNCHANGED <<poolVars, permit>>
    <3>1. UNCHANGED <<idle, tasks, readyQ, permit, pc>>
      BY <2>1, <2>2 DEF poolVars
    <3>. QED  BY <3>1, LookersStill, WorkStill
  <2>. QED  BY <2>1, <2>2, WorkDelivery
<1>6. CASE \/ \E s \in Slots : OnIdle(t, s)
           \/ \E h \in Hosts, c \in SUBSET Slots : HostOpens(t, h, c)
  BY <1>6, WorkEvery DEF OnIdle, HostOpens
<1>7. ASSUME NEW p \in Pools, NewPool(t, p)
      PROVE  \A q \in Pools : WorkMoves(q)
  <2>1. /\ UNCHANGED <<idle, tasks, readyQ, permit>>
        /\ \A u \in Threads : pc'[u] \in {"look", pc[u]}
    BY <1>7 DEF NewPool, poolVars
  <2>2. LookersStay
    BY <2>1 DEF LookersStay, Lookers, Wakeful
  <2>. QED  BY <2>1, <2>2, WorkStill
<1>8. CASE ActorFaults(t) \/ TaskFaults(t)
  BY <1>8, WorkEnds
<1>. QED  BY <1>1, <1>2, <1>3, <1>4, <1>5, <1>6, <1>7, <1>8 DEF Program

\* Whoever finds nothing leaves nothing, and of a retired pool nobody sleeps.
LEMMA WorkLooked ==
    ASSUME TypeOK, Punctual, NEW t \in Threads, NextRetires(t) \/ NextSleeps(t)
    PROVE  \A p \in Pools : WorkMoves(p)
<1>. PICK p \in Pools : p = Serves[t]
  BY ServesAPool
<1>1. UNCHANGED <<tasks, permit>> /\ \A u \in Threads : u # t => pc'[u] = pc[u]
  BY GotoEffect DEF NextRetires, NextSleeps, poolVars
<1>2. \A q \in Pools : q # p => idle'[q] = idle[q] /\ readyQ'[q] = readyQ[q]
  BY DEF NextRetires, NextSleeps, NoWork, poolVars, TypeOK
<1>3. ASSUME NEW q \in Pools, q # p
      PROVE  WorkMoves(q)
  <2>1. Lookers(q) \subseteq Lookers(q)'
    BY <1>1, <1>3 DEF Lookers, Wakeful
  <2>. QED  BY <1>1, <1>2, <1>3, <2>1, WorkElsewhere
<1>4. CASE NextRetires(t)
  <2>1. p \in retired /\ UNCHANGED idle
    BY <1>4 DEF NextRetires, poolVars
  <2>2. idle'[p] = <<>>
    BY <2>1 DEF Punctual
  <2>. QED  BY <1>3, <2>2 DEF WorkMoves
<1>5. CASE NextSleeps(t)
  <2>1. tasks'[p] = <<>> /\ readyQ'[p] = <<>>
    BY <1>1, <1>5 DEF NextSleeps, NoWork, HasWork, TypeOK
  <2>2. Load(p)' = 0
    BY <2>1 DEF Load
  <2>. QED  BY <1>3, <2>2 DEF WorkMoves
<1>. QED  BY <1>4, <1>5

\* Every step of a program that never waits leaves enough of them looking.
LEMMA MatchedStep ==
    ASSUME TypeOK, TypeOK', FramesAreNested, WaitersExist, Listed, AtHome, Crewed, Calm, NoRecords,
           Punctual, Matched, [Next]_vars
    PROVE  Matched'
<1>. SUFFICES \A p \in Pools : WorkMoves(p)
  BY MatchedMoves
<1>1. ASSUME NEW t \in Threads, Runtime(t)
      PROVE  \A p \in Pools : WorkMoves(p)
  <2>1. CASE Resend(t)
    <3>1. /\ Enqueue(t, sending[t].to, sending[t].tok) /\ pc[t] = "send" /\ UNCHANGED tasks
      BY <2>1 DEF Resend
    <3>2. sending[t].to \in Actors
      BY <3>1 DEF FramesAreNested, NestedOn
    <3>. QED  BY <3>1, <3>2, WorkEnqueue
  <2>2. CASE Park(t)
    <3>1. /\ UNCHANGED <<idle, tasks, readyQ>> /\ permit' = permit \ {t}
          /\ Goto(t, IF pc[t] = "park" THEN "look" ELSE "send") /\ pc[t] \in {"park", "full"}
      BY <2>2 DEF Park, poolVars
    <3>2. /\ pc'[t] = IF pc[t] = "park" THEN "look" ELSE "send"
          /\ \A u \in Threads : u # t => pc'[u] = pc[u]
      BY <3>1, GotoEffect
    <3>3. LookersStay
      BY <3>1, <3>2 DEF LookersStay, Lookers, Wakeful
    <3>. QED  BY <3>1, <3>3, WorkStill
  <2>3. CASE ActorReturns(t) \/ TaskReturns(t)
    BY <2>3, WorkEnds
  <2>4. CASE NextRetires(t) \/ NextSleeps(t)
    BY <2>4, WorkLooked
  <2>5. CASE NextWork(t)
    BY <2>5, WorkTaken DEF NextWork, Looks
  <2>6. ~WaitGot(t) /\ ~WaitWork(t) /\ ~WaitIdles(t)
    BY NobodyWaits DEF WaitGot, WaitWork, WaitIdles, WaitLooks, Looks
  <2>. QED  BY <1>1, <2>1, <2>2, <2>3, <2>4, <2>5, <2>6 DEF Runtime
<1>2. ASSUME NEW h \in Threads, HostCloses(h)
      PROVE  \A p \in Pools : WorkMoves(p)
  BY <1>2, WorkEvery DEF HostCloses
<1>3. CASE DeliverNext
  <2>1. Head(bulk.tokens) \in Slots
    BY <1>3, HeadTailProperties DEF DeliverNext, TypeOK, BulkRec
  <2>. QED  BY <1>3, <2>1, WorkDelivery DEF DeliverNext
<1>4. CASE EndBulk
  <2>1. UNCHANGED <<pc, tasks, readyQ>>
    BY <1>4 DEF EndBulk
  <2>2. CASE WakeEvery(Pools, {})
    BY <2>2, WorkEvery
  <2>3. CASE UNCHANGED idle /\ permit \subseteq permit'
    BY <2>1, <2>3, LookersStill, WorkStill
  <2>4. WakeEvery(Pools, {}) \/ (UNCHANGED idle /\ permit \subseteq permit')
    <3>1. ASSUME NEW also, WakeEvery({}, also)
          PROVE  UNCHANGED idle /\ permit \subseteq permit'
      BY <3>1 DEF WakeEvery, TypeOK
    <3>. QED  BY <1>4, <3>1 DEF EndBulk
  <2>. QED  BY <2>2, <2>3, <2>4
<1>5. CASE UNCHANGED vars \/ MainReturns \/ Exited
  <2>1. UNCHANGED <<idle, tasks, readyQ, permit, pc>>
    BY <1>5 DEF vars, MainReturns, Exited, threadVars, poolVars
  <2>. QED  BY <2>1, LookersStill, WorkStill
<1>. QED  BY <1>1, <1>2, <1>3, <1>4, <1>5, WorkProgram DEF Next

\* Initially nobody sleeps and nothing is queued.
LEMMA InitCalm == Init => NoRecords /\ Punctual /\ Matched
<1>1. SUFFICES ASSUME Init PROVE NoRecords /\ Punctual /\ Matched
  OBVIOUS
<1>2. NoRecords /\ Matched
  BY <1>1 DEF Init, NoRecords, Matched
<1>3. Once(<<>>, Threads) /\ ToSet(<<>>) = {}
  BY DEF Once, ToSet
<1>4. Punctual
  BY <1>1, <1>3 DEF Init, Punctual
<1>. QED  BY <1>2, <1>4

\* One who looks is a thread of the pool, awake.
LEMMA EnoughLook ==
    ASSUME TypeOK, FramesAreNested, WaitersExist, NoRecords, Rooted, Listed, Calm, Matched
    PROVE  WorkIsNotSleptOn
<1>1. SUFFICES ASSUME NEW p \in Pools, HasWork(p, Nobody), NEW t \in CrewOf(p), pc[t] = "park"
               PROVE  \E u \in CrewOf(p) : ~Asleep(u)
  BY DEF WorkIsNotSleptOn
<1>2. t \in Threads /\ Serves[t] = p
  BY <1>1 DEF CrewOf, Threads
<1>3. CASE t \in permit
  BY <1>1, <1>3 DEF Asleep
<1>4. CASE t \notin permit
  <2>1. idle[p] # <<>>
    BY <1>1, <1>2, <1>4 DEF Listed, SleepersAreListed, ToSet
  <2>2. Load(p) <= Cardinality(Lookers(p))
    BY <2>1 DEF Matched
  <2>3. Load(p) \in Nat /\ Load(p) # 0
    <3>1. tasks[p] \in Seq(Slots) /\ readyQ[p] \in Seq(Actors)
      BY DEF TypeOK
    <3>2. Len(tasks[p]) \in Nat /\ Len(readyQ[p]) \in Nat
      BY <3>1
    <3>3. Len(tasks[p]) # 0 \/ Len(readyQ[p]) # 0
      BY <1>1, <3>1 DEF HasWork, Hits
    <3>4. \A m, n \in Nat : m # 0 \/ n # 0 => m + n \in Nat /\ m + n # 0
      OBVIOUS
    <3>5. Load(p) = Len(tasks[p]) + Len(readyQ[p])
      BY DEF Load
    <3>. QED  BY <3>2, <3>3, <3>4, <3>5
  <2>4. Lookers(p) # {}
    <3>1. ASSUME Lookers(p) = {} PROVE Cardinality(Lookers(p)) = 0
      BY <3>1, FS_EmptySet
    <3>. QED  BY <2>2, <2>3, <3>1
  <2>5. PICK u \in Threads : Serves[u] = p /\ Wakeful(u)
    BY <2>4 DEF Lookers
  <2>6. u \notin Hosts
    BY <2>5, HostsNeverLook DEF Wakeful
  <2>. QED  BY <2>5, <2>6 DEF CrewOf, Asleep, Wakeful, Threads
<1>. QED  BY <1>3, <1>4

(***************************************************************************)
(* Room in a mailbox and the senders who come for it.                      *)
(***************************************************************************)
Coming(u) == pc[u] = "send" \/ (pc[u] = "full" /\ u \in permit)
Comers(a) == {u \in Threads : sending[u].to = a /\ Coming(u)}
Room(a) == Bound[a] - userLen[a]

\* While a sender sleeps on a mailbox, as many others come as it has room for.
Expected == \A a \in Actors : blocked[a] # <<>> => Room(a) <= Cardinality(Comers(a))

\* How a step may change the room of a mailbox and who comes for it.
RoomMoves(a) == \/ blocked'[a] = <<>>
                \/ Room(a)' <= 0
                \/ blocked[a] # <<>> /\ Keeps(Room(a), Room(a)', Comers(a), Comers(a)')
ComersStay == \A a \in Actors : Comers(a) \subseteq Comers(a)'

\* The room of a mailbox is a number.
LEMMA RoomType ==
    ASSUME TypeOK, NEW a \in Actors
    PROVE  Room(a) \in Int
BY ConstantsAssumption DEF Room, TypeOK

\* Enough come before the step, so enough come after it.
LEMMA ExpectedMoves ==
    ASSUME TypeOK, TypeOK', Calm, Expected, \A a \in Actors : RoomMoves(a)
    PROVE  Expected'
<1>1. SUFFICES ASSUME NEW a \in Actors, blocked'[a] # <<>>
               PROVE  Room(a)' <= Cardinality(Comers(a)')
  BY DEF Expected
<1>2. Room(a) \in Int /\ Room(a)' \in Int
  <2>1. Bound[a] \in Int /\ userLen[a] \in Int
    BY ConstantsAssumption DEF TypeOK
  <2>2. userLen'[a] \in Int
    BY DEF TypeOK
  <2>. QED  BY <2>1, <2>2 DEF Room
<1>3. IsFiniteSet(Comers(a)) /\ IsFiniteSet(Comers(a)')
  BY FS_Subset DEF Calm, Comers
<1>4. CASE Room(a)' <= 0
  BY <1>2, <1>3, <1>4, FS_CardinalityType
<1>5. CASE blocked[a] # <<>> /\ Keeps(Room(a), Room(a)', Comers(a), Comers(a)')
  <2>1. Room(a) <= Cardinality(Comers(a))
    BY <1>5 DEF Expected
  <2>. QED  BY <1>2, <1>3, <1>5, <2>1, Counting
<1>. QED  BY <1>1, <1>4, <1>5 DEF RoomMoves

\* A mailbox left alone.
LEMMA RoomElsewhere ==
    ASSUME TypeOK, NEW a \in Actors, blocked'[a] = blocked[a], userLen'[a] = userLen[a],
           Comers(a) \subseteq Comers(a)'
    PROVE  RoomMoves(a)
<1>1. Room(a)' = Room(a) /\ Room(a) \in Int
  BY RoomType DEF Room
<1>. QED  BY <1>1 DEF RoomMoves, Keeps

\* All mailboxes left alone.
LEMMA RoomStill ==
    ASSUME TypeOK, ComersStay, UNCHANGED <<blocked, userLen>>
    PROVE  \A a \in Actors : RoomMoves(a)
BY RoomElsewhere DEF ComersStay

\* Nobody stops coming in a step that leaves every thread where it is and takes
\* no permit back.
LEMMA ComersStill ==
    ASSUME UNCHANGED <<pc, sending>>, permit \subseteq permit'
    PROVE  ComersStay
BY DEF ComersStay, Comers, Coming

\* One thread moves that does not come.
LEMMA ComersGoto ==
    ASSUME TypeOK, NEW t \in Threads, NEW l, Goto(t, l), pc[t] \notin {"send", "full"},
           \A u \in Threads : u # t => sending'[u] = sending[u], permit \subseteq permit'
    PROVE  ComersStay
<1>1. \A u \in Threads : u # t => pc'[u] = pc[u]
  BY GotoEffect
<1>. QED  BY <1>1 DEF ComersStay, Comers, Coming

\* A send uses up room, and one who came for it if it comes again.
LEMMA RoomEnqueue ==
    ASSUME TypeOK, TheDeadAreLeft, NEW t \in Threads, NEW a \in Actors, NEW s, Enqueue(t, a, s),
           pc[t] = "run" \/ (pc[t] = "send" /\ sending[t].to = a)
    PROVE  \A b \in Actors : RoomMoves(b)
<1>1. \A u \in Threads : u # t => pc'[u] = pc[u] /\ sending'[u] = sending[u]
  <2>1. \E l : Goto(t, l)
    BY DEF Enqueue
  <2>2. \A u \in Threads : u # t => pc'[u] = pc[u]
    BY <2>1, GotoEffect
  <2>3. \A u \in Threads : u # t => sending'[u] = sending[u]
    BY DEF Enqueue, TypeOK
  <2>. QED  BY <2>2, <2>3
<1>2. permit \subseteq permit'
  <2>1. ASSUME MarkReadyAndWake(a, {}) PROVE permit \subseteq permit'
    BY <2>1, WokenByReady DEF IdleAreWoken
  <2>. QED  BY <2>1 DEF Enqueue
<1>3. \A b \in Actors : Comers(b) \ {t} \subseteq Comers(b)'
  BY <1>1, <1>2 DEF Comers, Coming
<1>4. ASSUME NEW b \in Actors, b # a
      PROVE  RoomMoves(b)
  <2>1. Comers(b) \subseteq Comers(b)'
    BY <1>3, <1>4 DEF Comers, Coming
  <2>2. blocked'[b] = blocked[b]
    BY <1>4 DEF Enqueue, TypeOK
  <2>3. userLen'[b] = userLen[b]
    BY <1>4 DEF Enqueue, TypeOK
  <2>. QED  BY <2>1, <2>2, <2>3, RoomElsewhere
<1>5. CASE a \in dead /\ UNCHANGED blocked
  <2>1. blocked'[a] = <<>>
    BY <1>5 DEF TheDeadAreLeft
  <2>. QED  BY <1>4, <2>1 DEF RoomMoves
<1>6. CASE userLen' = [userLen EXCEPT ![a] = @ + 1] /\ UNCHANGED blocked
  <2>1. Room(a)' = Room(a) - 1 /\ Room(a) \in Int
    <3>1. userLen'[a] = userLen[a] + 1 /\ userLen[a] \in Int
      BY <1>6 DEF TypeOK
    <3>. QED  BY <3>1, ConstantsAssumption DEF Room
  <2>2. Room(a)' <= Room(a) - 1
    BY <2>1
  <2>3. Keeps(Room(a), Room(a)', Comers(a), Comers(a)')
    BY <1>3, <2>2 DEF Keeps
  <2>4. RoomMoves(a)
    BY <1>6, <2>3 DEF RoomMoves
  <2>. QED  BY <1>4, <2>4
<1>7. CASE userLen[a] >= Bound[a] /\ UNCHANGED userLen
  <2>1. Room(a)' <= 0
    BY <1>7, ConstantsAssumption DEF Room, TypeOK
  <2>. QED  BY <1>4, <2>1 DEF RoomMoves
<1>. QED  BY <1>5, <1>6, <1>7 DEF Enqueue

\* A message taken out makes room, and the first who sleeps on it comes.
LEMMA RoomTaken ==
    ASSUME TypeOK, Punctual, NEW t \in Threads, NEW own, TakeWork(t, own), pc[t] = "look"
    PROVE  \A a \in Actors : RoomMoves(a)
<1>1. UNCHANGED sending /\ Goto(t, "run")
  BY DEF TakeWork
<1>2. \A u \in Threads : u # t => pc'[u] = pc[u]
  BY <1>1, GotoEffect
<1>3. ASSUME permit \subseteq permit' PROVE ComersStay
  BY <1>1, <1>3, ComersGoto
<1>4. CASE UNCHANGED <<userLen, blocked, permit>>
  BY <1>3, <1>4, RoomStill
<1>5. ASSUME NEW a \in Actors, userLen' = [userLen EXCEPT ![a] = @ - 1], WakeSender(a)
      PROVE  \A b \in Actors : RoomMoves(b)
  <2>1. ComersStay
    BY <1>3, <1>5 DEF WakeSender
  <2>2. ASSUME NEW b \in Actors, b # a
        PROVE  RoomMoves(b)
    <3>1. blocked'[b] = blocked[b] /\ userLen'[b] = userLen[b]
      BY <1>5, <2>2 DEF WakeSender, TypeOK
    <3>. QED  BY <2>1, <3>1, RoomElsewhere DEF ComersStay
  <2>3. Room(a)' = Room(a) + 1 /\ Room(a) \in Int
    <3>1. userLen'[a] = userLen[a] - 1 /\ userLen[a] \in Int
      BY <1>5 DEF TypeOK
    <3>. QED  BY <3>1, ConstantsAssumption DEF Room
  <2>4. CASE blocked[a] = <<>>
    <3>1. blocked'[a] = <<>>
      BY <1>5, <2>4 DEF WakeSender, TypeOK
    <3>. QED  BY <2>2, <3>1 DEF RoomMoves
  <2>5. CASE blocked[a] # <<>>
    <3>. DEFINE u == Head(blocked[a])
    <3>1. u \in Threads /\ u \in ToSet(blocked[a])
      BY <2>5, HeadTailProperties, ToSetTail DEF TypeOK
    <3>2. pc[u] = "full" /\ u \notin permit /\ sending[u].to = a
      BY <3>1 DEF Punctual
    <3>3. u \in permit' /\ u # t
      BY <1>5, <2>5, <3>2 DEF WakeSender
    <3>4. u \in Comers(a)' /\ u \notin Comers(a)
      BY <1>1, <1>2, <3>1, <3>2, <3>3 DEF Comers, Coming
    <3>5. RoomMoves(a)
      BY <2>1, <2>3, <2>5, <3>4 DEF RoomMoves, Keeps, ComersStay
    <3>. QED  BY <2>2, <3>5
  <2>. QED  BY <2>4, <2>5
<1>6. CASE TakeTask(t)
  BY <1>4, <1>6 DEF TakeTask, actorVars
<1>7. ASSUME NEW a \in Actors, NEW k \in DOMAIN queue[a], TakeEntryOf(t, own, a, k)
      PROVE  \/ UNCHANGED <<userLen, blocked, permit>>
             \/ userLen' = [userLen EXCEPT ![a] = @ - 1] /\ WakeSender(a)
  BY <1>7 DEF TakeEntryOf
<1>. QED  BY <1>4, <1>5, <1>6, <1>7 DEF TakeWork, TakeEntry

\* An activation or a task ends: nobody is left to come to a dead actor.
LEMMA RoomEnds ==
    ASSUME TypeOK, NEW t \in Threads,
           ActorReturns(t) \/ ActorFaults(t) \/ TaskReturns(t) \/ TaskFaults(t)
    PROVE  \A a \in Actors : RoomMoves(a)
<1>1. Goto(t, "look") /\ pc[t] = "run" /\ UNCHANGED sending
  BY DEF ActorReturns, ActorFaults, TaskReturns, TaskFaults, TaskEnds, Ends, Runs
<1>2. permit \subseteq permit'
  <2>1. CASE ActorReturns(t)
    BY <2>1 DEF ActorReturns
  <2>2. CASE TaskReturns(t) \/ TaskFaults(t)
    BY <2>2 DEF TaskReturns, TaskFaults, TaskEnds, MarkReadyAndWake, WakePool, WakeEvery
  <2>3. CASE ActorFaults(t)
    BY <2>3 DEF ActorFaults, MarkReadyAndWake, WakePool
  <2>. QED  BY <2>1, <2>2, <2>3
<1>3. ComersStay
  BY <1>1, <1>2, ComersGoto
<1>4. CASE ActorReturns(t) \/ TaskReturns(t) \/ TaskFaults(t)
  <2>1. UNCHANGED <<blocked, userLen>>
    BY <1>4 DEF ActorReturns, TaskReturns, TaskFaults, TaskEnds
  <2>. QED  BY <1>3, <2>1, RoomStill
<1>5. CASE ActorFaults(t)
  <2>1. /\ Me(t) \in Actors
        /\ blocked' = [blocked EXCEPT ![Me(t)] = <<>>] /\ userLen' = [userLen EXCEPT ![Me(t)] = 0]
    BY <1>5 DEF ActorFaults
  <2>2. /\ blocked'[Me(t)] = <<>>
        /\ \A b \in Actors : b # Me(t) => blocked'[b] = blocked[b] /\ userLen'[b] = userLen[b]
    BY <2>1 DEF TypeOK
  <2>3. RoomMoves(Me(t))
    BY <2>2 DEF RoomMoves
  <2>4. \A b \in Actors : b # Me(t) => RoomMoves(b)
    BY <1>3, <2>2, RoomElsewhere DEF ComersStay
  <2>. QED  BY <2>3, <2>4
<1>. QED  BY <1>4, <1>5

\* No other step touches a mailbox's room, but for the death of its actor.
LEMMA RoomProgram ==
    ASSUME TypeOK, FramesAreNested, WaitersExist, TheDeadAreLeft, NEW t \in Threads, Program(t)
    PROVE  \A a \in Actors : RoomMoves(a)
<1>1. ASSUME NEW a \in Actors, NEW s \in Slots \cup {0}, Send(t, a, s)
      PROVE  \A b \in Actors : RoomMoves(b)
  <2>1. Enqueue(t, a, s) /\ pc[t] = "run"
    BY <1>1 DEF Send, Does, Runs
  <2>. QED  BY <2>1, RoomEnqueue
<1>2. CASE \/ \E gated \in BOOLEAN : MintActor(t, gated)
           \/ \E p \in Pools, c \in SUBSET Slots : MintTask(t, p, c)
           \/ MintWaiter(t)
           \/ \E a \in Actors : NewActor(t, a)
  <2>1. UNCHANGED <<userLen, blocked, permit, pc, sending>>
    BY <1>2 DEF MintActor, MintTask, MintWaiter, NewActor, threadVars, actorVars
  <2>. QED  BY <2>1, ComersStill, RoomStill
<1>3. CASE Await(t)
  <2>1. UNCHANGED <<userLen, blocked, permit, sending>> /\ Goto(t, "look") /\ pc[t] = "run"
    BY <1>3 DEF Await, actorVars
  <2>. QED  BY <2>1, ComersGoto, RoomStill
<1>4. ASSUME NEW s \in Slots, Answer(t, s)
      PROVE  \A a \in Actors : RoomMoves(a)
  <2>1. DeliverTo(s) /\ UNCHANGED <<userLen, blocked, pc, sending>>
    BY <1>4 DEF Answer, DeliverTo
  <2>. QED  BY <2>1, WokenByDelivery, ComersStill, RoomStill DEF IdleAreWoken
<1>5. ASSUME NEW a \in Actors, NEW s \in Slots, Watch(t, a, s)
      PROVE  \A b \in Actors : RoomMoves(b)
  <2>1. UNCHANGED <<userLen, blocked, pc, sending>> /\ permit \subseteq permit'
    <3>1. CASE DeliverTo(s)
      <4>1. UNCHANGED <<userLen, blocked>>
        BY <3>1 DEF DeliverTo
      <4>. QED  BY <1>5, <3>1, <4>1, WokenByDelivery DEF Watch, IdleAreWoken
    <3>2. CASE UNCHANGED <<userLen, blocked, permit>>
      BY <1>5, <3>2 DEF Watch
    <3>. QED  BY <1>5, <3>1, <3>2 DEF Watch
  <2>. QED  BY <2>1, ComersStill, RoomStill
<1>6. ASSUME NEW s \in Slots, OnIdle(t, s)
      PROVE  \A a \in Actors : RoomMoves(a)
  <2>1. UNCHANGED <<userLen, blocked, pc, sending>> /\ permit \subseteq permit'
    BY <1>6 DEF OnIdle, WakeEvery, actorVars
  <2>. QED  BY <2>1, ComersStill, RoomStill
<1>7. ASSUME NEW p \in Pools, NewPool(t, p)
      PROVE  \A a \in Actors : RoomMoves(a)
  <2>1. /\ UNCHANGED <<userLen, blocked, permit, sending>> /\ p \notin made
        /\ \A u \in Threads : pc'[u] = IF u \in Workers /\ Serves[u] = p THEN "look" ELSE pc[u]
    BY <1>7 DEF NewPool, actorVars
  <2>2. \A u \in Workers : Serves[u] = p => pc[u] = "unborn"
    BY <2>1 DEF FramesAreNested
  <2>3. ComersStay
    BY <2>1, <2>2 DEF ComersStay, Comers, Coming
  <2>. QED  BY <2>1, <2>3, RoomStill
<1>8. ASSUME NEW h \in Hosts, NEW c \in SUBSET Slots, HostOpens(t, h, c)
      PROVE  \A a \in Actors : RoomMoves(a)
  <2>1. h \in Threads
    BY DEF Threads
  <2>2. /\ permit \subseteq permit' /\ UNCHANGED <<userLen, blocked, sending>>
        /\ Goto(h, "run") /\ pc[h] = "unborn"
    BY <1>8 DEF HostOpens, WakeEvery, actorVars
  <2>. QED  BY <2>1, <2>2, ComersGoto, RoomStill
<1>9. CASE ActorFaults(t) \/ TaskFaults(t)
  BY <1>9, RoomEnds
<1>. QED  BY <1>1, <1>2, <1>3, <1>4, <1>5, <1>6, <1>7, <1>8, <1>9 DEF Program

\* Every step of a program that never waits lets enough of them come.
LEMMA ExpectedStep ==
    ASSUME TypeOK, TypeOK', FramesAreNested, WaitersExist, Listed, TheDeadAreLeft, Calm, NoRecords,
           Punctual, Expected, [Next]_vars
    PROVE  Expected'
<1>. SUFFICES \A a \in Actors : RoomMoves(a)
  BY ExpectedMoves
<1>1. ASSUME NEW t \in Threads, Runtime(t)
      PROVE  \A a \in Actors : RoomMoves(a)
  <2>1. CASE Resend(t)
    <3>1. /\ Enqueue(t, sending[t].to, sending[t].tok) /\ pc[t] = "send"
      BY <2>1 DEF Resend
    <3>2. sending[t].to \in Actors
      BY <3>1 DEF FramesAreNested, NestedOn
    <3>. QED  BY <3>1, <3>2, RoomEnqueue
  <2>2. CASE Park(t)
    <3>1. t \in permit
      BY <2>2, ParkHasPermit
    <3>2. /\ UNCHANGED <<userLen, blocked, sending>> /\ permit' = permit \ {t}
          /\ Goto(t, IF pc[t] = "park" THEN "look" ELSE "send") /\ pc[t] \in {"park", "full"}
      BY <2>2 DEF Park, actorVars
    <3>3. /\ pc'[t] = IF pc[t] = "park" THEN "look" ELSE "send"
          /\ \A u \in Threads : u # t => pc'[u] = pc[u]
      BY <3>2, GotoEffect
    <3>4. ComersStay
      BY <3>2, <3>3 DEF ComersStay, Comers, Coming
    <3>. QED  BY <3>2, <3>4, RoomStill
  <2>3. CASE ActorReturns(t) \/ TaskReturns(t)
    BY <2>3, RoomEnds
  <2>4. CASE NextRetires(t) \/ NextSleeps(t)
    <3>1. /\ UNCHANGED <<userLen, blocked, permit, sending>> /\ (Goto(t, "done") \/ Goto(t, "park"))
          /\ pc[t] = "look"
      BY <2>4 DEF NextRetires, NextSleeps, Looks, actorVars
    <3>2. ComersStay
      BY <3>1, ComersGoto
    <3>. QED  BY <3>1, <3>2, RoomStill
  <2>5. CASE NextWork(t)
    BY <2>5, RoomTaken DEF NextWork, Looks
  <2>6. ~WaitGot(t) /\ ~WaitWork(t) /\ ~WaitIdles(t)
    BY NobodyWaits DEF WaitGot, WaitWork, WaitIdles, WaitLooks, Looks
  <2>. QED  BY <1>1, <2>1, <2>2, <2>3, <2>4, <2>5, <2>6 DEF Runtime
<1>2. ASSUME NEW h \in Threads, HostCloses(h)
      PROVE  \A a \in Actors : RoomMoves(a)
  <2>1. /\ permit \subseteq permit' /\ UNCHANGED <<userLen, blocked, sending>>
        /\ Goto(h, "done") /\ pc[h] = "run"
    BY <1>2 DEF HostCloses, Runs, WakeEvery, actorVars
  <2>. QED  BY <2>1, ComersGoto, RoomStill
<1>3. CASE DeliverNext
  <2>1. Head(bulk.tokens) \in Slots
    BY <1>3, HeadTailProperties DEF DeliverNext, TypeOK, BulkRec
  <2>2. DeliverTo(Head(bulk.tokens)) /\ UNCHANGED <<userLen, blocked, pc, sending>>
    BY <1>3 DEF DeliverNext, DeliverTo
  <2>. QED  BY <2>1, <2>2, WokenByDelivery, ComersStill, RoomStill DEF IdleAreWoken
<1>4. CASE EndBulk
  <2>1. UNCHANGED <<userLen, blocked, pc, sending>> /\ permit \subseteq permit'
    BY <1>4 DEF EndBulk, WakeEvery, actorVars
  <2>. QED  BY <2>1, ComersStill, RoomStill
<1>5. CASE UNCHANGED vars \/ MainReturns \/ Exited
  <2>1. UNCHANGED <<userLen, blocked, permit, pc, sending>>
    BY <1>5 DEF vars, MainReturns, Exited, threadVars, actorVars
  <2>. QED  BY <2>1, ComersStill, RoomStill
<1>. QED  BY <1>1, <1>2, <1>3, <1>4, <1>5, RoomProgram DEF Next

\* One who comes is not the one who sleeps.
LEMMA EnoughCome ==
    ASSUME TypeOK, FramesAreNested, Listed, Calm, Expected, \A a \in Actors : Bound[a] > 0
    PROVE  SendersAreNotStranded
<1>1. SUFFICES ASSUME NEW t \in Threads, pc[t] = "full", Asleep(t), userLen[sending[t].to] = 0
               PROVE  \E u \in Threads : /\ sending[u].to = sending[t].to
                                         /\ pc[u] = "send" \/ (pc[u] = "full" /\ ~Asleep(u))
  BY DEF SendersAreNotStranded
<1>. DEFINE a == sending[t].to
<1>2. a \in Actors
  BY <1>1 DEF FramesAreNested, NestedOn
<1>3. blocked[a] # <<>>
  BY <1>1 DEF Listed, BlockedAreListed, Asleep, ToSet
<1>4. Room(a) <= Cardinality(Comers(a)) /\ Room(a) \in Nat /\ Room(a) # 0
  <2>1. Bound[a] \in Nat /\ Bound[a] > 0
    BY <1>2, ConstantsAssumption
  <2>2. Room(a) = Bound[a]
    BY <1>1, <2>1 DEF Room
  <2>. QED  BY <1>2, <1>3, <2>1, <2>2 DEF Expected
<1>5. Comers(a) # {}
  <2>1. ASSUME Comers(a) = {} PROVE Cardinality(Comers(a)) = 0
    BY <2>1, FS_EmptySet
  <2>. QED  BY <1>4, <2>1
<1>6. PICK u \in Threads : sending[u].to = a /\ Coming(u)
  BY <1>5 DEF Comers
<1>. QED  BY <1>6 DEF Coming, Asleep

(***************************************************************************)
(* What follows.                                                           *)
(***************************************************************************)
\* In a program that never waits, the lists tell the truth and match the work.
Ordered == NoRecords /\ Punctual /\ Matched

\* And so it is in every state of such a program.
LEMMA OrderedHolds ==
    ASSUME Calm
    PROVE  Spec => []Ordered
<1>1. Surely /\ Surely' /\ HangInv /\ Ordered /\ [Next]_vars => Ordered'
  BY NoRecordsStep, PunctualStep, MatchedStep DEF Surely, Typed, HangInv, Ordered
<1>2. Init => Ordered
  BY InitCalm DEF Ordered
<1>. QED  BY <1>1, <1>2, SurelyHolds, HangInvHolds, PTL DEF Spec

\* wake_pool's comment: "work is never left with every thread asleep".  In a
\* program whose code never waits, on a host whose park does not return
\* unbidden, it never is: each push wakes one of those asleep, and none of them
\* is lost to another piece of work.
THEOREM WorkIsTaken ==
    ASSUME Calm
    PROVE  Spec => []WorkIsNotSleptOn
<1>1. Surely /\ Ordered => WorkIsNotSleptOn
  BY EnoughLook DEF Surely, Typed, Accounted, Ordered
<1>. QED  BY <1>1, SurelyHolds, OrderedHolds, PTL

\* "Senders parked on a full mailbox, woken one per dequeue": in such a program,
\* when every mailbox has room for a message, a sender asleep on an empty one
\* has another ahead of it, awake.
THEOREM SendersFollowRoom ==
    ASSUME Calm, \A a \in Actors : Bound[a] > 0
    PROVE  Spec => []SendersAreNotStranded
<1>1. /\ Surely /\ Surely' /\ TheDeadAreLeft /\ Ordered /\ Expected /\ [Next]_vars => Expected'
  BY ExpectedStep DEF Surely, Typed, Ordered
<1>2. Init => Expected
  BY DEF Init, Expected
<1>3. Surely /\ Expected => SendersAreNotStranded
  BY EnoughCome DEF Surely, Typed
<1>. QED  BY <1>1, <1>2, <1>3, SurelyHolds, OrderedHolds, DeadActorsAreLeft, PTL DEF Spec

==============================================================================
