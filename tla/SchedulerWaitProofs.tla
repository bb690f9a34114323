-------------------------- MODULE SchedulerWaitProofs --------------------------
(***************************************************************************)
(* The queues and the waits of the scheduler, for every value of the       *)
(* constants.  The ready queues hold exactly the actors that could be      *)
(* activated, each once, and the scheduler keeps the promise of Mailbox to *)
(* every actor.  A waiter record belongs to one frame, the answer to a     *)
(* sleeping frame finds the thread it sleeps on, and the three counters of *)
(* the idle and deadlock tests agree with the stacks.                      *)
(***************************************************************************)
EXTENDS SchedulerProofs, SchedulerMailboxes, FiniteSetTheorems

(***************************************************************************)
(* The queues.                                                             *)
(***************************************************************************)
\* What is inductive: every entry of a ready queue is an actor of that pool
\* that could be activated, no queue holds an actor twice, and an actor that
\* could be activated is queued.  Only take_work then drops an entry, and only
\* the one it takes.
EntriesAreGood ==
    \A p \in Pools : \A i \in DOMAIN readyQ[p] :
        Home[readyQ[p][i]] = p /\ Takeable(readyQ[p][i], Nobody)
EntriesDiffer ==
    \A p \in Pools : \A i, j \in DOMAIN readyQ[p] : readyQ[p][i] = readyQ[p][j] => i = j
WorkIsQueued == \A a \in Actors : Takeable(a, Nobody) => Ready(a)

QueuesInv == EntriesAreGood /\ EntriesDiffer /\ WorkIsQueued

\* A mailbox that grows keeps what could be delivered from it.
LEMMA DeliverableAppend ==
    ASSUME NEW q \in Seq(Entry), NEW e \in Entry, NEW g, Deliverable(q, g) # {}
    PROVE  Deliverable(Append(q, e), g) # {}
<1>1. /\ Len(q) \in Nat /\ DOMAIN q = 1 .. Len(q)
      /\ DOMAIN Append(q, e) = 1 .. Len(q) + 1
      /\ \A i \in 1 .. Len(q) : Append(q, e)[i] = q[i]
  BY LenProperties, AppendProperties
<1>2. PICK i \in DOMAIN q : i \in Deliverable(q, g)
  BY DEF Deliverable
<1>3. i \in DOMAIN Append(q, e) /\ Append(q, e)[i] = q[i]
  BY <1>1, <1>2
<1>. QED  BY <1>2, <1>3 DEF Deliverable

\* A step that queues nobody and changes for nobody whether it could run.
LEMMA QueuesSame ==
    ASSUME QueuesInv, UNCHANGED readyQ,
           \A a \in Actors : Takeable(a, Nobody)' <=> Takeable(a, Nobody), TypeOK
    PROVE  QueuesInv'
<1>1. \A p \in Pools : readyQ[p] \in Seq(Actors)
  BY DEF TypeOK
<1>2. \A p \in Pools : \A i \in DOMAIN readyQ[p] : readyQ[p][i] \in Actors
  BY <1>1, LenProperties, ElementOfSeq
<1>3. EntriesAreGood'
  BY <1>2 DEF QueuesInv, EntriesAreGood
<1>4. EntriesDiffer' /\ WorkIsQueued'
  BY DEF QueuesInv, EntriesDiffer, WorkIsQueued, Ready
<1>. QED  BY <1>3, <1>4 DEF QueuesInv

\* A step that touches neither mailboxes nor ready queues.
LEMMA QueuesStill ==
    ASSUME TypeOK, QueuesInv, UNCHANGED <<readyQ, queue, gate, running, dead>>
    PROVE  QueuesInv'
<1>1. \A a \in Actors : Takeable(a, Nobody)' <=> Takeable(a, Nobody)
  BY DEF Takeable
<1>. QED  BY <1>1, QueuesSame

\* mark_ready, called for an actor which the step did not keep from running.
LEMMA QueuesMark ==
    ASSUME TypeOK, QueuesInv, NEW b \in Actors, MarkReady(b),
           Takeable(b, Nobody) => Takeable(b, Nobody)',
           \A a \in Actors \ {b} : Takeable(a, Nobody)' <=> Takeable(a, Nobody)
    PROVE  QueuesInv'
<1>0. b # Nobody /\ Home[b] \in Pools
  BY NamesAreDistinct, ConstantsAssumption DEF ConstantsAssumption
<1>1. \A p \in Pools : /\ readyQ[p] \in Seq(Actors) /\ Len(readyQ[p]) \in Nat
                       /\ DOMAIN readyQ[p] = 1 .. Len(readyQ[p])
                       /\ \A i \in DOMAIN readyQ[p] : readyQ[p][i] \in Actors
  BY LenProperties, ElementOfSeq DEF TypeOK
<1>2. MayQueue(b) <=> ~Ready(b) /\ Takeable(b, Nobody)'
  BY <1>0 DEF MayQueue, Takeable
<1>3. CASE ~MayQueue(b)
  <2>1. UNCHANGED readyQ
    BY <1>3 DEF MarkReady
  <2>2. Ready(b) => Takeable(b, Nobody)
    BY <1>0, <1>1 DEF Ready, ToSet, QueuesInv, EntriesAreGood
  <2>3. Takeable(b, Nobody)' <=> Takeable(b, Nobody)
    BY <1>2, <1>3, <2>2
  <2>. QED  BY <2>1, <2>3, QueuesSame
<1>4. CASE MayQueue(b)
  <2>. DEFINE h == Home[b]
              n == Len(readyQ[h])
  <2>1. /\ readyQ'[h] = Append(readyQ[h], b)
        /\ \A p \in Pools \ {h} : readyQ'[p] = readyQ[p]
    BY <1>0, <1>4 DEF MarkReady, TypeOK
  <2>2. /\ n \in Nat /\ DOMAIN readyQ[h] = 1 .. n /\ DOMAIN readyQ'[h] = 1 .. n + 1
        /\ \A i \in 1 .. n : readyQ'[h][i] = readyQ[h][i]
        /\ readyQ'[h][n + 1] = b
    BY <1>0, <1>1, <2>1, AppendProperties, LenProperties
  <2>3. Takeable(b, Nobody)' /\ ~Ready(b)
    BY <1>2, <1>4
  <2>4. \A i \in DOMAIN readyQ[h] : readyQ[h][i] # b
    BY <2>3 DEF Ready, ToSet
  <2>5. \A p \in Pools : \A i \in DOMAIN readyQ[p] :
          /\ readyQ[p][i] \in Actors \ {b} /\ Home[readyQ[p][i]] = p
          /\ Takeable(readyQ[p][i], Nobody)
    BY <1>0, <1>1, <2>4 DEF QueuesInv, EntriesAreGood
  <2>6. ASSUME NEW p \in Pools, NEW i \in DOMAIN readyQ'[p]
        PROVE  \/ i \in DOMAIN readyQ[p] /\ readyQ'[p][i] = readyQ[p][i]
               \/ p = h /\ i = n + 1 /\ readyQ'[p][i] = b
    <3>1. CASE p # h
      BY <2>1, <2>6, <3>1
    <3>2. CASE p = h
      BY <2>2, <2>6, <3>2
    <3>. QED  BY <3>1, <3>2
  <2>7. EntriesAreGood'
    <3>1. SUFFICES ASSUME NEW p \in Pools, NEW i \in DOMAIN readyQ'[p], NEW a, a = readyQ'[p][i]
                   PROVE  Home[a] = p /\ Takeable(a, Nobody)'
      BY DEF EntriesAreGood
    <3>2. CASE a = b
      BY <2>3, <2>5, <2>6, <3>1, <3>2
    <3>3. CASE a # b
      <4>1. a \in Actors \ {b} /\ Home[a] = p /\ Takeable(a, Nobody)
        BY <2>5, <2>6, <3>1, <3>3
      <4>. QED  BY <4>1
    <3>. QED  BY <3>2, <3>3
  <2>8. EntriesDiffer'
    <3>1. SUFFICES ASSUME NEW p \in Pools, NEW i \in DOMAIN readyQ'[p], NEW j \in DOMAIN readyQ'[p],
                          readyQ'[p][i] = readyQ'[p][j]
                   PROVE  i = j
      BY DEF EntriesDiffer
    <3>2. CASE readyQ'[p][i] = b
      <4>1. \A k \in DOMAIN readyQ'[p] : readyQ'[p][k] = b => k = n + 1
        BY <2>5, <2>6
      <4>. QED  BY <3>1, <3>2, <4>1
    <3>3. CASE readyQ'[p][i] # b
      <4>1. i \in DOMAIN readyQ[p] /\ readyQ'[p][i] = readyQ[p][i]
        BY <2>6, <3>3
      <4>2. j \in DOMAIN readyQ[p] /\ readyQ'[p][j] = readyQ[p][j]
        BY <2>6, <3>1, <3>3
      <4>. QED  BY <3>1, <4>1, <4>2 DEF QueuesInv, EntriesDiffer
    <3>. QED  BY <3>2, <3>3
  <2>9. WorkIsQueued'
    <3>1. SUFFICES ASSUME NEW a \in Actors, Takeable(a, Nobody)'
                   PROVE  a \in ToSet(readyQ'[Home[a]])
      BY DEF WorkIsQueued, Ready
    <3>2. CASE a = b
      <4>1. n + 1 \in DOMAIN readyQ'[h]
        BY <2>2
      <4>. QED  BY <2>2, <3>2, <4>1 DEF ToSet
    <3>3. CASE a # b
      <4>1. Home[a] \in Pools
        BY ConstantsAssumption DEF ConstantsAssumption
      <4>2. PICK i \in DOMAIN readyQ[Home[a]] : readyQ[Home[a]][i] = a
        BY <3>1, <3>3 DEF QueuesInv, WorkIsQueued, Ready, ToSet
      <4>3. i \in DOMAIN readyQ'[Home[a]] /\ readyQ'[Home[a]][i] = a
        BY <2>1, <2>2, <4>1, <4>2
      <4>. QED  BY <4>3 DEF ToSet
    <3>. QED  BY <3>2, <3>3
  <2>. QED  BY <2>7, <2>8, <2>9 DEF QueuesInv
<1>. QED  BY <1>3, <1>4

(***************************************************************************)
(* The handlers that mark somebody ready.                                  *)
(***************************************************************************)
\* One entry more in one mailbox, and mark_ready.
LEMMA QueuesPosted ==
    ASSUME TypeOK, QueuesInv, NEW b \in Actors, NEW e \in Entry, MarkReady(b),
           queue' \in {queue, [queue EXCEPT ![b] = Append(@, e)]},
           UNCHANGED <<gate, running, dead>>
    PROVE  QueuesInv'
<1>1. \A a \in Actors \ {b} : queue'[a] = queue[a]
  BY DEF TypeOK
<1>2. queue'[b] \in {queue[b], Append(queue[b], e)} /\ queue[b] \in Seq(Entry)
  BY DEF TypeOK
<1>3. Deliverable(queue[b], gate[b]) # {} => Deliverable(queue'[b], gate[b]) # {}
  BY <1>2, DeliverableAppend
<1>4. Takeable(b, Nobody) => Takeable(b, Nobody)'
  BY <1>3 DEF Takeable
<1>5. \A a \in Actors \ {b} : Takeable(a, Nobody)' <=> Takeable(a, Nobody)
  BY <1>1 DEF Takeable
<1>. QED  BY <1>4, <1>5, QueuesMark

\* mark_ready is part of the call that also wakes the pool.
LEMMA MarkedAndWoken ==
    ASSUME NEW b, NEW also, MarkReadyAndWake(b, also)
    PROVE  MarkReady(b)
BY DEF MarkReadyAndWake

\* enqueue.
LEMMA QueuesEnqueue ==
    ASSUME TypeOK, QueuesInv, NEW t \in Threads, NEW a \in Actors,
           NEW s \in Slots \cup {0}, Enqueue(t, a, s)
    PROVE  QueuesInv'
<1>1. CASE UNCHANGED <<queue, readyQ>>
  BY <1>1, QueuesStill DEF Enqueue
<1>2. CASE MarkReadyAndWake(a, {}) /\ queue' = [queue EXCEPT ![a] = Append(@, Delivered(s))]
  <2>1. Delivered(s) \in Entry
    BY DEF Entry
  <2>2. UNCHANGED <<gate, running, dead>>
    BY DEF Enqueue
  <2>. QED  BY <1>2, <2>1, <2>2, QueuesPosted, MarkedAndWoken
<1>. QED  BY <1>1, <1>2 DEF Enqueue

\* deliver_to, whatever the token is aimed at.
LEMMA QueuesDelivery ==
    ASSUME TypeOK, QueuesInv, NEW s \in Slots, DeliverTo(s)
    PROVE  QueuesInv'
<1>1. UNCHANGED <<gate, running, dead>>
  BY DEF DeliverTo
<1>2. CASE DeliverToActor(s)
  <2>1. target[s] \in Actors /\ MarkReadyAndWake(target[s], {})
    BY <1>2 DEF DeliverToActor
  <2>2. queue' \in {queue, [queue EXCEPT ![target[s]] = Append(@, Answered(s))]}
    BY <1>2 DEF DeliverToActor, Post
  <2>3. Answered(s) \in Entry
    BY DEF Entry
  <2>. QED  BY <1>1, <2>1, <2>2, <2>3, QueuesPosted, MarkedAndWoken
<1>3. CASE DeliverToWaiter(s) \/ DeliverToTask(s)
  <2>1. UNCHANGED <<queue, readyQ>>
    BY <1>3 DEF DeliverToWaiter, DeliverToTask
  <2>. QED  BY <1>1, <2>1, QueuesStill
<1>. QED  BY <1>2, <1>3 DEF DeliverTo

\* An activation is running and lives, so its actor is not in a ready queue.
LEMMA MeIsRunning ==
    ASSUME TypeOK, FramesAreNested, OneActivation, NEW t \in Threads, stack[t] # <<>>,
           Me(t) \in Actors
    PROVE  Me(t) \in running \ dead
<1>1. Len(stack[t]) \in DOMAIN stack[t]
  BY EmptySeq, LenProperties DEF TypeOK
<1>2. Me(t) = stack[t][Len(stack[t])].who
  BY TopType DEF Me
<1>. QED  BY <1>1, <1>2 DEF OneActivation

\* finish marks the actor whose activation ends ready again, if it has more.
LEMMA QueuesReturn ==
    ASSUME TypeOK, FramesAreNested, OneActivation, QueuesInv, NEW t \in Threads, ActorReturns(t)
    PROVE  QueuesInv'
<1>1. PICK a \in Actors : a = Me(t)
  BY DEF ActorReturns
<1>2. MarkReady(a) /\ running' = running \ {a} /\ UNCHANGED <<queue, gate, dead>>
  BY <1>1 DEF ActorReturns
<1>3. a \in running
  BY <1>1, RunsHasFrame, MeIsRunning DEF ActorReturns, Runs
<1>4. ~Takeable(a, Nobody)
  BY <1>3 DEF Takeable
<1>5. \A b \in Actors \ {a} : Takeable(b, Nobody)' <=> Takeable(b, Nobody)
  BY <1>2 DEF Takeable
<1>. QED  BY <1>2, <1>4, <1>5, QueuesMark

\* A death: its actor was running, and the sink it is reported to lives.
LEMMA QueuesFault ==
    ASSUME TypeOK, FramesAreNested, OneActivation, QueuesInv, NEW t \in Threads, ActorFaults(t)
    PROVE  QueuesInv'
<1>0. PICK a \in Actors : a = Me(t)
  BY DEF ActorFaults
<1>a. PICK toSink : toSink = IF watchers[a] = <<>> THEN LiveSink(Home[a]) ELSE {}
  OBVIOUS
<1>1. /\ dead' = dead \cup {a} /\ running' = running \ {a}
      /\ gate' = [gate EXCEPT ![a] = 0] /\ gate \in [Actors -> Slots \cup {0}]
  BY <1>0 DEF ActorFaults, TypeOK
<1>2. a \in running
  BY <1>0, RunsHasFrame, MeIsRunning DEF ActorFaults, Does, Runs
<1>3. queue' = [b \in Actors |-> IF b = a THEN <<>>
                                 ELSE IF b \in toSink THEN Append(queue[b], Reported)
                                 ELSE queue[b]]
  BY <1>0, <1>a DEF ActorFaults
<1>4. toSink \subseteq {Sink[Home[a]]} /\ \A b \in toSink : b \in Actors \ dead'
  <2>1. Sink[Home[a]] \in Actors \cup {Nobody}
    BY ConstantsAssumption DEF ConstantsAssumption
  <2>. QED  BY <1>a, <2>1 DEF LiveSink
<1>5. IF toSink = {} THEN UNCHANGED readyQ ELSE MarkReady(Sink[Home[a]])
  BY <1>0, <1>a, MarkedAndWoken DEF ActorFaults
<1>6. ~Takeable(a, Nobody) /\ ~Takeable(a, Nobody)'
  BY <1>1, <1>2 DEF Takeable
<1>7. \A b \in Actors \ {a} : b \notin toSink => (Takeable(b, Nobody)' <=> Takeable(b, Nobody))
  BY <1>1, <1>3 DEF Takeable
<1>8. CASE toSink = {}
  <2>1. \A b \in Actors : Takeable(b, Nobody)' <=> Takeable(b, Nobody)
    <3>1. SUFFICES ASSUME NEW b \in Actors
                   PROVE  Takeable(b, Nobody)' <=> Takeable(b, Nobody)
      OBVIOUS
    <3>2. CASE b = a
      BY <1>6, <3>2
    <3>3. CASE b # a
      BY <1>7, <1>8, <3>3
    <3>. QED  BY <3>2, <3>3
  <2>2. UNCHANGED readyQ
    BY <1>5, <1>8
  <2>. QED  BY <2>1, <2>2, QueuesSame
<1>9. CASE toSink # {}
  <2>1. PICK b \in toSink : b = Sink[Home[a]]
    BY <1>4, <1>9
  <2>2. b \in Actors \ {a} /\ b \notin dead' /\ MarkReady(b)
    BY <1>1, <1>4, <1>5, <1>9, <2>1
  <2>3. queue'[b] = Append(queue[b], Reported) /\ gate'[b] = gate[b]
        /\ queue[b] \in Seq(Entry) /\ Reported \in Entry
    BY <1>1, <1>3, <2>1, <2>2 DEF TypeOK, Entry
  <2>4. Takeable(b, Nobody) => Takeable(b, Nobody)'
    <3>1. Deliverable(queue[b], gate[b]) # {} => Deliverable(queue'[b], gate'[b]) # {}
      BY <2>3, DeliverableAppend
    <3>. QED  BY <1>1, <2>2, <3>1 DEF Takeable
  <2>5. ASSUME NEW c \in Actors \ {b}
        PROVE  Takeable(c, Nobody)' <=> Takeable(c, Nobody)
    <3>1. CASE c = a
      BY <1>6, <3>1
    <3>2. CASE c # a
      BY <1>4, <1>7, <2>1, <3>2
    <3>. QED  BY <3>1, <3>2
  <2>. QED  BY <2>2, <2>4, <2>5, QueuesMark
<1>. QED  BY <1>8, <1>9

\* A task's fault is reported to a live sink of its pool.
LEMMA QueuesTask ==
    ASSUME TypeOK, QueuesInv, NEW t \in Threads, TaskReturns(t) \/ TaskFaults(t)
    PROVE  QueuesInv'
<1>1. PICK sinks \in {{}, LiveSink(Serves[t])} : TaskEnds(t, sinks)
  BY DEF TaskReturns, TaskFaults
<1>2. /\ UNCHANGED <<gate, running, dead>>
      /\ queue' = [b \in Actors |-> IF b \in sinks THEN Append(queue[b], Reported)
                                                   ELSE queue[b]]
      /\ IF sinks # {} THEN MarkReady(Sink[Serves[t]]) ELSE UNCHANGED readyQ
  BY <1>1, MarkedAndWoken DEF TaskEnds
<1>3. CASE sinks = {}
  <2>1. queue' = queue
    BY <1>2, <1>3 DEF TypeOK
  <2>. QED  BY <1>2, <1>3, <2>1, QueuesStill
<1>4. CASE sinks # {}
  <2>1. sinks = {Sink[Serves[t]]} /\ Sink[Serves[t]] \in Actors
    <3>1. Sink[Serves[t]] \in Actors \cup {Nobody}
      BY ConstantsAssumption DEF ConstantsAssumption
    <3>. QED  BY <1>1, <1>4, <3>1 DEF LiveSink
  <2>2. queue' = [queue EXCEPT ![Sink[Serves[t]]] = Append(@, Reported)]
    BY <1>2, <2>1 DEF TypeOK
  <2>3. Reported \in Entry
    BY DEF Entry
  <2>. QED  BY <1>2, <1>4, <2>1, <2>2, <2>3, QueuesPosted
<1>. QED  BY <1>3, <1>4

(***************************************************************************)
(* take_work.                                                              *)
(***************************************************************************)
\* While an actor's own activation looks for work, take_work passes over
\* nobody: the actor it must not take is running, so it is not queued.
LEMMA NobodyIsPassedOver ==
    ASSUME TypeOK, QueuesInv, NEW p \in Pools, NEW own,
           own = Nobody \/ own \notin Actors \/ own \in running
    PROVE  Hits(p, own) = DOMAIN readyQ[p]
<1>1. ASSUME NEW k \in DOMAIN readyQ[p]
      PROVE  Takeable(readyQ[p][k], own)
  <2>1. Takeable(readyQ[p][k], Nobody) /\ readyQ[p][k] \in Actors
    BY LenProperties, ElementOfSeq DEF QueuesInv, EntriesAreGood, TypeOK
  <2>. QED  BY <2>1 DEF Takeable
<1>. QED  BY <1>1 DEF Hits

\* The actor taken was the first of the queue, and the rest stay.
LEMMA QueuesTake ==
    ASSUME TypeOK, QueuesInv, NEW t \in Threads, NEW own,
           own = Nobody \/ own \notin Actors \/ own \in running,
           TakeWork(t, own)
    PROVE  QueuesInv'
<1>1. CASE TakeTask(t)
  BY <1>1, QueuesStill DEF TakeTask, actorVars
<1>2. ASSUME NEW a \in Actors, NEW k \in DOMAIN queue[a], TakeEntryOf(t, own, a, k)
      PROVE  QueuesInv'
  <2>. DEFINE p == Serves[t]
              q == readyQ[p]
  <2>1. p \in Pools /\ q \in Seq(Actors) /\ Len(q) \in Nat /\ DOMAIN q = 1 .. Len(q)
    <3>1. p \in Pools
      BY ConstantsAssumption DEF ConstantsAssumption
    <3>2. q \in Seq(Actors)
      BY <3>1 DEF TypeOK
    <3>. QED  BY <3>1, <3>2, LenProperties
  <2>2. PICK j \in DOMAIN q :
          /\ First(j, Hits(p, own)) /\ q[j] = a
          /\ readyQ' = [readyQ EXCEPT ![p] = SubSeq(@, j + 1, Len(@))]
    BY <1>2 DEF TakeEntryOf
  <2>3. j = 1
    <3>1. Hits(p, own) = 1 .. Len(q)
      BY <2>1, NobodyIsPassedOver
    <3>2. j \in 1 .. Len(q) /\ \A i \in 1 .. Len(q) : j <= i
      BY <2>2, <3>1 DEF First
    <3>3. \A n \in Nat : \A i \in 1 .. n :
            (\A m \in 1 .. n : i <= m) => i = 1
      OBVIOUS
    <3>. QED  BY <2>1, <3>2, <3>3
  <2>4. /\ running' = running \cup {a} /\ dead' = dead
        /\ \A b \in Actors \ {a} : queue'[b] = queue[b] /\ gate'[b] = gate[b]
    BY <1>2 DEF TakeEntryOf, Occupy, TypeOK
  <2>5. ~Takeable(a, Nobody)' /\ \A b \in Actors \ {a} : Takeable(b, Nobody)' <=> Takeable(b, Nobody)
    BY <2>4 DEF Takeable
  <2>6. Home[a] = p /\ a # Nobody
    BY <2>1, <2>2, NamesAreDistinct DEF QueuesInv, EntriesAreGood
  <2>7. /\ \A r \in Pools \ {p} : readyQ'[r] = readyQ[r]
        /\ readyQ'[p] = SubSeq(q, 2, Len(q))
    <3>1. readyQ \in [Pools -> Seq(Actors)] /\ j + 1 = 2
      BY <2>3 DEF TypeOK
    <3>2. readyQ' = [readyQ EXCEPT ![p] = SubSeq(q, 2, Len(q))]
      BY <2>2, <3>1
    <3>. QED  BY <2>1, <3>1, <3>2
  <2>8. /\ DOMAIN readyQ'[p] = 1 .. Len(q) - 1
        /\ \A i \in DOMAIN readyQ'[p] : i + 1 \in DOMAIN q /\ readyQ'[p][i] = q[i + 1]
    <3>1. \A i \in 2 .. Len(q) : q[i] \in Actors
      BY <2>1, ElementOfSeq
    <3>2. Len(q) >= 1
      BY <2>1, <2>2
    <3>3. /\ SubSeq(q, 2, Len(q)) \in Seq(Actors)
          /\ Len(SubSeq(q, 2, Len(q))) = IF 2 <= Len(q) THEN Len(q) - 2 + 1 ELSE 0
          /\ \A i \in 1 .. Len(q) - 2 + 1 : SubSeq(q, 2, Len(q))[i] = q[2 + i - 1]
      BY <2>1, <3>1, SubSeqProperties
    <3>4. DOMAIN SubSeq(q, 2, Len(q)) = 1 .. Len(q) - 1
      BY <2>1, <3>2, <3>3, LenProperties
    <3>. QED  BY <2>1, <2>7, <3>3, <3>4
  <2>9. ASSUME NEW r \in Pools, NEW i \in DOMAIN readyQ'[r]
        PROVE  /\ readyQ'[r][i] \in Actors \ {a} /\ Home[readyQ'[r][i]] = r
               /\ \E m \in DOMAIN readyQ[r] : /\ readyQ'[r][i] = readyQ[r][m]
                                              /\ m = IF r = p THEN i + 1 ELSE i
    <3>1. PICK m \in DOMAIN readyQ[r] : /\ readyQ'[r][i] = readyQ[r][m]
                                        /\ m = IF r = p THEN i + 1 ELSE i
      BY <2>7, <2>8, <2>9
    <3>2. readyQ[r][m] \in Actors /\ Home[readyQ[r][m]] = r
      BY LenProperties, ElementOfSeq DEF QueuesInv, EntriesAreGood, TypeOK
    <3>3. readyQ[r][m] # a
      <4>1. CASE r # p
        BY <2>6, <3>2, <4>1
      <4>2. CASE r = p
        <5>1. m # 1
          BY <2>8, <2>9, <3>1, <4>2
        <5>. QED  BY <2>1, <2>2, <2>3, <4>2, <5>1 DEF QueuesInv, EntriesDiffer
      <4>. QED  BY <4>1, <4>2
    <3>. QED  BY <3>1, <3>2, <3>3
  <2>10. EntriesAreGood'
    <3>1. SUFFICES ASSUME NEW r \in Pools, NEW i \in DOMAIN readyQ'[r], NEW b, b = readyQ'[r][i]
                   PROVE  Home[b] = r /\ Takeable(b, Nobody)'
      BY DEF EntriesAreGood
    <3>2. Home[b] = r /\ b \in Actors \ {a} /\ Takeable(b, Nobody)
      BY <2>9, <3>1 DEF QueuesInv, EntriesAreGood
    <3>. QED  BY <2>5, <3>2
  <2>11. EntriesDiffer'
    <3>1. SUFFICES ASSUME NEW r \in Pools, NEW i \in DOMAIN readyQ'[r], NEW l \in DOMAIN readyQ'[r],
                          readyQ'[r][i] = readyQ'[r][l]
                   PROVE  i = l
      BY DEF EntriesDiffer
    <3>2. PICK m \in DOMAIN readyQ[r] : /\ readyQ'[r][i] = readyQ[r][m]
                                        /\ m = IF r = p THEN i + 1 ELSE i
      BY <2>9
    <3>3. PICK n \in DOMAIN readyQ[r] : /\ readyQ'[r][l] = readyQ[r][n]
                                        /\ n = IF r = p THEN l + 1 ELSE l
      BY <2>9
    <3>4. m = n
      BY <3>1, <3>2, <3>3 DEF QueuesInv, EntriesDiffer
    <3>5. r = p => i \in Int /\ l \in Int
      BY <2>8
    <3>. QED  BY <3>2, <3>3, <3>4, <3>5
  <2>12. WorkIsQueued'
    <3>1. SUFFICES ASSUME NEW b \in Actors, Takeable(b, Nobody)'
                   PROVE  b \in ToSet(readyQ'[Home[b]])
      BY DEF WorkIsQueued, Ready
    <3>2. b # a /\ Takeable(b, Nobody)
      BY <2>5, <3>1
    <3>3. PICK m \in DOMAIN readyQ[Home[b]] : readyQ[Home[b]][m] = b
      BY <3>2 DEF QueuesInv, WorkIsQueued, Ready, ToSet
    <3>4. CASE Home[b] # p
      <4>1. Home[b] \in Pools \ {p}
        BY <3>4, ConstantsAssumption DEF ConstantsAssumption
      <4>. QED  BY <2>7, <3>3, <4>1 DEF ToSet
    <3>5. CASE Home[b] = p
      <4>1. m \in 1 .. Len(q) /\ m # 1
        BY <2>1, <2>2, <2>3, <3>2, <3>3, <3>5
      <4>2. m - 1 \in DOMAIN readyQ'[p] /\ m - 1 + 1 = m
        BY <2>1, <2>8, <4>1
      <4>3. readyQ'[p][m - 1] = b
        BY <2>8, <3>3, <3>5, <4>2
      <4>. QED  BY <3>5, <4>2, <4>3 DEF ToSet
    <3>. QED  BY <3>4, <3>5
  <2>. QED  BY <2>10, <2>11, <2>12 DEF QueuesInv
<1>. QED  BY <1>1, <1>2 DEF TakeWork, TakeEntry

\* A thread that finds no work drops nothing from the ready queue.
LEMMA NothingIsDropped ==
    ASSUME TypeOK, QueuesInv, NEW p \in Pools, NEW own,
           own = Nobody \/ own \notin Actors \/ own \in running,
           NoWork(p, own)
    PROVE  UNCHANGED readyQ
<1>1. Hits(p, own) = {} /\ readyQ' = [readyQ EXCEPT ![p] = <<>>]
  BY DEF NoWork, HasWork
<1>2. DOMAIN readyQ[p] = {} /\ readyQ[p] \in Seq(Actors)
  BY <1>1, NobodyIsPassedOver DEF TypeOK
<1>3. readyQ[p] = <<>>
  <2>1. Len(readyQ[p]) \in Nat /\ 1 .. Len(readyQ[p]) = {}
    BY <1>2, LenProperties
  <2>2. Len(readyQ[p]) = 0
    BY <2>1
  <2>. QED  BY <1>2, <2>2, EmptySeq
<1>. QED  BY <1>1, <1>3 DEF TypeOK

\* On whose behalf a wait looks for work.
LEMMA OwnIsRunning ==
    ASSUME TypeOK, FramesAreNested, OneActivation, NEW t \in Threads, WaitLooks(t)
    PROVE  Me(t) \notin Actors \/ Me(t) \in running
BY MeIsRunning DEF WaitLooks

(***************************************************************************)
(* Every step.                                                             *)
(***************************************************************************)
\* A gate is closed by an activation, whose actor is not queued.
LEMMA QueuesGate ==
    ASSUME TypeOK, FramesAreNested, OneActivation, QueuesInv, NEW t \in Threads,
           NEW gated \in BOOLEAN, MintActor(t, gated)
    PROVE  QueuesInv'
<1>1. PICK a \in Actors : a = Me(t)
  BY DEF MintActor
<1>2. /\ gate' \in {gate, [gate EXCEPT ![a] = nextSlot + 1]}
      /\ UNCHANGED <<queue, running, dead, readyQ>>
  BY <1>1 DEF MintActor, poolVars
<1>3. a \in running
  BY <1>1, RunsHasFrame, MeIsRunning DEF MintActor, Runs
<1>4. \A b \in Actors : b # a => gate'[b] = gate[b]
  BY <1>2 DEF TypeOK
<1>5. \A b \in Actors : Takeable(b, Nobody)' <=> Takeable(b, Nobody)
  BY <1>2, <1>3, <1>4 DEF Takeable
<1>. QED  BY <1>2, <1>5, QueuesSame

\* Program code.
LEMMA QueuesProgram ==
    ASSUME TypeOK, FramesAreNested, OneActivation, QueuesInv, NEW t \in Threads, Program(t)
    PROVE  QueuesInv'
<1>1. ASSUME NEW a \in Actors, NEW s \in Slots \cup {0}, Send(t, a, s)
      PROVE  QueuesInv'
  BY <1>1, QueuesEnqueue DEF Send
<1>2. CASE \/ \E p \in Pools, c \in SUBSET Slots : MintTask(t, p, c)
           \/ MintWaiter(t) \/ Await(t)
           \/ \E s \in Slots : OnIdle(t, s)
           \/ \E p \in Pools : NewPool(t, p)
           \/ \E a \in Actors : NewActor(t, a)
           \/ \E h \in Hosts, c \in SUBSET Slots : HostOpens(t, h, c)
  <2>1. UNCHANGED <<readyQ, queue, gate, running, dead>>
    BY <1>2 DEF MintTask, MintWaiter, Await, OnIdle, NewPool, NewActor, HostOpens,
                actorVars, poolVars
  <2>. QED  BY <2>1, QueuesStill
<1>3. ASSUME NEW s \in Slots, Answer(t, s)
      PROVE  QueuesInv'
  BY <1>3, QueuesDelivery DEF Answer
<1>4. ASSUME NEW a \in Actors, NEW s \in Slots, Watch(t, a, s)
      PROVE  QueuesInv'
  <2>1. CASE DeliverTo(s)
    BY <2>1, QueuesDelivery
  <2>2. CASE UNCHANGED <<queue, gate, running, dead, poolVars>>
    BY <2>2, QueuesStill DEF poolVars
  <2>. QED  BY <1>4, <2>1, <2>2 DEF Watch
<1>. QED  BY <1>1, <1>2, <1>3, <1>4, QueuesGate, QueuesFault, QueuesTask DEF Program

\* The runtime.
LEMMA QueuesRuntime ==
    ASSUME TypeOK, FramesAreNested, OneActivation, QueuesInv, NEW t \in Threads, Runtime(t)
    PROVE  QueuesInv'
<1>0. Serves[t] \in Pools
  BY ConstantsAssumption DEF ConstantsAssumption
<1>1. CASE Resend(t)
  <2>1. sending[t].to \in Actors
    BY <1>1 DEF Resend, FramesAreNested, NestedOn
  <2>2. sending[t].tok \in Slots \cup {0}
    BY DEF TypeOK, SendRec
  <2>. QED  BY <1>1, <2>1, <2>2, QueuesEnqueue DEF Resend
<1>2. CASE Park(t) \/ NextRetires(t) \/ WaitGot(t)
  <2>1. UNCHANGED <<readyQ, queue, gate, running, dead>>
    BY <1>2 DEF Park, NextRetires, WaitGot, actorVars, poolVars
  <2>. QED  BY <2>1, QueuesStill
<1>3. CASE NextWork(t)
  BY <1>3, QueuesTake DEF NextWork
<1>4. CASE WaitWork(t)
  BY <1>4, OwnIsRunning, QueuesTake DEF WaitWork
<1>5. CASE NextSleeps(t)
  <2>1. UNCHANGED readyQ
    BY <1>0, <1>5, NothingIsDropped DEF NextSleeps
  <2>. QED  BY <1>5, <2>1, QueuesStill DEF NextSleeps, actorVars
<1>6. CASE WaitIdles(t)
  <2>1. UNCHANGED readyQ
    BY <1>0, <1>6, OwnIsRunning, NothingIsDropped DEF WaitIdles
  <2>. QED  BY <1>6, <2>1, QueuesStill DEF WaitIdles, actorVars
<1>. QED  BY <1>1, <1>2, <1>3, <1>4, <1>5, <1>6, QueuesReturn, QueuesTask DEF Runtime

\* Every step of the scheduler.
LEMMA QueuesStep ==
    ASSUME TypeOK, FramesAreNested, OneActivation, QueuesInv, [Next]_vars
    PROVE  QueuesInv'
<1>1. CASE \/ UNCHANGED vars \/ EndBulk \/ MainReturns \/ Exited
           \/ \E t \in Threads : HostCloses(t)
  <2>1. UNCHANGED <<readyQ, queue, gate, running, dead>>
    BY <1>1 DEF vars, EndBulk, MainReturns, Exited, HostCloses, actorVars, poolVars
  <2>. QED  BY <2>1, QueuesStill
<1>2. CASE DeliverNext
  <2>1. Head(bulk.tokens) \in Slots
    BY <1>2, HeadTailProperties DEF DeliverNext, TypeOK, BulkRec
  <2>. QED  BY <1>2, <2>1, QueuesDelivery DEF DeliverNext
<1>. QED  BY <1>1, <1>2, QueuesProgram, QueuesRuntime DEF Next

\* Initially nothing is queued anywhere.
LEMMA InitQueues == Init => QueuesInv
BY DEF Init, QueuesInv, EntriesAreGood, EntriesDiffer, WorkIsQueued, Takeable, Deliverable

\* No work is forgotten and none is queued twice: an actor is on its pool's
\* ready queue exactly while it lives, has no activation, and holds something
\* that may be delivered, however take_work skips entries on the way.
THEOREM ReadyQueuesAreExact == Spec => []ReadyQueueIsExact
<1>1. Typed /\ OneActivation /\ QueuesInv /\ [Next]_vars => QueuesInv'
  BY QueuesStep DEF Typed
<1>2. Typed /\ QueuesInv => ReadyQueueIsExact
  <2>1. SUFFICES ASSUME TypeOK, QueuesInv, NEW a \in Actors
                 PROVE  /\ Ready(a) <=> Takeable(a, Nobody)
                        /\ \A i, j \in DOMAIN readyQ[Home[a]] :
                             readyQ[Home[a]][i] = a /\ readyQ[Home[a]][j] = a => i = j
    BY DEF Typed, ReadyQueueIsExact
  <2>2. Home[a] \in Pools
    BY ConstantsAssumption DEF ConstantsAssumption
  <2>. QED  BY <2>1, <2>2
            DEF QueuesInv, EntriesAreGood, EntriesDiffer, WorkIsQueued, Ready, ToSet
<1>. QED  BY InitQueues, <1>1, <1>2, TypesAreKept, ActivationsAreSingle, PTL DEF Spec

(***************************************************************************)
(* What a step may do to the mailbox of actor b.                           *)
(***************************************************************************)
Untouched(b) == /\ queue'[b] = queue[b] /\ userLen'[b] = userLen[b] /\ gate'[b] = gate[b]
                /\ b \in running' <=> b \in running
                /\ b \in dead' <=> b \in dead
Gains(b, e) == /\ e \in Entry /\ b \notin dead
               /\ e.kind = "msg" => userLen[b] < Bound[b]
               /\ queue'[b] = Append(queue[b], e)
               /\ userLen'[b] = userLen[b] + (IF e.kind = "msg" THEN 1 ELSE 0)
               /\ gate'[b] = gate[b]
               /\ b \in running' <=> b \in running
               /\ b \notin dead'
Gives(b, k) == /\ b \notin running \cup dead /\ b \in running' \ dead'
               /\ k \in DOMAIN queue[b] /\ First(k, Deliverable(queue[b], gate[b]))
               /\ queue'[b] = RemoveAt(queue[b], k)
               /\ userLen'[b] = userLen[b] - (IF queue[b][k].kind = "msg" THEN 1 ELSE 0)
               /\ gate'[b] = IF queue[b][k] = Answered(gate[b]) THEN 0 ELSE gate[b]
Gated(b) == /\ b \in running /\ b \in running' /\ gate'[b] \in Slots
            /\ queue'[b] = queue[b] /\ userLen'[b] = userLen[b]
            /\ b \in dead' <=> b \in dead
Leaves(b) == /\ b \in running /\ b \notin running'
             /\ queue'[b] = queue[b] /\ userLen'[b] = userLen[b] /\ gate'[b] = gate[b]
             /\ b \in dead' <=> b \in dead
Dies(b) == /\ b \in running /\ b \notin running' /\ b \in dead'
           /\ queue'[b] = <<>> /\ userLen'[b] = 0 /\ gate'[b] = 0

Touched(b) == \/ Untouched(b) \/ Gated(b) \/ Leaves(b) \/ Dies(b)
              \/ \E e \in Entry : Gains(b, e)
              \/ \E k \in DOMAIN queue[b] : Gives(b, k)

\* A step that leaves every mailbox alone.
LEMMA NoneTouched ==
    ASSUME UNCHANGED <<queue, userLen, gate, running, dead>>, NEW b \in Actors
    PROVE  Touched(b)
BY DEF Touched, Untouched

\* An entry that does not count against the bound joins one mailbox.
LEMMA PostTouches ==
    ASSUME TypeOK, NEW a \in Actors, NEW e \in Entry, e.kind # "msg", a \notin dead,
           queue' = [queue EXCEPT ![a] = Append(@, e)],
           UNCHANGED <<userLen, gate, running, dead>>, NEW b \in Actors
    PROVE  Touched(b)
<1>1. CASE b = a
  <2>1. queue'[b] = Append(queue[b], e) /\ userLen[b] \in Int
    BY <1>1 DEF TypeOK
  <2>2. Gains(b, e)
    BY <1>1, <2>1 DEF Gains
  <2>. QED  BY <2>2 DEF Touched
<1>2. CASE b # a
  <2>1. Untouched(b)
    BY <1>2 DEF Untouched, TypeOK
  <2>. QED  BY <2>1 DEF Touched
<1>. QED  BY <1>1, <1>2

\* enqueue.
LEMMA EnqueueTouches ==
    ASSUME TypeOK, NEW t \in Threads, NEW a \in Actors, NEW s \in Slots \cup {0},
           Enqueue(t, a, s), NEW b \in Actors
    PROVE  Touched(b)
<1>1. UNCHANGED <<gate, running, dead>>
  BY DEF Enqueue
<1>2. CASE UNCHANGED <<queue, userLen>>
  BY <1>1, <1>2, NoneTouched
<1>3. CASE /\ a \notin dead /\ userLen[a] < Bound[a]
           /\ queue' = [queue EXCEPT ![a] = Append(@, Delivered(s))]
           /\ userLen' = [userLen EXCEPT ![a] = @ + 1]
  <2>1. CASE b = a
    <3>1. Delivered(s) \in Entry /\ Delivered(s).kind = "msg"
      BY DEF Entry, Delivered
    <3>2. queue'[b] = Append(queue[b], Delivered(s)) /\ userLen'[b] = userLen[b] + 1
      BY <1>3, <2>1 DEF TypeOK
    <3>3. Gains(b, Delivered(s))
      BY <1>1, <1>3, <2>1, <3>1, <3>2 DEF Gains
    <3>. QED  BY <3>1, <3>3 DEF Touched
  <2>2. CASE b # a
    <3>1. Untouched(b)
      BY <1>1, <1>3, <2>2 DEF Untouched, TypeOK
    <3>. QED  BY <3>1 DEF Touched
  <2>. QED  BY <2>1, <2>2
<1>. QED  BY <1>2, <1>3 DEF Enqueue

\* deliver_to.
LEMMA DeliveryTouches ==
    ASSUME TypeOK, NEW s \in Slots, DeliverTo(s), NEW b \in Actors
    PROVE  Touched(b)
<1>1. UNCHANGED <<userLen, gate, running, dead>>
  BY DEF DeliverTo
<1>2. CASE UNCHANGED queue
  BY <1>1, <1>2, NoneTouched
<1>3. CASE DeliverToActor(s) /\ ~UNCHANGED queue
  <2>1. /\ target[s] \in Actors \ dead
        /\ queue' = [queue EXCEPT ![target[s]] = Append(@, Answered(s))]
    BY <1>3 DEF DeliverToActor, Post
  <2>2. Answered(s) \in Entry /\ Answered(s).kind # "msg"
    BY DEF Entry, Answered
  <2>. QED  BY <1>1, <2>1, <2>2, PostTouches
<1>. QED  BY <1>2, <1>3 DEF DeliverTo, DeliverToWaiter, DeliverToTask

\* replyto! closes the mailbox of a running activation.
LEMMA GateTouches ==
    ASSUME TypeOK, FramesAreNested, OneActivation, NEW t \in Threads, NEW gated \in BOOLEAN,
           MintActor(t, gated), NEW b \in Actors
    PROVE  Touched(b)
<1>1. /\ Me(t) \in Actors /\ pc[t] = "run" /\ nextSlot + 1 \in Slots
      /\ UNCHANGED <<queue, userLen, running, dead>>
      /\ gate' \in {gate, [gate EXCEPT ![Me(t)] = nextSlot + 1]}
  BY DEF MintActor, Mint, Runs
<1>2. Me(t) \in running
  BY <1>1, RunsHasFrame, MeIsRunning
<1>3. CASE gate'[b] = gate[b]
  BY <1>1, <1>3 DEF Touched, Untouched
<1>4. CASE gate'[b] # gate[b]
  <2>1. b = Me(t) /\ gate'[b] = nextSlot + 1
    BY <1>1, <1>4 DEF TypeOK
  <2>2. Gated(b)
    BY <1>1, <1>2, <2>1 DEF Gated
  <2>. QED  BY <2>2 DEF Touched
<1>. QED  BY <1>3, <1>4

\* finish of an activation that returned.
LEMMA ReturnTouches ==
    ASSUME TypeOK, FramesAreNested, OneActivation, NEW t \in Threads, ActorReturns(t),
           NEW b \in Actors
    PROVE  Touched(b)
<1>1. /\ Me(t) \in Actors /\ pc[t] = "run" /\ running' = running \ {Me(t)}
      /\ UNCHANGED <<queue, userLen, gate, dead>>
  BY DEF ActorReturns, Runs
<1>2. Me(t) \in running
  BY <1>1, RunsHasFrame, MeIsRunning
<1>3. CASE b = Me(t)
  <2>1. Leaves(b)
    BY <1>1, <1>2, <1>3 DEF Leaves
  <2>. QED  BY <2>1 DEF Touched
<1>4. CASE b # Me(t)
  <2>1. Untouched(b)
    BY <1>1, <1>4 DEF Untouched
  <2>. QED  BY <2>1 DEF Touched
<1>. QED  BY <1>3, <1>4

\* finish of an activation that faulted: its actor dies, and a live sink hears.
LEMMA FaultTouches ==
    ASSUME TypeOK, FramesAreNested, OneActivation, NEW t \in Threads, ActorFaults(t),
           NEW b \in Actors
    PROVE  Touched(b)
<1>0. PICK a \in Actors : a = Me(t)
  BY DEF ActorFaults
<1>a. PICK toSink : toSink = IF watchers[a] = <<>> THEN LiveSink(Home[a]) ELSE {}
  OBVIOUS
<1>1. /\ dead' = dead \cup {a} /\ running' = running \ {a}
      /\ gate' = [gate EXCEPT ![a] = 0] /\ userLen' = [userLen EXCEPT ![a] = 0]
      /\ gate \in [Actors -> Slots \cup {0}] /\ userLen \in [Actors -> Int]
  BY <1>0 DEF ActorFaults, TypeOK
<1>2. a \in running
  BY <1>0, RunsHasFrame, MeIsRunning DEF ActorFaults, Does, Runs
<1>3. queue' = [c \in Actors |-> IF c = a THEN <<>>
                                 ELSE IF c \in toSink THEN Append(queue[c], Reported)
                                 ELSE queue[c]]
  BY <1>0, <1>a DEF ActorFaults
<1>4. b \in toSink => b \notin dead'
  BY <1>a DEF LiveSink
<1>5. CASE b = a
  <2>1. Dies(b)
    BY <1>1, <1>2, <1>3, <1>5 DEF Dies
  <2>. QED  BY <2>1 DEF Touched
<1>6. CASE b # a /\ b \in toSink
  <2>1. Reported \in Entry /\ Reported.kind # "msg"
    BY DEF Entry, Reported
  <2>2. queue'[b] = Append(queue[b], Reported) /\ userLen'[b] = userLen[b] /\ gate'[b] = gate[b]
        /\ userLen[b] \in Int
    BY <1>1, <1>3, <1>6
  <2>3. Gains(b, Reported)
    BY <1>1, <1>4, <1>6, <2>1, <2>2 DEF Gains
  <2>. QED  BY <2>1, <2>3 DEF Touched
<1>7. CASE b # a /\ b \notin toSink
  <2>1. Untouched(b)
    BY <1>1, <1>3, <1>7 DEF Untouched
  <2>. QED  BY <2>1 DEF Touched
<1>. QED  BY <1>5, <1>6, <1>7

\* task_done, of a task that returned or faulted.
LEMMA TaskTouches ==
    ASSUME TypeOK, NEW t \in Threads, TaskReturns(t) \/ TaskFaults(t), NEW b \in Actors
    PROVE  Touched(b)
<1>1. PICK sinks \in {{}, LiveSink(Serves[t])} : TaskEnds(t, sinks)
  BY DEF TaskReturns, TaskFaults
<1>2. /\ UNCHANGED <<userLen, gate, running, dead>>
      /\ queue' = [c \in Actors |-> IF c \in sinks THEN Append(queue[c], Reported)
                                                   ELSE queue[c]]
  BY <1>1 DEF TaskEnds
<1>3. CASE b \in sinks
  <2>1. Reported \in Entry /\ Reported.kind # "msg" /\ b \notin dead
    BY <1>1, <1>2, <1>3 DEF Entry, Reported, LiveSink
  <2>2. queue'[b] = Append(queue[b], Reported) /\ userLen[b] \in Int
    BY <1>2, <1>3 DEF TypeOK
  <2>3. Gains(b, Reported)
    BY <1>2, <2>1, <2>2 DEF Gains
  <2>. QED  BY <2>1, <2>3 DEF Touched
<1>4. CASE b \notin sinks
  <2>1. Untouched(b)
    BY <1>2, <1>4 DEF Untouched
  <2>. QED  BY <2>1 DEF Touched
<1>. QED  BY <1>3, <1>4

\* take_work.
LEMMA TakeTouches ==
    ASSUME TypeOK, NEW t \in Threads, NEW own, TakeWork(t, own), NEW b \in Actors
    PROVE  Touched(b)
<1>1. CASE TakeTask(t)
  BY <1>1, NoneTouched DEF TakeTask, actorVars
<1>2. ASSUME NEW a \in Actors, NEW k \in DOMAIN queue[a], TakeEntryOf(t, own, a, k)
      PROVE  Touched(b)
  <2>1. /\ running' = running \cup {a} /\ dead' = dead
        /\ First(k, Deliverable(queue[a], gate[a]))
        /\ queue' = [queue EXCEPT ![a] = RemoveAt(@, k)]
        /\ gate' = IF queue[a][k] = Answered(gate[a]) THEN [gate EXCEPT ![a] = 0] ELSE gate
        /\ userLen' = IF queue[a][k].kind = "msg" THEN [userLen EXCEPT ![a] = @ - 1] ELSE userLen
    BY <1>2 DEF TakeEntryOf, Occupy
  <2>2. a \notin running \cup dead
    <3>1. PICK j \in DOMAIN readyQ[Serves[t]] :
            First(j, Hits(Serves[t], own)) /\ readyQ[Serves[t]][j] = a
      BY <1>2 DEF TakeEntryOf
    <3>. QED  BY <3>1 DEF First, Hits, Takeable
  <2>3. CASE b = a
    <3>1. /\ queue'[b] = RemoveAt(queue[b], k)
          /\ gate'[b] = IF queue[b][k] = Answered(gate[b]) THEN 0 ELSE gate[b]
      BY <2>1, <2>3 DEF TypeOK
    <3>2. userLen'[b] = userLen[b] - (IF queue[b][k].kind = "msg" THEN 1 ELSE 0)
      <4>1. userLen \in [Actors -> Int]
        BY DEF TypeOK
      <4>. QED  BY <2>1, <2>3, <4>1
    <3>3. Gives(b, k)
      BY <2>1, <2>2, <2>3, <3>1, <3>2 DEF Gives
    <3>. QED  BY <2>3, <3>3 DEF Touched
  <2>4. CASE b # a
    <3>1. queue'[b] = queue[b] /\ gate'[b] = gate[b] /\ userLen'[b] = userLen[b]
      BY <2>1, <2>4 DEF TypeOK
    <3>2. Untouched(b)
      BY <2>1, <2>4, <3>1 DEF Untouched
    <3>. QED  BY <3>2 DEF Touched
  <2>. QED  BY <2>3, <2>4
<1>. QED  BY <1>1, <1>2 DEF TakeWork, TakeEntry

\* Program code.
LEMMA ProgramTouches ==
    ASSUME TypeOK, FramesAreNested, OneActivation, NEW t \in Threads, Program(t), NEW b \in Actors
    PROVE  Touched(b)
<1>1. ASSUME NEW a \in Actors, NEW s \in Slots \cup {0}, Send(t, a, s)
      PROVE  Touched(b)
  BY <1>1, EnqueueTouches DEF Send
<1>2. CASE \/ \E p \in Pools, c \in SUBSET Slots : MintTask(t, p, c)
           \/ MintWaiter(t) \/ Await(t)
           \/ \E s \in Slots : OnIdle(t, s)
           \/ \E p \in Pools : NewPool(t, p)
           \/ \E a \in Actors : NewActor(t, a)
           \/ \E h \in Hosts, c \in SUBSET Slots : HostOpens(t, h, c)
  <2>1. UNCHANGED <<queue, userLen, gate, running, dead>>
    BY <1>2 DEF MintTask, MintWaiter, Await, OnIdle, NewPool, NewActor, HostOpens, actorVars
  <2>. QED  BY <2>1, NoneTouched
<1>3. ASSUME NEW s \in Slots, Answer(t, s)
      PROVE  Touched(b)
  BY <1>3, DeliveryTouches DEF Answer
<1>4. ASSUME NEW a \in Actors, NEW s \in Slots, Watch(t, a, s)
      PROVE  Touched(b)
  BY <1>4, DeliveryTouches, NoneTouched DEF Watch
<1>. QED  BY <1>1, <1>2, <1>3, <1>4, GateTouches, FaultTouches, TaskTouches DEF Program

\* Every step does one of these things, and only one, to any one mailbox.
LEMMA StepTouches ==
    ASSUME TypeOK, FramesAreNested, OneActivation, [Next]_vars, NEW b \in Actors
    PROVE  Touched(b)
<1>1. CASE \/ UNCHANGED vars \/ EndBulk \/ MainReturns \/ Exited
           \/ \E t \in Threads : \/ HostCloses(t) \/ Park(t) \/ NextRetires(t) \/ NextSleeps(t)
                                 \/ WaitGot(t) \/ WaitIdles(t)
  <2>1. UNCHANGED <<queue, userLen, gate, running, dead>>
    BY <1>1 DEF vars, EndBulk, MainReturns, Exited, HostCloses, Park, NextRetires,
                NextSleeps, WaitGot, WaitIdles, actorVars
  <2>. QED  BY <2>1, NoneTouched
<1>2. CASE DeliverNext
  <2>1. Head(bulk.tokens) \in Slots
    BY <1>2, HeadTailProperties DEF DeliverNext, TypeOK, BulkRec
  <2>. QED  BY <1>2, <2>1, DeliveryTouches DEF DeliverNext
<1>3. ASSUME NEW t \in Threads, Resend(t)
      PROVE  Touched(b)
  <2>1. sending[t].to \in Actors
    BY <1>3 DEF Resend, FramesAreNested, NestedOn
  <2>2. sending[t].tok \in Slots \cup {0}
    BY DEF TypeOK, SendRec
  <2>. QED  BY <1>3, <2>1, <2>2, EnqueueTouches DEF Resend
<1>4. ASSUME NEW t \in Threads, NextWork(t) \/ WaitWork(t)
      PROVE  Touched(b)
  BY <1>4, TakeTouches DEF NextWork, WaitWork
<1>5. ASSUME NEW t \in Threads, ActorReturns(t) \/ TaskReturns(t)
      PROVE  Touched(b)
  BY <1>5, ReturnTouches, TaskTouches
<1>. QED  BY <1>1, <1>2, <1>3, <1>4, <1>5, ProgramTouches DEF Next, Runtime

(***************************************************************************)
(* userLen counts the messages of the program in the queue.                *)
(***************************************************************************)
MessagesIn(q) == {i \in DOMAIN q : q[i].kind = "msg"}
UserLenIsExact == \A a \in Actors : Counts(MessagesIn(queue[a]), userLen[a])

\* One message more.
LEMMA MessagesAppend ==
    ASSUME NEW q \in Seq(Entry), NEW e \in Entry, NEW n, Counts(MessagesIn(q), n)
    PROVE  Counts(MessagesIn(Append(q, e)), n + (IF e.kind = "msg" THEN 1 ELSE 0))
<1>1. /\ Len(q) \in Nat /\ DOMAIN q = 1 .. Len(q)
      /\ DOMAIN Append(q, e) = 1 .. Len(q) + 1
      /\ \A i \in 1 .. Len(q) : Append(q, e)[i] = q[i]
      /\ Append(q, e)[Len(q) + 1] = e
  BY LenProperties, AppendProperties
<1>2. n \in Nat
  BY FS_CardinalityType DEF Counts
<1>3. CASE e.kind = "msg"
  <2>1. MessagesIn(Append(q, e)) = MessagesIn(q) \cup {Len(q) + 1}
    BY <1>1, <1>3 DEF MessagesIn
  <2>2. Len(q) + 1 \notin MessagesIn(q)
    BY <1>1 DEF MessagesIn
  <2>. QED  BY <1>3, <2>1, <2>2, FS_AddElement DEF Counts
<1>4. CASE e.kind # "msg"
  <2>1. MessagesIn(Append(q, e)) = MessagesIn(q)
    BY <1>1, <1>4 DEF MessagesIn
  <2>. QED  BY <1>2, <1>4, <2>1 DEF Counts
<1>. QED  BY <1>3, <1>4

\* One entry fewer.
LEMMA MessagesRemove ==
    ASSUME NEW q \in Seq(Entry), NEW k \in DOMAIN q, NEW n, Counts(MessagesIn(q), n)
    PROVE  Counts(MessagesIn(RemoveAt(q, k)), n - (IF q[k].kind = "msg" THEN 1 ELSE 0))
<1>. DEFINE r == RemoveAt(q, k)
            S == MessagesIn(q) \ {k}
            T == MessagesIn(r)
            f == [i \in S |-> IF i < k THEN i ELSE i - 1]
<1>0. \A i \in S : f[i] = IF i < k THEN i ELSE i - 1
  OBVIOUS
<1>1. /\ Len(q) \in Nat /\ DOMAIN q = 1 .. Len(q) /\ k \in 1 .. Len(q)
      /\ DOMAIN r = 1 .. Len(q) - 1
      /\ \A i \in 1 .. Len(q) - 1 : r[i] = IF i < k THEN q[i] ELSE q[i + 1]
  BY LenProperties, RemoveAtProperties
<1>. HIDE DEF r
<1>2. n \in Nat /\ IsFiniteSet(S) /\ Cardinality(S) = n - (IF q[k].kind = "msg" THEN 1 ELSE 0)
  <2>1. k \in MessagesIn(q) <=> q[k].kind = "msg"
    BY DEF MessagesIn
  <2>. QED  BY <2>1, FS_CardinalityType, FS_RemoveElement DEF Counts
<1>3. \A i \in S : i \in 1 .. Len(q) /\ i # k /\ q[i].kind = "msg"
  BY <1>1 DEF MessagesIn
<1>4. \A i \in T : i \in 1 .. Len(q) - 1 /\ r[i].kind = "msg"
  BY <1>1 DEF MessagesIn
<1>5. ASSUME NEW i \in S PROVE f[i] \in T
  <2>1. CASE i < k
    <3>1. i \in 1 .. Len(q) - 1 /\ r[i] = q[i]
      BY <1>1, <1>3, <2>1
    <3>. QED  BY <1>1, <1>3, <2>1, <3>1 DEF MessagesIn
  <2>2. CASE ~(i < k)
    <3>1. i - 1 \in 1 .. Len(q) - 1 /\ ~(i - 1 < k) /\ i - 1 + 1 = i
      BY <1>1, <1>3, <2>2
    <3>2. r[i - 1] = q[i]
      BY <1>1, <3>1
    <3>. QED  BY <1>1, <1>3, <2>2, <3>1, <3>2 DEF MessagesIn
  <2>. QED  BY <2>1, <2>2
<1>6. ASSUME NEW i \in S, NEW j \in S, f[i] = f[j] PROVE i = j
  BY <1>1, <1>3, <1>6
<1>7. ASSUME NEW j \in T PROVE \E i \in S : f[i] = j
  <2>1. CASE j < k
    <3>1. j \in DOMAIN q /\ q[j] = r[j] /\ j # k
      BY <1>1, <1>4, <2>1
    <3>2. j \in S
      BY <1>4, <3>1 DEF MessagesIn
    <3>. QED  BY <2>1, <3>2
  <2>2. CASE ~(j < k)
    <3>1. j + 1 \in DOMAIN q /\ q[j + 1] = r[j] /\ j + 1 # k /\ ~(j + 1 < k) /\ j + 1 - 1 = j
      BY <1>1, <1>4, <2>2
    <3>2. j + 1 \in S
      BY <1>4, <3>1 DEF MessagesIn
    <3>. HIDE DEF f, S
    <3>3. f[j + 1] = IF j + 1 < k THEN j + 1 ELSE j + 1 - 1
      BY <1>0, <1>1, <1>4, <3>1, <3>2
    <3>4. f[j + 1] = j
      BY <3>1, <3>3
    <3>. QED  BY <3>2, <3>4
  <2>. QED  BY <2>1, <2>2
<1>8. f \in [S -> T]
  BY <1>5
<1>. HIDE DEF f, S, T
<1>9. ExistsBijection(S, T)
  <2>1. f \in Injection(S, T)
    BY <1>6, <1>8 DEF Injection, IsInjective
  <2>2. f \in Surjection(S, T)
    BY <1>7, <1>8 DEF Surjection
  <2>. QED  BY <2>1, <2>2 DEF ExistsBijection, Bijection
<1>. QED  BY <1>2, <1>9, FS_Bijection DEF Counts, T, r

\* The counter is kept by every step.
LEMMA UserLenStep ==
    ASSUME TypeOK, FramesAreNested, OneActivation, UserLenIsExact, [Next]_vars
    PROVE  UserLenIsExact'
<1>1. SUFFICES ASSUME NEW a \in Actors
               PROVE  Counts(MessagesIn(queue'[a]), userLen'[a])
  BY DEF UserLenIsExact, Counts, MessagesIn
<1>2. queue[a] \in Seq(Entry) /\ Counts(MessagesIn(queue[a]), userLen[a])
  BY DEF TypeOK, UserLenIsExact
<1>3. CASE Untouched(a) \/ Gated(a) \/ Leaves(a)
  BY <1>2, <1>3 DEF Untouched, Gated, Leaves
<1>4. CASE Dies(a)
  <2>1. MessagesIn(<<>>) = {}
    BY DEF MessagesIn
  <2>. QED  BY <1>4, <2>1, FS_EmptySet DEF Dies, Counts
<1>5. ASSUME NEW e \in Entry, Gains(a, e)
      PROVE  Counts(MessagesIn(queue'[a]), userLen'[a])
  BY <1>2, <1>5, MessagesAppend DEF Gains
<1>6. ASSUME NEW k \in DOMAIN queue[a], Gives(a, k)
      PROVE  Counts(MessagesIn(queue'[a]), userLen'[a])
  BY <1>2, <1>6, MessagesRemove DEF Gives
<1>. QED  BY <1>3, <1>4, <1>5, <1>6, StepTouches DEF Touched

\* Initially every mailbox is empty.
LEMMA InitUserLen == Init => UserLenIsExact
<1>1. MessagesIn(<<>>) = {}
  BY DEF MessagesIn
<1>2. Counts({}, 0)
  BY FS_EmptySet DEF Counts
<1>3. ASSUME Init, NEW a \in Actors
      PROVE  queue[a] = <<>> /\ userLen[a] = 0
  BY <1>3 DEF Init
<1>. QED  BY <1>1, <1>2, <1>3 DEF UserLenIsExact

(***************************************************************************)
(* The refinement.                                                         *)
(***************************************************************************)
\* Every step is a step of the mailbox, or leaves it as it is.
LEMMA MailboxStep ==
    ASSUME TypeOK, FramesAreNested, OneActivation, UserLenIsExact, [Next]_vars
    PROVE  [Box!Next]_(Box!mailboxVars)
<1>1. /\ Whose \in Actors /\ queue[Whose] \in Seq(Entry) /\ gate[Whose] \in Slots \cup {0}
      /\ Len(queue[Whose]) \in Nat /\ DOMAIN queue[Whose] = 1 .. Len(queue[Whose])
  BY WhoseAssumption, LenProperties DEF TypeOK
<1>2. CASE Untouched(Whose)
  BY <1>2 DEF Untouched, Box!mailboxVars
<1>3. CASE Gated(Whose)
  <2>1. CASE gate'[Whose] = gate[Whose]
    BY <1>3, <2>1 DEF Gated, Box!mailboxVars
  <2>2. CASE gate'[Whose] # gate[Whose]
    <3>1. Box!Close
      BY <1>3, <2>2 DEF Gated, Box!Close
    <3>. QED  BY <3>1 DEF Box!Next
  <2>. QED  BY <2>1, <2>2
<1>4. CASE Leaves(Whose)
  <2>1. Box!Return
    BY <1>4 DEF Leaves, Box!Return
  <2>. QED  BY <2>1 DEF Box!Next
<1>5. CASE Dies(Whose)
  <2>1. Box!Die
    BY <1>5 DEF Dies, Box!Die
  <2>. QED  BY <2>1 DEF Box!Next
<1>6. ASSUME NEW e \in Entry, Gains(Whose, e)
      PROVE  Box!Next
  <2>1. userLen[Whose] = Box!Cardinality(Box!Messages)
    BY <1>1 DEF UserLenIsExact, Counts, MessagesIn, Box!Messages, Box!IsMessage,
               Box!Cardinality, Cardinality
  <2>2. /\ ~(Whose \in dead) /\ queue'[Whose] = Append(queue[Whose], e)
        /\ gate'[Whose] = gate[Whose]
        /\ (Whose \in running') = (Whose \in running) /\ (Whose \in dead') = (Whose \in dead)
        /\ e.kind = "msg" => userLen[Whose] < Bound[Whose]
    BY <1>6 DEF Gains
  <2>3. UNCHANGED <<gate[Whose], Whose \in running, Whose \in dead>>
    BY <2>2, Zenon
  <2>4. Box!IsMessage(e) => Box!Cardinality(Box!Messages) < Bound[Whose]
    BY <2>1, <2>2 DEF Box!IsMessage, Box!Cardinality, Cardinality
  <2>5. Box!Post(e)
    BY <2>2, <2>3, <2>4, Zenon DEF Box!Post
  <2>. QED  BY <1>6, <2>5 DEF Box!Next
<1>7. ASSUME NEW k \in DOMAIN queue[Whose], Gives(Whose, k)
      PROVE  Box!Next
  <2>1. /\ ~(Whose \in running) /\ ~(Whose \in dead) /\ Whose \in running' /\ ~(Whose \in dead')
        /\ k \in Deliverable(queue[Whose], gate[Whose])
        /\ queue'[Whose] = RemoveAt(queue[Whose], k)
        /\ gate'[Whose] = IF queue[Whose][k] = Answered(gate[Whose]) THEN 0 ELSE gate[Whose]
    BY <1>7 DEF Gives, First
  <2>2. CASE gate[Whose] = 0
    <3>1. k = 1 /\ queue[Whose] # <<>>
      BY <2>1, <2>2 DEF Deliverable
    <3>2. queue'[Whose] = Tail(queue[Whose])
      <4>1. /\ RemoveAt(queue[Whose], k) \in Seq(Entry)
            /\ Len(RemoveAt(queue[Whose], k)) = Len(queue[Whose]) - 1
            /\ \A i \in 1 .. Len(queue[Whose]) - 1 : RemoveAt(queue[Whose], k)[i] = queue[Whose][i + 1]
        <5>1. /\ RemoveAt(queue[Whose], 1) \in Seq(Entry)
              /\ Len(RemoveAt(queue[Whose], 1)) = Len(queue[Whose]) - 1
              /\ \A i \in 1 .. Len(queue[Whose]) - 1 :
                   RemoveAt(queue[Whose], 1)[i] = IF i < 1 THEN queue[Whose][i] ELSE queue[Whose][i + 1]
          BY <1>1, <3>1, RemoveAtProperties
        <5>2. \A i \in 1 .. Len(queue[Whose]) - 1 : ~(i < 1)
          BY <1>1
        <5>. QED  BY <3>1, <5>1, <5>2
      <4>2. /\ Tail(queue[Whose]) \in Seq(Entry) /\ Len(Tail(queue[Whose])) = Len(queue[Whose]) - 1
            /\ \A i \in 1 .. Len(queue[Whose]) - 1 : Tail(queue[Whose])[i] = queue[Whose][i + 1]
        BY <1>1, <3>1, HeadTailProperties
      <4>3. RemoveAt(queue[Whose], k) = Tail(queue[Whose])
        BY <4>1, <4>2, SeqEqual
      <4>. QED  BY <2>1, <4>3
    <3>3. gate'[Whose] = gate[Whose]
      BY <2>1, <2>2
    <3>4. Box!TakeFirst
      BY <2>1, <2>2, <3>1, <3>2, <3>3 DEF Box!TakeFirst
    <3>. QED  BY <3>4 DEF Box!Next
  <2>3. CASE gate[Whose] # 0
    <3>1. queue[Whose][k] = Answered(gate[Whose])
      BY <2>1, <2>3 DEF Deliverable
    <3>2. queue[Whose][k].kind = "ans" /\ queue[Whose][k].id = gate[Whose]
      BY <3>1 DEF Answered
    <3>3. Box!RemoveAt(queue[Whose], k) = RemoveAt(queue[Whose], k)
      BY DEF Box!RemoveAt, RemoveAt
    <3>4. gate'[Whose] = 0 /\ (Whose \in dead') = (Whose \in dead)
      BY <2>1, <3>1
    <3>5. Box!TakeAwaited
      BY <2>1, <2>3, <3>2, <3>3, <3>4 DEF Box!TakeAwaited, Box!IsAnswer
    <3>. QED  BY <3>5 DEF Box!Next
  <2>. QED  BY <2>2, <2>3
<1>. QED  BY <1>1, <1>2, <1>3, <1>4, <1>5, <1>6, <1>7, StepTouches DEF Touched

\* Initially the mailbox is empty and open.
LEMMA InitMailbox == Init => Box!Init
BY WhoseAssumption DEF Init, Box!Init

\* The scheduler, with all its threads, pools and wakes, implements Mailbox for
\* any one actor: one activation at a time, in the order of the queue, no more
\* than Bound messages waiting, nothing but the answer while a gated reply is
\* out, and nothing after a death.
THEOREM MailboxesAreImplemented == Spec => MailboxIsKept
<1>1. Typed /\ OneActivation /\ UserLenIsExact /\ [Next]_vars => UserLenIsExact'
  BY UserLenStep DEF Typed
<1>2. Typed /\ OneActivation /\ UserLenIsExact /\ [Next]_vars => [Box!Next]_(Box!mailboxVars)
  BY MailboxStep DEF Typed
<1>. QED  BY InitUserLen, InitMailbox, <1>1, <1>2, TypesAreKept, ActivationsAreSingle, PTL
          DEF Spec, MailboxIsKept, Box!Spec

(***************************************************************************)
(* The waits.                                                              *)
(***************************************************************************)
\* A record is named by one frame at most, or is free, and is free once.
OwnRecords ==
    /\ \A t, u \in Threads : \A i \in DOMAIN stack[t], j \in DOMAIN stack[u] :
         stack[t][i].wid # 0 /\ stack[t][i].wid = stack[u][j].wid => t = u /\ i = j
    /\ \A t \in Threads : \A i \in DOMAIN stack[t] :
         stack[t][i].wid # 0 => stack[t][i].wid \notin ToSet(freeWaiters)
    /\ \A i, j \in DOMAIN freeWaiters : freeWaiters[i] = freeWaiters[j] => i = j

\* The wait of frame i of thread t has begun, and its first step is booked.
Waiting(t, i) == stack[t][i].wid # 0 /\ waiters[stack[t][i].wid].waiting > 0

\* Only a thread that looks for work or is parked for it has its top frame in
\* a wait: between the mint of the record and the wait, its block runs.
RunnersDoNotWait ==
    \A t \in Threads : stack[t] # <<>> /\ Waiting(t, Len(stack[t])) => pc[t] \in {"look", "park"}

(***************************************************************************)
(* Which steps touch a stack, a record or a counter of waits.              *)
(***************************************************************************)
\* A step that changes no frame and no counter, and records only by filling
\* one, which unparks whoever sleeps on it.
Quietly ==
    /\ UNCHANGED <<stack, freeWaiters, active, parkedFrames, mainWaits>>
    /\ DOMAIN waiters' = DOMAIN waiters
    /\ \A w \in DOMAIN waiters :
         /\ waiters'[w].waiting = waiters[w].waiting /\ waiters'[w].parker = waiters[w].parker
         /\ waiters'[w].filled = waiters[w].filled \/ waiters[w].parker \in permit' \cup {Nobody}
    /\ \A u \in Threads : /\ pc[u] \in {"look", "park"} => pc'[u] \in {"look", "park"} \/ stack[u] = <<>>
                          /\ pc'[u] = "park" => pc[u] = "park" \/ stack[u] = <<>>

\* An activation or a task ends.
TopEnds(t) == Ends(t) /\ Me(t) \notin Threads

\* What a delivery does to the records.
LEMMA DeliveryFills ==
    ASSUME TypeOK, WaitersExist, NEW s \in Slots, DeliverTo(s)
    PROVE  /\ DOMAIN waiters' = DOMAIN waiters /\ UNCHANGED freeWaiters
           /\ \A w \in DOMAIN waiters :
                /\ waiters'[w].waiting = waiters[w].waiting
                /\ waiters'[w].parker = waiters[w].parker
                /\ \/ waiters'[w].filled = waiters[w].filled
                   \/ waiters[w].parker \in permit' \cup {Nobody}
<1>1. CASE UNCHANGED waiters
  BY <1>1 DEF DeliverTo
<1>2. CASE /\ target[s] \in Wids /\ waiters' = [waiters EXCEPT ![target[s]].filled = TRUE]
           /\ permit' = permit \cup ParkerOf(target[s])
  <2>. DEFINE w == target[s]
              rec == [waiters[w] EXCEPT !.filled = TRUE]
  <2>1. w \in DOMAIN waiters /\ waiters \in Seq(WaiterRec) /\ waiters[w] \in WaiterRec
    BY <1>2, LenProperties, ElementOfSeq DEF WaitersExist, TypeOK
  <2>2. rec.waiting = waiters[w].waiting /\ rec.parker = waiters[w].parker
    BY <2>1 DEF WaiterRec
  <2>3. waiters' = [waiters EXCEPT ![w] = rec]
    BY <1>2
  <2>4. waiters[w].parker \in permit' \cup {Nobody}
    BY <1>2 DEF ParkerOf
  <2>. HIDE DEF rec
  <2>5. /\ DOMAIN waiters' = DOMAIN waiters /\ waiters'[w] = rec
        /\ \A v \in DOMAIN waiters : v # w => waiters'[v] = waiters[v]
    <3>1. rec \in WaiterRec
      BY <2>1 DEF rec, WaiterRec
    <3>. QED  BY <2>1, <2>3, <3>1, ExceptAnywhere
  <2>. HIDE DEF w
  <2>6. \A v \in DOMAIN waiters : /\ waiters'[v].waiting = waiters[v].waiting
                                  /\ waiters'[v].parker = waiters[v].parker
                                  /\ \/ waiters'[v].filled = waiters[v].filled
                                     \/ waiters[v].parker \in permit' \cup {Nobody}
    <3>1. SUFFICES ASSUME NEW v \in DOMAIN waiters
                   PROVE  /\ waiters'[v].waiting = waiters[v].waiting
                          /\ waiters'[v].parker = waiters[v].parker
                          /\ \/ waiters'[v].filled = waiters[v].filled
                             \/ waiters[v].parker \in permit' \cup {Nobody}
      OBVIOUS
    <3>2. CASE v = w
      BY <2>2, <2>4, <2>5, <3>2
    <3>3. CASE v # w
      BY <2>5, <3>3
    <3>. QED  BY <3>2, <3>3
  <2>. QED  BY <2>5, <2>6 DEF DeliverTo
<1>. QED  BY <1>1, <1>2 DEF DeliverTo, DeliverToActor, DeliverToTask, DeliverToWaiter

\* A step that touches no record, frame or counter.
LEMMA QuietStill ==
    ASSUME UNCHANGED <<stack, waiters, freeWaiters, active, parkedFrames, mainWaits>>,
           \A u \in Threads : /\ pc[u] \in {"look", "park"} => pc'[u] \in {"look", "park"} \/ stack[u] = <<>>
                              /\ pc'[u] = "park" => pc[u] = "park" \/ stack[u] = <<>>
    PROVE  Quietly
BY DEF Quietly

\* The steps of program code, sorted.
LEMMA ProgramKinds ==
    ASSUME TypeOK, FramesAreNested, WaitersExist, NEW t \in Threads, Program(t)
    PROVE  \/ Quietly \/ MintWaiter(t) \/ TopEnds(t)
           \/ \E h \in Hosts, c \in SUBSET Slots : HostOpens(t, h, c)
<1>1. CASE \/ \E gated \in BOOLEAN : MintActor(t, gated)
           \/ \E p \in Pools, c \in SUBSET Slots : MintTask(t, p, c)
           \/ \E s \in Slots : OnIdle(t, s)
           \/ \E a \in Actors : NewActor(t, a)
  <2>1. UNCHANGED <<stack, waiters, freeWaiters, active, parkedFrames, mainWaits, pc>>
    BY <1>1 DEF MintActor, MintTask, OnIdle, NewActor, waiterVars, countVars, threadVars
  <2>. QED  BY <2>1, QuietStill
<1>2. ASSUME NEW a \in Actors, NEW s \in Slots \cup {0}, Send(t, a, s)
      PROVE  Quietly
  <2>1. UNCHANGED <<stack, waiters, freeWaiters, active, parkedFrames, mainWaits>>
    BY <1>2 DEF Send, waiterVars, countVars
  <2>2. pc[t] = "run" /\ pc'[t] \in {"run", "full"} /\ \A u \in Threads : u # t => pc'[u] = pc[u]
    BY <1>2, GotoEffect DEF Send, Does, Runs, Enqueue
  <2>. QED  BY <2>1, <2>2, QuietStill
<1>3. CASE Await(t)
  <2>1. UNCHANGED <<stack, waiters, freeWaiters, active, parkedFrames, mainWaits>>
    BY <1>3 DEF Await, waiterVars, countVars
  <2>2. pc'[t] = "look" /\ \A u \in Threads : u # t => pc'[u] = pc[u]
    BY <1>3, GotoEffect DEF Await
  <2>. QED  BY <2>1, <2>2, QuietStill
<1>4. ASSUME NEW p \in Pools, NewPool(t, p)
      PROVE  Quietly
  <2>1. UNCHANGED <<stack, waiters, freeWaiters, active, parkedFrames, mainWaits>>
    BY <1>4 DEF NewPool, waiterVars, countVars
  <2>2. \A u \in Threads : pc'[u] \in {"look", pc[u]}
    BY <1>4 DEF NewPool
  <2>. QED  BY <2>1, <2>2, QuietStill
<1>5. ASSUME NEW s \in Slots, Answer(t, s)
      PROVE  Quietly
  <2>1. DeliverTo(s) /\ UNCHANGED <<stack, active, parkedFrames, mainWaits, pc>>
    BY <1>5 DEF Answer, countVars
  <2>. QED  BY <2>1, DeliveryFills DEF Quietly
<1>6. ASSUME NEW a \in Actors, NEW s \in Slots, Watch(t, a, s)
      PROVE  Quietly
  <2>1. UNCHANGED <<stack, active, parkedFrames, mainWaits, pc>>
    BY <1>6 DEF Watch, countVars
  <2>2. CASE DeliverTo(s)
    BY <2>1, <2>2, DeliveryFills DEF Quietly
  <2>3. CASE UNCHANGED waiterVars
    BY <2>1, <2>3, QuietStill DEF waiterVars
  <2>. QED  BY <1>6, <2>2, <2>3 DEF Watch
<1>7. CASE ActorFaults(t)
  <2>1. Me(t) \notin Threads
    BY <1>7, NamesAreDistinct DEF ActorFaults
  <2>. QED  BY <1>7, <2>1 DEF ActorFaults, TopEnds
<1>8. CASE TaskFaults(t)
  <2>1. Me(t) \notin Threads
    BY <1>8, NamesAreDistinct DEF TaskFaults, TaskEnds, Slots, ConstantsAssumption
  <2>. QED  BY <1>8, <2>1 DEF TaskFaults, TaskEnds, TopEnds
<1>. QED  BY <1>1, <1>2, <1>3, <1>4, <1>5, <1>6, <1>7, <1>8 DEF Program

\* The steps of the runtime, sorted.
LEMMA RuntimeKinds ==
    ASSUME TypeOK, FramesAreNested, WaitersExist, NEW t \in Threads, Runtime(t)
    PROVE  \/ Quietly \/ TopEnds(t) \/ NextWork(t)
           \/ WaitGot(t) \/ WaitWork(t) \/ WaitIdles(t)
<1>1. CASE Resend(t)
  <2>1. UNCHANGED <<stack, waiters, freeWaiters, active, parkedFrames, mainWaits>>
    BY <1>1 DEF Resend, waiterVars, countVars
  <2>2. pc[t] = "send" /\ pc'[t] \in {"run", "full"} /\ \A u \in Threads : u # t => pc'[u] = pc[u]
    BY <1>1, GotoEffect DEF Resend, Enqueue
  <2>. QED  BY <2>1, <2>2, QuietStill
<1>2. CASE Park(t)
  <2>1. UNCHANGED <<stack, waiters, freeWaiters, active, parkedFrames, mainWaits>>
    BY <1>2 DEF Park, waiterVars, countVars
  <2>2. /\ pc[t] \in {"park", "full"} /\ pc'[t] = (IF pc[t] = "park" THEN "look" ELSE "send")
        /\ \A u \in Threads : u # t => pc'[u] = pc[u]
    BY <1>2, GotoEffect DEF Park
  <2>. QED  BY <2>1, <2>2, QuietStill
<1>3. CASE NextRetires(t) \/ NextSleeps(t)
  <2>1. UNCHANGED <<stack, waiters, freeWaiters, active, parkedFrames, mainWaits>>
    BY <1>3 DEF NextRetires, NextSleeps, waiterVars, countVars
  <2>2. /\ stack[t] = <<>> /\ pc'[t] \in {"park", "done"}
        /\ \A u \in Threads : u # t => pc'[u] = pc[u]
    BY <1>3, GotoEffect DEF NextRetires, NextSleeps
  <2>. QED  BY <2>1, <2>2 DEF Quietly
<1>4. CASE ActorReturns(t)
  <2>1. Me(t) \notin Threads
    BY <1>4, NamesAreDistinct DEF ActorReturns
  <2>. QED  BY <1>4, <2>1 DEF ActorReturns, TopEnds
<1>5. CASE TaskReturns(t)
  <2>1. Me(t) \notin Threads
    BY <1>5, NamesAreDistinct DEF TaskReturns, TaskEnds, Slots, ConstantsAssumption
  <2>. QED  BY <1>5, <2>1 DEF TaskReturns, TaskEnds, TopEnds
<1>. QED  BY <1>1, <1>2, <1>3, <1>4, <1>5 DEF Runtime

\* Every step, sorted.
LEMMA StepKinds ==
    ASSUME TypeOK, FramesAreNested, WaitersExist, [Next]_vars
    PROVE  \/ Quietly
           \/ \E t \in Threads : \/ MintWaiter(t) \/ TopEnds(t) \/ NextWork(t)
                                 \/ WaitGot(t) \/ WaitWork(t) \/ WaitIdles(t)
                                 \/ \E h \in Hosts, c \in SUBSET Slots : HostOpens(t, h, c)
<1>1. CASE UNCHANGED vars \/ EndBulk \/ MainReturns \/ Exited
  <2>1. UNCHANGED <<stack, waiters, freeWaiters, active, parkedFrames, mainWaits, pc>>
    BY <1>1 DEF vars, EndBulk, MainReturns, Exited, waiterVars, countVars, threadVars
  <2>. QED  BY <2>1, QuietStill
<1>2. CASE DeliverNext
  <2>1. Head(bulk.tokens) \in Slots
    BY <1>2, HeadTailProperties DEF DeliverNext, TypeOK, BulkRec
  <2>2. DeliverTo(Head(bulk.tokens)) /\ UNCHANGED <<stack, active, parkedFrames, mainWaits, pc>>
    BY <1>2 DEF DeliverNext, countVars
  <2>. QED  BY <2>1, <2>2, DeliveryFills DEF Quietly
<1>3. ASSUME NEW h \in Threads, HostCloses(h)
      PROVE  Quietly
  <2>1. UNCHANGED <<stack, waiters, freeWaiters, active, parkedFrames, mainWaits>>
    BY <1>3 DEF HostCloses, waiterVars
  <2>2. pc[h] = "run" /\ pc'[h] = "done" /\ \A u \in Threads : u # h => pc'[u] = pc[u]
    BY <1>3, GotoEffect DEF HostCloses, Runs
  <2>. QED  BY <2>1, <2>2, QuietStill
<1>. QED  BY <1>1, <1>2, <1>3, ProgramKinds, RuntimeKinds DEF Next

\* A permit is consumed only by the thread that goes on.
LEMMA PermitsStay ==
    ASSUME TypeOK, FramesAreNested, WaitersExist, [Next]_vars,
           NEW u \in Threads, u \in permit, pc'[u] = "park"
    PROVE  u \in permit'
<1>1. CASE permit \subseteq permit'
  BY <1>1
<1>2. ASSUME NEW t \in Threads, Park(t)
      PROVE  u \in permit'
  <2>1. permit' = permit \ {t} /\ pc'[t] # "park"
    BY <1>2, GotoEffect DEF Park
  <2>. QED  BY <2>1
<1>3. ASSUME NEW b, NEW also, MarkReadyAndWake(b, also)
      PROVE  permit \subseteq permit'
  BY <1>3 DEF MarkReadyAndWake, WakePool
<1>4. ASSUME NEW s, DeliverTo(s)
      PROVE  permit \subseteq permit'
  BY <1>3, <1>4 DEF DeliverTo, DeliverToActor, DeliverToWaiter, DeliverToTask, WakePool
<1>5. ASSUME NEW t \in Threads, NEW a \in Actors, NEW s, Enqueue(t, a, s)
      PROVE  permit \subseteq permit'
  BY <1>3, <1>5 DEF Enqueue
<1>6. ASSUME NEW t \in Threads, NEW sinks, TaskEnds(t, sinks)
      PROVE  permit \subseteq permit'
  BY <1>3, <1>6 DEF TaskEnds, WakeEvery
<1>7. ASSUME NEW t \in Threads, Program(t)
      PROVE  permit \subseteq permit'
  <2>1. CASE \/ \E gated \in BOOLEAN : MintActor(t, gated)
             \/ \E p \in Pools, c \in SUBSET Slots : MintTask(t, p, c)
             \/ MintWaiter(t) \/ Await(t)
             \/ \E s \in Slots : OnIdle(t, s)
             \/ \E p \in Pools : NewPool(t, p)
             \/ \E a \in Actors : NewActor(t, a)
             \/ \E h \in Hosts, c \in SUBSET Slots : HostOpens(t, h, c)
    BY <2>1 DEF MintActor, MintTask, MintWaiter, Await, OnIdle, NewPool, NewActor, HostOpens,
                WakeEvery, threadVars
  <2>2. ASSUME NEW a \in Actors, NEW s \in Slots \cup {0}, Send(t, a, s)
        PROVE  permit \subseteq permit'
    BY <1>5, <2>2 DEF Send
  <2>3. ASSUME NEW s \in Slots, Answer(t, s)
        PROVE  permit \subseteq permit'
    BY <1>4, <2>3 DEF Answer
  <2>4. ASSUME NEW a \in Actors, NEW s \in Slots, Watch(t, a, s)
        PROVE  permit \subseteq permit'
    BY <1>4, <2>4 DEF Watch
  <2>5. CASE ActorFaults(t)
    BY <1>3, <2>5 DEF ActorFaults
  <2>6. CASE TaskFaults(t)
    BY <1>6, <2>6 DEF TaskFaults
  <2>. QED  BY <1>7, <2>1, <2>2, <2>3, <2>4, <2>5, <2>6 DEF Program
<1>8. ASSUME NEW t \in Threads, Runtime(t), ~Park(t)
      PROVE  permit \subseteq permit'
  <2>1. CASE Resend(t)
    <3>1. sending[t].to \in Actors
      BY <2>1 DEF Resend, FramesAreNested, NestedOn
    <3>. QED  BY <1>5, <2>1, <3>1 DEF Resend
  <2>2. CASE \/ ActorReturns(t) \/ NextRetires(t) \/ NextSleeps(t)
             \/ WaitGot(t) \/ WaitIdles(t)
    BY <2>2 DEF ActorReturns, NextRetires, NextSleeps, WaitGot, WaitIdles, WakePool
  <2>3. CASE TaskReturns(t)
    BY <1>6, <2>3 DEF TaskReturns
  <2>4. CASE NextWork(t) \/ WaitWork(t)
    BY <2>4 DEF NextWork, WaitWork, TakeWork, TakeTask, TakeEntry, TakeEntryOf, WakeSender
  <2>. QED  BY <1>8, <2>1, <2>2, <2>3, <2>4 DEF Runtime
<1>9. CASE \/ UNCHANGED vars \/ DeliverNext \/ EndBulk \/ MainReturns \/ Exited
           \/ \E t \in Threads : HostCloses(t)
  BY <1>4, <1>9 DEF vars, DeliverNext, EndBulk, MainReturns, Exited, HostCloses, WakeEvery, threadVars
<1>. QED  BY <1>1, <1>2, <1>7, <1>8, <1>9 DEF Next

(***************************************************************************)
(* What the other steps do to the frames and the records, in one place.    *)
(***************************************************************************)
\* A new record, on the top frame, which had none.
LEMMA MintWaiterEffect ==
    ASSUME TypeOK, FramesAreNested, WaitersExist, OwnRecords, NEW t \in Threads, MintWaiter(t)
    PROVE  \E w \in Wids :
             /\ stack[t] # <<>> /\ Top(t).wid = 0 /\ SetWid(t, w)
             /\ \A u \in Threads : \A i \in DOMAIN stack[u] : stack[u][i].wid # w
             /\ w \notin ToSet(freeWaiters') /\ ToSet(freeWaiters') \subseteq ToSet(freeWaiters)
             /\ \A i, j \in DOMAIN freeWaiters' : freeWaiters'[i] = freeWaiters'[j] => i = j
             /\ waiters'[w].waiting = 0
             /\ \A v \in DOMAIN waiters : v # w => waiters'[v] = waiters[v]
<1>1. PICK w \in Wids, rec \in WaiterRec :
             /\ \/ /\ freeWaiters # <<>> /\ w = Head(freeWaiters) /\ w \in DOMAIN waiters
                   /\ waiters' = [waiters EXCEPT ![w] = rec]
                   /\ freeWaiters' = Tail(freeWaiters)
                \/ /\ freeWaiters = <<>> /\ w = Len(waiters) + 1
                   /\ waiters' = Append(waiters, rec)
                   /\ freeWaiters' = <<>>
             /\ rec = NewWaiter(Serves[t], nextSlot + 1)
             /\ Mint(t, w, Serves[t], {}) /\ SetWid(t, w)
  BY MintWaiterRecord
<1>2. waiters \in Seq(WaiterRec) /\ freeWaiters \in Seq(Wids) /\ rec.waiting = 0 /\ w # 0
  BY <1>1 DEF TypeOK, NewWaiter, Wids
<1>3. stack[t] # <<>> /\ Top(t).wid = 0
  BY RunsHasFrame DEF MintWaiter, Does, Runs
<1>4. CASE freeWaiters # <<>>
  <2>1. /\ w = Head(freeWaiters) /\ w \in DOMAIN waiters /\ freeWaiters' = Tail(freeWaiters)
        /\ waiters' = [waiters EXCEPT ![w] = rec]
    BY <1>1, <1>4
  <2>2. /\ Len(freeWaiters) \in Nat \ {0} /\ DOMAIN freeWaiters = 1 .. Len(freeWaiters)
        /\ w = freeWaiters[1]
        /\ DOMAIN freeWaiters' = 1 .. Len(freeWaiters) - 1
        /\ \A i \in DOMAIN freeWaiters' : freeWaiters'[i] = freeWaiters[i + 1]
    BY <1>2, <1>4, <2>1, EmptySeq, HeadTailProperties, LenProperties
  <2>3. \A i \in DOMAIN freeWaiters' : i + 1 \in DOMAIN freeWaiters /\ i + 1 # 1
    BY <2>2
  <2>4. w \notin ToSet(freeWaiters') /\ ToSet(freeWaiters') \subseteq ToSet(freeWaiters)
    BY <2>2, <2>3 DEF OwnRecords, ToSet
  <2>5. ASSUME NEW i \in DOMAIN freeWaiters', NEW j \in DOMAIN freeWaiters',
               freeWaiters'[i] = freeWaiters'[j]
        PROVE  i = j
    <3>1. i + 1 = j + 1
      BY <2>2, <2>3, <2>5 DEF OwnRecords
    <3>. QED  BY <2>2, <3>1
  <2>6. w \in ToSet(freeWaiters)
    BY <2>2 DEF ToSet
  <2>7. waiters'[w] = rec /\ \A v \in DOMAIN waiters : v # w => waiters'[v] = waiters[v]
    BY <1>2, <2>1, ExceptAnywhere
  <2>. QED  BY <1>1, <1>2, <1>3, <2>4, <2>5, <2>6, <2>7 DEF OwnRecords
<1>5. CASE freeWaiters = <<>>
  <2>1. w = Len(waiters) + 1 /\ waiters' = Append(waiters, rec) /\ freeWaiters' = <<>>
    BY <1>1, <1>5
  <2>2. /\ Len(waiters) \in Nat /\ DOMAIN waiters = 1 .. Len(waiters)
        /\ waiters'[w] = rec /\ \A v \in DOMAIN waiters : waiters'[v] = waiters[v]
    BY <1>2, <2>1, AppendProperties, LenProperties
  <2>3. w \notin DOMAIN waiters
    BY <2>1, <2>2
  <2>4. \A u \in Threads : \A i \in DOMAIN stack[u] : stack[u][i].wid # w
    BY <1>2, <2>3 DEF WaitersExist
  <2>5. DOMAIN freeWaiters' = {} /\ ToSet(freeWaiters') = {}
    BY <2>1 DEF ToSet
  <2>. QED  BY <1>1, <1>2, <1>3, <2>2, <2>4, <2>5
<1>. QED  BY <1>4, <1>5

\* A wait step books the wait of the top frame.
LEMMA BookEffect ==
    ASSUME TypeOK, FramesAreNested, WaitersExist, NEW t \in Threads,
           WaitLooks(t), NEW x, x \in {Booked(t), [Booked(t) EXCEPT ![Top(t).wid].parker = t]}
    PROVE  /\ stack[t] # <<>> /\ Top(t).wid # 0 /\ Top(t).wid \in DOMAIN waiters
           /\ x[Top(t).wid].waiting = Kind(t) /\ Kind(t) > 0
           /\ x[Top(t).wid].filled = waiters[Top(t).wid].filled
           /\ x # Booked(t) => x[Top(t).wid].parker = t
           /\ \A v \in DOMAIN waiters : v # Top(t).wid => x[v] = waiters[v]
<1>. DEFINE w == Top(t).wid
            b == [waiters[w] EXCEPT !.waiting = Kind(t)]
            e == [b EXCEPT !.parker = t]
<1>1. /\ w \in Wids /\ w \in DOMAIN waiters /\ waiters[w] \in WaiterRec
      /\ Booked(t) \in Seq(WaiterRec) /\ DOMAIN Booked(t) = DOMAIN waiters
      /\ Booked(t)[w] = b /\ \A v \in DOMAIN waiters : v # w => Booked(t)[v] = waiters[v]
  BY WaitFrame
<1>2. b.waiting = Kind(t) /\ b.filled = waiters[w].filled /\ Kind(t) > 0
  BY <1>1 DEF WaiterRec, Kind
<1>3. e.waiting = Kind(t) /\ e.filled = waiters[w].filled /\ e.parker = t
  BY <1>1 DEF WaiterRec, Kind
<1>4. w # 0 /\ stack[t] # <<>>
  BY <1>1 DEF Wids, WaitLooks
<1>5. CASE x = Booked(t)
  BY <1>1, <1>2, <1>4, <1>5
<1>6. CASE x = [Booked(t) EXCEPT ![w].parker = t]
  <2>1. b \in WaiterRec
    BY <1>1, LenProperties, ElementOfSeq
  <2>2. e \in WaiterRec
    BY <2>1, WaiterRecWrites DEF WaiterRec
  <2>3. x = [Booked(t) EXCEPT ![w] = e]
    BY <1>1, <1>6
  <2>. HIDE DEF e, b
  <2>4. x[w] = e /\ \A v \in DOMAIN waiters : v # w => x[v] = Booked(t)[v]
    BY <1>1, <2>2, <2>3, ExceptAnywhere
  <2>. QED  BY <1>1, <1>2, <1>3, <1>4, <2>4
<1>. QED  BY <1>5, <1>6

\* A step of thread t which leaves the other threads' frames alone, and writes
\* to no record of theirs: to w only, which is its own or new.
Touches(t, w) ==
    /\ \A u \in Threads : u # t => stack'[u] = stack[u] /\ pc'[u] = pc[u]
    /\ \A v \in DOMAIN waiters : v # w => waiters'[v] = waiters[v]
    /\ \A u \in Threads : u # t => \A i \in DOMAIN stack[u] :
         stack[u][i].wid # 0 => stack[u][i].wid # w

\* The record of a thread's top frame is nobody else's.
LEMMA TopIsOwn ==
    ASSUME TypeOK, OwnRecords, NEW t \in Threads, stack[t] # <<>>, NEW u \in Threads,
           NEW i \in DOMAIN stack[u], stack[u][i].wid # 0, stack[u][i].wid = Top(t).wid
    PROVE  u = t /\ i = Len(stack[t])
<1>1. Len(stack[t]) \in DOMAIN stack[t] /\ Top(t) = stack[t][Len(stack[t])]
  BY TopType
<1>. QED  BY <1>1 DEF OwnRecords

\* The frames of the other threads, and whether they wait, stay as they were.
LEMMA OthersStay ==
    ASSUME TypeOK, WaitersExist, NEW t \in Threads, NEW w, Touches(t, w),
           NEW u \in Threads, u # t
    PROVE  /\ stack'[u] = stack[u] /\ pc'[u] = pc[u]
           /\ \A i \in DOMAIN stack[u] :
                /\ stack[u][i].wid # 0 => waiters'[stack[u][i].wid] = waiters[stack[u][i].wid]
                /\ Waiting(u, i)' <=> Waiting(u, i)
<1>1. stack'[u] = stack[u] /\ pc'[u] = pc[u]
  BY DEF Touches
<1>2. \A i \in DOMAIN stack[u] :
        stack[u][i].wid # 0 => waiters'[stack[u][i].wid] = waiters[stack[u][i].wid]
  BY DEF Touches, WaitersExist
<1>. QED  BY <1>1, <1>2 DEF Waiting

\* The step that mints a wait touches its new record only.
LEMMA MintTouches ==
    ASSUME TypeOK, FramesAreNested, WaitersExist, OwnRecords, NEW t \in Threads, MintWaiter(t),
           NEW w \in Wids, stack[t] # <<>>, SetWid(t, w),
           \A u \in Threads : \A i \in DOMAIN stack[u] : stack[u][i].wid # w,
           \A v \in DOMAIN waiters : v # w => waiters'[v] = waiters[v]
    PROVE  Touches(t, w)
<1>1. \A u \in Threads : u # t => stack'[u] = stack[u]
  BY SetWidEffect
<1>2. UNCHANGED pc
  BY DEF MintWaiter
<1>. QED  BY <1>1, <1>2 DEF Touches

\* The end of an activation or a task touches no record.
LEMMA EndTouches ==
    ASSUME TypeOK, FramesAreNested, NEW t \in Threads, TopEnds(t)
    PROVE  /\ Touches(t, 0) /\ UNCHANGED <<waiters, freeWaiters>>
           /\ stack[t] # <<>> /\ pc[t] = "run" /\ pc'[t] = "look" /\ Pop(t)
<1>1. /\ stack[t] # <<>> /\ pc[t] = "run" /\ Pop(t) /\ Goto(t, "look")
      /\ UNCHANGED <<waiters, freeWaiters>>
  BY RunsHasFrame DEF TopEnds, Ends, Runs, waiterVars
<1>2. \A u \in Threads : u # t => stack'[u] = stack[u]
  BY <1>1, PopEffect
<1>. QED  BY <1>1, <1>2, GotoEffect DEF Touches

\* Work taken by a thread with no frame, and a host thread's birth, touch none.
LEMMA PushTouches ==
    ASSUME TypeOK, NEW t \in Threads, NEW o \in Owners, Push(t, o), Goto(t, "run"),
           UNCHANGED waiters
    PROVE  Touches(t, 0) /\ pc'[t] = "run"
BY PushEffect, GotoEffect DEF Touches

\* A step of a wait touches the record of the top frame.
LEMMA WaitTouches ==
    ASSUME TypeOK, FramesAreNested, WaitersExist, OwnRecords, NEW t \in Threads, WaitLooks(t),
           \A u \in Threads : u # t => stack'[u] = stack[u] /\ pc'[u] = pc[u],
           NEW x, waiters' = x, \A v \in DOMAIN waiters : v # Top(t).wid => x[v] = waiters[v]
    PROVE  Touches(t, Top(t).wid)
<1>1. stack[t] # <<>>
  BY DEF WaitLooks
<1>2. \A u \in Threads : u # t => \A i \in DOMAIN stack[u] :
        stack[u][i].wid # 0 => stack[u][i].wid # Top(t).wid
  BY <1>1, TopIsOwn
<1>. QED  BY <1>2 DEF Touches

\* The wait that works meanwhile.
LEMMA WorkTouches ==
    ASSUME TypeOK, FramesAreNested, WaitersExist, OwnRecords, NEW t \in Threads, WaitWork(t)
    PROVE  /\ Touches(t, Top(t).wid) /\ UNCHANGED freeWaiters /\ pc'[t] = "run"
           /\ waiters' = Booked(t) /\ WaitLooks(t)
<1>1. WaitLooks(t) /\ waiters' = Booked(t) /\ UNCHANGED freeWaiters /\ Goto(t, "run")
  BY DEF WaitWork, TakeWork
<1>2. PICK o \in Owners : Push(t, o)
  BY TakenOwner DEF WaitWork
<1>3. pc'[t] = "run" /\ \A u \in Threads : u # t => stack'[u] = stack[u] /\ pc'[u] = pc[u]
  BY <1>1, <1>2, PushEffect, GotoEffect
<1>4. \A v \in DOMAIN waiters : v # Top(t).wid => Booked(t)[v] = waiters[v]
  BY <1>1, BookEffect
<1>. QED  BY <1>1, <1>3, <1>4, WaitTouches

\* The wait that finds nothing to do.
LEMMA IdlesTouches ==
    ASSUME TypeOK, FramesAreNested, WaitersExist, OwnRecords, NEW t \in Threads, WaitIdles(t)
    PROVE  /\ Touches(t, Top(t).wid) /\ UNCHANGED <<freeWaiters, stack>> /\ WaitLooks(t)
           /\ waiters' \in {Booked(t), [Booked(t) EXCEPT ![Top(t).wid].parker = t]}
           /\ Unanswered(t)
           /\ pc'[t] = "look" \/ waiters' = [Booked(t) EXCEPT ![Top(t).wid].parker = t]
           /\ pc'[t] \in {"look", "park"}
<1>1. WaitLooks(t) /\ UNCHANGED <<freeWaiters, stack>> /\ Unanswered(t) /\ pc[t] = "look"
  BY DEF WaitIdles, WaitLooks, Looks
<1>2. /\ waiters' \in {Booked(t), [Booked(t) EXCEPT ![Top(t).wid].parker = t]}
      /\ pc' = pc \/ (pc' = [pc EXCEPT ![t] = "park"]
                      /\ waiters' = [Booked(t) EXCEPT ![Top(t).wid].parker = t])
  BY WaitIdlesCases
<1>3. /\ \A u \in Threads : u # t => pc'[u] = pc[u]
      /\ pc'[t] = "look" \/ (pc'[t] = "park"
                             /\ waiters' = [Booked(t) EXCEPT ![Top(t).wid].parker = t])
  BY <1>1, <1>2 DEF TypeOK
<1>4. \A v \in DOMAIN waiters : v # Top(t).wid => waiters'[v] = waiters[v]
  BY <1>1, <1>2, BookEffect
<1>5. Touches(t, Top(t).wid)
  BY <1>1, <1>3, <1>4, WaitTouches
<1>. QED  BY <1>1, <1>2, <1>3, <1>5

\* The wait that has its answer.
LEMMA GotTouches ==
    ASSUME TypeOK, FramesAreNested, WaitersExist, OwnRecords, NEW t \in Threads, WaitGot(t)
    PROVE  /\ Touches(t, Top(t).wid) /\ WaitLooks(t) /\ pc'[t] = "run"
           /\ stack[t] # <<>> /\ Top(t).wid \in DOMAIN waiters /\ Top(t).wid \in Wids
           /\ freeWaiters' = Append(freeWaiters, Top(t).wid) /\ SetWid(t, 0)
<1>1. /\ WaitLooks(t) /\ stack[t] # <<>> /\ SetWid(t, 0) /\ Goto(t, "run")
      /\ freeWaiters' = Append(freeWaiters, Top(t).wid)
  BY DEF WaitGot, WaitLooks
<1>2. Top(t).wid \in DOMAIN waiters /\ Top(t).wid \in Wids
  BY <1>1, WaitFrame
<1>3. 0 \in Wids \cup {0}
  OBVIOUS
<1>4. pc'[t] = "run" /\ \A u \in Threads : u # t => stack'[u] = stack[u] /\ pc'[u] = pc[u]
  BY <1>1, <1>3, SetWidEffect, GotoEffect
<1>5. \A v \in DOMAIN waiters : v # Top(t).wid => waiters'[v] = waiters[v]
  BY DEF WaitGot
<1>. QED  BY <1>1, <1>2, <1>4, <1>5, WaitTouches

(***************************************************************************)
(* A record has one owner.                                                 *)
(***************************************************************************)
\* A step that gives no frame a record, and frees none.
LEMMA OwnKept ==
    ASSUME OwnRecords, UNCHANGED freeWaiters,
           \A u \in Threads : \A i \in DOMAIN stack'[u] :
             \/ stack'[u][i].wid = 0
             \/ i \in DOMAIN stack[u] /\ stack'[u][i].wid = stack[u][i].wid
    PROVE  OwnRecords'
BY DEF OwnRecords

\* A frame pushed has no record yet.
LEMMA OwnPush ==
    ASSUME TypeOK, OwnRecords, NEW t \in Threads, NEW o \in Owners, Push(t, o),
           UNCHANGED freeWaiters
    PROVE  OwnRecords'
<1>1. /\ \A u \in Threads : u # t => stack'[u] = stack[u]
      /\ \A i \in DOMAIN stack'[t] : i \in DOMAIN stack[t] \/ i = Len(stack[t]) + 1
      /\ \A i \in DOMAIN stack[t] : stack'[t][i] = stack[t][i]
      /\ stack'[t][Len(stack[t]) + 1] = Running(o)
  <2>1. Len(stack[t]) \in Nat
    BY LenProperties DEF TypeOK
  <2>. QED  BY <2>1, PushEffect
<1>2. Running(o).wid = 0
  BY DEF Running
<1>. QED  BY <1>1, <1>2, OwnKept

\* No step gives two frames one record, or a frame a free one.
LEMMA OwnStep ==
    ASSUME TypeOK, FramesAreNested, WaitersExist, OwnRecords, [Next]_vars
    PROVE  OwnRecords'
<1>1. CASE Quietly
  BY <1>1, OwnKept DEF Quietly
<1>2. ASSUME NEW t \in Threads, MintWaiter(t)
      PROVE  OwnRecords'
  <2>1. PICK w \in Wids :
             /\ stack[t] # <<>> /\ Top(t).wid = 0 /\ SetWid(t, w)
             /\ \A u \in Threads : \A i \in DOMAIN stack[u] : stack[u][i].wid # w
             /\ w \notin ToSet(freeWaiters') /\ ToSet(freeWaiters') \subseteq ToSet(freeWaiters)
             /\ \A i, j \in DOMAIN freeWaiters' : freeWaiters'[i] = freeWaiters'[j] => i = j
    BY <1>2, MintWaiterEffect
  <2>2. /\ \A u \in Threads : u # t => stack'[u] = stack[u]
        /\ DOMAIN stack'[t] = DOMAIN stack[t]
        /\ \A i \in DOMAIN stack[t] : i # Len(stack[t]) => stack'[t][i] = stack[t][i]
        /\ stack'[t][Len(stack[t])].wid = w
    <3>1. stack'[t][Len(stack[t])] = [who |-> Me(t), wid |-> w]
      BY <2>1, SetWidEffect
    <3>2. /\ \A u \in Threads : u # t => stack'[u] = stack[u]
          /\ DOMAIN stack'[t] = DOMAIN stack[t]
          /\ \A i \in DOMAIN stack[t] : i # Len(stack[t]) => stack'[t][i] = stack[t][i]
      BY <2>1, SetWidEffect
    <3>. QED  BY <3>1, <3>2
  <2>3. \A u \in Threads : \A i \in DOMAIN stack'[u] :
          \/ u = t /\ i = Len(stack[t]) /\ stack'[u][i].wid = w
          \/ i \in DOMAIN stack[u] /\ stack'[u][i].wid = stack[u][i].wid /\ stack'[u][i].wid # w
    BY <2>1, <2>2
  <2>4. \A u, v \in Threads : \A i \in DOMAIN stack'[u], j \in DOMAIN stack'[v] :
          stack'[u][i].wid # 0 /\ stack'[u][i].wid = stack'[v][j].wid => u = v /\ i = j
    BY <2>3 DEF OwnRecords
  <2>5. \A u \in Threads : \A i \in DOMAIN stack'[u] :
          stack'[u][i].wid # 0 => stack'[u][i].wid \notin ToSet(freeWaiters')
    BY <2>1, <2>3 DEF OwnRecords
  <2>. QED  BY <2>1, <2>4, <2>5 DEF OwnRecords
<1>3. ASSUME NEW t \in Threads, TopEnds(t)
      PROVE  OwnRecords'
  <2>1. stack[t] # <<>> /\ Pop(t) /\ UNCHANGED freeWaiters
    BY <1>3, EndTouches
  <2>2. /\ \A u \in Threads : u # t => stack'[u] = stack[u]
        /\ \A i \in DOMAIN stack'[t] : i \in DOMAIN stack[t] /\ stack'[t][i] = stack[t][i]
    BY <2>1, PopEffect
  <2>. QED  BY <2>1, <2>2, OwnKept
<1>4. ASSUME NEW t \in Threads, NextWork(t) \/ WaitWork(t)
      PROVE  OwnRecords'
  <2>1. UNCHANGED freeWaiters
    BY <1>4 DEF NextWork, WaitWork, TakeWork
  <2>2. PICK o \in Owners : Push(t, o)
    BY <1>4, TakenOwner DEF NextWork, WaitWork
  <2>. QED  BY <2>1, <2>2, OwnPush
<1>5. ASSUME NEW h \in Hosts, NEW t \in Threads, NEW c \in SUBSET Slots, HostOpens(t, h, c)
      PROVE  OwnRecords'
  <2>1. h \in Threads /\ h \in Owners
    BY DEF Threads, Owners
  <2>. QED  BY <1>5, <2>1, OwnPush DEF HostOpens, waiterVars
<1>6. ASSUME NEW t \in Threads, WaitIdles(t)
      PROVE  OwnRecords'
  BY <1>6, IdlesTouches, OwnKept
<1>7. ASSUME NEW t \in Threads, WaitGot(t)
      PROVE  OwnRecords'
  <2>. DEFINE w == Top(t).wid
  <2>1. /\ stack[t] # <<>> /\ w \in DOMAIN waiters /\ w \in Wids
        /\ freeWaiters' = Append(freeWaiters, w) /\ SetWid(t, 0)
    BY <1>7, GotTouches
  <2>2. 0 \in Wids \cup {0} /\ w # 0
    BY <2>1 DEF Wids
  <2>3. /\ \A u \in Threads : u # t => stack'[u] = stack[u]
        /\ DOMAIN stack'[t] = DOMAIN stack[t]
        /\ \A i \in DOMAIN stack[t] : i # Len(stack[t]) => stack'[t][i] = stack[t][i]
        /\ stack'[t][Len(stack[t])].wid = 0
    <3>1. stack'[t][Len(stack[t])] = [who |-> Me(t), wid |-> 0]
      BY <2>1, <2>2, SetWidEffect
    <3>2. /\ \A u \in Threads : u # t => stack'[u] = stack[u]
          /\ DOMAIN stack'[t] = DOMAIN stack[t]
          /\ \A i \in DOMAIN stack[t] : i # Len(stack[t]) => stack'[t][i] = stack[t][i]
      BY <2>1, <2>2, SetWidEffect
    <3>. QED  BY <3>1, <3>2
  <2>4. Len(stack[t]) \in DOMAIN stack[t] /\ Top(t) = stack[t][Len(stack[t])]
    BY <2>1, TopType
  <2>5. \A u \in Threads : \A i \in DOMAIN stack'[u] :
          \/ stack'[u][i].wid = 0
          \/ /\ i \in DOMAIN stack[u] /\ stack'[u][i].wid = stack[u][i].wid
             /\ stack'[u][i].wid # w
    <3>1. SUFFICES ASSUME NEW u \in Threads, NEW i \in DOMAIN stack'[u], stack'[u][i].wid # 0
                   PROVE  /\ i \in DOMAIN stack[u] /\ stack'[u][i].wid = stack[u][i].wid
                          /\ stack'[u][i].wid # w
      OBVIOUS
    <3>2. /\ i \in DOMAIN stack[u] /\ stack'[u][i] = stack[u][i] /\ ~(u = t /\ i = Len(stack[t]))
      BY <2>3, <3>1
    <3>. QED  BY <2>1, <3>1, <3>2, TopIsOwn
  <2>6. w \notin ToSet(freeWaiters)
    BY <2>2, <2>4 DEF OwnRecords
  <2>7. freeWaiters \in Seq(Wids)
    BY DEF TypeOK
  <2>. HIDE DEF w
  <2>8. ToSet(freeWaiters') = ToSet(freeWaiters) \cup {w}
    BY <2>1, <2>7, ToSetAppend
  <2>9. \A i, j \in DOMAIN freeWaiters' : freeWaiters'[i] = freeWaiters'[j] => i = j
    <3>1. /\ Len(freeWaiters) \in Nat /\ DOMAIN freeWaiters = 1 .. Len(freeWaiters)
          /\ DOMAIN freeWaiters' = 1 .. Len(freeWaiters) + 1
          /\ \A i \in 1 .. Len(freeWaiters) : freeWaiters'[i] = freeWaiters[i]
          /\ freeWaiters'[Len(freeWaiters) + 1] = w
      BY <2>1, <2>7, AppendProperties, LenProperties
    <3>2. \A i \in DOMAIN freeWaiters : freeWaiters[i] # w
      BY <2>6 DEF ToSet
    <3>3. \A i \in DOMAIN freeWaiters' :
            \/ i \in DOMAIN freeWaiters /\ freeWaiters'[i] = freeWaiters[i]
            \/ i = Len(freeWaiters) + 1 /\ freeWaiters'[i] = w
      BY <3>1
    <3>. QED  BY <3>2, <3>3 DEF OwnRecords
  <2>10. \A u, v \in Threads : \A i \in DOMAIN stack'[u], j \in DOMAIN stack'[v] :
          stack'[u][i].wid # 0 /\ stack'[u][i].wid = stack'[v][j].wid => u = v /\ i = j
    BY <2>5 DEF OwnRecords
  <2>11. \A u \in Threads : \A i \in DOMAIN stack'[u] :
          stack'[u][i].wid # 0 => stack'[u][i].wid \notin ToSet(freeWaiters')
    BY <2>5, <2>8 DEF OwnRecords
  <2>. QED  BY <2>9, <2>10, <2>11 DEF OwnRecords
<1>. QED  BY <1>1, <1>2, <1>3, <1>4, <1>5, <1>6, <1>7, StepKinds

(***************************************************************************)
(* The answer to a sleeping frame finds its thread.                        *)
(***************************************************************************)
\* A frame that sleeps in a wait has a record.
LEMMA SleeperHasRecord ==
    ASSUME TypeOK, FramesAreNested, WaitersExist, NEW u \in Threads, stack[u] # <<>>,
           pc[u] \in {"look", "park"}
    PROVE  /\ Len(stack[u]) \in DOMAIN stack[u] /\ Top(u) = stack[u][Len(stack[u])]
           /\ Top(u).wid # 0 /\ Top(u).wid \in DOMAIN waiters
<1>1. Len(stack[u]) \in DOMAIN stack[u] /\ Top(u) = stack[u][Len(stack[u])]
  BY TopType
<1>2. Top(u).wid # 0
  BY DEF FramesAreNested, NestedOn
<1>. QED  BY <1>1, <1>2 DEF WaitersExist

\* A step of t that leaves t awake, or asleep in a wait it has booked.
LEMMA WokenTouches ==
    ASSUME TypeOK, FramesAreNested, WaitersExist, WaitersAreWoken, [Next]_vars,
           NEW t \in Threads, NEW w, Touches(t, w),
           pc'[t] = "park" => /\ UNCHANGED stack /\ ~waiters'[Top(t).wid].filled
                              /\ waiters'[Top(t).wid].parker = t
    PROVE  WaitersAreWoken'
<1>1. SUFFICES ASSUME NEW u \in Threads, pc'[u] = "park", stack'[u] # <<>>, u \notin permit'
               PROVE  Unanswered(u)' /\ waiters'[Last(stack'[u]).wid].parker = u
  BY DEF WaitersAreWoken, Top
<1>2. CASE u = t
  BY <1>1, <1>2 DEF Unanswered, Top
<1>3. CASE u # t
  <2>1. /\ stack'[u] = stack[u] /\ pc'[u] = pc[u]
        /\ \A i \in DOMAIN stack[u] :
             stack[u][i].wid # 0 => waiters'[stack[u][i].wid] = waiters[stack[u][i].wid]
    BY <1>3, OthersStay
  <2>2. u \notin permit
    BY <1>1, PermitsStay
  <2>3. waiters'[Top(u).wid] = waiters[Top(u).wid] /\ Top(u) = Last(stack'[u])
    BY <1>1, <2>1, SleeperHasRecord DEF Top
  <2>4. ~waiters[Top(u).wid].filled /\ waiters[Top(u).wid].parker = u
    BY <1>1, <2>1, <2>2 DEF WaitersAreWoken, Unanswered
  <2>. QED  BY <2>3, <2>4 DEF Unanswered, Top
<1>. QED  BY <1>2, <1>3

\* No step leaves a sleeping frame answered, or the answer not knowing whom to
\* wake.
LEMMA WokenStep ==
    ASSUME TypeOK, FramesAreNested, WaitersExist, OwnRecords, WaitersAreWoken, [Next]_vars
    PROVE  WaitersAreWoken'
<1>1. CASE Quietly
  <2>1. SUFFICES ASSUME NEW u \in Threads, pc'[u] = "park", stack'[u] # <<>>, u \notin permit'
                 PROVE  Unanswered(u)' /\ waiters'[Last(stack'[u]).wid].parker = u
    BY DEF WaitersAreWoken, Top
  <2>2. pc[u] = "park" /\ stack'[u] = stack[u] /\ u \notin permit
    BY <1>1, <2>1, PermitsStay DEF Quietly
  <2>3. Top(u) = Last(stack'[u]) /\ Top(u).wid \in DOMAIN waiters
    BY <2>1, <2>2, SleeperHasRecord DEF Top
  <2>4. ~waiters[Top(u).wid].filled /\ waiters[Top(u).wid].parker = u
    BY <2>1, <2>2 DEF WaitersAreWoken, Unanswered
  <2>5. u # Nobody
    BY NamesAreDistinct
  <2>6. waiters'[Top(u).wid].filled = waiters[Top(u).wid].filled
        /\ waiters'[Top(u).wid].parker = u
    BY <1>1, <2>1, <2>3, <2>4, <2>5 DEF Quietly
  <2>. QED  BY <2>3, <2>4, <2>6 DEF Unanswered, Top
<1>2. ASSUME NEW t \in Threads, MintWaiter(t)
      PROVE  WaitersAreWoken'
  <2>1. PICK w \in Wids :
             /\ stack[t] # <<>> /\ SetWid(t, w)
             /\ \A u \in Threads : \A i \in DOMAIN stack[u] : stack[u][i].wid # w
             /\ \A v \in DOMAIN waiters : v # w => waiters'[v] = waiters[v]
    BY <1>2, MintWaiterEffect
  <2>2. pc'[t] = "run"
    BY <1>2 DEF MintWaiter, Does, Runs
  <2>. QED  BY <1>2, <2>1, <2>2, MintTouches, WokenTouches
<1>3. ASSUME NEW t \in Threads, TopEnds(t)
      PROVE  WaitersAreWoken'
  BY <1>3, EndTouches, WokenTouches
<1>4. ASSUME NEW t \in Threads, NextWork(t)
      PROVE  WaitersAreWoken'
  <2>1. PICK o \in Owners : Push(t, o)
    BY <1>4, TakenOwner DEF NextWork
  <2>2. Goto(t, "run") /\ UNCHANGED waiters
    BY <1>4 DEF NextWork, TakeWork
  <2>. QED  BY <2>1, <2>2, PushTouches, WokenTouches
<1>5. ASSUME NEW t \in Threads, WaitWork(t)
      PROVE  WaitersAreWoken'
  BY <1>5, WorkTouches, WokenTouches
<1>6. ASSUME NEW h \in Hosts, NEW t \in Threads, NEW c \in SUBSET Slots, HostOpens(t, h, c)
      PROVE  WaitersAreWoken'
  <2>1. h \in Threads /\ h \in Owners
    BY DEF Threads, Owners
  <2>2. Push(h, h) /\ Goto(h, "run") /\ UNCHANGED waiters
    BY <1>6 DEF HostOpens, waiterVars
  <2>. QED  BY <2>1, <2>2, PushTouches, WokenTouches
<1>7. ASSUME NEW t \in Threads, WaitIdles(t)
      PROVE  WaitersAreWoken'
  <2>1. /\ Touches(t, Top(t).wid) /\ UNCHANGED <<freeWaiters, stack>> /\ WaitLooks(t)
        /\ waiters' \in {Booked(t), [Booked(t) EXCEPT ![Top(t).wid].parker = t]}
        /\ Unanswered(t)
        /\ pc'[t] = "look" \/ waiters' = [Booked(t) EXCEPT ![Top(t).wid].parker = t]
    BY <1>7, IdlesTouches
  <2>2. waiters'[Top(t).wid].filled = waiters[Top(t).wid].filled
    BY <2>1, BookEffect
  <2>3. ASSUME waiters' = [Booked(t) EXCEPT ![Top(t).wid].parker = t]
        PROVE  waiters'[Top(t).wid].parker = t
    <3>1. Booked(t) \in Seq(WaiterRec) /\ Top(t).wid \in DOMAIN Booked(t)
      BY <2>1, WaitFrame
    <3>2. Booked(t)[Top(t).wid] \in WaiterRec
      BY <3>1, LenProperties, ElementOfSeq
    <3>. QED  BY <2>3, <3>1, <3>2 DEF WaiterRec
  <2>. QED  BY <2>1, <2>2, <2>3, WokenTouches DEF Unanswered
<1>8. ASSUME NEW t \in Threads, WaitGot(t)
      PROVE  WaitersAreWoken'
  BY <1>8, GotTouches, WokenTouches
<1>. QED  BY <1>1, <1>2, <1>3, <1>4, <1>5, <1>6, <1>7, <1>8, StepKinds

(***************************************************************************)
(* Nobody waits before its wait begins.                                    *)
(***************************************************************************)
\* A step of t which leaves its top frame out of a wait, or t looking for work.
LEMMA RunnersTouch ==
    ASSUME TypeOK, WaitersExist, RunnersDoNotWait, NEW t \in Threads, NEW w, Touches(t, w),
           \/ pc'[t] \in {"look", "park"}
           \/ stack'[t][Len(stack'[t])].wid = 0
           \/ waiters'[stack'[t][Len(stack'[t])].wid].waiting = 0
    PROVE  RunnersDoNotWait'
<1>1. SUFFICES ASSUME NEW u \in Threads, stack'[u] # <<>>,
                      stack'[u][Len(stack'[u])].wid # 0,
                      waiters'[stack'[u][Len(stack'[u])].wid].waiting > 0
               PROVE  pc'[u] \in {"look", "park"}
  BY DEF RunnersDoNotWait, Waiting
<1>2. CASE u = t
  BY <1>1, <1>2
<1>3. CASE u # t
  <2>1. /\ stack'[u] = stack[u] /\ pc'[u] = pc[u]
        /\ \A i \in DOMAIN stack[u] :
             stack[u][i].wid # 0 => waiters'[stack[u][i].wid] = waiters[stack[u][i].wid]
    BY <1>3, OthersStay
  <2>2. Len(stack[u]) \in DOMAIN stack[u]
    BY <1>1, <2>1, TopType
  <2>3. Waiting(u, Len(stack[u]))
    BY <1>1, <2>1, <2>2 DEF Waiting
  <2>. QED  BY <1>1, <2>1, <2>3 DEF RunnersDoNotWait
<1>. QED  BY <1>2, <1>3

\* A quiet step begins and ends no wait.
LEMMA QuietWaits ==
    ASSUME WaitersExist, Quietly
    PROVE  \A u \in Threads : \A i \in DOMAIN stack[u] : Waiting(u, i)' <=> Waiting(u, i)
BY DEF Quietly, Waiting, WaitersExist

\* What a push, a pop and a change of record leave on the stack of t, and
\* whether it waits.
LEMMA PushLast ==
    ASSUME TypeOK, NEW t \in Threads, NEW o \in Owners, Push(t, o)
    PROVE  stack'[t][Len(stack'[t])].wid = 0
<1>1. stack'[t][Len(stack[t]) + 1] = Running(o) /\ Len(stack'[t]) = Len(stack[t]) + 1
  BY PushEffect
<1>. QED  BY <1>1 DEF Running

\* No step runs code over a wait that has begun.
LEMMA RunnersStep ==
    ASSUME TypeOK, FramesAreNested, WaitersExist, OwnRecords, RunnersDoNotWait, [Next]_vars
    PROVE  RunnersDoNotWait'
<1>1. CASE Quietly
  <2>1. SUFFICES ASSUME NEW u \in Threads, stack'[u] # <<>>, Waiting(u, Len(stack[u]))'
                 PROVE  pc'[u] \in {"look", "park"}
    BY <1>1 DEF RunnersDoNotWait, Quietly
  <2>2. stack'[u] = stack[u] /\ stack[u] # <<>> /\ Len(stack[u]) \in DOMAIN stack[u]
    BY <1>1, <2>1, TopType DEF Quietly
  <2>3. waiters'[stack[u][Len(stack[u])].wid].waiting > 0 /\ stack[u][Len(stack[u])].wid # 0
    BY <1>1, <2>1 DEF Quietly, Waiting
  <2>4. Waiting(u, Len(stack[u]))
    BY <1>1, <2>2, <2>3 DEF Quietly, Waiting, WaitersExist
  <2>. QED  BY <1>1, <2>2, <2>4 DEF RunnersDoNotWait, Quietly
<1>2. ASSUME NEW t \in Threads, MintWaiter(t)
      PROVE  RunnersDoNotWait'
  <2>1. PICK w \in Wids :
             /\ stack[t] # <<>> /\ SetWid(t, w)
             /\ \A u \in Threads : \A i \in DOMAIN stack[u] : stack[u][i].wid # w
             /\ waiters'[w].waiting = 0
             /\ \A v \in DOMAIN waiters : v # w => waiters'[v] = waiters[v]
    BY <1>2, MintWaiterEffect
  <2>2. /\ Len(stack'[t]) = Len(stack[t])
        /\ stack'[t][Len(stack[t])] = [who |-> Me(t), wid |-> w]
    BY <2>1, SetWidEffect
  <2>3. Touches(t, w)
    BY <1>2, <2>1, MintTouches
  <2>. QED  BY <2>1, <2>2, <2>3, RunnersTouch
<1>3. ASSUME NEW t \in Threads, TopEnds(t)
      PROVE  RunnersDoNotWait'
  BY <1>3, EndTouches, RunnersTouch
<1>4. ASSUME NEW t \in Threads, NextWork(t)
      PROVE  RunnersDoNotWait'
  <2>1. PICK o \in Owners : Push(t, o)
    BY <1>4, TakenOwner DEF NextWork
  <2>2. Goto(t, "run") /\ UNCHANGED waiters
    BY <1>4 DEF NextWork, TakeWork
  <2>. QED  BY <2>1, <2>2, PushTouches, PushLast, RunnersTouch
<1>5. ASSUME NEW t \in Threads, WaitWork(t)
      PROVE  RunnersDoNotWait'
  <2>1. PICK o \in Owners : Push(t, o)
    BY <1>5, TakenOwner DEF WaitWork
  <2>. QED  BY <1>5, <2>1, WorkTouches, PushLast, RunnersTouch
<1>6. ASSUME NEW h \in Hosts, NEW t \in Threads, NEW c \in SUBSET Slots, HostOpens(t, h, c)
      PROVE  RunnersDoNotWait'
  <2>1. h \in Threads /\ h \in Owners
    BY DEF Threads, Owners
  <2>2. Push(h, h) /\ Goto(h, "run") /\ UNCHANGED waiters
    BY <1>6 DEF HostOpens, waiterVars
  <2>. QED  BY <2>1, <2>2, PushTouches, PushLast, RunnersTouch
<1>7. ASSUME NEW t \in Threads, WaitIdles(t)
      PROVE  RunnersDoNotWait'
  BY <1>7, IdlesTouches, RunnersTouch
<1>8. ASSUME NEW t \in Threads, WaitGot(t)
      PROVE  RunnersDoNotWait'
  <2>1. 0 \in Wids \cup {0} /\ SetWid(t, 0) /\ stack[t] # <<>> /\ Touches(t, Top(t).wid)
    BY <1>8, GotTouches
  <2>2. /\ Len(stack'[t]) = Len(stack[t])
        /\ stack'[t][Len(stack[t])] = [who |-> Me(t), wid |-> 0]
    BY <2>1, SetWidEffect
  <2>. QED  BY <2>1, <2>2, RunnersTouch
<1>. QED  BY <1>1, <1>2, <1>3, <1>4, <1>5, <1>6, <1>7, <1>8, StepKinds

(***************************************************************************)
(* The three counters.                                                     *)
(***************************************************************************)
WaitSet == {f \in Frames : Waits(f)}

\* The frames are the three counters' to count.
BooksInv == /\ Counts(Activations, active)
            /\ Counts(Activations \cap WaitSet, parkedFrames)
            /\ Counts(WaitSet \ Activations, mainWaits)

\* One more, or one fewer.
LEMMA CountsAdd ==
    ASSUME NEW S, NEW n, Counts(S, n), NEW x, x \notin S
    PROVE  Counts(S \cup {x}, n + 1)
BY FS_AddElement, FS_CardinalityType DEF Counts

\* A set loses a member and its count goes down by one.
LEMMA CountsRemove ==
    ASSUME NEW S, NEW n, Counts(S, n), NEW x, x \in S
    PROVE  Counts(S \ {x}, n - 1)
BY FS_RemoveElement, FS_CardinalityType DEF Counts

\* Membership, by thread and depth.
LEMMA ActivationIs ==
    \A f : f \in Activations <=>
        \E u \in Threads : \E i \in DOMAIN stack[u] : f = <<u, i>> /\ stack[u][i].who \notin Threads
BY DEF Activations, Frames, FrameAt

\* The same after a step.
LEMMA ActivationIsThen ==
    \A f : f \in Activations' <=>
        \E u \in Threads : \E i \in DOMAIN stack'[u] :
            f = <<u, i>> /\ stack'[u][i].who \notin Threads
BY DEF Activations, Frames, FrameAt

\* What a member of WaitSet is.
LEMMA WaitIs ==
    \A f : f \in WaitSet <=>
        \E u \in Threads : \E i \in DOMAIN stack[u] : f = <<u, i>> /\ Waiting(u, i)
BY DEF WaitSet, Frames, FrameAt, Waits, Waiting

\* The same after a step.
LEMMA WaitIsThen ==
    \A f : f \in WaitSet' <=>
        \E u \in Threads : \E i \in DOMAIN stack'[u] :
            /\ f = <<u, i>> /\ stack'[u][i].wid # 0
            /\ waiters'[stack'[u][i].wid].waiting > 0
BY DEF WaitSet, Frames, FrameAt, Waits

\* A frame of a stack is a pair of a thread and a depth.
LEMMA FrameIs ==
    ASSUME NEW u \in Threads, NEW i
    PROVE  /\ <<u, i>> \in Activations <=> i \in DOMAIN stack[u] /\ stack[u][i].who \notin Threads
           /\ <<u, i>> \in WaitSet <=> i \in DOMAIN stack[u] /\ Waiting(u, i)
<1>1. \A v, j : <<u, i>> = <<v, j>> => v = u /\ j = i
  OBVIOUS
<1>. QED  BY <1>1, ActivationIs, WaitIs

\* The same after a step.
LEMMA FrameIsThen ==
    ASSUME NEW u \in Threads, NEW i
    PROVE  /\ <<u, i>> \in Activations'
                <=> i \in DOMAIN stack'[u] /\ stack'[u][i].who \notin Threads
           /\ <<u, i>> \in WaitSet' <=> i \in DOMAIN stack'[u] /\ Waiting(u, i)'
<1>1. \A v, j : <<u, i>> = <<v, j>> => v = u /\ j = i
  OBVIOUS
<1>. QED  BY <1>1, ActivationIsThen, WaitIsThen DEF Waiting

\* Two sets of frames are one when they agree on every thread and depth.
LEMMA SameFrames ==
    ASSUME NEW S, NEW T,
           \A f \in S : \E u \in Threads : \E i : f = <<u, i>>,
           \A f \in T : \E u \in Threads : \E i : f = <<u, i>>,
           \A u \in Threads : \A i : <<u, i>> \in S <=> <<u, i>> \in T
    PROVE  S = T
OBVIOUS

\* Activations and waits are pairs of a thread and a depth.
LEMMA ArePairs ==
    /\ \A f \in Activations \cup WaitSet : \E u \in Threads : \E i : f = <<u, i>>
    /\ \A f \in Activations' \cup WaitSet' : \E u \in Threads : \E i : f = <<u, i>>
BY ActivationIs, WaitIs, ActivationIsThen, WaitIsThen

\* A push adds one frame, which does not wait.
LEMMA PushFrames ==
    ASSUME TypeOK, NEW t \in Threads, NEW o \in Owners, Push(t, o)
    PROVE  /\ <<t, Len(stack[t]) + 1>> \notin Activations \cup WaitSet
           /\ Activations' = Activations
                \cup (IF o \in Threads THEN {} ELSE {<<t, Len(stack[t]) + 1>>})
           /\ \A u \in Threads : \A i : <<u, i>> \in WaitSet' <=>
                i \in DOMAIN stack[u] /\ Waiting(u, i)'
<1>. PICK n : n = Len(stack[t])
  OBVIOUS
<1>1. /\ n \in Nat /\ DOMAIN stack[t] = 1 .. n /\ DOMAIN stack'[t] = 1 .. n + 1
      /\ \A u \in Threads : u # t => stack'[u] = stack[u]
      /\ \A i \in DOMAIN stack[t] : stack'[t][i] = stack[t][i]
      /\ stack'[t][n + 1].who = o /\ stack'[t][n + 1].wid = 0
  <2>1. n \in Nat
    BY LenProperties DEF TypeOK
  <2>2. stack'[t][n + 1] = Running(o)
    BY PushEffect
  <2>3. Running(o).who = o /\ Running(o).wid = 0
    BY DEF Running
  <2>. QED  BY <2>1, <2>2, <2>3, PushEffect
<1>2. n + 1 \notin DOMAIN stack[t]
  BY <1>1
<1>3. <<t, n + 1>> \notin Activations \cup WaitSet
  BY <1>2, FrameIs
<1>4. \A u \in Threads : \A i : <<u, i>> \in Activations' <=>
          \/ <<u, i>> \in Activations
          \/ o \notin Threads /\ u = t /\ i = n + 1
  <2>1. SUFFICES ASSUME NEW u \in Threads, NEW i
                 PROVE  <<u, i>> \in Activations' <=>
                            \/ <<u, i>> \in Activations
                            \/ o \notin Threads /\ u = t /\ i = n + 1
    OBVIOUS
  <2>2. CASE u # t
    BY <1>1, <2>2, FrameIs, FrameIsThen
  <2>3. CASE u = t /\ i \in DOMAIN stack[t]
    BY <1>1, <1>2, <2>3, FrameIs, FrameIsThen
  <2>4. CASE u = t /\ i \notin DOMAIN stack[t]
    <3>1. i \in DOMAIN stack'[t] <=> i = n + 1
      BY <1>1, <2>4
    <3>. QED  BY <1>1, <2>4, <3>1, FrameIs, FrameIsThen
  <2>. QED  BY <2>2, <2>3, <2>4
<1>5. Activations' = Activations \cup (IF o \in Threads THEN {} ELSE {<<t, n + 1>>})
  <2>. PICK S : S = Activations \cup (IF o \in Threads THEN {} ELSE {<<t, n + 1>>})
    OBVIOUS
  <2>1. \A f \in S : \E u \in Threads : \E i : f = <<u, i>>
    BY ArePairs
  <2>2. \A u \in Threads : \A i : <<u, i>> \in Activations' <=> <<u, i>> \in S
    BY <1>4
  <2>. QED  BY <2>1, <2>2, ArePairs, SameFrames
<1>6. \A u \in Threads : \A i : <<u, i>> \in WaitSet' <=> i \in DOMAIN stack[u] /\ Waiting(u, i)'
  <2>1. SUFFICES ASSUME NEW u \in Threads, NEW i
                 PROVE  <<u, i>> \in WaitSet' <=> i \in DOMAIN stack[u] /\ Waiting(u, i)'
    OBVIOUS
  <2>2. CASE u # t
    BY <1>1, <2>2, FrameIsThen
  <2>3. CASE u = t /\ i = n + 1
    BY <1>1, <1>2, <2>3, FrameIsThen DEF Waiting
  <2>4. CASE u = t /\ i # n + 1
    <3>1. i \in DOMAIN stack'[t] <=> i \in DOMAIN stack[t]
      BY <1>1, <2>4
    <3>. QED  BY <2>4, <3>1, FrameIsThen
  <2>. QED  BY <2>2, <2>3, <2>4
<1>. QED  BY <1>3, <1>5, <1>6

\* Frames with the same owners, and waits begun or ended in S only.
LEMMA KeptFrames ==
    ASSUME \A u \in Threads : /\ DOMAIN stack'[u] = DOMAIN stack[u]
                              /\ \A i \in DOMAIN stack[u] : stack'[u][i].who = stack[u][i].who
    PROVE  /\ Activations' = Activations
           /\ \A u \in Threads : \A i : <<u, i>> \in WaitSet' <=>
                i \in DOMAIN stack[u] /\ Waiting(u, i)'
<1>1. \A u \in Threads : \A i : <<u, i>> \in Activations' <=> <<u, i>> \in Activations
  BY FrameIs, FrameIsThen
<1>2. \A u \in Threads : \A i : <<u, i>> \in WaitSet' <=> i \in DOMAIN stack[u] /\ Waiting(u, i)'
  BY FrameIsThen
<1>. QED  BY <1>1, <1>2, ArePairs, SameFrames

\* The end of the activation on top, which was not in a wait.
LEMMA PopFrames ==
    ASSUME TypeOK, FramesAreNested, RunnersDoNotWait, NEW t \in Threads, TopEnds(t)
    PROVE  /\ <<t, Len(stack[t])>> \in Activations /\ <<t, Len(stack[t])>> \notin WaitSet
           /\ Activations' = Activations \ {<<t, Len(stack[t])>>}
           /\ WaitSet' = WaitSet
<1>. PICK n : n = Len(stack[t])
  OBVIOUS
<1>1. /\ stack[t] # <<>> /\ pc[t] = "run" /\ UNCHANGED waiters /\ Pop(t)
      /\ Me(t) \notin Threads
  BY EndTouches DEF TopEnds
<1>2. /\ n \in Nat \ {0} /\ DOMAIN stack[t] = 1 .. n /\ DOMAIN stack'[t] = 1 .. n - 1
      /\ \A u \in Threads : u # t => stack'[u] = stack[u]
      /\ \A i \in DOMAIN stack'[t] : stack'[t][i] = stack[t][i]
  BY <1>1, PopEffect
<1>3. stack[t][n].who \notin Threads /\ n \in DOMAIN stack[t]
  BY <1>1, TopType DEF Me
<1>4. ~Waiting(t, n)
  BY <1>1 DEF RunnersDoNotWait
<1>5. <<t, n>> \in Activations /\ <<t, n>> \notin WaitSet
  BY <1>3, <1>4, FrameIs
<1>6. \A u \in Threads : \A i :
        /\ i \in DOMAIN stack'[u] <=> i \in DOMAIN stack[u] /\ ~(u = t /\ i = n)
        /\ i \in DOMAIN stack'[u] => stack'[u][i] = stack[u][i]
  <2>1. SUFFICES ASSUME NEW u \in Threads, NEW i
                 PROVE  /\ i \in DOMAIN stack'[u] <=> i \in DOMAIN stack[u] /\ ~(u = t /\ i = n)
                        /\ i \in DOMAIN stack'[u] => stack'[u][i] = stack[u][i]
    OBVIOUS
  <2>2. i \in 1 .. n - 1 <=> i \in 1 .. n /\ i # n
    BY <1>2
  <2>. QED  BY <1>2, <2>2
<1>7. \A u \in Threads : \A i : i \in DOMAIN stack'[u] => (Waiting(u, i)' <=> Waiting(u, i))
  BY <1>1, <1>6 DEF Waiting
<1>8. \A u \in Threads : \A i :
        <<u, i>> \in Activations' <=> <<u, i>> \in Activations \ {<<t, n>>}
  <2>1. SUFFICES ASSUME NEW u \in Threads, NEW i
                 PROVE  <<u, i>> \in Activations'
                            <=> <<u, i>> \in Activations /\ ~(u = t /\ i = n)
    OBVIOUS
  <2>2. <<u, i>> \in Activations <=> i \in DOMAIN stack[u] /\ stack[u][i].who \notin Threads
    BY FrameIs
  <2>3. <<u, i>> \in Activations' <=> i \in DOMAIN stack'[u] /\ stack'[u][i].who \notin Threads
    BY FrameIsThen
  <2>4. /\ i \in DOMAIN stack'[u] <=> i \in DOMAIN stack[u] /\ ~(u = t /\ i = n)
        /\ i \in DOMAIN stack'[u] => stack'[u][i] = stack[u][i]
    BY <1>6
  <2>. QED  BY <2>2, <2>3, <2>4
<1>9. \A u \in Threads : \A i : <<u, i>> \in WaitSet' <=> <<u, i>> \in WaitSet
  BY <1>4, <1>6, <1>7, FrameIs, FrameIsThen
<1>10. WaitSet' = WaitSet
  <2>1. \A f \in WaitSet : \E u \in Threads : \E i : f = <<u, i>>
    BY ArePairs
  <2>2. \A f \in WaitSet' : \E u \in Threads : \E i : f = <<u, i>>
    BY ArePairs
  <2>. QED  BY <1>9, <2>1, <2>2, SameFrames
<1>11. Activations' = Activations \ {<<t, n>>}
  <2>. PICK S : S = Activations \ {<<t, n>>}
    OBVIOUS
  <2>1. \A f \in S : \E u \in Threads : \E i : f = <<u, i>>
    BY ArePairs
  <2>. QED  BY <1>8, <2>1, ArePairs, SameFrames
<1>. QED  BY <1>5, <1>10, <1>11

\* A set of frames after a step, where only the wait of frame n of t changes.
LEMMA WaitsThen ==
    ASSUME NEW t \in Threads, NEW n, n \in DOMAIN stack[t],
           \A u \in Threads : \A i : <<u, i>> \in WaitSet' <=>
                i \in DOMAIN stack[u] /\ Waiting(u, i)',
           \A u \in Threads : \A i \in DOMAIN stack[u] :
                ~(u = t /\ i = n) => (Waiting(u, i)' <=> Waiting(u, i))
    PROVE  /\ Waiting(t, n)' => WaitSet' = WaitSet \cup {<<t, n>>}
           /\ ~Waiting(t, n)' => WaitSet' = WaitSet \ {<<t, n>>}
<1>1. ASSUME Waiting(t, n)' PROVE WaitSet' = WaitSet \cup {<<t, n>>}
  <2>. PICK S : S = WaitSet \cup {<<t, n>>}
    OBVIOUS
  <2>1. \A f \in S : \E u \in Threads : \E i : f = <<u, i>>
    BY ArePairs
  <2>2. \A u \in Threads : \A i : <<u, i>> \in WaitSet' <=> <<u, i>> \in S
    BY <1>1, FrameIs
  <2>. QED  BY <2>1, <2>2, ArePairs, SameFrames
<1>2. ASSUME ~Waiting(t, n)' PROVE WaitSet' = WaitSet \ {<<t, n>>}
  <2>. PICK S : S = WaitSet \ {<<t, n>>}
    OBVIOUS
  <2>1. \A f \in S : \E u \in Threads : \E i : f = <<u, i>>
    BY ArePairs
  <2>2. \A u \in Threads : \A i : <<u, i>> \in WaitSet' <=> <<u, i>> \in S
    BY <1>2, FrameIs
  <2>. QED  BY <2>1, <2>2, ArePairs, SameFrames
<1>. QED  BY <1>1, <1>2

\* The books once the wait of t's top frame is booked, if it was not.
LEMMA BookedCounts ==
    ASSUME TypeOK, FramesAreNested, WaitersExist, BooksInv, NEW t \in Threads, WaitLooks(t)
    PROVE  LET N == WaitSet \cup {<<t, Len(stack[t])>>}
           IN  /\ Counts(Activations \cap N, ParkedNow(t)) /\ Counts(N \ Activations, MainNow(t))
               /\ <<t, Len(stack[t])>> \in Activations <=> Kind(t) = 1
               /\ Kind(t) \in {1, 2}
<1>. PICK n : n = Len(stack[t])
  OBVIOUS
<1>. PICK f : f = <<t, n>>
  OBVIOUS
<1>1. stack[t] # <<>> /\ Top(t).wid # 0 /\ waiters[Top(t).wid] \in WaiterRec
  BY WaitFrame, SleeperHasRecord DEF WaitLooks, Looks
<1>2. n \in DOMAIN stack[t] /\ Top(t) = stack[t][n]
  BY <1>1, TopType
<1>3. f \in WaitSet <=> ~FirstStep(t)
  <2>1. waiters[Top(t).wid].waiting \in 0 .. 2
    BY <1>1 DEF WaiterRec
  <2>2. Waiting(t, n) <=> ~FirstStep(t)
    BY <1>1, <1>2, <2>1 DEF Waiting, FirstStep
  <2>. QED  BY <1>2, <2>2, FrameIs
<1>4. (f \in Activations <=> Kind(t) = 1) /\ Kind(t) \in {1, 2}
  BY <1>2, FrameIs DEF Kind, Me
<1>5. /\ Counts(Activations \cap WaitSet, parkedFrames) /\ Counts(WaitSet \ Activations, mainWaits)
      /\ parkedFrames \in Int /\ mainWaits \in Int
  BY DEF BooksInv, TypeOK
<1>6. CASE ~FirstStep(t)
  <2>1. WaitSet \cup {f} = WaitSet
    BY <1>3, <1>6
  <2>2. ParkedNow(t) = parkedFrames /\ MainNow(t) = mainWaits
    BY <1>5, <1>6 DEF ParkedNow, MainNow
  <2>. QED  BY <1>4, <1>5, <2>1, <2>2
<1>7. CASE FirstStep(t) /\ Kind(t) = 1
  <2>1. /\ Activations \cap (WaitSet \cup {f}) = (Activations \cap WaitSet) \cup {f}
        /\ (WaitSet \cup {f}) \ Activations = WaitSet \ Activations
        /\ f \notin Activations \cap WaitSet
    BY <1>3, <1>4, <1>7
  <2>2. ParkedNow(t) = parkedFrames + 1 /\ MainNow(t) = mainWaits
    BY <1>5, <1>7 DEF ParkedNow, MainNow
  <2>3. Counts((Activations \cap WaitSet) \cup {f}, parkedFrames + 1)
    BY <1>5, <2>1, CountsAdd
  <2>. QED  BY <1>4, <1>5, <2>1, <2>2, <2>3
<1>8. CASE FirstStep(t) /\ Kind(t) = 2
  <2>1. /\ Activations \cap (WaitSet \cup {f}) = Activations \cap WaitSet
        /\ (WaitSet \cup {f}) \ Activations = (WaitSet \ Activations) \cup {f}
        /\ f \notin WaitSet \ Activations
    BY <1>3, <1>4, <1>8
  <2>2. ParkedNow(t) = parkedFrames /\ MainNow(t) = mainWaits + 1
    BY <1>5, <1>8 DEF ParkedNow, MainNow
  <2>3. Counts((WaitSet \ Activations) \cup {f}, mainWaits + 1)
    BY <1>5, <2>1, CountsAdd
  <2>. QED  BY <1>4, <1>5, <2>1, <2>2, <2>3
<1>. QED  BY <1>4, <1>6, <1>7, <1>8

\* Work begun is the work of an actor or a task, not a thread's own code.
LEMMA TakenWork ==
    ASSUME TypeOK, NEW t \in Threads, NEW own, TakeWork(t, own)
    PROVE  \E o \in Owners : o \notin Threads /\ Push(t, o)
<1>1. CASE TakeTask(t)
  <2>1. tasks[Serves[t]] \in Seq(Slots) /\ tasks[Serves[t]] # <<>>
    BY <1>1, ConstantsAssumption DEF TakeTask, TypeOK, ConstantsAssumption
  <2>2. Head(tasks[Serves[t]]) \in Slots
    BY <2>1, HeadTailProperties
  <2>3. Slots \cap Threads = {}
    BY NamesAreDistinct, ConstantsAssumption DEF Slots, ConstantsAssumption
  <2>. QED  BY <1>1, <2>2, <2>3 DEF TakeTask, Owners
<1>2. CASE TakeEntry(t, own)
  BY <1>2, NamesAreDistinct DEF TakeEntry, TakeEntryOf, Owners
<1>. QED  BY <1>1, <1>2 DEF TakeWork

\* The step that mints a wait begins none.
LEMMA BooksMint ==
    ASSUME TypeOK, FramesAreNested, WaitersExist, OwnRecords, NEW t \in Threads, MintWaiter(t)
    PROVE  Activations' = Activations /\ WaitSet' = WaitSet
<1>. PICK n : n = Len(stack[t])
  OBVIOUS
<1>1. PICK w \in Wids :
             /\ stack[t] # <<>> /\ Top(t).wid = 0 /\ SetWid(t, w)
             /\ \A u \in Threads : \A i \in DOMAIN stack[u] : stack[u][i].wid # w
             /\ waiters'[w].waiting = 0
             /\ \A v \in DOMAIN waiters : v # w => waiters'[v] = waiters[v]
  BY MintWaiterEffect
<1>2. Touches(t, w)
  BY <1>1, MintTouches
<1>3. stack'[t][n] = [who |-> Me(t), wid |-> w]
  BY <1>1, SetWidEffect
<1>4. /\ DOMAIN stack'[t] = DOMAIN stack[t] /\ n \in DOMAIN stack[t]
      /\ \A i \in DOMAIN stack[t] : i # n => stack'[t][i] = stack[t][i]
      /\ Top(t) = stack[t][n] /\ \A u \in Threads : u # t => stack'[u] = stack[u]
  BY <1>1, SetWidEffect, TopType
<1>5. stack'[t][n].who = stack[t][n].who /\ stack'[t][n].wid = w
  BY <1>3, <1>4 DEF Me
<1>6. /\ Activations' = Activations
      /\ \A u \in Threads : \A i : <<u, i>> \in WaitSet' <=>
           i \in DOMAIN stack[u] /\ Waiting(u, i)'
  BY <1>4, <1>5, KeptFrames
<1>7. \A u \in Threads : \A i \in DOMAIN stack[u] :
        ~(u = t /\ i = n) => (Waiting(u, i)' <=> Waiting(u, i))
  <2>1. SUFFICES ASSUME NEW u \in Threads, NEW i \in DOMAIN stack[u], ~(u = t /\ i = n)
                 PROVE  Waiting(u, i)' <=> Waiting(u, i)
    OBVIOUS
  <2>2. stack'[u][i] = stack[u][i]
    BY <1>4, <2>1
  <2>. QED  BY <1>1, <2>2 DEF Waiting, WaitersExist
<1>8. ~Waiting(t, n)'
  BY <1>1, <1>5 DEF Waiting
<1>9. WaitSet' = WaitSet \ {<<t, n>>}
  BY <1>4, <1>6, <1>7, <1>8, WaitsThen
<1>10. <<t, n>> \notin WaitSet
  BY <1>1, <1>4, FrameIs DEF Waiting
<1>. QED  BY <1>6, <1>9, <1>10

\* A step of a wait, which leaves the frames below as they were.
LEMMA BooksWait ==
    ASSUME TypeOK, FramesAreNested, WaitersExist, OwnRecords, NEW t \in Threads, WaitLooks(t),
           Touches(t, Top(t).wid),
           \A i \in DOMAIN stack[t] : i # Len(stack[t]) => stack'[t][i] = stack[t][i]
    PROVE  \A u \in Threads : \A i \in DOMAIN stack[u] :
             ~(u = t /\ i = Len(stack[t])) => (Waiting(u, i)' <=> Waiting(u, i))
<1>1. SUFFICES ASSUME NEW u \in Threads, NEW i \in DOMAIN stack[u],
                      ~(u = t /\ i = Len(stack[t]))
               PROVE  Waiting(u, i)' <=> Waiting(u, i)
  OBVIOUS
<1>2. CASE u # t
  BY <1>2, OthersStay
<1>3. CASE u = t
  <2>1. stack'[t][i] = stack[t][i]
    BY <1>1, <1>3
  <2>2. stack[t] # <<>>
    BY DEF WaitLooks
  <2>3. stack[t][i].wid # 0 => stack[t][i].wid # Top(t).wid
    BY <1>1, <1>3, <2>2, TopIsOwn
  <2>4. stack[t][i].wid # 0 => waiters'[stack[t][i].wid] = waiters[stack[t][i].wid]
    BY <1>3, <2>3 DEF Touches, WaitersExist
  <2>. QED  BY <1>3, <2>1, <2>4 DEF Waiting
<1>. QED  BY <1>2, <1>3

\* No step lets a counter and the stacks disagree.
LEMMA BooksStep ==
    ASSUME TypeOK, FramesAreNested, WaitersExist, OwnRecords, RunnersDoNotWait, BooksInv,
           [Next]_vars
    PROVE  BooksInv'
<1>. /\ active \in Int /\ parkedFrames \in Int /\ mainWaits \in Int
     /\ Counts(Activations, active)
     /\ Counts(Activations \cap WaitSet, parkedFrames)
     /\ Counts(WaitSet \ Activations, mainWaits)
  BY DEF TypeOK, BooksInv
<1>0. ASSUME Activations' = Activations, WaitSet' = WaitSet,
             UNCHANGED <<active, parkedFrames, mainWaits>>
      PROVE  BooksInv'
  BY <1>0 DEF BooksInv, Counts
<1>1. CASE Quietly
  <2>1. UNCHANGED <<stack, active, parkedFrames, mainWaits>>
    BY <1>1 DEF Quietly
  <2>2. /\ Activations' = Activations
        /\ \A u \in Threads : \A i : <<u, i>> \in WaitSet' <=>
             i \in DOMAIN stack[u] /\ Waiting(u, i)'
    BY <2>1, KeptFrames
  <2>3. \A u \in Threads : \A i : <<u, i>> \in WaitSet' <=> <<u, i>> \in WaitSet
    BY <1>1, <2>2, QuietWaits, FrameIs
  <2>4. WaitSet' = WaitSet
    <3>1. \A f \in WaitSet : \E u \in Threads : \E i : f = <<u, i>>
      BY ArePairs
    <3>2. \A f \in WaitSet' : \E u \in Threads : \E i : f = <<u, i>>
      BY ArePairs
    <3>. QED  BY <2>3, <3>1, <3>2, SameFrames
  <2>. QED  BY <1>0, <2>1, <2>2, <2>4
<1>2. ASSUME NEW t \in Threads, MintWaiter(t)
      PROVE  BooksInv'
  <2>1. UNCHANGED <<active, parkedFrames, mainWaits>>
    BY <1>2 DEF MintWaiter, countVars
  <2>. QED  BY <1>0, <1>2, <2>1, BooksMint
<1>3. ASSUME NEW t \in Threads, TopEnds(t)
      PROVE  BooksInv'
  <2>. PICK f : f = <<t, Len(stack[t])>>
    OBVIOUS
  <2>1. /\ f \in Activations /\ f \notin WaitSet
        /\ Activations' = Activations \ {f} /\ WaitSet' = WaitSet
    BY <1>3, PopFrames
  <2>2. active' = active - 1 /\ UNCHANGED <<parkedFrames, mainWaits>>
    BY <1>3 DEF TopEnds, Ends
  <2>3. Counts(Activations \ {f}, active - 1)
    BY <2>1, CountsRemove
  <2>4. /\ (Activations \ {f}) \cap WaitSet = Activations \cap WaitSet
        /\ WaitSet \ (Activations \ {f}) = WaitSet \ Activations
    BY <2>1
  <2>. QED  BY <2>1, <2>2, <2>3, <2>4 DEF BooksInv, Counts
<1>4. ASSUME NEW t \in Threads, NextWork(t)
      PROVE  BooksInv'
  <2>1. PICK o \in Owners : o \notin Threads /\ Push(t, o)
    BY <1>4, TakenWork DEF NextWork
  <2>2. active' = active + 1 /\ UNCHANGED <<waiters, parkedFrames, mainWaits>>
    BY <1>4 DEF NextWork, TakeWork
  <2>. PICK f : f = <<t, Len(stack[t]) + 1>>
    OBVIOUS
  <2>3. /\ f \notin Activations \cup WaitSet /\ Activations' = Activations \cup {f}
        /\ \A u \in Threads : \A i : <<u, i>> \in WaitSet' <=>
             i \in DOMAIN stack[u] /\ Waiting(u, i)'
    BY <2>1, PushFrames
  <2>4. \A u \in Threads : u # t => stack'[u] = stack[u]
    BY <2>1, PushEffect
  <2>5. \A i \in DOMAIN stack[t] : stack'[t][i] = stack[t][i]
    BY <2>1, PushEffect
  <2>6. \A u \in Threads : \A i : <<u, i>> \in WaitSet' <=> <<u, i>> \in WaitSet
    <3>1. \A u \in Threads : \A i \in DOMAIN stack[u] : Waiting(u, i)' <=> Waiting(u, i)
      BY <2>2, <2>4, <2>5 DEF Waiting
    <3>. QED  BY <2>3, <3>1, FrameIs
  <2>7. WaitSet' = WaitSet
    <3>1. \A g \in WaitSet : \E u \in Threads : \E i : g = <<u, i>>
      BY ArePairs
    <3>2. \A g \in WaitSet' : \E u \in Threads : \E i : g = <<u, i>>
      BY ArePairs
    <3>. QED  BY <2>6, <3>1, <3>2, SameFrames
  <2>8. Counts(Activations \cup {f}, active + 1)
    BY <2>3, CountsAdd
  <2>9. /\ (Activations \cup {f}) \cap WaitSet = Activations \cap WaitSet
        /\ WaitSet \ (Activations \cup {f}) = WaitSet \ Activations
    BY <2>3
  <2>. QED  BY <2>2, <2>3, <2>7, <2>8, <2>9 DEF BooksInv, Counts
<1>5. ASSUME NEW t \in Threads, WaitWork(t)
      PROVE  BooksInv'
  <2>1. PICK o \in Owners : o \notin Threads /\ Push(t, o)
    BY <1>5, TakenWork DEF WaitWork
  <2>2. /\ active' = active + 1 /\ waiters' = Booked(t) /\ WaitLooks(t)
        /\ parkedFrames' = ParkedNow(t) /\ mainWaits' = MainNow(t)
    BY <1>5 DEF WaitWork, TakeWork
  <2>. PICK n : n = Len(stack[t])
    OBVIOUS
  <2>. PICK f : f = <<t, n + 1>>
    OBVIOUS
  <2>. PICK N : N = WaitSet \cup {<<t, n>>}
    OBVIOUS
  <2>3. /\ f \notin Activations \cup WaitSet /\ Activations' = Activations \cup {f}
        /\ \A u \in Threads : \A i : <<u, i>> \in WaitSet' <=>
             i \in DOMAIN stack[u] /\ Waiting(u, i)'
    BY <2>1, PushFrames
  <2>4. \A i \in DOMAIN stack[t] : stack'[t][i] = stack[t][i]
    BY <2>1, PushEffect
  <2>5. n \in DOMAIN stack[t] /\ Top(t) = stack[t][n] /\ stack[t] # <<>>
    BY <2>2, TopType DEF WaitLooks
  <2>6. \A u \in Threads : \A i \in DOMAIN stack[u] :
          ~(u = t /\ i = n) => (Waiting(u, i)' <=> Waiting(u, i))
    BY <1>5, <2>2, <2>4, WorkTouches, BooksWait
  <2>7. Waiting(t, n)'
    <3>1. Top(t).wid # 0 /\ waiters'[Top(t).wid].waiting > 0
      <4>1. Booked(t) \in {Booked(t), [Booked(t) EXCEPT ![Top(t).wid].parker = t]}
        OBVIOUS
      <4>2. /\ Top(t).wid # 0 /\ Booked(t)[Top(t).wid].waiting = Kind(t) /\ Kind(t) > 0
        BY <2>2, <4>1, BookEffect
      <4>. QED  BY <2>2, <4>2
    <3>2. stack'[t][n] = Top(t)
      BY <2>4, <2>5
    <3>. QED  BY <3>1, <3>2 DEF Waiting
  <2>8. WaitSet' = N
    BY <2>3, <2>5, <2>6, <2>7, WaitsThen
  <2>9. Counts(Activations \cap N, ParkedNow(t)) /\ Counts(N \ Activations, MainNow(t))
    BY <2>2, BookedCounts
  <2>10. Counts(Activations \cup {f}, active + 1)
    BY <2>3, CountsAdd
  <2>11. f # <<t, n>>
    <3>1. n \in Nat
      BY LenProperties DEF TypeOK
    <3>2. n + 1 # n
      BY <3>1
    <3>. QED  BY <3>2
  <2>12. /\ (Activations \cup {f}) \cap N = Activations \cap N
         /\ N \ (Activations \cup {f}) = N \ Activations
    BY <2>3, <2>11
  <2>. QED  BY <2>2, <2>3, <2>8, <2>9, <2>10, <2>12 DEF BooksInv, Counts
<1>6. ASSUME NEW h \in Hosts, NEW t \in Threads, NEW c \in SUBSET Slots, HostOpens(t, h, c)
      PROVE  BooksInv'
  <2>1. h \in Threads /\ h \in Owners
    BY DEF Threads, Owners
  <2>2. Push(h, h) /\ UNCHANGED <<waiters, active, parkedFrames, mainWaits>>
    BY <1>6 DEF HostOpens, waiterVars
  <2>3. /\ Activations' = Activations
        /\ \A u \in Threads : \A i : <<u, i>> \in WaitSet' <=>
             i \in DOMAIN stack[u] /\ Waiting(u, i)'
    BY <2>1, <2>2, PushFrames
  <2>4. \A u \in Threads : \A i \in DOMAIN stack[u] : stack'[u][i] = stack[u][i]
    BY <2>1, <2>2, PushEffect
  <2>5. \A u \in Threads : \A i : <<u, i>> \in WaitSet' <=> <<u, i>> \in WaitSet
    <3>1. \A u \in Threads : \A i \in DOMAIN stack[u] : Waiting(u, i)' <=> Waiting(u, i)
      BY <2>2, <2>4 DEF Waiting
    <3>. QED  BY <2>3, <3>1, FrameIs
  <2>6. WaitSet' = WaitSet
    <3>1. \A g \in WaitSet : \E u \in Threads : \E i : g = <<u, i>>
      BY ArePairs
    <3>2. \A g \in WaitSet' : \E u \in Threads : \E i : g = <<u, i>>
      BY ArePairs
    <3>. QED  BY <2>5, <3>1, <3>2, SameFrames
  <2>. QED  BY <1>0, <2>2, <2>3, <2>6
<1>7. ASSUME NEW t \in Threads, WaitIdles(t)
      PROVE  BooksInv'
  <2>1. /\ Touches(t, Top(t).wid) /\ UNCHANGED stack /\ WaitLooks(t)
        /\ waiters' \in {Booked(t), [Booked(t) EXCEPT ![Top(t).wid].parker = t]}
    BY <1>7, IdlesTouches
  <2>2. UNCHANGED active /\ parkedFrames' = ParkedNow(t) /\ mainWaits' = MainNow(t)
    BY <1>7 DEF WaitIdles
  <2>. PICK n : n = Len(stack[t])
    OBVIOUS
  <2>. PICK N : N = WaitSet \cup {<<t, n>>}
    OBVIOUS
  <2>3. /\ Activations' = Activations
        /\ \A u \in Threads : \A i : <<u, i>> \in WaitSet' <=>
             i \in DOMAIN stack[u] /\ Waiting(u, i)'
    BY <2>1, KeptFrames
  <2>4. n \in DOMAIN stack[t] /\ Top(t) = stack[t][n]
    BY <2>1, TopType DEF WaitLooks
  <2>5. \A u \in Threads : \A i \in DOMAIN stack[u] :
          ~(u = t /\ i = n) => (Waiting(u, i)' <=> Waiting(u, i))
    BY <2>1, BooksWait
  <2>6. Waiting(t, n)'
    <3>1. Top(t).wid # 0 /\ waiters'[Top(t).wid].waiting > 0
      <4>. PICK x : x = waiters'
        OBVIOUS
      <4>1. Top(t).wid # 0 /\ x[Top(t).wid].waiting = Kind(t) /\ Kind(t) > 0
        BY <2>1, BookEffect
      <4>. QED  BY <4>1
    <3>. QED  BY <2>1, <2>4, <3>1 DEF Waiting
  <2>7. WaitSet' = N
    BY <2>3, <2>4, <2>5, <2>6, WaitsThen
  <2>8. Counts(Activations \cap N, ParkedNow(t)) /\ Counts(N \ Activations, MainNow(t))
    BY <2>1, BookedCounts
  <2>. QED  BY <2>2, <2>3, <2>7, <2>8 DEF BooksInv, Counts
<1>8. ASSUME NEW t \in Threads, WaitGot(t)
      PROVE  BooksInv'
  <2>. PICK n : n = Len(stack[t])
    OBVIOUS
  <2>. PICK f : f = <<t, n>>
    OBVIOUS
  <2>. PICK N : N = WaitSet \cup {f}
    OBVIOUS
  <2>1. /\ Touches(t, Top(t).wid) /\ WaitLooks(t) /\ stack[t] # <<>> /\ SetWid(t, 0)
    BY <1>8, GotTouches
  <2>2. /\ UNCHANGED active
        /\ parkedFrames' = ParkedNow(t) - (IF Kind(t) = 1 THEN 1 ELSE 0)
        /\ mainWaits' = MainNow(t) - (IF Kind(t) = 2 THEN 1 ELSE 0)
    BY <1>8 DEF WaitGot
  <2>3. 0 \in Wids \cup {0}
    OBVIOUS
  <2>4. stack'[t][n] = [who |-> Me(t), wid |-> 0]
    BY <2>1, <2>3, SetWidEffect
  <2>5. /\ DOMAIN stack'[t] = DOMAIN stack[t] /\ n \in DOMAIN stack[t]
        /\ \A i \in DOMAIN stack[t] : i # n => stack'[t][i] = stack[t][i]
        /\ Top(t) = stack[t][n] /\ \A u \in Threads : u # t => stack'[u] = stack[u]
    BY <2>1, <2>3, SetWidEffect, TopType
  <2>6. stack'[t][n].who = stack[t][n].who /\ stack'[t][n].wid = 0
    BY <2>4, <2>5 DEF Me
  <2>7. /\ Activations' = Activations
        /\ \A u \in Threads : \A i : <<u, i>> \in WaitSet' <=>
             i \in DOMAIN stack[u] /\ Waiting(u, i)'
    BY <2>5, <2>6, KeptFrames
  <2>8. \A u \in Threads : \A i \in DOMAIN stack[u] :
          ~(u = t /\ i = n) => (Waiting(u, i)' <=> Waiting(u, i))
    BY <2>1, <2>5, BooksWait
  <2>9. ~Waiting(t, n)'
    BY <2>6 DEF Waiting
  <2>10. WaitSet' = WaitSet \ {f}
    BY <2>5, <2>7, <2>8, <2>9, WaitsThen
  <2>11. /\ Counts(Activations \cap N, ParkedNow(t)) /\ Counts(N \ Activations, MainNow(t))
         /\ (f \in Activations <=> Kind(t) = 1) /\ Kind(t) \in {1, 2}
    BY <2>1, BookedCounts
  <2>12. ParkedNow(t) \in Int /\ MainNow(t) \in Int
    BY CountsType
  <2>13. CASE Kind(t) = 1
    <3>1. /\ f \in Activations \cap N
          /\ Activations \cap (WaitSet \ {f}) = (Activations \cap N) \ {f}
          /\ (WaitSet \ {f}) \ Activations = N \ Activations
      BY <2>11, <2>13
    <3>2. Counts((Activations \cap N) \ {f}, ParkedNow(t) - 1)
      BY <2>11, <3>1, CountsRemove
    <3>3. parkedFrames' = ParkedNow(t) - 1 /\ mainWaits' = MainNow(t)
      BY <2>2, <2>12, <2>13
    <3>. QED  BY <2>2, <2>7, <2>10, <2>11, <3>1, <3>2, <3>3 DEF BooksInv, Counts
  <2>14. CASE Kind(t) = 2
    <3>1. /\ f \in N \ Activations
          /\ Activations \cap (WaitSet \ {f}) = Activations \cap N
          /\ (WaitSet \ {f}) \ Activations = (N \ Activations) \ {f}
      BY <2>11, <2>14
    <3>2. Counts((N \ Activations) \ {f}, MainNow(t) - 1)
      BY <2>11, <3>1, CountsRemove
    <3>3. parkedFrames' = ParkedNow(t) /\ mainWaits' = MainNow(t) - 1
      BY <2>2, <2>12, <2>14
    <3>. QED  BY <2>2, <2>7, <2>10, <2>11, <3>1, <3>2, <3>3 DEF BooksInv, Counts
  <2>. QED  BY <2>11, <2>13, <2>14
<1>. QED  BY <1>1, <1>2, <1>3, <1>4, <1>5, <1>6, <1>7, <1>8, StepKinds

(***************************************************************************)
(* The theorems.                                                           *)
(***************************************************************************)
\* Only main has a frame at first, and it has no record.
LEMMA InitWaits == Init => OwnRecords /\ RunnersDoNotWait /\ WaitersAreWoken /\ BooksInv
<1>. SUFFICES ASSUME Init PROVE OwnRecords /\ RunnersDoNotWait /\ WaitersAreWoken /\ BooksInv
  OBVIOUS
<1>1. Typed
  BY InitTyped
<1>2. \A t \in Threads : \A i \in DOMAIN stack[t] : stack[t][i].wid = 0 /\ stack[t][i].who = Main
  BY DEF Init, Running
<1>3. OwnRecords
  BY <1>2 DEF OwnRecords, Init
<1>4. RunnersDoNotWait
  <2>1. ASSUME NEW t \in Threads, stack[t] # <<>> PROVE ~Waiting(t, Len(stack[t]))
    BY <1>1, <1>2, <2>1, TopType DEF Typed, Waiting
  <2>. QED  BY <2>1 DEF RunnersDoNotWait
<1>5. WaitersAreWoken
  BY DEF Init, WaitersAreWoken
<1>6. WaitSet = {}
  BY <1>2, WaitIs DEF Waiting
<1>7. Activations = {}
  BY <1>2, ActivationIs DEF Threads
<1>8. BooksInv
  <2>1. /\ Activations \cap WaitSet = {} /\ WaitSet \ Activations = {}
        /\ active = 0 /\ parkedFrames = 0 /\ mainWaits = 0
    BY <1>6, <1>7 DEF Init
  <2>. QED  BY <1>7, <2>1, FS_EmptySet DEF BooksInv, Counts
<1>. QED  BY <1>3, <1>4, <1>5, <1>8

\* No answer is lost on a thread asleep inside a wait: the frame it sleeps in has
\* none yet, and its record names the thread the answer is to unpark.
THEOREM SleepingFramesAreWoken == Spec => []WaitersAreWoken
<1>1. Typed /\ OwnRecords /\ WaitersAreWoken /\ [Next]_vars => (OwnRecords /\ WaitersAreWoken)'
  BY OwnStep, WokenStep DEF Typed
<1>. QED  BY InitWaits, <1>1, TypesAreKept, PTL DEF Spec

\* The counters the idle and deadlock tests compare are true of the stacks: what
\* is active, what of it is parked in a wait, and how often main waits.
THEOREM BooksAreBalanced == Spec => []BooksBalance
<1>1. Typed /\ OwnRecords /\ RunnersDoNotWait /\ BooksInv /\ [Next]_vars
        => (OwnRecords /\ RunnersDoNotWait /\ BooksInv)'
  BY OwnStep, RunnersStep, BooksStep DEF Typed
<1>2. BooksInv => BooksBalance
  <2>1. /\ {f \in Activations : Waits(f)} = Activations \cap WaitSet
        /\ {f \in Frames \ Activations : Waits(f)} = WaitSet \ Activations
    BY DEF Activations, WaitSet
  <2>. QED  BY <2>1 DEF BooksInv, BooksBalance, Counts
<1>. QED  BY InitWaits, <1>1, <1>2, TypesAreKept, PTL DEF Spec

\* A task on a stack came from a queue.
LEMMA FramesStep ==
    ASSUME TypeOK, FramesAreNested, WaitersExist, OwnRecords, Minted, [Next]_vars
    PROVE  NamesMinted(stack')
<1>0. \A s \in Slots : s \notin Actors /\ s \notin Threads
  BY NamesAreDistinct DEF Slots
<1>1. ASSUME UNCHANGED stack
      PROVE  NamesMinted(stack')
  BY <1>1 DEF Minted, NamesMinted
<1>2. ASSUME NEW t \in Threads, \A u \in Threads : u # t => stack'[u] = stack[u],
             \A i \in DOMAIN stack'[t] :
               \/ i \in DOMAIN stack[t] /\ stack'[t][i].who = stack[t][i].who
               \/ stack'[t][i].who \in Slots => stack'[t][i].who <= nextSlot
      PROVE  NamesMinted(stack')
  BY <1>2 DEF Minted, NamesMinted
<1>3. ASSUME NEW t \in Threads, NEW w \in Wids \cup {0}, SetWid(t, w), stack[t] # <<>>
      PROVE  NamesMinted(stack')
  <2>. PICK n : n = Len(stack[t])
    OBVIOUS
  <2>1. /\ \A u \in Threads : u # t => stack'[u] = stack[u]
        /\ n \in DOMAIN stack[t] /\ Top(t) = stack[t][n]
        /\ DOMAIN stack'[t] = DOMAIN stack[t]
        /\ \A i \in DOMAIN stack[t] : i # n => stack'[t][i] = stack[t][i]
        /\ stack'[t][n] = [who |-> Me(t), wid |-> w]
    BY <1>3, SetWidEffect, TopType
  <2>2. \A i \in DOMAIN stack'[t] : i \in DOMAIN stack[t] /\ stack'[t][i].who = stack[t][i].who
    BY <2>1 DEF Me
  <2>. QED  BY <1>2, <2>1, <2>2
<1>4. ASSUME NEW t \in Threads, NEW o \in Owners, Push(t, o), o \in Slots => o <= nextSlot
      PROVE  NamesMinted(stack')
  <2>. PICK n : n = Len(stack[t])
    OBVIOUS
  <2>1. n \in Nat
    BY LenProperties DEF TypeOK
  <2>2. /\ \A u \in Threads : u # t => stack'[u] = stack[u]
        /\ DOMAIN stack[t] = 1 .. n /\ DOMAIN stack'[t] = 1 .. n + 1
        /\ \A i \in DOMAIN stack[t] : stack'[t][i] = stack[t][i]
        /\ stack'[t][n + 1] = Running(o)
    BY <1>4, PushEffect
  <2>3. stack'[t][n + 1].who = o
    BY <2>2 DEF Running
  <2>4. \A i \in DOMAIN stack'[t] : i \in DOMAIN stack[t] \/ i = n + 1
    BY <2>1, <2>2
  <2>. QED  BY <1>2, <1>4, <2>2, <2>3, <2>4
<1>5. CASE Quietly
  BY <1>1, <1>5 DEF Quietly
<1>6. ASSUME NEW t \in Threads, MintWaiter(t)
      PROVE  NamesMinted(stack')
  BY <1>3, <1>6, MintWaiterEffect
<1>7. ASSUME NEW t \in Threads, TopEnds(t)
      PROVE  NamesMinted(stack')
  <2>1. stack[t] # <<>> /\ Pop(t)
    BY <1>7, RunsHasFrame DEF TopEnds, Ends, Runs
  <2>2. /\ \A u \in Threads : u # t => stack'[u] = stack[u]
        /\ Len(stack[t]) \in Nat \ {0} /\ DOMAIN stack[t] = 1 .. Len(stack[t])
        /\ DOMAIN stack'[t] = 1 .. Len(stack[t]) - 1
        /\ \A i \in DOMAIN stack'[t] : stack'[t][i] = stack[t][i]
    BY <2>1, PopEffect
  <2>3. \A i \in DOMAIN stack'[t] : i \in DOMAIN stack[t]
    BY <2>2
  <2>. QED  BY <1>2, <2>2, <2>3
<1>8. ASSUME NEW t \in Threads, NextWork(t) \/ WaitWork(t)
      PROVE  NamesMinted(stack')
  <2>1. TakeTask(t) \/ \E own : TakeEntry(t, own)
    BY <1>8 DEF NextWork, WaitWork, TakeWork
  <2>2. CASE TakeTask(t)
    <3>1. PICK q \in Pools : q = Serves[t]
      BY ConstantsAssumption DEF ConstantsAssumption
    <3>2. tasks[q] \in Seq(Slots) /\ tasks[q] # <<>> /\ Push(t, Head(tasks[q]))
      BY <2>2, <3>1 DEF TakeTask, TypeOK
    <3>3. Head(tasks[q]) \in Slots /\ Head(tasks[q]) \in ToSet(tasks[q])
      BY <3>2, HeadTailProperties, ToSetTail
    <3>4. Head(tasks[q]) <= nextSlot /\ Head(tasks[q]) \in Owners
      BY <3>3 DEF Minted, Owners
    <3>. QED  BY <1>4, <3>2, <3>4
  <2>3. ASSUME NEW own, TakeEntry(t, own)
        PROVE  NamesMinted(stack')
    <3>1. PICK a \in Actors : Push(t, a)
      BY <2>3 DEF TakeEntry, TakeEntryOf
    <3>2. a \in Owners /\ a \notin Slots
      BY <1>0 DEF Owners
    <3>. QED  BY <1>4, <3>1, <3>2
  <2>. QED  BY <2>1, <2>2, <2>3
<1>9. ASSUME NEW t \in Threads, WaitGot(t)
      PROVE  NamesMinted(stack')
  <2>1. SetWid(t, 0) /\ stack[t] # <<>>
    BY <1>9 DEF WaitGot, WaitLooks
  <2>. QED  BY <1>3, <2>1
<1>10. ASSUME NEW t \in Threads, WaitIdles(t)
       PROVE  NamesMinted(stack')
  BY <1>1, <1>10 DEF WaitIdles
<1>11. ASSUME NEW t \in Threads, NEW h \in Hosts, NEW c \in SUBSET Slots, HostOpens(t, h, c)
       PROVE  NamesMinted(stack')
  <2>1. h \in Threads /\ h \in Owners /\ h \notin Slots /\ Push(h, h)
    BY <1>0, <1>11 DEF HostOpens, Threads, Owners
  <2>. QED  BY <1>4, <2>1
<1>. QED  BY <1>5, <1>6, <1>7, <1>8, <1>9, <1>10, <1>11, StepKinds
===============================================================================
