------------------------ MODULE SchedulerReportProofs -------------------------
(***************************************************************************)
(* What the scheduler reports is never wrong, for every value of the       *)
(* constants.  The deadlock report: from the books of SchedulerWaitProofs, *)
(* the count of the open host threads, and the thread each stack stands    *)
(* on.  `owed': a record that a wait is owed a reply for is not taken for  *)
(* another wait, so the counters stay with the replies they count.  The    *)
(* replies themselves: a token is in one place at a time, so the record of *)
(* an open reply is the one made for it, and what is answered was held.    *)
(***************************************************************************)
EXTENDS SchedulerWaitProofs

\* A thread's own code is the bottom frame of its own stack, main and a host
\* thread have one, and a host thread that has closed has nothing above it.
Rooted ==
    \A t \in Threads :
      /\ \A i \in DOMAIN stack[t] :
           stack[t][i].who \in Threads => i = 1 /\ stack[t][i].who = t /\ t \notin Workers
      /\ t \in Hosts /\ pc[t] # "unborn" => stack[t] # <<>> /\ stack[t][1].who = t
      /\ t \in Hosts /\ pc[t] = "done" => Len(stack[t]) = 1 /\ stack[t][1].wid = 0

OpenHosts == {h \in Hosts : pc[h] \notin {"unborn", "done"}}

\* Nobody goes on after the end.
LEMMA EndIsFinal ==
    ASSUME [Next]_vars, exit # "no"
    PROVE  UNCHANGED vars
<1>1. ASSUME NEW t \in Threads PROVE ~Program(t)
  BY DEF Program, Send, MintActor, MintTask, MintWaiter, Await, Answer, OnIdle, Watch, NewPool,
         NewActor, HostOpens, ActorFaults, TaskFaults, Does, Runs
<1>2. ASSUME NEW t \in Threads PROVE ~Runtime(t)
  BY DEF Runtime, Resend, Park, ActorReturns, TaskReturns, NextRetires, NextWork, NextSleeps,
         WaitGot, WaitWork, WaitIdles, WaitLooks, Looks, Runs
<1>. QED  BY <1>1, <1>2
          DEF Next, HostCloses, Runs, DeliverNext, EndBulk, MainReturns, Exited

\* Only a wait that finds nothing to do reports a deadlock.
LEMMA ReportIsMade ==
    ASSUME [Next]_vars, exit # "deadlock", exit' = "deadlock"
    PROVE  \E t \in Threads : WaitIdles(t)
<1>1. exit = "no" /\ [Next]_vars /\ ~UNCHANGED vars
  BY EndIsFinal DEF vars
<1>2. ASSUME NEW t \in Threads, NEW a, NEW s, Enqueue(t, a, s), exit = "no"
      PROVE  exit' # "deadlock"
  BY <1>2 DEF Enqueue
<1>3. ASSUME NEW t \in Threads PROVE ~Program(t)
  BY <1>1, <1>2
     DEF Program, Send, MintActor, MintTask, MintWaiter, Await, Answer, OnIdle, Watch, NewPool,
         NewActor, HostOpens, ActorFaults, TaskFaults, TaskEnds, Ends
<1>4. ASSUME NEW t \in Threads, Runtime(t) PROVE WaitIdles(t)
  BY <1>1, <1>2, <1>4
     DEF Runtime, Resend, Park, ActorReturns, TaskReturns, NextRetires, NextWork, NextSleeps,
         WaitGot, WaitWork, TakeWork, TaskEnds, Ends
<1>. QED  BY <1>1, <1>3, <1>4
          DEF Next, HostCloses, DeliverNext, EndBulk, MainReturns, Exited

\* A step that leaves a host thread as open as it was: it is neither begun nor
\* ended, unless it has no frame.
Stays(u) == \/ pc'[u] = pc[u]
            \/ pc[u] \notin {"unborn", "done"} /\ pc'[u] \notin {"unborn", "done"}
            \/ u \in Workers
            \/ pc[u] = "look" /\ stack[u] = <<>>
NoneOpens == UNCHANGED externals /\ \A u \in Threads : Stays(u)

\* One thread moves between labels of a thread under way.
LEMMA GotoStays ==
    ASSUME TypeOK, NEW t \in Threads, NEW l, l \notin {"unborn", "done"}, Goto(t, l),
           pc[t] \notin {"unborn", "done"}
    PROVE  \A u \in Threads : Stays(u)
BY GotoEffect DEF Stays

\* The opening and the closing of a host thread apart, none opens or closes.
LEMMA OpenKinds ==
    ASSUME TypeOK, FramesAreNested, WaitersExist, [Next]_vars
    PROVE  \/ NoneOpens
           \/ \E t \in Threads, h \in Hosts, c \in SUBSET Slots : HostOpens(t, h, c)
           \/ \E h \in Threads : HostCloses(h)
<1>1. ASSUME UNCHANGED <<pc, externals>> PROVE NoneOpens
  BY <1>1 DEF NoneOpens, Stays
<1>2. ASSUME NEW t \in Threads, NEW a, NEW s, Enqueue(t, a, s), UNCHANGED externals,
             pc[t] \notin {"unborn", "done"}
      PROVE  NoneOpens
  <2>1. Goto(t, "run") \/ Goto(t, "full")
    BY <1>2 DEF Enqueue
  <2>. QED  BY <1>2, <2>1, GotoStays DEF NoneOpens
<1>3. ASSUME NEW t \in Threads, Program(t),
             ~\E h \in Hosts, c \in SUBSET Slots : HostOpens(t, h, c)
      PROVE  NoneOpens
  <2>1. CASE \/ \E gated \in BOOLEAN : MintActor(t, gated)
             \/ \E p \in Pools, c \in SUBSET Slots : MintTask(t, p, c)
             \/ MintWaiter(t)
             \/ \E s \in Slots : Answer(t, s) \/ OnIdle(t, s)
             \/ \E a \in Actors, s \in Slots : Watch(t, a, s)
             \/ \E a \in Actors : NewActor(t, a)
    <3>1. UNCHANGED <<pc, externals>>
      BY <2>1 DEF MintActor, MintTask, MintWaiter, Answer, OnIdle, Watch, NewActor,
                  threadVars, countVars
    <3>. QED  BY <1>1, <3>1
  <2>2. ASSUME NEW a \in Actors, NEW s \in Slots \cup {0}, Send(t, a, s)
        PROVE  NoneOpens
    <3>1. Enqueue(t, a, s) /\ UNCHANGED externals /\ pc[t] = "run"
      BY <2>2 DEF Send, Does, Runs, countVars
    <3>. QED  BY <1>2, <3>1
  <2>3. CASE Await(t)
    <3>1. Goto(t, "look") /\ pc[t] = "run" /\ UNCHANGED externals
      BY <2>3 DEF Await, countVars
    <3>. QED  BY <3>1, GotoStays DEF NoneOpens
  <2>4. ASSUME NEW p \in Pools, NewPool(t, p)
        PROVE  NoneOpens
    BY <2>4 DEF NewPool, NoneOpens, Stays, countVars
  <2>5. CASE ActorFaults(t) \/ TaskFaults(t)
    <3>1. Goto(t, "look") /\ pc[t] = "run" /\ UNCHANGED externals
      BY <2>5 DEF ActorFaults, TaskFaults, TaskEnds, Ends, Runs
    <3>. QED  BY <3>1, GotoStays DEF NoneOpens
  <2>. QED  BY <1>3, <2>1, <2>2, <2>3, <2>4, <2>5 DEF Program
<1>4. ASSUME NEW t \in Threads, Runtime(t)
      PROVE  NoneOpens
  <2>1. CASE Resend(t)
    <3>1. Enqueue(t, sending[t].to, sending[t].tok) /\ UNCHANGED externals /\ pc[t] = "send"
      BY <2>1 DEF Resend, countVars
    <3>. QED  BY <1>2, <3>1
  <2>2. CASE Park(t)
    <3>1. /\ pc[t] \in {"park", "full"} /\ UNCHANGED externals
          /\ Goto(t, "look") \/ Goto(t, "send")
      BY <2>2 DEF Park, countVars
    <3>. QED  BY <3>1, GotoStays DEF NoneOpens
  <2>3. CASE NextRetires(t)
    <3>1. Goto(t, "done") /\ pc[t] = "look" /\ stack[t] = <<>> /\ UNCHANGED externals
      BY <2>3 DEF NextRetires, Looks, countVars
    <3>. QED  BY <3>1, GotoEffect DEF NoneOpens, Stays
  <2>4. CASE ActorReturns(t) \/ TaskReturns(t)
    <3>1. Goto(t, "look") /\ pc[t] = "run" /\ UNCHANGED externals
      BY <2>4 DEF ActorReturns, TaskReturns, TaskEnds, Ends, Runs
    <3>. QED  BY <3>1, GotoStays DEF NoneOpens
  <2>5. CASE NextWork(t) \/ WaitWork(t) \/ WaitGot(t)
    <3>1. Goto(t, "run") /\ pc[t] = "look" /\ UNCHANGED externals
      BY <2>5 DEF NextWork, WaitWork, WaitGot, TakeWork, WaitLooks, Looks
    <3>. QED  BY <3>1, GotoStays DEF NoneOpens
  <2>6. CASE NextSleeps(t) \/ WaitIdles(t)
    <3>1. /\ Goto(t, "park") \/ UNCHANGED pc
          /\ pc[t] = "look" /\ UNCHANGED externals
      BY <2>6 DEF NextSleeps, WaitIdles, WaitLooks, Looks, countVars
    <3>. QED  BY <1>1, <3>1, GotoStays DEF NoneOpens
  <2>. QED  BY <1>4, <2>1, <2>2, <2>3, <2>4, <2>5, <2>6 DEF Runtime
<1>5. CASE UNCHANGED vars \/ DeliverNext \/ EndBulk \/ MainReturns \/ Exited
  <2>1. UNCHANGED <<pc, externals>>
    BY <1>5 DEF vars, DeliverNext, EndBulk, MainReturns, Exited, threadVars, countVars
  <2>. QED  BY <1>1, <2>1
<1>. QED  BY <1>3, <1>4, <1>5 DEF Next

\* A step that takes no frame away from a host thread, gives none but its own,
\* and opens and closes none, leaves every stack on its root.
LEMMA RootedKept ==
    ASSUME Rooted, \A u \in Threads : Stays(u),
           NEW t \in Threads, \A u \in Threads : u # t => stack'[u] = stack[u],
           \A i \in DOMAIN stack'[t] :
             \/ stack'[t][i].who \notin Threads
             \/ i \in DOMAIN stack[t] /\ stack'[t][i].who = stack[t][i].who,
           t \in Hosts /\ pc[t] # "unborn" => stack'[t] # <<>> /\ stack'[t][1].who = t,
           pc[t] = "done" => stack'[t] = stack[t]
    PROVE  Rooted'
<1>1. SUFFICES ASSUME NEW u \in Threads
               PROVE  /\ \A i \in DOMAIN stack'[u] : stack'[u][i].who \in Threads
                           => i = 1 /\ stack'[u][i].who = u /\ u \notin Workers
                      /\ u \in Hosts /\ pc'[u] # "unborn" => stack'[u] # <<>> /\ stack'[u][1].who = u
                      /\ u \in Hosts /\ pc'[u] = "done" => Len(stack'[u]) = 1 /\ stack'[u][1].wid = 0
  BY DEF Rooted
<1>2. \A i \in DOMAIN stack'[u] : stack'[u][i].who \in Threads
        => i = 1 /\ stack'[u][i].who = u /\ u \notin Workers
  BY DEF Rooted
<1>3. ASSUME u \in Hosts
      PROVE  /\ pc'[u] \in {"unborn", "done"} => pc'[u] = pc[u]
             /\ pc'[u] # "unborn" => pc[u] # "unborn"
  BY <1>3, NamesAreDistinct DEF Rooted, Stays
<1>. QED  BY <1>2, <1>3 DEF Rooted

\* A host thread opens with one frame, its own.
LEMMA HostOpening ==
    ASSUME TypeOK, FramesAreNested, NEW t \in Threads, NEW h \in Hosts, NEW c,
           HostOpens(t, h, c)
    PROVE  /\ h \in Threads /\ pc[h] = "unborn" /\ pc'[h] = "run"
           /\ \A u \in Threads : u # h => stack'[u] = stack[u] /\ pc'[u] = pc[u]
           /\ DOMAIN stack'[h] = {1} /\ Len(stack'[h]) = 1 /\ stack'[h] # <<>>
           /\ stack'[h][1].who = h
<1>1. h \in Threads /\ h \in Owners
  BY DEF Threads, Owners
<1>2. Push(h, h) /\ Goto(h, "run") /\ pc[h] = "unborn"
  BY DEF HostOpens
<1>3. stack[h] = <<>>
  BY <1>1, <1>2 DEF FramesAreNested, NestedOn
<1>4. stack'[h][Len(stack[h]) + 1] = Running(h)
  BY <1>1, <1>2, PushEffect
<1>5. Len(stack[h]) = 0
  BY <1>3
<1>6. /\ \A u \in Threads : u # h => stack'[u] = stack[u]
      /\ DOMAIN stack'[h] = 1 .. Len(stack[h]) + 1 /\ Len(stack'[h]) = Len(stack[h]) + 1
      /\ stack'[h] # <<>>
  BY <1>1, <1>2, PushEffect
<1>8. DOMAIN stack'[h] = {1} /\ Len(stack'[h]) = 1
  BY <1>5, <1>6
<1>7. stack'[h][1].who = h
  BY <1>4, <1>5 DEF Running
<1>. QED  BY <1>1, <1>2, <1>6, <1>7, <1>8, GotoEffect

\* A host thread closes on its own frame.
LEMMA HostClosing ==
    ASSUME TypeOK, FramesAreNested, Rooted, NEW h \in Threads, HostCloses(h)
    PROVE  /\ h \in Hosts /\ pc[h] = "run" /\ pc'[h] = "done" /\ UNCHANGED stack
           /\ \A u \in Threads : u # h => pc'[u] = pc[u]
           /\ Len(stack[h]) = 1 /\ stack[h][1].wid = 0
<1>1. /\ h \in Hosts /\ pc[h] = "run" /\ Me(h) = h /\ Top(h).wid = 0
      /\ UNCHANGED stack /\ Goto(h, "done")
  BY DEF HostCloses, Runs
<1>2. /\ Len(stack[h]) \in DOMAIN stack[h] /\ Top(h) = stack[h][Len(stack[h])]
  BY <1>1, RunsHasFrame, TopType
<1>3. Len(stack[h]) = 1
  <2>1. PICK n \in DOMAIN stack[h] : n = Len(stack[h]) /\ stack[h][n].who = h
    BY <1>1, <1>2 DEF Me
  <2>2. n = 1
    BY <2>1 DEF Rooted
  <2>. QED  BY <2>1, <2>2
<1>. QED  BY <1>1, <1>2, <1>3, GotoEffect

\* Below the top of a stack of more than one frame is a bottom one.
LEMMA NotTheLast ==
    ASSUME NEW n \in Nat \ {0}, n # 1
    PROVE  1 \in 1 .. n - 1
OBVIOUS

\* Every stack stays on its root.
LEMMA RootedStep ==
    ASSUME TypeOK, FramesAreNested, WaitersExist, OwnRecords, Rooted, [Next]_vars
    PROVE  Rooted'
<1>1. ASSUME NEW t \in Threads, NEW h \in Hosts, NEW c \in SUBSET Slots, HostOpens(t, h, c)
      PROVE  Rooted'
  BY <1>1, HostOpening, NamesAreDistinct DEF Rooted
<1>2. ASSUME NEW h \in Threads, HostCloses(h)
      PROVE  Rooted'
  BY <1>2, HostClosing DEF Rooted
<1>3. CASE NoneOpens
  <2>0. \A u \in Threads : Stays(u)
    BY <1>3 DEF NoneOpens
  <2>1. ASSUME UNCHANGED stack PROVE Rooted'
    BY <2>0, <2>1, NamesAreDistinct DEF Rooted, Stays
  <2>2. ASSUME NEW t \in Threads, NEW w \in Wids \cup {0}, SetWid(t, w), stack[t] # <<>>,
               pc[t] # "done"
        PROVE  Rooted'
    <3>. PICK n : n = Len(stack[t])
      OBVIOUS
    <3>1. stack'[t][n] = [who |-> Me(t), wid |-> w]
      BY <2>2, SetWidEffect
    <3>2. /\ \A u \in Threads : u # t => stack'[u] = stack[u]
          /\ n \in Nat \ {0} /\ DOMAIN stack[t] = 1 .. n /\ DOMAIN stack'[t] = DOMAIN stack[t]
          /\ \A i \in DOMAIN stack[t] : i # n => stack'[t][i] = stack[t][i]
          /\ stack'[t] # <<>> /\ Top(t) = stack[t][n]
      BY <2>2, SetWidEffect, TopType
    <3>3. \A i \in DOMAIN stack'[t] : i \in DOMAIN stack[t] /\ stack'[t][i].who = stack[t][i].who
      BY <3>1, <3>2 DEF Me
    <3>4. t \in Hosts /\ pc[t] # "unborn" => stack'[t] # <<>> /\ stack'[t][1].who = t
      BY <3>2, <3>3 DEF Rooted
    <3>. QED  BY <2>0, <2>2, <3>2, <3>3, <3>4, RootedKept
  <2>3. ASSUME NEW t \in Threads, NEW o \in Owners, o \notin Threads, Push(t, o), pc[t] = "look"
        PROVE  Rooted'
    <3>. PICK n : n = Len(stack[t])
      OBVIOUS
    <3>1. stack'[t][n + 1].who = o
      <4>1. stack'[t][n + 1] = Running(o)
        BY <2>3, PushEffect
      <4>. QED  BY <4>1 DEF Running
    <3>2. /\ \A u \in Threads : u # t => stack'[u] = stack[u]
          /\ n \in Nat /\ DOMAIN stack[t] = 1 .. n /\ DOMAIN stack'[t] = 1 .. n + 1
          /\ \A i \in DOMAIN stack[t] : stack'[t][i] = stack[t][i]
          /\ stack'[t] # <<>>
      <4>1. n \in Nat
        BY LenProperties DEF TypeOK
      <4>. QED  BY <2>3, <4>1, PushEffect
    <3>3. \A i \in DOMAIN stack'[t] :
             \/ stack'[t][i].who \notin Threads
             \/ i \in DOMAIN stack[t] /\ stack'[t][i].who = stack[t][i].who
      <4>1. SUFFICES ASSUME NEW i \in DOMAIN stack'[t], i # n + 1
                     PROVE  i \in DOMAIN stack[t] /\ stack'[t][i].who = stack[t][i].who
        BY <2>3, <3>1
      <4>2. i \in 1 .. n
        BY <3>2, <4>1
      <4>. QED  BY <3>2, <4>2
    <3>4. t \in Hosts /\ pc[t] # "unborn" => stack'[t] # <<>> /\ stack'[t][1].who = t
      <4>1. SUFFICES ASSUME t \in Hosts, pc[t] # "unborn"
                     PROVE  stack'[t] # <<>> /\ stack'[t][1].who = t
        OBVIOUS
      <4>2. stack[t] # <<>> /\ stack[t][1].who = t
        BY <4>1 DEF Rooted
      <4>3. n # 0
        BY <4>2, EmptySeq DEF TypeOK
      <4>4. 1 \in DOMAIN stack[t]
        BY <3>2, <4>3
      <4>. QED  BY <3>2, <4>2, <4>4
    <3>. QED  BY <2>0, <2>3, <3>2, <3>3, <3>4, RootedKept
  <2>4. CASE Quietly
    BY <2>1, <2>4 DEF Quietly
  <2>5. ASSUME NEW t \in Threads, MintWaiter(t) PROVE Rooted'
    <3>1. PICK w \in Wids : stack[t] # <<>> /\ SetWid(t, w)
      BY <2>5, MintWaiterEffect
    <3>2. pc[t] # "done"
      BY <2>5 DEF MintWaiter, Does, Runs
    <3>. QED  BY <2>2, <3>1, <3>2
  <2>6. ASSUME NEW t \in Threads, TopEnds(t) PROVE Rooted'
    <3>. PICK n \in Nat : n = Len(stack[t])
      BY LenProperties DEF TypeOK
    <3>1. stack[t] # <<>> /\ pc[t] = "run" /\ Pop(t) /\ Me(t) \notin Threads
      BY <2>6, EndTouches DEF TopEnds
    <3>2. /\ \A u \in Threads : u # t => stack'[u] = stack[u]
          /\ n \in Nat \ {0} /\ DOMAIN stack[t] = 1 .. n /\ DOMAIN stack'[t] = 1 .. n - 1
          /\ \A i \in DOMAIN stack'[t] : stack'[t][i] = stack[t][i]
          /\ Me(t) = stack[t][n].who /\ Len(stack'[t]) = n - 1
      BY <3>1, PopEffect, TopType DEF Me
    <3>3. \A i \in DOMAIN stack'[t] : i \in DOMAIN stack[t] /\ stack'[t][i].who = stack[t][i].who
      BY <3>2
    <3>4. t \in Hosts /\ pc[t] # "unborn" => stack'[t] # <<>> /\ stack'[t][1].who = t
      <4>1. SUFFICES ASSUME t \in Hosts
                     PROVE  stack'[t] # <<>> /\ stack'[t][1].who = t
        OBVIOUS
      <4>2. stack[t][1].who = t
        BY <3>1, <4>1 DEF Rooted
      <4>0. n \in Nat \ {0}
        BY <3>2
      <4>3. n # 1
        BY <3>1, <3>2, <4>2
      <4>4. 1 \in DOMAIN stack'[t]
        <5>1. 1 \in 1 .. n - 1
          BY <4>3, <4>0, NotTheLast
        <5>. QED  BY <3>2, <5>1
      <4>5. stack'[t] # <<>>
        BY <4>4
      <4>. QED  BY <3>2, <4>2, <4>4, <4>5
    <3>. QED  BY <2>0, <3>1, <3>2, <3>3, <3>4, RootedKept
  <2>7. ASSUME NEW t \in Threads, NextWork(t) \/ WaitWork(t) PROVE Rooted'
    <3>1. PICK o \in Owners : o \notin Threads /\ Push(t, o)
      BY <2>7, TakenWork DEF NextWork, WaitWork
    <3>2. pc[t] = "look"
      BY <2>7 DEF NextWork, WaitWork, WaitLooks, Looks
    <3>. QED  BY <2>3, <3>1, <3>2
  <2>8. ASSUME NEW t \in Threads, WaitGot(t) PROVE Rooted'
    <3>1. stack[t] # <<>> /\ SetWid(t, 0) /\ pc[t] # "done" /\ 0 \in Wids \cup {0}
      BY <2>8, GotTouches DEF WaitLooks, Looks
    <3>. QED  BY <2>2, <3>1
  <2>9. ASSUME NEW t \in Threads, WaitIdles(t) PROVE Rooted'
    BY <2>1, <2>9 DEF WaitIdles
  <2>. QED  BY <1>1, <2>4, <2>5, <2>6, <2>7, <2>8, <2>9, StepKinds
<1>. QED  BY <1>1, <1>2, <1>3, OpenKinds

\* The count of the host threads that are open.
LEMMA OpenStep ==
    ASSUME TypeOK, FramesAreNested, WaitersExist, Rooted, Counts(OpenHosts, externals),
           [Next]_vars
    PROVE  Counts(OpenHosts, externals)'
<1>0. externals \in Nat /\ \A h \in Hosts : h \in Threads /\ h \notin Workers
  BY NamesAreDistinct DEF TypeOK, Threads
<1>1. ASSUME NEW t \in Threads, NEW h \in Hosts, NEW c \in SUBSET Slots, HostOpens(t, h, c)
      PROVE  Counts(OpenHosts, externals)'
  <2>1. OpenHosts' = OpenHosts \cup {h} /\ h \notin OpenHosts
    BY <1>0, <1>1, HostOpening DEF OpenHosts
  <2>2. externals' = externals + 1
    BY <1>1 DEF HostOpens
  <2>. QED  BY <2>1, <2>2, CountsAdd DEF Counts
<1>2. ASSUME NEW h \in Threads, HostCloses(h)
      PROVE  Counts(OpenHosts, externals)'
  <2>1. OpenHosts' = OpenHosts \ {h} /\ h \in OpenHosts
    BY <1>0, <1>2, HostClosing DEF OpenHosts
  <2>2. externals # 0
    BY <2>1, FS_EmptySet DEF Counts
  <2>3. externals' = externals - 1
    BY <1>2, <2>2 DEF HostCloses
  <2>. QED  BY <2>1, <2>3, CountsRemove DEF Counts
<1>3. CASE NoneOpens
  <2>1. \A h \in Hosts : pc'[h] \in {"unborn", "done"} <=> pc[h] \in {"unborn", "done"}
    BY <1>0, <1>3 DEF NoneOpens, Stays, Rooted
  <2>2. OpenHosts' = OpenHosts /\ UNCHANGED externals
    BY <1>3, <2>1 DEF OpenHosts, NoneOpens
  <2>. QED  BY <2>2 DEF Counts
<1>. QED  BY <1>1, <1>2, <1>3, OpenKinds

\* A part of a finite set as large as the set is the set.
LEMMA AllOfThem ==
    ASSUME NEW S, NEW N, NEW n, Counts(S, n), Counts(S \cap N, n)
    PROVE  S \subseteq N
BY FS_Subset DEF Counts

\* The report, when it is made: all that is under way waits, main does too, and
\* no host thread is open.
LEMMA ReportStep ==
    ASSUME TypeOK, FramesAreNested, WaitersExist, OwnRecords, RunnersDoNotWait, Rooted, BooksInv,
           Counts(OpenHosts, externals), [Next]_vars,
           NEW t \in Threads, WaitIdles(t), exit' = "deadlock"
    PROVE  StuckIsReal'
<1>. PICK n : n = Len(stack[t])
  OBVIOUS
<1>. PICK N : N = WaitSet \cup {<<t, n>>}
  OBVIOUS
<1>1. /\ WaitLooks(t) /\ NoWork(Serves[t], Me(t)) /\ exit = "no"
      /\ waiters' = Booked(t) /\ Settled(ParkedNow(t), Booked(t)) /\ MainNow(t) > 0
      /\ UNCHANGED <<tasks, queue, gate, running, dead, stack, pc>>
  BY DEF WaitIdles, WaitLooks, Looks, actorVars
<1>2. active = ParkedNow(t) /\ Quiet(waiters')
  BY <1>1 DEF Settled
<1>3. /\ Counts(Activations, active) /\ Counts(Activations \cap N, ParkedNow(t))
      /\ Counts(N \ Activations, MainNow(t))
  BY <1>1, BookedCounts DEF BooksInv
<1>4. Activations \subseteq N
  BY <1>2, <1>3, AllOfThem
<1>5. PICK f : f \in N \ Activations
  <2>1. N \ Activations # {}
    BY <1>1, <1>3, FS_EmptySet DEF Counts
  <2>. QED  BY <2>1
<1>6. OpenHosts = {}
  <2>1. externals = 0
    BY <1>2 DEF Quiet
  <2>. QED  BY <2>1, FS_EmptySet DEF Counts
<1>7. \A h \in Hosts : pc'[h] \in {"unborn", "done"}
  BY <1>1, <1>6 DEF OpenHosts
<1>8. WaitSet' = N
  <2>1. /\ Activations' = Activations
        /\ \A u \in Threads : \A i : <<u, i>> \in WaitSet' <=>
             i \in DOMAIN stack[u] /\ Waiting(u, i)'
    BY <1>1, KeptFrames
  <2>2. n \in DOMAIN stack[t] /\ Top(t) = stack[t][n]
    BY <1>1, TopType DEF WaitLooks
  <2>3. Touches(t, Top(t).wid)
    BY IdlesTouches
  <2>4. \A u \in Threads : \A i \in DOMAIN stack[u] :
          ~(u = t /\ i = n) => (Waiting(u, i)' <=> Waiting(u, i))
    BY <1>1, <2>3, BooksWait
  <2>5. Waiting(t, n)'
    <3>1. Booked(t) \in {Booked(t), [Booked(t) EXCEPT ![Top(t).wid].parker = t]}
      OBVIOUS
    <3>2. Top(t).wid # 0 /\ Booked(t)[Top(t).wid].waiting = Kind(t) /\ Kind(t) > 0
      BY <1>1, <3>1, BookEffect
    <3>. QED  BY <1>1, <2>2, <3>2 DEF Waiting
  <2>. QED  BY <2>1, <2>2, <2>4, <2>5, WaitsThen
<1>9. TypeOK' /\ RunnersDoNotWait' /\ Rooted'
  BY StepType, RunnersStep, RootedStep
<1>a. PICK u \in Threads : \E i \in DOMAIN stack'[u] : f = <<u, i>> /\ Waiting(u, i)'
  BY <1>5, <1>8, WaitIsThen DEF Waiting
<1>10. PICK i \in DOMAIN stack'[u] : f = <<u, i>> /\ Waiting(u, i)'
  BY <1>a
<1>11. u = Main /\ i = 1
  <2>1. stack'[u][i].who \in Threads
    BY <1>1, <1>5, <1>10, FrameIs
  <2>2. i = 1 /\ u \notin Workers /\ stack'[u][1].wid # 0
    BY <1>9, <1>10, <2>1 DEF Rooted, Waiting
  <2>3. ASSUME u \in Hosts PROVE FALSE
    <3>1. pc'[u] = "done" \/ pc'[u] = "unborn"
      BY <1>7, <2>3
    <3>2. pc'[u] # "done"
      BY <1>9, <2>2, <2>3 DEF Rooted
    <3>3. stack[u] = <<>>
      BY <1>1, <3>1, <3>2 DEF FramesAreNested, NestedOn
    <3>. QED  BY <1>1, <1>10, <3>3
  <2>. QED  BY <2>2, <2>3 DEF Threads
<1>12. \A v \in Threads \ Hosts : \A j \in DOMAIN stack'[v] : Waiting(v, j)'
  <2>1. SUFFICES ASSUME NEW v \in Threads \ Hosts, NEW j \in DOMAIN stack'[v]
                 PROVE  <<v, j>> \in N
    BY <1>8, FrameIsThen
  <2>2. CASE stack'[v][j].who \notin Threads
    BY <1>1, <1>4, <2>1, <2>2, FrameIs
  <2>3. CASE stack'[v][j].who \in Threads
    <3>1. j = 1 /\ v \notin Workers
      BY <1>9, <2>1, <2>3 DEF Rooted
    <3>2. v = Main
      BY <2>1, <3>1 DEF Threads
    <3>. QED  BY <1>5, <1>10, <1>11, <3>1, <3>2
  <2>. QED  BY <2>2, <2>3
<1>13. \A v \in Threads \ Hosts : stack'[v] # <<>> => pc'[v] \in {"look", "park"}
  <2>1. SUFFICES ASSUME NEW v \in Threads \ Hosts, stack'[v] # <<>>
                 PROVE  pc'[v] \in {"look", "park"}
    OBVIOUS
  <2>2. Len(stack[v]) \in DOMAIN stack[v] /\ stack'[v] = stack[v] /\ pc'[v] = pc[v]
    BY <1>1, <2>1, TopType
  <2>. PICK m : m = Len(stack[v])
    OBVIOUS
  <2>3. stack'[v][m].wid # 0 /\ waiters'[stack'[v][m].wid].waiting > 0
    BY <1>12, <2>2 DEF Waiting
  <2>4. pc'[v] \in {"look", "park"}
    BY <1>9, <2>1, <2>2, <2>3 DEF RunnersDoNotWait, Waiting
  <2>. QED  BY <2>4
<1>14. \A v \in Threads \ Hosts : \A j \in DOMAIN stack'[v] :
          /\ stack'[v][j].wid # 0 /\ ~waiters'[stack'[v][j].wid].filled
          /\ pc'[v] \in {"look", "park"}
  <2>1. SUFFICES ASSUME NEW v \in Threads \ Hosts, NEW j \in DOMAIN stack'[v]
                 PROVE  /\ stack'[v][j].wid # 0 /\ ~waiters'[stack'[v][j].wid].filled
                        /\ pc'[v] \in {"look", "park"}
    OBVIOUS
  <2>2. stack'[v][j].wid # 0 /\ waiters'[stack'[v][j].wid].waiting > 0
    BY <1>12, <2>1 DEF Waiting
  <2>3. stack'[v][j].wid \in DOMAIN waiters'
    <3>1. stack'[v][j].wid \in DOMAIN waiters
      BY <1>1, <2>1, <2>2 DEF WaitersExist
    <3>. QED  BY <1>1, <3>1, WaitFrame
  <2>4. stack'[v] # <<>>
    BY <2>1
  <2>. QED  BY <1>2, <1>13, <2>1, <2>2, <2>3, <2>4 DEF Quiet
<1>15. \A p \in Pools : ~HasWork(p, Nobody)'
  <2>1. \A a \in Actors : a \in running' \cup dead' \/ Deliverable(queue'[a], gate'[a]) = {}
    BY <1>1, <1>2 DEF Quiet
  <2>2. \A p \in Pools : tasks'[p] = <<>>
    BY <1>1, <1>2 DEF Quiet
  <2>3. \A p \in Pools : \A k \in DOMAIN readyQ'[p] : readyQ'[p][k] \in Actors
    <3>1. \A p \in Pools : readyQ'[p] \in Seq(Actors)
      BY <1>9 DEF TypeOK
    <3>. QED  BY <3>1, LenProperties, ElementOfSeq
  <2>4. \A p \in Pools : \A k \in DOMAIN readyQ'[p] :
          \/ readyQ'[p][k] \in running' \cup dead'
          \/ Deliverable(queue'[readyQ'[p][k]], gate'[readyQ'[p][k]]) = {}
    BY <2>1, <2>3
  <2>. QED  BY <2>2, <2>4 DEF HasWork, Hits, Takeable
<1>. QED  BY <1>7, <1>14, <1>15 DEF StuckIsReal, Frames, FrameAt

\* What the report rests on.
Accounted == OwnRecords /\ RunnersDoNotWait /\ Rooted /\ BooksInv /\ Counts(OpenHosts, externals)

\* No host thread is open at first, and nobody has reported anything.
LEMMA InitAccounted == Init => Accounted /\ StuckIsReal
<1>. SUFFICES ASSUME Init PROVE Accounted /\ StuckIsReal
  OBVIOUS
<1>1. /\ \A t \in Threads : t # Main => stack[t] = <<>> /\ pc[t] \in {"look", "unborn"}
      /\ \A h \in Hosts : h # Main /\ h \in Threads /\ pc[h] = "unborn"
      /\ stack[Main] = <<Running(Main)>>
  BY NamesAreDistinct DEF Init, Threads
<1>2. Rooted
  <2>1. stack[Main][1].who = Main /\ DOMAIN stack[Main] = {1} /\ Main \notin Workers /\ Main \notin Hosts
    BY <1>1, NamesAreDistinct DEF Running
  <2>2. \A t \in Threads : t # Main => DOMAIN stack[t] = {}
    BY <1>1
  <2>. QED  BY <1>1, <2>1, <2>2 DEF Rooted
<1>3. Counts(OpenHosts, externals)
  <2>1. OpenHosts = {} /\ externals = 0
    BY <1>1 DEF OpenHosts, Init
  <2>. QED  BY <2>1, FS_EmptySet DEF Counts
<1>4. StuckIsReal
  BY DEF Init, StuckIsReal
<1>. QED  BY <1>2, <1>3, <1>4, InitWaits DEF Accounted

\* Each of them is kept.
LEMMA AccountedStep ==
    ASSUME Typed, Accounted, [Next]_vars
    PROVE  Accounted'
BY OwnStep, RunnersStep, RootedStep, BooksStep, OpenStep DEF Typed, Accounted

\* The report once made stays true, for nothing moves after it.
LEMMA StuckStep ==
    ASSUME Typed, Accounted, StuckIsReal, [Next]_vars
    PROVE  StuckIsReal'
<1>1. CASE exit = "deadlock"
  <2>1. UNCHANGED vars
    BY <1>1, EndIsFinal
  <2>2. UNCHANGED <<stack, waiters, pc, tasks, readyQ, running, dead, queue, gate, exit>>
    BY <2>1 DEF vars, actorVars, poolVars, waiterVars, threadVars
  <2>3. Frames' = Frames
    BY <2>2 DEF Frames
  <2>4. \A p \in Pools : HasWork(p, Nobody)' <=> HasWork(p, Nobody)
    BY <2>2 DEF HasWork, Hits, Takeable
  <2>5. \A f \in Frames : f[1] \notin Hosts =>
          /\ FrameAt(f)'.wid # 0 /\ ~waiters'[FrameAt(f)'.wid].filled
          /\ pc'[f[1]] \in {"look", "park"}
    BY <1>1, <2>2 DEF StuckIsReal, FrameAt
  <2>. QED  BY <1>1, <2>2, <2>3, <2>4, <2>5 DEF StuckIsReal, FrameAt
<1>2. CASE exit # "deadlock" /\ exit' = "deadlock"
  BY <1>2, ReportIsMade, ReportStep DEF Typed, Accounted
<1>3. CASE exit' # "deadlock"
  BY <1>3 DEF StuckIsReal
<1>. QED  BY <1>1, <1>2, <1>3

\* A deadlock reported is one: every frame of main and the workers waits for an
\* answer nobody has given, no host thread is left to bring work in, and no
\* queue holds any.
THEOREM ReportsAreReal == Spec => []StuckIsReal
<1>1. Typed /\ Accounted /\ StuckIsReal /\ [Next]_vars => (Accounted /\ StuckIsReal)'
  BY AccountedStep, StuckStep
<1>. QED  BY InitAccounted, <1>1, TypesAreKept, PTL DEF Spec

(***************************************************************************)
(* The idle hooks.                                                         *)
(***************************************************************************)
\* Only a thread about to sleep, or a wait that finds nothing to do, takes the
\* hooks, with nothing active and nothing queued.
LEMMA HooksAreTaken ==
    ASSUME TypeOK, FramesAreNested, WaitersExist, [Next]_vars, idleHooks # <<>>, idleHooks' = <<>>
    PROVE  active = 0 /\ \E wrec : Quiet(wrec)
<1>1. ASSUME NEW s \in Slots, idleHooks' = Append(idleHooks, s)
      PROVE  FALSE
  <2>0. Len(<<>>) = 0
    OBVIOUS
  <2>1. Len(idleHooks) \in Nat /\ Len(Append(idleHooks, s)) = Len(idleHooks) + 1
    BY AppendProperties, LenProperties DEF TypeOK
  <2>2. Len(Append(idleHooks, s)) # Len(<<>>)
    BY <2>0, <2>1
  <2>. QED  BY <1>1, <2>2
<1>2. ASSUME NEW t \in Threads, Program(t)
      PROVE  FALSE
  BY <1>1, <1>2
     DEF Program, Send, MintActor, MintTask, MintWaiter, Await, Answer, OnIdle, Watch, NewPool,
         NewActor, HostOpens, ActorFaults, TaskFaults, TaskEnds, Ends
<1>3. ASSUME NEW t \in Threads, Runtime(t)
      PROVE  active = 0 /\ \E wrec : Quiet(wrec)
  <2>1. CASE NextSleeps(t)
    <3>1. Settled(parkedFrames, waiters) /\ NoneRuns
      BY <2>1 DEF NextSleeps
    <3>. QED  BY <3>1 DEF Settled, NoneRuns
  <2>2. CASE WaitIdles(t)
    <3>1. NoneRuns /\ Quiet(Booked(t))
      BY <2>2 DEF WaitIdles
    <3>. QED  BY <3>1 DEF NoneRuns
  <2>. QED  BY <1>3, <2>1, <2>2
            DEF Runtime, Resend, Park, ActorReturns, TaskReturns, NextRetires, NextWork,
                WaitGot, WaitWork, TakeWork, TaskEnds, Ends
<1>. QED  BY <1>2, <1>3
          DEF Next, vars, HostCloses, DeliverNext, EndBulk, MainReturns, Exited

\* The hooks are answered at "the moment nothing anywhere can run": no activation
\* or task has begun and not ended, and no pool has work for one.
THEOREM IdleMomentsAreReal == Spec => IdleIsReal
<1>1. Typed /\ BooksInv /\ [Next]_vars
        => [idleHooks # <<>> /\ idleHooks' = <<>>
              => Activations = {} /\ \A p \in Pools : ~HasWork(p, Nobody)]_idleHooks
  <2>1. SUFFICES ASSUME Typed, BooksInv, [Next]_vars, idleHooks # <<>>, idleHooks' = <<>>
                 PROVE  Activations = {} /\ \A p \in Pools : ~HasWork(p, Nobody)
    OBVIOUS
  <2>2. PICK wrec : active = 0 /\ Quiet(wrec)
    BY <2>1, HooksAreTaken DEF Typed
  <2>3. Activations = {}
    BY <2>1, <2>2, FS_EmptySet DEF BooksInv, Counts
  <2>4. \A p \in Pools : \A k \in DOMAIN readyQ[p] : readyQ[p][k] \in Actors
    <3>1. \A p \in Pools : readyQ[p] \in Seq(Actors)
      BY <2>1 DEF Typed, TypeOK
    <3>. QED  BY <3>1, LenProperties, ElementOfSeq
  <2>5. \A p \in Pools : \A k \in DOMAIN readyQ[p] :
          \/ readyQ[p][k] \in running \cup dead
          \/ Deliverable(queue[readyQ[p][k]], gate[readyQ[p][k]]) = {}
    BY <2>2, <2>4 DEF Quiet
  <2>. QED  BY <2>2, <2>3, <2>5 DEF HasWork, Hits, Takeable, Quiet
<1>2. Accounted => BooksInv
  BY DEF Accounted
<1>3. Typed /\ Accounted /\ [Next]_vars => Accounted'
  BY AccountedStep
<1>. QED  BY InitAccounted, <1>1, <1>2, <1>3, TypesAreKept, PTL DEF Spec, IdleIsReal

(***************************************************************************)
(* The replies owed.                                                       *)
(***************************************************************************)
\* Each reply of S that is for a wait is aimed at the record of that wait, which
\* is not filled and not free.  So are the replies still owed.
RecordsOf(S) ==
    /\ \A s \in S : s <= nextSlot
    /\ \A s \in S : target[s] \in Wids =>
         /\ waiters[target[s]].slot = s /\ ~waiters[target[s]].filled
         /\ target[s] \notin ToSet(freeWaiters)
OwedRecords == RecordsOf(tracked)

Aimed(x) == {s \in tracked : OwedTo(s) = x}
OwedCounts == \A x \in Actors \cup Pools : Counts(Aimed(x), owed[x])

\* A delivery fills the record of its reply, if that is where it is aimed.
LEMMA DeliveryRecords ==
    ASSUME TypeOK, WaitersExist, NEW s \in Slots, DeliverTo(s)
    PROVE  RecordsStay({s})
<1>1. CASE UNCHANGED waiters
  BY <1>1 DEF DeliverTo, RecordsStay
<1>2. CASE /\ target[s] \in Wids /\ Awaited(target[s], s)
           /\ waiters' = [waiters EXCEPT ![target[s]].filled = TRUE]
  <2>. DEFINE w == target[s]
              rec == [waiters[w] EXCEPT !.filled = TRUE]
  <2>1. w \in DOMAIN waiters /\ waiters \in Seq(WaiterRec) /\ waiters[w] \in WaiterRec
    BY <1>2, LenProperties, ElementOfSeq DEF WaitersExist, TypeOK
  <2>2. /\ rec.slot = waiters[w].slot /\ rec.pool = waiters[w].pool /\ waiters[w].slot = s
        /\ rec \in WaiterRec
    BY <1>2, <2>1 DEF WaiterRec, Awaited
  <2>3. waiters' = [waiters EXCEPT ![w] = rec]
    BY <1>2
  <2>. HIDE DEF rec
  <2>4. waiters'[w] = rec /\ \A v \in DOMAIN waiters : v # w => waiters'[v] = waiters[v]
    BY <2>1, <2>2, <2>3, ExceptAnywhere
  <2>5. UNCHANGED freeWaiters
    BY DEF DeliverTo
  <2>. HIDE DEF w
  <2>6. \A v \in DOMAIN waiters :
          /\ waiters'[v].slot = waiters[v].slot /\ waiters'[v].pool = waiters[v].pool
          /\ waiters'[v].filled => waiters[v].filled \/ waiters[v].slot = s
    BY <2>2, <2>4
  <2>. QED  BY <2>5, <2>6 DEF RecordsStay
<1>. QED  BY <1>1, <1>2 DEF DeliverTo, DeliverToActor, DeliverToTask, DeliverToWaiter

\* The booking of a wait changes what the record is for in nothing.
LEMMA BookRecords ==
    ASSUME TypeOK, FramesAreNested, WaitersExist, NEW t \in Threads, WaitLooks(t),
           UNCHANGED freeWaiters,
           waiters' \in {Booked(t), [Booked(t) EXCEPT ![Top(t).wid].parker = t]}
    PROVE  RecordsStay({})
<1>. PICK w \in Wids : w = Top(t).wid
  BY WaitFrame
<1>1. /\ w \in DOMAIN waiters /\ waiters[w] \in WaiterRec
      /\ Booked(t) \in Seq(WaiterRec) /\ DOMAIN Booked(t) = DOMAIN waiters
      /\ Booked(t)[w] = [waiters[w] EXCEPT !.waiting = Kind(t)]
      /\ \A v \in DOMAIN waiters : v # w => Booked(t)[v] = waiters[v]
  BY WaitFrame
<1>. PICK b : b = Booked(t)[w]
  OBVIOUS
<1>2. b.slot = waiters[w].slot /\ b.pool = waiters[w].pool /\ b.filled = waiters[w].filled
  BY <1>1 DEF WaiterRec
<1>3. CASE waiters' = Booked(t)
  <2>1. \A v \in DOMAIN waiters :
          /\ waiters'[v].slot = waiters[v].slot /\ waiters'[v].pool = waiters[v].pool
          /\ waiters'[v].filled = waiters[v].filled
    BY <1>1, <1>2, <1>3
  <2>. QED  BY <2>1 DEF RecordsStay
<1>4. CASE waiters' = [Booked(t) EXCEPT ![w].parker = t]
  <2>1. b \in WaiterRec
    BY <1>1, LenProperties, ElementOfSeq
  <2>. PICK e : e = [b EXCEPT !.parker = t]
    OBVIOUS
  <2>2. e \in WaiterRec /\ e.slot = b.slot /\ e.pool = b.pool /\ e.filled = b.filled
    BY <2>1, WaiterRecWrites DEF WaiterRec
  <2>3. waiters' = [Booked(t) EXCEPT ![w] = e]
    BY <1>1, <1>4
  <2>4. waiters'[w] = e /\ \A v \in DOMAIN waiters : v # w => waiters'[v] = Booked(t)[v]
    BY <1>1, <2>2, <2>3, ExceptAnywhere
  <2>5. \A v \in DOMAIN waiters :
          /\ waiters'[v].slot = waiters[v].slot /\ waiters'[v].pool = waiters[v].pool
          /\ waiters'[v].filled = waiters[v].filled
    BY ZenonT(30), <1>1, <1>2, <2>2, <2>4
  <2>. QED  BY <2>5 DEF RecordsStay
<1>. QED  BY <1>3, <1>4

\* The end of a wait frees its record, which was filled.
LEMMA GotRecords ==
    ASSUME TypeOK, FramesAreNested, WaitersExist, NEW t \in Threads, WaitGot(t)
    PROVE  RecordsStay({})
<1>. PICK w \in Wids : w = Top(t).wid
  BY WaitFrame DEF WaitGot
<1>1. /\ w \in DOMAIN waiters /\ waiters[w] \in WaiterRec /\ waiters \in Seq(WaiterRec)
      /\ waiters[w].filled
  BY WaitFrame DEF WaitGot, Unanswered, TypeOK
<1>. PICK e : e = [waiters[w] EXCEPT !.filled = FALSE, !.parker = Nobody, !.waiting = 0]
  OBVIOUS
<1>2. /\ e \in WaiterRec /\ e.slot = waiters[w].slot /\ e.pool = waiters[w].pool
      /\ ~e.filled
  <2>1. 0 \in 0 .. 2
    OBVIOUS
  <2>2. e \in WaiterRec
    BY <1>1, <2>1, WaiterRecWrites
  <2>. QED  BY <1>1, <2>2 DEF WaiterRec
<1>3. waiters' = [waiters EXCEPT ![w] = e] /\ freeWaiters' = Append(freeWaiters, w)
  BY DEF WaitGot
<1>4. waiters'[w] = e /\ \A v \in DOMAIN waiters : v # w => waiters'[v] = waiters[v]
  BY <1>1, <1>2, <1>3, ExceptAnywhere
<1>5. ToSet(freeWaiters') = ToSet(freeWaiters) \cup {w}
  BY <1>3, ToSetAppend DEF TypeOK
<1>6. \A v \in DOMAIN waiters :
        /\ waiters'[v].slot = waiters[v].slot /\ waiters'[v].pool = waiters[v].pool
        /\ waiters'[v].filled => waiters[v].filled
  BY <1>2, <1>4
<1>. QED  BY <1>1, <1>5, <1>6 DEF RecordsStay

(***************************************************************************)
(* What a step does to the replies.                                        *)
(***************************************************************************)
Ledger == <<nextSlot, target, tracked, owed>>

\* It leaves them alone, mints one, or releases one, which it may deliver.
LEMMA ReplyKinds ==
    ASSUME TypeOK, FramesAreNested, WaitersExist, [Next]_vars
    PROVE  \/ UNCHANGED Ledger /\ RecordsStay({})
           \/ \E t \in Threads, x \in Actors \cup Pools, c \in SUBSET Slots :
                Mint(t, x, x, c) /\ UNCHANGED waiterVars
           \/ \E t \in Threads : MintWaiter(t)
           \/ \E s \in Slots : Release(s) /\ UNCHANGED <<nextSlot, target>> /\ RecordsStay({s})
<1>1. ASSUME UNCHANGED <<Ledger, waiterVars>>
      PROVE  UNCHANGED Ledger /\ RecordsStay({})
  BY <1>1 DEF RecordsStay, waiterVars
<1>2. ASSUME UNCHANGED waiterVars, NEW s
      PROVE  RecordsStay({s})
  BY <1>2 DEF RecordsStay, waiterVars
<1>3. ASSUME NEW t \in Threads, Program(t), ~MintWaiter(t)
      PROVE  \/ UNCHANGED <<Ledger, waiterVars>>
             \/ \E x \in Actors \cup Pools, c \in SUBSET Slots :
                  Mint(t, x, x, c) /\ UNCHANGED waiterVars
             \/ \E s \in Slots : Release(s) /\ UNCHANGED <<nextSlot, target>> /\ RecordsStay({s})
  <2>1. CASE \E gated \in BOOLEAN : MintActor(t, gated)
    <3>1. Mint(t, Me(t), Me(t), {}) /\ UNCHANGED waiterVars /\ Me(t) \in Actors \cup Pools
      BY <2>1 DEF MintActor
    <3>2. {} \in SUBSET Slots
      OBVIOUS
    <3>. QED  BY <3>1, <3>2
  <2>2. CASE \E p \in Pools, c \in SUBSET Slots : MintTask(t, p, c)
    BY <2>2 DEF MintTask
  <2>3. ASSUME NEW s \in Slots, Answer(t, s)
        PROVE  Release(s) /\ UNCHANGED <<nextSlot, target>> /\ RecordsStay({s})
    BY <2>3, DeliveryRecords DEF Answer
  <2>4. ASSUME NEW s \in Slots, OnIdle(t, s)
        PROVE  Release(s) /\ UNCHANGED <<nextSlot, target>> /\ RecordsStay({s})
    BY <1>2, <2>4 DEF OnIdle
  <2>5. ASSUME NEW a \in Actors, NEW s \in Slots, Watch(t, a, s)
        PROVE  Release(s) /\ UNCHANGED <<nextSlot, target>> /\ RecordsStay({s})
    BY <1>2, <2>5, DeliveryRecords DEF Watch
  <2>6. CASE \/ \E a \in Actors, s \in Slots \cup {0} : Send(t, a, s)
             \/ Await(t) \/ ActorFaults(t) \/ TaskFaults(t)
             \/ \E p \in Pools : NewPool(t, p)
             \/ \E a \in Actors : NewActor(t, a)
             \/ \E h \in Hosts, c \in SUBSET Slots : HostOpens(t, h, c)
    BY <2>6 DEF Send, Await, ActorFaults, TaskFaults, TaskEnds, Ends, NewPool, NewActor,
                HostOpens, tokenVars, Ledger
  <2>. QED  BY <1>3, <2>1, <2>2, <2>3, <2>4, <2>5, <2>6 DEF Program
<1>4. ASSUME NEW t \in Threads, Runtime(t)
      PROVE  UNCHANGED Ledger /\ RecordsStay({})
  <2>1. CASE WaitGot(t)
    BY <2>1, GotRecords DEF WaitGot, tokenVars, Ledger
  <2>2. CASE WaitWork(t)
    BY <2>2, BookRecords DEF WaitWork, TakeWork, Ledger
  <2>3. CASE WaitIdles(t)
    BY <2>3, BookRecords DEF WaitIdles, tokenVars, Ledger
  <2>4. CASE NextWork(t)
    BY <1>1, <2>4 DEF NextWork, TakeWork, waiterVars, Ledger
  <2>5. CASE \/ Resend(t) \/ Park(t) \/ ActorReturns(t) \/ TaskReturns(t)
             \/ NextRetires(t) \/ NextSleeps(t)
    BY <1>1, <2>5 DEF Resend, Park, ActorReturns, TaskReturns, TaskEnds, Ends, NextRetires,
                      NextSleeps, tokenVars, Ledger
  <2>. QED  BY <1>4, <2>1, <2>2, <2>3, <2>4, <2>5 DEF Runtime
<1>5. CASE DeliverNext
  <2>1. Head(bulk.tokens) \in Slots
    BY <1>5, HeadTailProperties DEF DeliverNext, TypeOK, BulkRec
  <2>2. /\ Release(Head(bulk.tokens)) /\ UNCHANGED <<nextSlot, target>>
        /\ RecordsStay({Head(bulk.tokens)})
    BY <1>5, <2>1, DeliveryRecords DEF DeliverNext
  <2>. QED  BY <2>1, <2>2
<1>6. CASE \/ UNCHANGED vars \/ EndBulk \/ MainReturns \/ Exited
           \/ \E h \in Threads : HostCloses(h)
  BY <1>1, <1>6 DEF vars, EndBulk, MainReturns, Exited, HostCloses, tokenVars, Ledger, waiterVars
<1>. QED  BY <1>1, <1>3, <1>4, <1>5, <1>6 DEF Next

(***************************************************************************)
(* A record stays with the reply it is owed.                               *)
(***************************************************************************)
\* A step that keeps the records' waits keeps where each reply is owed.
LEMMA OwedToStays ==
    ASSUME WaitersExist, NEW got, RecordsStay(got), UNCHANGED target
    PROVE  \A s \in Slots : OwedTo(s)' = OwedTo(s)
BY DEF OwedTo, RecordsStay, WaitersExist

\* The head of a sequence without repetition is not in its tail.
LEMMA HeadLeaves ==
    ASSUME NEW S, NEW q \in Seq(S), q # <<>>, \A i, j \in DOMAIN q : q[i] = q[j] => i = j
    PROVE  Head(q) \notin ToSet(Tail(q))
<1>1. /\ Len(q) \in Nat /\ DOMAIN q = 1 .. Len(q) /\ Head(q) = q[1]
      /\ DOMAIN Tail(q) = 1 .. Len(q) - 1 /\ \A i \in 1 .. Len(q) - 1 : Tail(q)[i] = q[i + 1]
  BY EmptySeq, HeadTailProperties, LenProperties
<1>2. \A i \in 1 .. Len(q) - 1 : i + 1 \in DOMAIN q /\ 1 \in DOMAIN q /\ i + 1 # 1
  BY <1>1
<1>. QED  BY <1>1, <1>2 DEF ToSet

\* The reply minted is new, its record is new or was free, and the others are
\* owed where they were.
LEMMA MintIsNew ==
    ASSUME TypeOK, WaitersExist, FramesAreNested, OwnRecords, NEW S \in SUBSET Slots, RecordsOf(S), NEW t \in Threads,
           NEW place, NEW to \in Actors \cup Pools, NEW c, Mint(t, place, to, c),
           \/ place = to /\ UNCHANGED waiterVars
           \/ MintWaiter(t) /\ to = Serves[t],
           NEW n, n = nextSlot + 1
    PROVE  /\ RecordsOf(S \cup {n})' /\ n \in Slots \ S /\ tracked' = tracked \cup {n}
           /\ OwedTo(n)' = to /\ \A s \in S : OwedTo(s)' = OwedTo(s)
<1>1. /\ n \in Slots /\ nextSlot' = n /\ tracked' = tracked \cup {n}
      /\ nextSlot \in Nat
      /\ target'[n] = place /\ \A s \in Slots : s # n => target'[s] = target[s]
  <2>1. target \in [Slots -> Places] /\ nextSlot \in Slots \cup {0}
    BY ZenonT(30) DEF TypeOK
  <2>2. \A s \in Slots \cup {0} : s \in Nat
    BY DEF Slots
  <2>3. nextSlot \in Nat
    BY <2>1, <2>2
  <2>. QED  BY ZenonT(30), <2>1, <2>3 DEF Mint
<1>2. n \notin S
  <2>1. ~(n <= nextSlot)
    BY <1>1
  <2>. QED  BY <2>1 DEF RecordsOf
<1>3. \A s \in S \cup {n} : s <= nextSlot'
  <2>1. \A s \in S : s <= n
    BY <1>1 DEF RecordsOf, Slots
  <2>. QED  BY <1>1, <2>1 DEF Slots
<1>4. CASE place = to /\ UNCHANGED waiterVars
  <2>1. to \notin Wids
    BY NamesAreDistinct, ConstantsAssumption DEF Wids, ConstantsAssumption
  <2>2. OwedTo(n)' = to
    BY <1>1, <1>4, <2>1 DEF OwedTo
  <2>3. \A s \in S : OwedTo(s)' = OwedTo(s) /\ target'[s] = target[s] /\ s # n
    BY <1>1, <1>2, <1>4 DEF OwedTo, waiterVars
  <2>4. RecordsOf(S \cup {n})'
    BY <1>1, <1>3, <1>4, <2>1, <2>3 DEF RecordsOf, waiterVars
  <2>. QED  BY <1>1, <1>2, <2>2, <2>3, <2>4
<1>5. CASE MintWaiter(t) /\ to = Serves[t]
  <2>1. PICK w \in Wids, rec \in WaiterRec :
             /\ \/ /\ freeWaiters # <<>> /\ w = Head(freeWaiters) /\ w \in DOMAIN waiters
                   /\ waiters' = [waiters EXCEPT ![w] = rec]
                   /\ freeWaiters' = Tail(freeWaiters)
                \/ /\ freeWaiters = <<>> /\ w = Len(waiters) + 1
                   /\ waiters' = Append(waiters, rec)
                   /\ freeWaiters' = <<>>
             /\ rec = NewWaiter(Serves[t], nextSlot + 1)
             /\ Mint(t, w, Serves[t], {}) /\ SetWid(t, w)
    BY <1>5, MintWaiterRecord
  <2>2. /\ waiters \in Seq(WaiterRec) /\ freeWaiters \in Seq(Wids)
        /\ rec.slot = n /\ rec.pool = to /\ ~rec.filled /\ place = w
    <3>1. target'[n] = w
      BY <1>1, <2>1 DEF Mint, TypeOK
    <3>. QED  BY <1>1, <1>5, <2>1, <3>1 DEF TypeOK, NewWaiter
  <2>3. \A s \in S : target[s] # w
    <3>1. SUFFICES ASSUME NEW s \in S, target[s] = w
                   PROVE  FALSE
      OBVIOUS
    <3>2. w \notin ToSet(freeWaiters) /\ w \in DOMAIN waiters
      BY <1>1, <2>1, <3>1 DEF RecordsOf, WaitersExist
    <3>3. CASE freeWaiters # <<>>
      BY <2>1, <2>2, <3>2, <3>3, ToSetTail
    <3>4. CASE freeWaiters = <<>>
      BY <2>1, <2>2, <3>2, <3>4, LenProperties
    <3>. QED  BY <3>3, <3>4
  <2>4. waiters'[w] = rec /\ \A v \in DOMAIN waiters : v # w => waiters'[v] = waiters[v]
    <3>1. CASE freeWaiters # <<>>
      BY <2>1, <2>2, <3>1, ExceptAnywhere
    <3>2. CASE freeWaiters = <<>>
      BY <2>1, <2>2, <3>2, AppendProperties, LenProperties
    <3>. QED  BY <3>1, <3>2
  <2>5. ToSet(freeWaiters') \subseteq ToSet(freeWaiters)
    <3>1. CASE freeWaiters # <<>>
      BY <2>1, <2>2, <3>1, ToSetTail
    <3>2. CASE freeWaiters = <<>>
      BY <2>1, <3>2
    <3>. QED  BY <3>1, <3>2
  <2>6. w \notin ToSet(freeWaiters')
    <3>1. CASE freeWaiters = <<>>
      BY <2>1, <3>1 DEF ToSet
    <3>2. CASE freeWaiters # <<>>
      <4>1. w = Head(freeWaiters) /\ freeWaiters' = Tail(freeWaiters)
        BY <2>1, <3>2
      <4>2. \A i, j \in DOMAIN freeWaiters : freeWaiters[i] = freeWaiters[j] => i = j
        BY DEF OwnRecords
      <4>. QED  BY <2>2, <3>2, <4>1, <4>2, HeadLeaves
    <3>. QED  BY <3>1, <3>2
  <2>7. OwedTo(n)' = to
    BY <1>1, <2>1, <2>2, <2>4 DEF OwedTo
  <2>8. \A s \in S :
          /\ s # n /\ s \in Slots /\ target'[s] = target[s]
          /\ target[s] \in Wids => target[s] \in DOMAIN waiters
                                   /\ waiters'[target[s]] = waiters[target[s]]
    BY <1>1, <1>2, <2>3, <2>4 DEF WaitersExist
  <2>9. \A s \in S : OwedTo(s)' = OwedTo(s)
    BY <2>8 DEF OwedTo
  <2>10. \A s \in S \cup {n} : target'[s] \in Wids =>
           /\ waiters'[target'[s]].slot = s /\ ~waiters'[target'[s]].filled
           /\ target'[s] \notin ToSet(freeWaiters')
    BY <1>1, <2>2, <2>4, <2>5, <2>6, <2>8 DEF RecordsOf
  <2>. QED  BY <1>1, <1>2, <1>3, <2>7, <2>9, <2>10 DEF RecordsOf
<1>. QED  BY <1>4, <1>5

\* A step that fills records of the replies of `gone' only keeps those of the
\* others.
LEMMA RecordsKept ==
    ASSUME TypeOK, WaitersExist, NEW S \in SUBSET Slots, RecordsOf(S), NEW gone, RecordsStay(gone),
           UNCHANGED <<nextSlot, target>>, NEW R, R \subseteq S, R \cap gone = {}
    PROVE  RecordsOf(R)'
<1>1. \A s \in R : s <= nextSlot'
  BY DEF RecordsOf
<1>2. ASSUME NEW s \in R, target[s] \in Wids
      PROVE  /\ waiters'[target[s]].slot = s /\ ~waiters'[target[s]].filled
             /\ target[s] \notin ToSet(freeWaiters')
  <2>1. s \in S /\ s \notin gone /\ s \in Slots
    OBVIOUS
  <2>2. /\ waiters[target[s]].slot = s /\ ~waiters[target[s]].filled
        /\ target[s] \notin ToSet(freeWaiters) /\ target[s] \in DOMAIN waiters
    BY <1>2, <2>1 DEF RecordsOf, WaitersExist
  <2>. QED  BY <2>1, <2>2 DEF RecordsStay
<1>. QED  BY <1>1, <1>2 DEF RecordsOf

LEMMA OwedKept ==
    ASSUME TypeOK, WaitersExist, OwedRecords, NEW gone, RecordsStay(gone),
           UNCHANGED <<nextSlot, target>>, tracked' = tracked \ gone
    PROVE  OwedRecords'
<1>. PICK S, R : S = tracked /\ R = tracked'
  OBVIOUS
<1>1. S \in SUBSET Slots /\ RecordsOf(S) /\ R \subseteq S /\ R \cap gone = {}
  BY DEF TypeOK, OwedRecords
<1>2. RecordsOf(R)'
  BY <1>1, RecordsKept
<1>. QED  BY <1>2 DEF OwedRecords, RecordsOf

\* Where a reply is owed.
LEMMA OwedSomewhere ==
    ASSUME TypeOK, WaitersExist, NEW s \in Slots
    PROVE  OwedTo(s) \in Actors \cup Pools
<1>1. CASE target[s] \in Wids
  <2>1. waiters[target[s]] \in WaiterRec
    BY <1>1, LenProperties, ElementOfSeq DEF TypeOK, WaitersExist
  <2>. QED  BY <1>1, <2>1 DEF OwedTo, WaiterRec
<1>2. CASE target[s] \notin Wids
  BY <1>2 DEF OwedTo, TypeOK, Places
<1>. QED  BY <1>1, <1>2

\* A mint counts one more.
LEMMA CountMint ==
    ASSUME TypeOK, WaitersExist, FramesAreNested, OwnRecords, OwedRecords, OwedCounts,
           NEW t \in Threads, NEW place, NEW to \in Actors \cup Pools, NEW c,
           Mint(t, place, to, c),
           \/ place = to /\ UNCHANGED waiterVars
           \/ MintWaiter(t) /\ to = Serves[t]
    PROVE  OwedCounts' /\ OwedRecords'
<1>. PICK n : n = nextSlot + 1
  OBVIOUS
<1>. PICK S : S = tracked
  OBVIOUS
<1>0. S \in SUBSET Slots /\ RecordsOf(S)
  BY DEF TypeOK, OwedRecords
<1>1. /\ RecordsOf(S \cup {n})' /\ n \in Slots \ tracked /\ tracked' = tracked \cup {n}
      /\ OwedTo(n)' = to /\ \A s \in tracked : OwedTo(s)' = OwedTo(s)
  BY <1>0, MintIsNew
<1>4. OwedRecords'
  BY <1>1 DEF OwedRecords, RecordsOf
<1>2. owed' = [owed EXCEPT ![to] = owed[to] + 1] /\ owed \in [Actors \cup Pools -> Nat]
  BY DEF Mint, TypeOK
<1>3. ASSUME NEW x \in Actors \cup Pools
      PROVE  Counts(Aimed(x), owed[x])'
  <2>0. Counts(Aimed(x), owed[x])
    BY DEF OwedCounts
  <2>1. CASE x = to
    <3>1. Aimed(x)' = Aimed(x) \cup {n} /\ n \notin Aimed(x)
      BY <1>1, <2>1 DEF Aimed
    <3>2. owed'[x] = owed[x] + 1
      BY <1>2, <2>1
    <3>3. Counts(Aimed(x) \cup {n}, owed[x] + 1)
      BY <2>0, <3>1, CountsAdd
    <3>. QED  BY <3>1, <3>2, <3>3 DEF Counts
  <2>2. CASE x # to
    <3>1. Aimed(x)' = Aimed(x)
      BY <1>1, <2>2 DEF Aimed
    <3>2. owed'[x] = owed[x]
      BY <1>2, <2>2
    <3>. QED  BY <2>0, <3>1, <3>2 DEF Counts
  <2>. QED  BY <2>1, <2>2
<1>. QED  BY <1>4, <1>3 DEF OwedCounts

\* A release counts one fewer, once: the reply released again counts no more.
LEMMA CountRelease ==
    ASSUME TypeOK, WaitersExist, OwedRecords, OwedCounts, NEW s \in Slots, Release(s),
           UNCHANGED <<nextSlot, target>>, RecordsStay({s})
    PROVE  OwedCounts' /\ OwedRecords'
<1>1. /\ tracked' = tracked \ {s} /\ tracked \subseteq Slots
      /\ owed \in [Actors \cup Pools -> Nat]
      /\ \A r \in Slots : OwedTo(r)' = OwedTo(r)
  BY OwedToStays DEF Release, TypeOK
<1>2. OwedRecords'
  BY <1>1, OwedKept
<1>. PICK to \in Actors \cup Pools : to = OwedTo(s)
  BY OwedSomewhere
<1>3. ASSUME NEW x \in Actors \cup Pools
      PROVE  Counts(Aimed(x), owed[x])'
  <2>0. Counts(Aimed(x), owed[x])
    BY DEF OwedCounts
  <2>1. CASE s \in tracked /\ x = to
    <3>1. Aimed(x)' = Aimed(x) \ {s} /\ s \in Aimed(x)
      BY <1>1, <2>1 DEF Aimed
    <3>2. owed[to] # 0
      BY <2>0, <2>1, <3>1, FS_EmptySet DEF Counts
    <3>3. owed' = [owed EXCEPT ![to] = owed[to] - 1]
      <4>1. owed[to] > 0
        BY <1>1, <3>2
      <4>. QED  BY <2>1, <4>1 DEF Release
    <3>4. owed'[x] = owed[x] - 1
      BY <1>1, <2>1, <3>3
    <3>5. Counts(Aimed(x) \ {s}, owed[x] - 1)
      BY <2>0, <3>1, CountsRemove
    <3>. QED  BY <3>1, <3>4, <3>5 DEF Counts
  <2>2. CASE s \notin tracked
    <3>1. Aimed(x)' = Aimed(x) /\ owed' = owed
      BY <1>1, <2>2 DEF Aimed, Release
    <3>. QED  BY <2>0, <3>1 DEF Counts
  <2>3. CASE s \in tracked /\ x # to
    <3>1. Aimed(x)' = Aimed(x)
      BY <1>1, <2>3 DEF Aimed
    <3>2. owed'[x] = owed[x]
      BY <1>1, <2>3 DEF Release
    <3>. QED  BY <2>0, <3>1, <3>2 DEF Counts
  <2>. QED  BY <2>1, <2>2, <2>3
<1>. QED  BY <1>2, <1>3 DEF OwedCounts

\* No step lets a counter disagree with the replies owed.
LEMMA OwedStep ==
    ASSUME TypeOK, WaitersExist, FramesAreNested, OwnRecords, OwedRecords, OwedCounts, [Next]_vars
    PROVE  OwedRecords' /\ OwedCounts'
<1>1. CASE UNCHANGED Ledger /\ RecordsStay({})
  <2>1. UNCHANGED <<nextSlot, target, tracked, owed>> /\ tracked \subseteq Slots
    BY <1>1 DEF Ledger, TypeOK
  <2>2. OwedRecords'
    BY <1>1, <2>1, OwedKept
  <2>3. \A x : Aimed(x)' = Aimed(x)
    BY <1>1, <2>1, OwedToStays DEF Aimed
  <2>4. OwedCounts'
    BY <2>1, <2>3 DEF OwedCounts, Counts
  <2>. QED  BY <2>2, <2>4
<1>2. ASSUME NEW t \in Threads, NEW x \in Actors \cup Pools, NEW c \in SUBSET Slots,
             Mint(t, x, x, c), UNCHANGED waiterVars
      PROVE  OwedRecords' /\ OwedCounts'
  BY <1>2, CountMint
<1>3. ASSUME NEW t \in Threads, MintWaiter(t)
      PROVE  OwedRecords' /\ OwedCounts'
  <2>1. PICK w \in Wids : Mint(t, w, Serves[t], {})
    BY <1>3, MintWaiterRecord
  <2>2. Serves[t] \in Actors \cup Pools
    BY ConstantsAssumption DEF ConstantsAssumption
  <2>. QED  BY <1>3, <2>1, <2>2, CountMint
<1>4. ASSUME NEW s \in Slots, Release(s), UNCHANGED <<nextSlot, target>>, RecordsStay({s})
      PROVE  OwedRecords' /\ OwedCounts'
  BY <1>4, CountRelease
<1>. QED  BY <1>1, <1>2, <1>3, <1>4, ReplyKinds

\* Nothing is owed at first.
LEMMA InitOwed == Init => OwedRecords /\ OwedCounts
<1>. SUFFICES ASSUME Init PROVE OwedRecords /\ OwedCounts
  OBVIOUS
<1>1. tracked = {} /\ \A x \in Actors \cup Pools : owed[x] = 0
  BY DEF Init
<1>2. \A x : Aimed(x) = {}
  BY <1>1 DEF Aimed
<1>. QED  BY <1>1, <1>2, FS_EmptySet DEF OwedRecords, RecordsOf, OwedCounts, Counts

\* `owed', which a pool's retirement and the idle report go by, counts exactly
\* the replies the program still owes there: none twice, and none of a record
\* that has changed hands.
THEOREM RepliesAreCounted == Spec => []OwedIsExact
<1>1. Typed /\ OwnRecords /\ OwedRecords /\ OwedCounts /\ [Next]_vars
        => (OwnRecords /\ OwedRecords /\ OwedCounts)'
  BY OwnStep, OwedStep DEF Typed
<1>2. OwedCounts => OwedIsExact
  BY DEF OwedCounts, OwedIsExact, Counts, Aimed
<1>3. Init => OwnRecords /\ OwedRecords /\ OwedCounts
  BY InitWaits, InitOwed
<1>. QED  BY <1>1, <1>2, <1>3, TypesAreKept, PTL DEF Spec

\* A host thread begins with the tokens the program gives it.
LEMMA HostMoves ==
    ASSUME TypeOK, FramesAreNested, NoRepeats, Minted, NEW t \in Threads, NEW h \in Hosts,
           NEW S \in SUBSET Slots, HostOpens(t, h, S)
    PROVE  NoRepeats' /\ TokenMove
<1>1. /\ pc[t] = "run" /\ pc[h] = "unborn" /\ S \subseteq held[Me(t)]
      /\ held' = [held EXCEPT ![Me(t)] = @ \ S, ![h] = S]
      /\ UNCHANGED <<sending, bulk, watchers, idleHooks, waiterVars, queue>>
  BY DEF HostOpens, Does, Runs, actorVars
<1>. PICK o \in Owners : o = Me(t)
  BY <1>1, MeOwns
<1>2. h \in Owners /\ held[h] = {} /\ held \in [Owners -> SUBSET Slots]
  BY <1>1 DEF Minted, UnbornHoldNone, Owners, Threads, TypeOK
<1>3. NoRepeats'
  BY <1>1 DEF NoRepeats
<1>4. RecordsStay({})
  BY <1>1 DEF RecordsStay, waiterVars
<1>5. CASE o = h
  <2>1. held' = held
    BY <1>1, <1>2, <1>5
  <2>2. \A c \in Spots \ {} : At(c)' = At(c)
    BY <1>1, <2>1, SpotsSame
  <2>. QED  BY <1>3, <1>4, <2>2, NoneMoves
<1>6. CASE o # h
  <2>. PICK from, to : from = <<"held", o>> /\ to = <<"held", h>>
    OBVIOUS
  <2>1. /\ held'[o] = held[o] \ S /\ held'[h] = S
        /\ \A x \in Owners : x # o /\ x # h => held'[x] = held[x]
    BY <1>1, <1>2, <1>6
  <2>2. /\ from \in Spots /\ to \in Spots /\ from # to /\ S \subseteq At(from)
        /\ At(from)' = At(from) \ S /\ At(to)' = At(to) \cup S
    <3>1. /\ from \in Spots /\ At(from) = held[o] /\ At(from)' = held'[o]
          /\ to \in Spots /\ At(to) = held[h] /\ At(to)' = held'[h]
      BY <1>2, HeldSpots
    <3>2. from # to
      BY <1>6
    <3>. QED  BY <1>1, <1>2, <2>1, <3>1, <3>2
  <2>3. \A c \in Spots \ {from, to} : At(c)' = At(c)
    BY <1>1, <2>1, SpotsSame
  <2>4. Moved(from, S, to)
    BY <2>2, <2>3, MovedBy
  <2>. QED  BY <1>3, <1>4, <2>2, <2>4 DEF TokenMove
<1>. QED  BY <1>5, <1>6

\* The next token of the list is delivered.
LEMMA BulkMoves ==
    ASSUME TypeOK, NoRepeats, DeliverNext
    PROVE  NoRepeats' /\ TokenMove
<1>. PICK from, q, s : from = <<"bulk", Nobody>> /\ q = bulk.tokens /\ s = Head(q)
  OBVIOUS
<1>1. q \in Seq(Slots) /\ q # <<>> /\ bulk'.tokens = Tail(q) /\ s \in Slots /\ DeliverTo(s)
  <2>1. q \in Seq(Slots) /\ q # <<>> /\ bulk'.tokens = Tail(q) /\ DeliverTo(s)
    BY DEF DeliverNext, TypeOK, BulkRec
  <2>. QED  BY <2>1, HeadTailProperties
<1>2. /\ UNCHANGED <<held, sending, watchers, idleHooks>>
      /\ \A b \in Actors : \A r \in Slots :
           Delivered(r) \in ToSet(queue'[b]) <=> Delivered(r) \in ToSet(queue[b])
      /\ \A b \in Actors : Once(queue'[b], Carrying)
  BY <1>1, DeliveryIsQuiet, QuietQueues DEF DeliverNext, NoRepeats
<1>3. Once(Tail(q), Slots) /\ s \notin ToSet(Tail(q)) /\ ToSet(q) = ToSet(Tail(q)) \cup {s}
  BY <1>1, OnceTail, ToSetTail DEF NoRepeats
<1>4. NoRepeats'
  BY <1>1, <1>2, <1>3 DEF NoRepeats
<1>5. /\ from \in Spots /\ {s} \subseteq At(from) /\ At(from)' = At(from) \ {s} /\ from # Nowhere
  <2>1. from \in Spots /\ At(from) = ToSet(q) /\ At(from)' = ToSet(Tail(q))
    BY <1>1, ListSpots
  <2>. QED  BY <1>3, <2>1, NowhereIsNot
<1>6. \A c \in Spots \ {from, Nowhere} : At(c)' = At(c)
  BY <1>2, SpotsSame
<1>7. Moved(from, {s}, Nowhere)
  BY <1>5, <1>6, NowhereIsNot, MovedBy
<1>. QED  BY <1>1, <1>4, <1>7 DEF TokenMove

\* The idle hooks become the list that is delivered.
LEMMA HooksMove ==
    ASSUME TypeOK, NoRepeats, RecordsStay({}), UNCHANGED <<queue, held, sending, watchers>>,
           idleHooks' = <<>>, bulk.tokens = <<>>, bulk'.tokens = idleHooks
    PROVE  NoRepeats' /\ TokenMove
<1>. PICK from, to : from = <<"idle", Nobody>> /\ to = <<"bulk", Nobody>>
  OBVIOUS
<1>. PICK S : S = ToSet(idleHooks)
  OBVIOUS
<1>1. ToSet(<<>>) = {} /\ S \subseteq Slots
  BY ToSetSeq DEF ToSet, TypeOK
<1>2. NoRepeats'
  BY DEF NoRepeats, Once
<1>3. /\ from \in Spots /\ to \in Spots /\ from # to /\ S = At(from)
      /\ At(from)' = At(from) \ S /\ At(to)' = At(to) \cup S
  BY <1>1, ListSpots
<1>4. \A c \in Spots \ {from, to} : At(c)' = At(c)
  BY SpotsSame
<1>5. Moved(from, S, to)
  BY <1>3, <1>4, MovedBy
<1>. QED  BY <1>1, <1>2, <1>3, <1>5 DEF TokenMove

\* The token of the message taken goes to its receiver.
LEMMA TakeMoves ==
    ASSUME TypeOK, Singly, NoRepeats, NEW t \in Threads, NEW own, TakeWork(t, own),
           RecordsStay({})
    PROVE  NoRepeats' /\ TokenMove
<1>1. UNCHANGED <<sending, watchers, idleHooks, bulk>>
  BY DEF TakeWork, TakeTask, TakeEntry, TakeEntryOf, actorVars
<1>2. CASE TakeTask(t)
  <2>1. UNCHANGED <<queue, held>>
    BY <1>2 DEF TakeTask, actorVars
  <2>2. \A c \in Spots \ {} : At(c)' = At(c)
    BY <1>1, <2>1, SpotsSame
  <2>3. NoRepeats'
    BY <1>1, <2>1 DEF NoRepeats
  <2>. QED  BY <2>2, <2>3, NoneMoves
<1>3. ASSUME NEW a \in Actors, NEW k \in DOMAIN queue[a], TakeEntryOf(t, own, a, k)
      PROVE  NoRepeats' /\ TokenMove
  <2>. PICK e : e = queue[a][k]
    OBVIOUS
  <2>. PICK S : S = IF e.kind = "msg" THEN {e.id} \ {0} ELSE {}
    OBVIOUS
  <2>. PICK from, to : from = <<"queue", a>> /\ to = <<"held", a>>
    OBVIOUS
  <2>1. /\ queue[a] \in Seq(Entry) /\ queue \in [Actors -> Seq(Entry)] /\ a \in Owners
        /\ held \in [Owners -> SUBSET Slots]
    BY DEF TypeOK, Owners
  <2>2. /\ queue'[a] = RemoveAt(queue[a], k) /\ \A b \in Actors : b # a => queue'[b] = queue[b]
        /\ held'[a] = held[a] \cup S /\ \A o \in Owners : o # a => held'[o] = held[o]
    BY <1>3, <2>1 DEF TakeEntryOf
  <2>3. /\ Once(queue'[a], Carrying) /\ ToSet(queue'[a]) \cup {e} = ToSet(queue[a])
        /\ e \in Carrying => e \notin ToSet(queue'[a])
    BY <2>1, <2>2, OnceRemove DEF NoRepeats
  <2>4. /\ S \subseteq Slots /\ \A r \in Slots : e = Delivered(r) <=> r \in S
    <3>1. e \in Entry
      BY <2>1, LenProperties, ElementOfSeq
    <3>2. CASE \E r \in Slots \cup {0} : e = Delivered(r)
      <4>1. 0 \notin Slots
        BY DEF Slots
      <4>. QED  BY <3>2, <4>1 DEF Delivered
    <3>3. CASE \E r \in Slots : e = Answered(r)
      BY <3>3 DEF Delivered, Answered
    <3>4. CASE e = Reported
      BY <3>4 DEF Delivered, Reported
    <3>. QED  BY <3>1, <3>2, <3>3, <3>4 DEF Entry
  <2>5. NoRepeats'
    BY <1>1, <2>2, <2>3 DEF NoRepeats
  <2>6. /\ from \in Spots /\ to \in Spots /\ from # to /\ S \subseteq At(from)
        /\ At(from)' = At(from) \ S /\ At(to)' = At(to) \cup S
    <3>1. /\ from \in Spots /\ At(from) = {r \in Slots : Delivered(r) \in ToSet(queue[a])}
          /\ At(from)' = {r \in Slots : Delivered(r) \in ToSet(queue'[a])}
          /\ to \in Spots /\ At(to) = held[a] /\ At(to)' = held'[a]
      BY <2>1, QueueSpots, HeldSpots
    <3>2. \A r \in Slots : r \in S => Delivered(r) \in Carrying
      BY DEF Carrying
    <3>3. At(from)' = At(from) \ S /\ S \subseteq At(from)
      BY <2>3, <2>4, <3>1, <3>2
    <3>. QED  BY <2>2, <3>1, <3>3
  <2>7. \A c \in Spots \ {from, to} : At(c)' = At(c)
    BY <1>1, <2>2, SpotsSame
  <2>8. Moved(from, S, to)
    BY <2>6, <2>7, MovedBy
  <2>. QED  BY <2>4, <2>5, <2>6, <2>8 DEF TokenMove
<1>. QED  BY <1>2, <1>3 DEF TakeWork, TakeEntry

\* A report to a sink carries none.
LEMMA ReportIsQuiet ==
    ASSUME NEW B, \A b \in Actors : queue'[b] = IF b \in B THEN Append(queue[b], Reported)
                                                ELSE queue[b]
    PROVE  QuietPosts
<1>1. Reported \in Entry /\ Reported.kind # "msg"
  BY DEF Reported, Entry
<1>. QED  BY <1>1 DEF QuietPosts

\* A task that returns has no token left; one that faults drops what it has.
LEMMA TaskMoves ==
    ASSUME TypeOK, FramesAreNested, NoRepeats, NEW t \in Threads,
           TaskReturns(t) \/ TaskFaults(t)
    PROVE  NoRepeats' /\ TokenMove
<1>. PICK sinks : TaskEnds(t, sinks)
  BY DEF TaskReturns, TaskFaults
<1>1. /\ pc[t] = "run" /\ UNCHANGED <<sending, bulk, watchers, idleHooks, waiterVars>>
      /\ held' = [held EXCEPT ![Me(t)] = {}]
  BY DEF TaskEnds, Ends, Runs
<1>. PICK o \in Owners : o = Me(t)
  BY <1>1, MeOwns
<1>. PICK from, S : from = <<"held", o>> /\ S = held[o]
  OBVIOUS
<1>2. QuietPosts
  BY ReportIsQuiet DEF TaskEnds
<1>3. /\ \A b \in Actors : \A r \in Slots :
           Delivered(r) \in ToSet(queue'[b]) <=> Delivered(r) \in ToSet(queue[b])
      /\ \A b \in Actors : Once(queue'[b], Carrying)
  BY <1>2, QuietQueues DEF NoRepeats
<1>4. NoRepeats'
  BY <1>1, <1>3 DEF NoRepeats
<1>5. RecordsStay({})
  BY <1>1 DEF RecordsStay, waiterVars
<1>6. S \subseteq Slots /\ held'[o] = {} /\ \A x \in Owners : x # o => held'[x] = held[x]
  BY <1>1 DEF TypeOK
<1>7. from \in Spots /\ from # Nowhere /\ S \subseteq At(from) /\ At(from)' = At(from) \ S
  <2>1. from \in Spots /\ At(from) = held[o] /\ At(from)' = held'[o]
    BY HeldSpots
  <2>. QED  BY <1>6, <2>1, NowhereIsNot
<1>8. \A c \in Spots \ {from, Nowhere} : At(c)' = At(c)
  BY <1>1, <1>3, <1>6, SpotsSame
<1>9. Moved(from, S, Nowhere)
  BY <1>7, <1>8, NowhereIsNot, MovedBy
<1>10. \A s \in S : Dropped(s)
  BY DEF Dropped, TaskReturns
<1>. QED  BY <1>4, <1>5, <1>6, <1>9, <1>10 DEF TokenMove

\* A death drops what the actor had and what its mailbox carried, and nothing
\* else: its watchers are the list that is delivered.
LEMMA FaultPasses ==
    ASSUME TypeOK, FramesAreNested, OneActivation, NoRepeats, NEW t \in Threads, ActorFaults(t)
    PROVE  /\ NoRepeats' /\ RecordsStay({})
           /\ \E from, S, to : Passed(from, S, to) /\ to \in Spots
           /\ \A s \in Opens \ Opens' : \E a \in dead' :
                a \notin dead /\ (s \in held[a] \/ Delivered(s) \in ToSet(queue[a]))
<1>. PICK a \in Actors : a = Me(t)
  BY DEF ActorFaults
<1>1. /\ bulk = Free /\ bulk'.tokens = watchers[a] /\ UNCHANGED <<sending, idleHooks, waiterVars>>
      /\ held' = [held EXCEPT ![a] = {}] /\ watchers' = [watchers EXCEPT ![a] = <<>>]
      /\ dead' = dead \cup {a}
  BY DEF ActorFaults, Ends, Runs
<1>. PICK from, to : from = <<"watch", a>> /\ to = <<"bulk", Nobody>>
  OBVIOUS
<1>. PICK S : S = ToSet(watchers[a])
  OBVIOUS
<1>2. /\ queue'[a] = <<>> /\ ToSet(<<>>) = {}
      /\ \A b \in Actors : b # a => \/ queue'[b] = queue[b]
                                    \/ queue'[b] = Append(queue[b], Reported)
  BY DEF ActorFaults, ToSet
<1>3. ASSUME NEW b \in Actors
      PROVE  /\ Once(queue'[b], Carrying)
             /\ \A r \in Slots : Delivered(r) \in ToSet(queue'[b]) => Delivered(r) \in ToSet(queue[b])
             /\ b # a => \A r \in Slots :
                  Delivered(r) \in ToSet(queue[b]) => Delivered(r) \in ToSet(queue'[b])
  <2>1. CASE b = a
    BY <1>2, <2>1 DEF Once
  <2>2. CASE b # a
    <3>1. queue[b] \in Seq(Entry) /\ Reported \in Entry /\ Once(queue[b], Carrying)
      BY DEF TypeOK, Entry, NoRepeats
    <3>2. Reported \notin Carrying /\ \A r : Delivered(r) # Reported
      BY DEF Carrying, Delivered, Reported
    <3>3. /\ ToSet(Append(queue[b], Reported)) = ToSet(queue[b]) \cup {Reported}
          /\ Once(Append(queue[b], Reported), Carrying)
      BY <3>1, <3>2, ToSetAppend, OnceAppend
    <3>4. CASE queue'[b] = queue[b]
      BY <2>2, <3>1, <3>4
    <3>5. CASE queue'[b] = Append(queue[b], Reported)
      BY <2>2, <3>2, <3>3, <3>5
    <3>. QED  BY <1>2, <2>2, <3>4, <3>5
  <2>. QED  BY <2>1, <2>2
<1>4. /\ held'[a] = {} /\ \A o \in Owners : o # a => held'[o] = held[o]
      /\ watchers'[a] = <<>> /\ \A b \in Actors : b # a => watchers'[b] = watchers[b]
      /\ a \in Owners
  BY <1>1 DEF TypeOK, Owners
<1>5. NoRepeats'
  BY <1>1, <1>2, <1>3, <1>4 DEF NoRepeats, Once
<1>6. RecordsStay({})
  BY <1>1 DEF RecordsStay, waiterVars
<1>7. /\ from \in Spots /\ to \in Spots /\ from # to /\ S = At(from) /\ At(from)' = {}
      /\ At(to) = {} /\ At(to)' = S
  <2>1. /\ from \in Spots /\ At(from) = ToSet(watchers[a]) /\ At(from)' = ToSet(watchers'[a])
        /\ to \in Spots /\ At(to) = ToSet(bulk.tokens) /\ At(to)' = ToSet(bulk'.tokens)
    BY WatchSpots, ListSpots
  <2>2. bulk.tokens = <<>>
    BY <1>1 DEF Free
  <2>. QED  BY <1>1, <1>2, <1>4, <2>1, <2>2
<1>. PICK hand, box : hand = <<"held", a>> /\ box = <<"queue", a>>
  OBVIOUS
<1>8. \A c \in Spots \ {from, to, hand, box} : At(c)' = At(c)
  BY <1>1, <1>3, <1>4, SpotsSame
<1>9. /\ At(hand)' = {} /\ At(hand) = held[a]
      /\ At(box) = {r \in Slots : Delivered(r) \in ToSet(queue[a])} /\ At(box)' = {}
  BY <1>2, <1>4, HeldSpots, QueueSpots
<1>10. Passed(from, S, to)
  BY <1>7, <1>8, <1>9 DEF Passed
<1>11. ASSUME NEW s \in Opens \ Opens'
       PROVE  s \in held[a] \/ Delivered(s) \in ToSet(queue[a])
  <2>1. PICK c \in Spots : s \in At(c)
    BY DEF Opens
  <2>2. s \notin At(c)' /\ s \notin At(to)'
    BY <1>7, <1>11 DEF Opens, Spots
  <2>3. c \in {hand, box}
    BY <1>7, <1>8, <2>1, <2>2
  <2>. QED  BY <1>9, <2>1, <2>3
<1>12. a \notin dead
  <2>1. stack[t] # <<>>
    BY RunsHasFrame DEF ActorFaults, Ends, Runs
  <2>. QED  BY <2>1, MeIsRunning
<1>. QED  BY <1>1, <1>5, <1>6, <1>7, <1>10, <1>11, <1>12

(***************************************************************************)
(* Tokens minted, and what each step does with tokens.                     *)
(***************************************************************************)
\* A token minted is new, and the code that mints it has it; a task minted has
\* the token it captured.
LEMMA MintMoves ==
    ASSUME TypeOK, FramesAreNested, Singly, NoRepeats, Minted, NEW t \in Threads, pc[t] = "run",
           NEW place, NEW to, NEW c \in SUBSET Slots, c \subseteq held[Me(t)], Mint(t, place, to, c),
           UNCHANGED <<queue, watchers, sending, idleHooks, bulk>>, NEW n, n = nextSlot + 1
    PROVE  /\ n \in Slots /\ n \notin Opens /\ nextSlot' = n
           /\ NoRepeats' /\ Singly' /\ Opens' = Opens \cup {n}
<1>. PICK o \in Owners : o = Me(t)
  BY MeOwns
<1>. PICK from, into : from = <<"held", o>> /\ into = <<"held", n>>
  OBVIOUS
<1>1. /\ n \in Slots /\ n \in Owners /\ nextSlot \in Nat /\ nextSlot' = n
      /\ held' = [held EXCEPT ![o] = (@ \ c) \cup {n}, ![n] = c]
  BY DEF Mint, Owners, TypeOK, Slots
<1>2. ~(n <= nextSlot) /\ n > nextSlot
  BY <1>1
<1>3. n \notin Opens /\ held[n] = {} /\ o # n
  <2>1. stack[t] # <<>>
    BY RunsHasFrame
  <2>2. Len(stack[t]) \in DOMAIN stack[t] /\ Me(t) = stack[t][Len(stack[t])].who
    BY <2>1, TopType DEF Me
  <2>3. o \in Slots => o <= nextSlot
    BY <2>2 DEF Minted, NamesMinted
  <2>. QED  BY <1>1, <1>2, <2>3 DEF Minted, UnbornHoldNone
<1>4. /\ held'[o] = (held[o] \ c) \cup {n} /\ held'[n] = c
      /\ \A x \in Owners : x # o /\ x # n => held'[x] = held[x]
  BY <1>1, <1>3 DEF TypeOK
<1>5. /\ from \in Spots /\ into \in Spots /\ from # into
      /\ c \subseteq At(from) /\ At(from)' = (At(from) \ c) \cup {n}
      /\ At(into) = {} /\ At(into)' = c
  <2>1. /\ from \in Spots /\ At(from) = held[o] /\ At(from)' = held'[o]
        /\ into \in Spots /\ At(into) = held[n] /\ At(into)' = held'[n]
    BY <1>1, HeldSpots
  <2>. QED  BY <1>3, <1>4, <2>1
<1>6. \A d \in Spots \ {from, into} : At(d)' = At(d)
  BY <1>4, SpotsSame
<1>7. NoRepeats'
  BY DEF NoRepeats
<1>8. \A d \in Spots : n \notin At(d)
  BY <1>3 DEF Opens
<1>9. Singly'
  <2>1. SUFFICES ASSUME NEW d \in Spots, NEW e \in Spots, d # e, NEW s \in At(d)', s \in At(e)'
                 PROVE  FALSE
    BY DEF Singly, Spots
  <2>2. \A f \in Spots : At(f) \cap c # {} => f = from
    BY <1>5 DEF Singly
  <2>. QED  BY <1>5, <1>6, <1>8, <2>1, <2>2 DEF Singly
<1>10. Opens' = Opens \cup {n}
  <2>1. Opens' \subseteq Opens \cup {n}
    BY <1>5, <1>6 DEF Opens, Spots
  <2>2. \A d \in Spots : At(d) \subseteq At(d)' \/ d = from
    BY <1>5, <1>6
  <2>3. At(from) \cup {n} \subseteq At(from)' \cup At(into)'
    BY <1>5
  <2>4. Opens \cup {n} \subseteq Opens'
    BY <1>5, <2>2, <2>3 DEF Opens, Spots
  <2>. QED  BY <2>1, <2>4
<1>. QED  BY <1>1, <1>3, <1>7, <1>9, <1>10

\* A step that mints the next token.
MintStep(n) ==
    /\ n = nextSlot + 1 /\ n \in Slots /\ n \notin Opens /\ nextSlot' = n
    /\ NoRepeats' /\ Singly' /\ Opens' = Opens \cup {n}

\* A step that changes no token, nor the waits of the records.
LEMMA TokensStill ==
    ASSUME TypeOK, NoRepeats, QuietPosts, RecordsStay({}),
           UNCHANGED <<held, watchers, sending, idleHooks>>, bulk'.tokens = bulk.tokens
    PROVE  NoRepeats' /\ TokenMove
<1>1. /\ \A b \in Actors : \A r \in Slots :
           Delivered(r) \in ToSet(queue'[b]) <=> Delivered(r) \in ToSet(queue[b])
      /\ \A b \in Actors : Once(queue'[b], Carrying)
  BY QuietQueues DEF NoRepeats
<1>2. NoRepeats'
  BY <1>1 DEF NoRepeats
<1>3. \A c \in Spots \ {} : At(c)' = At(c)
  BY <1>1, SpotsSame
<1>. QED  BY <1>2, <1>3, NoneMoves

\* What program code does with tokens.
LEMMA ProgramMoves ==
    ASSUME TypeOK, FramesAreNested, WaitersExist, Singly, NoRepeats, Minted,
           NEW t \in Threads, Program(t)
    PROVE  \/ NoRepeats' /\ TokenMove
           \/ ActorFaults(t)
           \/ \E n : MintStep(n)
<1>. PICK n : n = nextSlot + 1
  OBVIOUS
<1>1. ASSUME NEW gated \in BOOLEAN, MintActor(t, gated)
      PROVE  MintStep(n)
  <2>1. /\ Mint(t, Me(t), Me(t), {}) /\ pc[t] = "run" /\ {} \in SUBSET Slots
        /\ UNCHANGED <<queue, watchers, sending, idleHooks, bulk>>
    BY <1>1 DEF MintActor, Runs, threadVars
  <2>. QED  BY <2>1, MintMoves DEF MintStep
<1>2. ASSUME NEW p \in Pools, NEW c \in SUBSET Slots, MintTask(t, p, c)
      PROVE  MintStep(n)
  <2>1. /\ Mint(t, p, p, c) /\ pc[t] = "run" /\ c \subseteq held[Me(t)]
        /\ UNCHANGED <<queue, watchers, sending, idleHooks, bulk>>
    BY <1>2 DEF MintTask, Does, Runs, threadVars, actorVars
  <2>. QED  BY <2>1, MintMoves DEF MintStep
<1>3. ASSUME MintWaiter(t)
      PROVE  MintStep(n)
  <2>1. PICK w : Mint(t, w, Serves[t], {})
    BY <1>3 DEF MintWaiter
  <2>2. /\ pc[t] = "run" /\ {} \in SUBSET Slots
        /\ UNCHANGED <<queue, watchers, sending, idleHooks, bulk>>
    BY <1>3 DEF MintWaiter, Does, Runs, actorVars
  <2>. QED  BY <2>1, <2>2, MintMoves DEF MintStep
<1>4. ASSUME NEW a \in Actors, NEW s \in Slots \cup {0}, Send(t, a, s)
      PROVE  NoRepeats' /\ TokenMove
  BY <1>4, SendMoves
<1>5. ASSUME NEW s \in Slots, Answer(t, s) \/ OnIdle(t, s) \/ \E a \in Actors : Watch(t, a, s)
      PROVE  NoRepeats' /\ TokenMove
  BY <1>5, AnswerMoves
<1>6. CASE \/ Await(t) \/ \E p \in Pools : NewPool(t, p)
           \/ \E a \in Actors : NewActor(t, a)
  <2>1. UNCHANGED <<queue, held, watchers, sending, idleHooks, bulk, waiterVars>>
    BY <1>6 DEF Await, NewPool, NewActor, actorVars, tokenVars, threadVars
  <2>. QED  BY <2>1, TokensStill DEF QuietPosts, RecordsStay, waiterVars
<1>7. ASSUME NEW h \in Hosts, NEW c \in SUBSET Slots, HostOpens(t, h, c)
      PROVE  NoRepeats' /\ TokenMove
  BY <1>7, HostMoves
<1>8. CASE TaskFaults(t)
  BY <1>8, TaskMoves
<1>. QED  BY <1>1, <1>2, <1>3, <1>4, <1>5, <1>6, <1>7, <1>8 DEF Program

\* What the runtime does with tokens.
LEMMA RuntimeMoves ==
    ASSUME TypeOK, FramesAreNested, WaitersExist, Singly, NoRepeats,
           NEW t \in Threads, Runtime(t)
    PROVE  NoRepeats' /\ TokenMove
<1>1. CASE Resend(t)
  BY <1>1, ResendMoves
<1>2. CASE Park(t) \/ ActorReturns(t) \/ NextRetires(t)
  <2>1. UNCHANGED <<queue, held, watchers, sending, idleHooks, bulk, waiterVars>>
    BY <1>2 DEF Park, ActorReturns, Ends, NextRetires, actorVars, tokenVars
  <2>. QED  BY <2>1, TokensStill DEF QuietPosts, RecordsStay, waiterVars
<1>3. CASE TaskReturns(t)
  BY <1>3, TaskMoves
<1>4. CASE NextWork(t)
  <2>1. TakeWork(t, Nobody) /\ UNCHANGED waiterVars
    BY <1>4 DEF NextWork, TakeWork, waiterVars
  <2>. QED  BY <2>1, TakeMoves DEF RecordsStay, waiterVars
<1>5. CASE WaitWork(t)
  <2>1. RecordsStay({})
    BY <1>5, BookRecords DEF WaitWork, TakeWork
  <2>. QED  BY <1>5, <2>1, TakeMoves DEF WaitWork
<1>6. CASE WaitGot(t)
  <2>1. UNCHANGED <<queue, held, watchers, sending, idleHooks, bulk>>
    BY <1>6 DEF WaitGot, actorVars, tokenVars
  <2>. QED  BY <1>6, <2>1, GotRecords, TokensStill DEF QuietPosts
<1>7. CASE NextSleeps(t)
  <2>1. UNCHANGED <<queue, held, watchers, sending, waiterVars>> /\ bulk = Free
    BY <1>7 DEF NextSleeps, Looks, actorVars, tokenVars
  <2>2. RecordsStay({}) /\ bulk.tokens = <<>> /\ Free.tokens = <<>>
    BY <2>1 DEF RecordsStay, waiterVars, Free
  <2>3. \/ idleHooks' = <<>> /\ bulk'.tokens = idleHooks
        \/ idleHooks' = idleHooks /\ bulk'.tokens = <<>>
    BY <1>7, <2>2 DEF NextSleeps
  <2>. QED  BY <2>1, <2>2, <2>3, HooksMove, TokensStill DEF QuietPosts
<1>8. CASE WaitIdles(t)
  <2>1. /\ UNCHANGED <<queue, held, watchers, sending>> /\ bulk = Free
        /\ \/ idleHooks' = <<>> /\ bulk'.tokens = idleHooks
           \/ UNCHANGED <<idleHooks, bulk>>
    BY <1>8 DEF WaitIdles, WaitLooks, Looks, actorVars, tokenVars
  <2>2. RecordsStay({}) /\ bulk.tokens = <<>>
    BY <1>8, <2>1, BookRecords DEF WaitIdles, Free
  <2>. QED  BY <2>1, <2>2, HooksMove, TokensStill DEF QuietPosts
<1>. QED  BY <1>1, <1>2, <1>3, <1>4, <1>5, <1>6, <1>7, <1>8 DEF Runtime

\* What any step does with tokens.
LEMMA TokenKinds ==
    ASSUME TypeOK, FramesAreNested, WaitersExist, Singly, NoRepeats, Minted, [Next]_vars
    PROVE  \/ NoRepeats' /\ TokenMove
           \/ \E t \in Threads : ActorFaults(t)
           \/ \E n : MintStep(n)
<1>1. CASE \/ UNCHANGED vars \/ EndBulk \/ MainReturns \/ Exited
           \/ \E h \in Threads : HostCloses(h)
  <2>1. /\ UNCHANGED <<queue, held, watchers, sending, idleHooks, waiterVars>>
        /\ bulk'.tokens = bulk.tokens
    BY <1>1 DEF vars, EndBulk, MainReturns, Exited, HostCloses, actorVars, tokenVars,
                threadVars, Free
  <2>. QED  BY <2>1, TokensStill DEF QuietPosts, RecordsStay, waiterVars
<1>. QED  BY <1>1, ProgramMoves, RuntimeMoves, BulkMoves DEF Next

(***************************************************************************)
(* Every token about has been minted.                                      *)
(***************************************************************************)
\* A token minted stays minted, and is for what it was minted for.
LEMMA MintedStays ==
    ASSUME TypeOK, FramesAreNested, WaitersExist, [Next]_vars
    PROVE  /\ nextSlot \in Nat /\ nextSlot' \in Nat /\ nextSlot <= nextSlot'
           /\ \A s \in Slots : s <= nextSlot => s <= nextSlot' /\ target'[s] = target[s]
<1>1. nextSlot \in Nat /\ Slots \subseteq Nat /\ target \in [Slots -> Places]
  BY DEF TypeOK, Slots
<1>2. ASSUME UNCHANGED <<nextSlot, target>>
      PROVE  /\ nextSlot' \in Nat /\ nextSlot <= nextSlot'
             /\ \A s \in Slots : s <= nextSlot => s <= nextSlot' /\ target'[s] = target[s]
  BY <1>1, <1>2
<1>3. ASSUME NEW t, NEW place, NEW to, NEW c, Mint(t, place, to, c)
      PROVE  /\ nextSlot' \in Nat /\ nextSlot <= nextSlot'
             /\ \A s \in Slots : s <= nextSlot => s <= nextSlot' /\ target'[s] = target[s]
  <2>1. nextSlot' = nextSlot + 1 /\ target' = [target EXCEPT ![nextSlot + 1] = place]
    BY <1>3 DEF Mint
  <2>2. \A s \in Slots : s # nextSlot + 1 => target'[s] = target[s]
    BY <1>1, <2>1
  <2>. QED  BY <1>1, <2>1, <2>2
<1>4. ASSUME NEW t \in Threads, MintWaiter(t)
      PROVE  \E w : Mint(t, w, Serves[t], {})
  BY <1>4 DEF MintWaiter
<1>. QED  BY <1>1, <1>2, <1>3, <1>4, ReplyKinds DEF Ledger

\* A host thread that has not begun had not begun before.
LEMMA UnbornBefore ==
    ASSUME TypeOK, FramesAreNested, WaitersExist, Rooted, [Next]_vars,
           NEW h \in Hosts, pc'[h] = "unborn"
    PROVE  pc[h] = "unborn"
<1>1. h \in Threads /\ h \notin Workers
  BY NamesAreDistinct DEF Threads
<1>2. ASSUME NoneOpens PROVE pc[h] = "unborn"
  BY <1>1, <1>2 DEF NoneOpens, Stays, Rooted
<1>. QED  BY <1>1, <1>2, OpenKinds, HostOpening, HostClosing

\* What has yet to begin comes by no tokens.
LEMMA UnbornStep ==
    ASSUME TypeOK, FramesAreNested, WaitersExist, Rooted, Minted, [Next]_vars
    PROVE  UnbornHoldNone'
<1>0. /\ \A s \in Slots : s \in Owners /\ s \notin Actors /\ s \notin Threads /\ s \in Nat
      /\ \A h \in Hosts : h \in Owners /\ h \notin Actors /\ h \in Threads
  BY NamesAreDistinct DEF Slots, Owners, Threads
<1>1. nextSlot \in Nat /\ nextSlot' \in Nat /\ nextSlot <= nextSlot'
  BY MintedStays
<1>2. /\ \A s \in Slots : s > nextSlot' => s > nextSlot
      /\ \A h \in Hosts : pc'[h] = "unborn" => pc[h] = "unborn"
  BY <1>0, <1>1, UnbornBefore
<1>3. CASE \A o \in Owners : held'[o] \subseteq held[o]
  BY <1>0, <1>2, <1>3 DEF UnbornHoldNone, Minted
<1>4. CASE \E a \in Actors : \A o \in Owners : o # a => held'[o] = held[o]
  BY <1>0, <1>2, <1>4 DEF UnbornHoldNone, Minted
<1>5. ASSUME NEW t \in Threads, NEW h \in Hosts, NEW c \in SUBSET Slots, HostOpens(t, h, c)
      PROVE  UnbornHoldNone'
  <2>1. held' = [held EXCEPT ![Me(t)] = @ \ c, ![h] = c] /\ pc'[h] = "run"
    BY <1>5, HostOpening DEF HostOpens
  <2>2. \A o \in Owners : o # h => held'[o] \subseteq held[o]
    BY <1>0, <2>1 DEF TypeOK
  <2>. QED  BY <1>0, <1>2, <2>1, <2>2 DEF UnbornHoldNone, Minted
<1>6. ASSUME NEW t \in Threads, Mints(t)
      PROVE  UnbornHoldNone'
  <2>. PICK place, to, c : Mint(t, place, to, c)
    BY <1>6 DEF Mints
  <2>. PICK o \in Owners : o = Me(t)
    BY <1>6, MeOwns DEF Mints
  <2>. PICK n : n = nextSlot + 1
    OBVIOUS
  <2>1. nextSlot' = n /\ held' = [held EXCEPT ![o] = (@ \ c) \cup {n}, ![n] = c]
    BY DEF Mint
  <2>2. \A x \in Owners : x # o /\ x # n => held'[x] = held[x]
    BY <2>1 DEF TypeOK
  <2>3. /\ Len(stack[t]) \in DOMAIN stack[t] /\ o = stack[t][Len(stack[t])].who
    <3>1. stack[t] # <<>>
      BY <1>6, RunsHasFrame DEF Mints
    <3>. QED  BY <3>1, TopType DEF Me
  <2>4. /\ o \in Slots => o <= nextSlot
        /\ o \in Hosts => pc[o] # "unborn"
    <3>1. o \in Hosts => o = t
      BY <1>0, <2>3 DEF Rooted
    <3>. QED  BY <1>6, <2>3, <3>1 DEF Minted, NamesMinted, Mints
  <2>5. \A s \in Slots : s > nextSlot' => s # o /\ s # n
    BY <1>0, <1>1, <2>1, <2>4
  <2>6. \A h \in Hosts : h # n /\ (pc'[h] = "unborn" => h # o)
    <3>1. n \in Slots
      BY DEF Mint
    <3>. QED  BY <1>0, <1>2, <2>4, <3>1
  <2>. QED  BY <1>0, <1>2, <2>2, <2>5, <2>6 DEF UnbornHoldNone, Minted
<1>. QED  BY <1>3, <1>4, <1>5, <1>6, HandKinds

\* A thread has a message to try again only while it sends.
LEMMA SendersStep ==
    ASSUME TypeOK, FramesAreNested, WaitersExist, OnlySendersSend, [Next]_vars
    PROVE  OnlySendersSend'
<1>1. ASSUME UNCHANGED <<pc, sending>> PROVE OnlySendersSend'
  BY <1>1 DEF OnlySendersSend
<1>2. ASSUME NEW t \in Threads, NEW l, Goto(t, l), UNCHANGED sending,
             pc[t] \notin {"send", "full"} \/ l = "send"
      PROVE  OnlySendersSend'
  BY <1>2, GotoEffect DEF OnlySendersSend
<1>3. ASSUME NEW t \in Threads, NEW a, NEW s, Enqueue(t, a, s)
      PROVE  OnlySendersSend'
  <2>0. sending \in [Threads -> SendRec]
    BY DEF TypeOK
  <2>1. \/ Goto(t, "run") /\ sending' = [sending EXCEPT ![t] = NotSending]
        \/ Goto(t, "full") /\ sending' = [sending EXCEPT ![t] = [to |-> a, tok |-> s]]
    BY <1>3 DEF Enqueue
  <2>2. \A u \in Threads : u # t => sending'[u] = sending[u] /\ pc'[u] = pc[u]
    BY <2>0, <2>1, GotoEffect
  <2>3. pc'[t] = "full" \/ sending'[t].tok = 0
    BY <2>0, <2>1, GotoEffect DEF NotSending
  <2>. QED  BY <2>2, <2>3 DEF OnlySendersSend
<1>4. ASSUME NEW t \in Threads, Program(t)
      PROVE  OnlySendersSend'
  <2>1. CASE \/ \E gated \in BOOLEAN : MintActor(t, gated)
             \/ \E p \in Pools, c \in SUBSET Slots : MintTask(t, p, c)
             \/ MintWaiter(t)
             \/ \E s \in Slots : Answer(t, s) \/ OnIdle(t, s)
             \/ \E a \in Actors, s \in Slots : Watch(t, a, s)
             \/ \E a \in Actors : NewActor(t, a)
    BY <1>1, <2>1 DEF MintActor, MintTask, MintWaiter, Answer, OnIdle, Watch, NewActor, threadVars
  <2>2. ASSUME NEW a \in Actors, NEW s \in Slots \cup {0}, Send(t, a, s)
        PROVE  OnlySendersSend'
    BY <1>3, <2>2 DEF Send
  <2>3. CASE Await(t) \/ ActorFaults(t) \/ TaskFaults(t)
    <3>1. Goto(t, "look") /\ UNCHANGED sending /\ pc[t] = "run"
      BY <2>3 DEF Await, ActorFaults, TaskFaults, TaskEnds, Ends, Runs
    <3>. QED  BY <1>2, <3>1
  <2>4. ASSUME NEW p \in Pools, NewPool(t, p)
        PROVE  OnlySendersSend'
    <3>1. /\ p \notin made /\ UNCHANGED sending
          /\ \A u \in Threads : pc'[u] = IF u \in Workers /\ Serves[u] = p THEN "look" ELSE pc[u]
      BY <2>4 DEF NewPool
    <3>2. \A u \in Threads : pc'[u] = pc[u] \/ pc[u] = "unborn"
      BY <3>1 DEF FramesAreNested
    <3>. QED  BY <3>1, <3>2 DEF OnlySendersSend
  <2>5. ASSUME NEW h \in Hosts, NEW c \in SUBSET Slots, HostOpens(t, h, c)
        PROVE  OnlySendersSend'
    <3>1. h \in Threads /\ Goto(h, "run") /\ pc[h] = "unborn" /\ UNCHANGED sending
      BY <2>5 DEF HostOpens, Threads
    <3>. QED  BY <1>2, <3>1
  <2>. QED  BY <1>4, <2>1, <2>2, <2>3, <2>4, <2>5 DEF Program
<1>5. ASSUME NEW t \in Threads, Runtime(t)
      PROVE  OnlySendersSend'
  <2>1. CASE Resend(t)
    BY <1>3, <2>1 DEF Resend
  <2>2. CASE Park(t)
    <3>1. /\ UNCHANGED sending
          /\ \/ Goto(t, "look") /\ pc[t] = "park"
             \/ Goto(t, "send")
      BY <2>2 DEF Park
    <3>. QED  BY <1>2, <3>1
  <2>3. CASE \/ ActorReturns(t) \/ TaskReturns(t) \/ NextRetires(t) \/ NextWork(t)
             \/ NextSleeps(t) \/ WaitGot(t) \/ WaitWork(t)
    <3>1. UNCHANGED sending /\ pc[t] \in {"run", "look"} /\ \E l : Goto(t, l)
      BY <2>3 DEF ActorReturns, TaskReturns, TaskEnds, Ends, Runs, NextRetires, NextWork,
                  NextSleeps, WaitGot, WaitWork, WaitLooks, Looks, TakeWork
    <3>. QED  BY <1>2, <3>1
  <2>4. CASE WaitIdles(t)
    <3>1. UNCHANGED sending /\ pc[t] = "look" /\ (UNCHANGED pc \/ Goto(t, "park"))
      BY <2>4 DEF WaitIdles, WaitLooks, Looks
    <3>. QED  BY <1>1, <1>2, <3>1
  <2>. QED  BY <1>5, <2>1, <2>2, <2>3, <2>4 DEF Runtime
<1>6. ASSUME NEW h \in Threads, HostCloses(h)
      PROVE  OnlySendersSend'
  <2>1. UNCHANGED sending /\ pc[h] = "run" /\ Goto(h, "done")
    BY <1>6 DEF HostCloses, Runs
  <2>. QED  BY <1>2, <2>1
<1>7. CASE UNCHANGED vars \/ DeliverNext \/ EndBulk \/ MainReturns \/ Exited
  BY <1>1, <1>7 DEF vars, DeliverNext, EndBulk, MainReturns, Exited, threadVars
<1>. QED  BY <1>4, <1>5, <1>6, <1>7 DEF Next

\* A token stays in one place, and all of them stay minted.
LEMMA TokensStep ==
    ASSUME Typed, Accounted, OneActivation, Singly, NoRepeats, Minted, [Next]_vars
    PROVE  Singly' /\ NoRepeats' /\ Minted'
<1>1. TypeOK /\ FramesAreNested /\ WaitersExist /\ OwnRecords /\ Rooted
  BY DEF Typed, Accounted
<1>2. nextSlot \in Nat /\ nextSlot' \in Nat /\ nextSlot <= nextSlot' /\ Slots \subseteq Nat
  BY <1>1, MintedStays DEF Slots
<1>3. \A s \in Slots : s <= nextSlot => s <= nextSlot'
  BY <1>1, MintedStays
<1>4. Opens \subseteq Slots
  BY <1>1, OpensType
<1>5. Singly' /\ NoRepeats' /\ \A s \in Opens' : s <= nextSlot'
  <2>1. CASE NoRepeats' /\ TokenMove
    BY <1>3, <1>4, <2>1, PassedTokens DEF TokenMove, Moved, Minted
  <2>2. ASSUME NEW t \in Threads, ActorFaults(t)
        PROVE  Singly' /\ NoRepeats' /\ \A s \in Opens' : s <= nextSlot'
    BY <1>1, <1>3, <1>4, <2>2, FaultPasses, PassedTokens DEF Minted
  <2>3. ASSUME NEW n, MintStep(n)
        PROVE  Singly' /\ NoRepeats' /\ \A s \in Opens' : s <= nextSlot'
    BY <1>2, <1>3, <1>4, <2>3 DEF Minted, MintStep
  <2>. QED  BY <1>1, <2>1, <2>2, <2>3, TokenKinds
<1>6. ASSUME NEW p \in Pools, NEW s \in ToSet(tasks'[p])
      PROVE  s <= nextSlot'
  <2>1. s \in Slots /\ s <= nextSlot
    <3>1. ToSet(tasks[p]) \subseteq Slots
      BY <1>1, ToSetSeq DEF TypeOK
    <3>. QED  BY <1>1, <1>4, <1>6, <3>1, ArrivalsStep DEF Minted
  <2>. QED  BY <1>3, <2>1
<1>7. NamesMinted(stack)'
  <2>1. NamesMinted(stack')
    BY <1>1, FramesStep
  <2>. QED  BY <1>3, <2>1 DEF NamesMinted
<1>. QED  BY <1>1, <1>5, <1>6, <1>7, UnbornStep, SendersStep DEF Minted

(***************************************************************************)
(* An open reply keeps its record.                                         *)
(***************************************************************************)
\* What the replies about rest on.
Kept == Accounted /\ OneActivation /\ Singly /\ NoRepeats /\ Minted /\ RecordsOf(Opens)

\* A mint gives the new reply a record of its own.
LEMMA OpenMint ==
    ASSUME TypeOK, FramesAreNested, WaitersExist, OwnRecords, RecordsOf(Opens), NEW t \in Threads,
           NEW place, NEW to \in Actors \cup Pools, NEW c, Mint(t, place, to, c),
           \/ place = to /\ UNCHANGED waiterVars
           \/ MintWaiter(t) /\ to = Serves[t]
    PROVE  /\ nextSlot' = nextSlot + 1 /\ nextSlot \in Nat
           /\ Opens' \subseteq Opens \cup {nextSlot'} => RecordsOf(Opens)'
<1>. PICK S, R, n : S = Opens /\ R = Opens' /\ n = nextSlot + 1
  OBVIOUS
<1>1. S \in SUBSET Slots /\ RecordsOf(S)
  BY OpensType
<1>2. RecordsOf(S \cup {n})'
  BY <1>1, MintIsNew
<1>3. nextSlot' = n /\ nextSlot \in Nat
  BY DEF Mint, TypeOK, Slots
<1>. QED  BY <1>2, <1>3 DEF RecordsOf

\* The replies still open keep their records.
LEMMA OpenRecordsStep ==
    ASSUME Typed, Kept, [Next]_vars
    PROVE  RecordsOf(Opens)'
<1>1. /\ TypeOK /\ FramesAreNested /\ WaitersExist /\ OwnRecords /\ OneActivation
      /\ Singly /\ NoRepeats /\ Minted /\ RecordsOf(Opens)
  BY DEF Typed, Kept, Accounted
<1>. PICK S, R : S = Opens /\ R = Opens'
  OBVIOUS
<1>2. S \in SUBSET Slots /\ RecordsOf(S)
  BY <1>1, OpensType
<1>3. ASSUME UNCHANGED <<nextSlot, target>>, NEW gone, RecordsStay(gone),
             R \subseteq S, R \cap gone = {}
      PROVE  RecordsOf(Opens)'
  <2>1. RecordsOf(R)'
    BY <1>1, <1>2, <1>3, RecordsKept
  <2>. QED  BY <2>1 DEF RecordsOf
<1>4. CASE UNCHANGED <<nextSlot, target>>
  <2>1. ASSUME NEW t \in Threads, ActorFaults(t)
        PROVE  RecordsOf(Opens)'
    BY <1>1, <1>3, <1>4, <2>1, FaultPasses, PassedTokens
  <2>2. ASSUME TokenMove
        PROVE  RecordsOf(Opens)'
    <3>1. PICK from, T, to :
             /\ Moved(from, T, to)
             /\ \/ RecordsStay({})
                \/ to = Nowhere /\ \E s \in Slots : T = {s} /\ DeliverTo(s)
      BY <2>2 DEF TokenMove
    <3>2. R \subseteq S /\ (to \notin Spots => R \cap T = {})
      BY <1>1, <3>1, PassedTokens DEF Moved
    <3>3. CASE RecordsStay({})
      BY <1>3, <1>4, <3>2, <3>3
    <3>4. ASSUME NEW s \in Slots, T = {s}, DeliverTo(s), to = Nowhere
          PROVE  RecordsOf(Opens)'
      BY <1>1, <1>3, <1>4, <3>2, <3>4, NowhereIsNot, DeliveryRecords
    <3>. QED  BY <3>1, <3>3, <3>4
  <2>3. ~\E n : MintStep(n)
    BY <1>1, <1>4, MintedStays DEF MintStep
  <2>. QED  BY <1>1, <2>1, <2>2, <2>3, TokenKinds
<1>5. ASSUME nextSlot' = nextSlot + 1, nextSlot \in Nat
      PROVE  Opens' \subseteq Opens \cup {nextSlot'}
  BY <1>1, <1>5, TokenKinds, PassedTokens, FaultPasses DEF TokenMove, Moved, MintStep
<1>6. ASSUME NEW t \in Threads, NEW x \in Actors \cup Pools, NEW c \in SUBSET Slots,
             Mint(t, x, x, c), UNCHANGED waiterVars
      PROVE  RecordsOf(Opens)'
  BY <1>1, <1>5, <1>6, OpenMint
<1>7. ASSUME NEW t \in Threads, MintWaiter(t)
      PROVE  RecordsOf(Opens)'
  <2>1. PICK w \in Wids : Mint(t, w, Serves[t], {})
    BY <1>1, <1>7, MintWaiterRecord
  <2>2. Serves[t] \in Actors \cup Pools
    BY ConstantsAssumption DEF ConstantsAssumption
  <2>. QED  BY <1>1, <1>5, <1>7, <2>1, <2>2, OpenMint
<1>. QED  BY <1>1, <1>4, <1>6, <1>7, ReplyKinds DEF Ledger

\* Each of them is kept.
LEMMA KeptStep ==
    ASSUME Typed, Kept, [Next]_vars
    PROVE  Kept'
<1>1. Accounted' /\ OneActivation'
  BY AccountedStep, OneStep DEF Kept, Typed
<1>2. Singly' /\ NoRepeats' /\ Minted'
  BY TokensStep DEF Kept
<1>. QED  BY <1>1, <1>2, OpenRecordsStep DEF Kept

\* No token has been minted at first.
LEMMA InitKept == Init => Kept
<1>. SUFFICES ASSUME Init PROVE Kept
  OBVIOUS
<1>1. /\ \A o \in Owners : held[o] = {}
      /\ \A a \in Actors : queue[a] = <<>> /\ watchers[a] = <<>>
      /\ \A p \in Pools : tasks[p] = <<>>
      /\ \A t \in Threads : sending[t].tok = 0
      /\ idleHooks = <<>> /\ bulk.tokens = <<>> /\ ToSet(<<>>) = {}
  BY DEF Init, Free, NotSending, ToSet
<1>2. \A c \in Spots : At(c) = {}
  <2>1. \A o \in Owners : At(<<"held", o>>) = {}
    BY <1>1, HeldSpots
  <2>2. \A a \in Actors : At(<<"queue", a>>) = {}
    BY <1>1, QueueSpots
  <2>3. \A a \in Actors : At(<<"watch", a>>) = {}
    BY <1>1, WatchSpots
  <2>4. \A t \in Threads : At(<<"send", t>>) = {}
    BY <1>1, SendSpots
  <2>5. At(<<"idle", Nobody>>) = {} /\ At(<<"bulk", Nobody>>) = {}
    BY <1>1, ListSpots
  <2>. QED  BY <2>1, <2>2, <2>3, <2>4, <2>5, SpotKinds
<1>3. Opens = {} /\ Singly
  BY <1>2 DEF Opens, Singly
<1>4. NoRepeats
  BY <1>1 DEF NoRepeats, Once
<1>5. UnbornHoldNone /\ OnlySendersSend
  BY <1>1 DEF UnbornHoldNone, OnlySendersSend, Owners, Threads
<1>6. NamesMinted(stack)
  <2>1. \A t \in Threads : t # Main => DOMAIN stack[t] = {}
    BY DEF Init
  <2>2. \A i \in DOMAIN stack[Main] : stack[Main][i].who = Main
    BY DEF Init, Threads, Running
  <2>3. Main \notin Slots
    BY NamesAreDistinct DEF Slots, Threads
  <2>. QED  BY <2>1, <2>2, <2>3 DEF NamesMinted
<1>. QED  BY <1>1, <1>3, <1>4, <1>5, <1>6, InitAccounted, InitOne DEF Kept, Minted, RecordsOf

\* A reply still open to a wait is aimed at the record of that wait: the record
\* was not given to another wait, nor filled by another answer.
THEOREM OpenWaitsAreSafe == Spec => []OpenWaitsKeepTheirRecord
<1>1. Kept => OpenWaitsKeepTheirRecord
  BY OpensAreSomewhere DEF Kept, OpenWaitsKeepTheirRecord, RecordsOf, OpenIsSomewhere
<1>2. Typed /\ Kept /\ [Next]_vars => Kept'
  BY KeptStep
<1>. QED  BY InitKept, <1>1, <1>2, TypesAreKept, PTL DEF Spec

(***************************************************************************)
(* No reply is answered twice, and none is lost.                           *)
(***************************************************************************)
\* Only a mint makes a record.
LEMMA RecordsAre ==
    ASSUME TypeOK, FramesAreNested, WaitersExist, [Next]_vars
    PROVE  DOMAIN waiters' = DOMAIN waiters \/ \E t \in Threads : MintWaiter(t)
<1>0. waiters \in Seq(WaiterRec)
  BY DEF TypeOK
<1>1. ASSUME NEW t \in Threads, WaitGot(t)
      PROVE  DOMAIN waiters' = DOMAIN waiters
  BY <1>1 DEF WaitGot
<1>2. ASSUME NEW t \in Threads, WaitWork(t)
      PROVE  DOMAIN waiters' = DOMAIN waiters
  BY <1>2 DEF WaitWork, Booked
<1>3. ASSUME NEW t \in Threads, WaitIdles(t)
      PROVE  DOMAIN waiters' = DOMAIN waiters
  BY <1>3 DEF WaitIdles, Booked
<1>. QED  BY <1>1, <1>2, <1>3, StepKinds
          DEF Quietly, TopEnds, Ends, NextWork, HostOpens, waiterVars

\* A reply comes due because it was open.
LEMMA DueStep ==
    ASSUME Typed, Kept, [Next]_vars, NEW s \in Slots, s <= nextSlot, Due(s)'
    PROVE  Due(s) \/ s \in Opens
<1>1. /\ TypeOK /\ FramesAreNested /\ WaitersExist /\ Singly /\ NoRepeats /\ Minted
      /\ waiters \in Seq(WaiterRec)
  BY DEF Typed, Kept, TypeOK
<1>2. ASSUME NEW a \in Actors, Answered(s) \in ToSet(queue'[a])
      PROVE  Due(s) \/ s \in Opens
  BY <1>1, <1>2, ArrivalsStep DEF Due
<1>3. ASSUME NEW p \in Pools, s \in ToSet(tasks'[p])
      PROVE  Due(s) \/ s \in Opens
  BY <1>1, <1>3, ArrivalsStep DEF Due
<1>4. ASSUME NEW w \in DOMAIN waiters', waiters'[w].slot = s, waiters'[w].filled
      PROVE  Due(s) \/ s \in Opens
  <2>1. ASSUME NEW gone, RecordsStay(gone), w \in DOMAIN waiters, gone \subseteq Opens
        PROVE  Due(s) \/ s \in Opens
    BY <1>4, <2>1 DEF RecordsStay, Due
  <2>2. ASSUME NEW t \in Threads, MintWaiter(t)
        PROVE  Due(s) \/ s \in Opens
    <3>1. PICK v \in Wids, rec \in WaiterRec :
             /\ \/ waiters' = [waiters EXCEPT ![v] = rec]
                \/ waiters' = Append(waiters, rec)
             /\ rec = NewWaiter(Serves[t], nextSlot + 1)
      BY <1>1, <2>2, MintWaiterRecord
    <3>2. waiters'[w] = rec \/ (w \in DOMAIN waiters /\ waiters'[w] = waiters[w])
      <4>1. CASE waiters' = [waiters EXCEPT ![v] = rec]
        BY <1>1, <1>4, <4>1, ExceptAnywhere
      <4>2. CASE waiters' = Append(waiters, rec)
        <5>1. /\ Len(waiters) \in Nat /\ DOMAIN waiters = 1 .. Len(waiters)
              /\ DOMAIN waiters' = 1 .. Len(waiters) + 1
              /\ waiters'[Len(waiters) + 1] = rec
              /\ \A j \in 1 .. Len(waiters) : waiters'[j] = waiters[j]
          BY <1>1, <4>2, LenProperties, AppendProperties
        <5>2. w \in DOMAIN waiters \/ w = Len(waiters) + 1
          BY <1>4, <5>1
        <5>. QED  BY <5>1, <5>2
      <4>. QED  BY <3>1, <4>1, <4>2
    <3>3. ~rec.filled
      BY <3>1 DEF NewWaiter
    <3>. QED  BY <1>4, <3>2, <3>3 DEF Due
  <2>3. ASSUME NEW t \in Threads, NEW x, NEW c, Mint(t, x, x, c), UNCHANGED waiterVars
        PROVE  Due(s) \/ s \in Opens
    BY <1>4, <2>3 DEF Due, waiterVars
  <2>4. CASE DOMAIN waiters' = DOMAIN waiters /\ UNCHANGED nextSlot
    <3>1. ASSUME NEW t \in Threads, ActorFaults(t)
          PROVE  Due(s) \/ s \in Opens
      BY <1>4, <2>1, <2>4, <3>1 DEF ActorFaults, Ends, RecordsStay, waiterVars
    <3>2. ASSUME NEW from, NEW S, NEW to, Moved(from, S, to),
                 RecordsStay({}) \/ \E r \in Slots : S = {r} /\ DeliverTo(r)
          PROVE  Due(s) \/ s \in Opens
      <4>1. S \subseteq Opens
        BY <3>2 DEF Moved, Passed, Opens
      <4>. QED  BY <1>1, <1>4, <2>1, <2>4, <3>2, <4>1, DeliveryRecords
    <3>3. ~\E n : MintStep(n)
      BY <1>1, <2>4, MintedStays DEF MintStep
    <3>. QED  BY <1>1, <3>1, <3>2, <3>3, TokenKinds DEF TokenMove
  <2>. QED  BY <1>1, <2>2, <2>3, <2>4, RecordsAre, ReplyKinds DEF Ledger
<1>. QED  BY <1>2, <1>3, <1>4 DEF Due

\* A reply minted that is not open does not open again.
LEMMA OpensStep ==
    ASSUME Typed, Kept, [Next]_vars, NEW s \in Slots, s <= nextSlot, s \in Opens'
    PROVE  s \in Opens
<1>1. /\ TypeOK /\ FramesAreNested /\ WaitersExist /\ OneActivation
      /\ Singly /\ NoRepeats /\ Minted /\ nextSlot \in Nat
  BY MintedStays DEF Typed, Kept
<1>2. ASSUME NEW n, MintStep(n)
      PROVE  s \in Opens
  <2>1. s # nextSlot + 1
    BY <1>1 DEF Slots
  <2>. QED  BY <1>2, <2>1 DEF MintStep
<1>. QED  BY <1>1, <1>2, TokenKinds, PassedTokens, FaultPasses DEF TokenMove, Moved

\* An answer reaches whom it is for, unless that is an actor that has died.
LEMMA DeliveryIsDue ==
    ASSUME Typed, Kept, NEW s \in Slots, s \in Opens, DeliverTo(s), target[s] \notin dead
    PROVE  Due(s)'
<1>1. /\ TypeOK /\ WaitersExist /\ RecordsOf(Opens)
      /\ queue \in [Actors -> Seq(Entry)] /\ tasks \in [Pools -> Seq(Slots)]
  BY DEF Typed, Kept, TypeOK
<1>2. CASE DeliverToActor(s)
  <2>. PICK a \in Actors : a = target[s]
    BY <1>2 DEF DeliverToActor
  <2>1. queue' = [queue EXCEPT ![a] = Append(@, Answered(s))]
    BY <1>2 DEF DeliverToActor, Post
  <2>2. Answered(s) \in Entry /\ queue'[a] = Append(queue[a], Answered(s))
    BY <1>1, <2>1 DEF Entry
  <2>3. Answered(s) \in ToSet(queue'[a])
    BY <1>1, <2>2, ToSetAppend
  <2>. QED  BY <2>3 DEF Due
<1>3. CASE DeliverToTask(s)
  <2>. PICK p \in Pools : p = target[s]
    BY <1>3 DEF DeliverToTask
  <2>1. tasks'[p] = Append(tasks[p], s)
    BY <1>1, <1>3 DEF DeliverToTask
  <2>2. s \in ToSet(tasks'[p])
    BY <1>1, <2>1, ToSetAppend
  <2>. QED  BY <2>2 DEF Due
<1>4. CASE DeliverToWaiter(s)
  <2>. PICK w : w = target[s]
    OBVIOUS
  <2>1. w \in Wids /\ Awaited(w, s) /\ w \in DOMAIN waiters
    BY <1>1, <1>4 DEF DeliverToWaiter, RecordsOf, WaitersExist, Awaited
  <2>2. waiters' = [waiters EXCEPT ![w].filled = TRUE]
    BY <1>4, <2>1 DEF DeliverToWaiter
  <2>3. waiters \in Seq(WaiterRec) /\ waiters[w] \in WaiterRec
    BY <1>1, <2>1, LenProperties, ElementOfSeq DEF TypeOK
  <2>4. waiters'[w] = [waiters[w] EXCEPT !.filled = TRUE] /\ DOMAIN waiters' = DOMAIN waiters
    BY <2>1, <2>2
  <2>5. waiters'[w].slot = s /\ waiters'[w].filled /\ w \in DOMAIN waiters'
    BY <2>1, <2>3, <2>4 DEF WaiterRec, Awaited
  <2>. QED  BY <2>5 DEF Due
<1>. QED  BY <1>2, <1>3, <1>4 DEF DeliverTo

\* A reply stops being open by being answered, or with the dead.
LEMMA OpenEnds ==
    ASSUME Typed, Kept, [Next]_vars, NEW s \in Slots, s \in Opens, s \notin Opens'
    PROVE  \/ Due(s)' \/ target[s] \in dead \/ Dropped(s)
           \/ \E a \in dead' \ dead : s \in held[a] \/ Delivered(s) \in ToSet(queue[a])
<1>1. /\ TypeOK /\ FramesAreNested /\ WaitersExist /\ OneActivation
      /\ Singly /\ NoRepeats /\ Minted
  BY DEF Typed, Kept
<1>2. ASSUME NEW n, MintStep(n) PROVE FALSE
  BY <1>2 DEF MintStep
<1>3. ASSUME NEW t \in Threads, ActorFaults(t)
      PROVE  \E a \in dead' \ dead : s \in held[a] \/ Delivered(s) \in ToSet(queue[a])
  BY <1>1, <1>3, FaultPasses
<1>4. ASSUME NEW from, NEW S, NEW to, Moved(from, S, to)
      PROVE  s \in S /\ to \notin Spots
  <2>1. PICK c \in Spots : s \in At(c)
    BY DEF Opens
  <2>2. \A d \in Spots : s \notin At(d)'
    BY DEF Opens, Spots
  <2>. QED  BY <1>4, <2>1, <2>2 DEF Moved
<1>5. CASE TokenMove
  <2>1. PICK from, S, to :
          /\ Moved(from, S, to)
          /\ \/ to \in Spots
             \/ \A r \in S : Dropped(r)
             \/ \E r \in Slots : S = {r} /\ DeliverTo(r)
    BY <1>5 DEF TokenMove
  <2>2. s \in S /\ to \notin Spots
    BY <1>4, <2>1
  <2>. QED  BY <2>1, <2>2, DeliveryIsDue
<1>. QED  BY <1>1, <1>2, <1>3, <1>5, TokenKinds

\* A reply is answered at most once, and an answer given is not lost: the only
\* replies that end unanswered were for the dead, or their tokens went with a
\* death or to the dead.
THEOREM AnswersAreKept == Spec => RepliesAreKept
<1>1. Typed /\ Kept /\ OpenIsSomewhere /\ OpenIsSomewhere' /\ [Next]_vars
        => [\A s \in Slots :
              /\ Phase(s) <= Phase(s)'
              /\ Phase(s) = 1 /\ Phase(s)' = 3
                   => \/ target[s] \in dead
                      \/ \E a \in dead' \ dead :
                           s \in held[a] \/ Delivered(s) \in ToSet(queue[a])
                      \/ Dropped(s)]_vars
  <2>1. SUFFICES ASSUME Typed, Kept, OpenIsSomewhere, OpenIsSomewhere', [Next]_vars,
                        NEW s \in Slots
                 PROVE  /\ Phase(s) <= Phase(s)'
                        /\ Phase(s) = 1 /\ Phase(s)' = 3
                             => \/ target[s] \in dead
                                \/ \E a \in dead' \ dead :
                                     s \in held[a] \/ Delivered(s) \in ToSet(queue[a])
                                \/ Dropped(s)
    OBVIOUS
  <2>2. /\ nextSlot \in Nat /\ nextSlot' \in Nat /\ nextSlot <= nextSlot' /\ s \in Nat
    BY <2>1, MintedStays DEF Typed, Slots
  <2>3. /\ Phase(s)  = IF s > nextSlot THEN 0 ELSE IF s \in Opens THEN 1
                       ELSE IF Due(s) THEN 2 ELSE 3
        /\ Phase(s)' = IF s > nextSlot' THEN 0 ELSE IF s \in Opens' THEN 1
                       ELSE IF Due(s)' THEN 2 ELSE 3
    BY <2>1 DEF Phase, OpenIsSomewhere
  <2>4. CASE s > nextSlot
    <3>1. Phase(s) = 0
      BY <2>3, <2>4
    <3>2. Phase(s)' \in {0, 1, 2, 3}
      BY <2>3
    <3>. QED  BY <3>1, <3>2
  <2>5. CASE s <= nextSlot
    <3>1. ~(s > nextSlot) /\ ~(s > nextSlot')
      BY <2>2, <2>5
    <3>2. s \in Opens' => s \in Opens
      BY <2>1, <2>5, OpensStep
    <3>3. Due(s)' => Due(s) \/ s \in Opens
      BY <2>1, <2>5, DueStep
    <3>4. s \in Opens /\ s \notin Opens'
            => \/ Due(s)' \/ target[s] \in dead \/ Dropped(s)
               \/ \E a \in dead' \ dead : s \in held[a] \/ Delivered(s) \in ToSet(queue[a])
      BY <2>1, OpenEnds
    <3>5. Phase(s) <= Phase(s)'
      BY <2>3, <3>1, <3>2, <3>3
    <3>6. Phase(s) = 1 /\ Phase(s)' = 3 => s \in Opens /\ s \notin Opens' /\ ~Due(s)'
      BY <2>3, <3>1
    <3>. QED  BY <3>4, <3>5, <3>6
  <2>. QED  BY <2>2, <2>4, <2>5
<1>2. Typed /\ Kept /\ [Next]_vars => Kept'
  BY KeptStep
<1>. QED  BY InitKept, <1>1, <1>2, TypesAreKept, OpensAreSomewhere, PTL DEF Spec, RepliesAreKept
===============================================================================
