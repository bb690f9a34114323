------------------------------ MODULE Scheduler ------------------------------
(***************************************************************************)
(* The actor scheduler of lib/std/runtime.sv on its ordinary (threaded)    *)
(* runtime: the tables of actors, pools and waiting frames that one mutex  *)
(* guards, the worker loop, the nested serving of a pool inside a wait,    *)
(* and the parking and unparking of threads.                               *)
(*                                                                         *)
(* One action is one call of the table's handler, made whole under its     *)
(* lock.  A call that delivers a list of tokens (the watchers of a death,  *)
(* the hooks of an idle moment) keeps the lock while it delivers them one  *)
(* by one: `bulk' is that call in progress, and no other call starts.      *)
(*                                                                         *)
(* The program that runs on the scheduler is left open: `May' says which   *)
(* operations the code of each owner may perform, in any order.            *)
(***************************************************************************)
EXTENDS Integers, FiniteSets, SequencesExt

CONSTANTS
    Actors, Pools, Workers, Hosts, Main,    \* the names of everything
    MainPool,       \* pool 0, which has no thread but main's
    Home,           \* Home[a]: the pool actor a is spawned on
    Bound,          \* Bound[a]: its mailbox capacity
    Sink,           \* Sink[p]: the actor p's uncaught faults go to, or Nobody
    Dedicated,      \* the pools made for one spawn
    Serves,         \* Serves[t]: the pool a thread stands on (set_here)
    Early,          \* actors and pools the program has made before Init
    May,            \* the operations program code may perform
    TaskCode,       \* stands for the code of every task in May
    Nobody,         \* no actor, no thread
    MaxSlot,        \* how many tokens are minted
    MaxWaiters,     \* how many waiter records are made
    MaxSpurious     \* park may return without an unpark while the list the
                    \* thread sleeps on is no longer than this

Threads == Workers \cup Hosts \cup {Main}
Slots   == 1 .. MaxSlot
Wids    == 1 .. MaxWaiters
Owners  == Actors \cup Threads \cup Slots     \* a task is named by its slot
Places  == Actors \cup Pools \cup Wids        \* where a token is aimed

Operations == {"send", "pass", "mint", "gate", "task", "waiter", "answer", "watch",
               "idle", "fault", "pool", "actor", "host"}

ASSUME ConstantsAssumption ==
    /\ MaxSlot \in Nat /\ MaxWaiters \in Nat
    /\ MaxSpurious \in Nat
    /\ MainPool \in Pools \ Dedicated
    /\ Dedicated \subseteq Pools
    /\ Early \subseteq Actors \cup Pools
    /\ May \subseteq [by : Actors \cup Threads \cup {TaskCode}, op : Operations,
                      on : Actors \cup Pools \cup Hosts \cup {Nobody}]
    /\ Home \in [Actors -> Pools]
    /\ Bound \in [Actors -> Nat]
    /\ Sink \in [Pools -> Actors \cup {Nobody}]
    /\ \A p \in Dedicated \cup {MainPool} : Sink[p] = Nobody
    /\ Serves \in [Threads -> Pools]
    /\ \A t \in Hosts \cup {Main} : Serves[t] = MainPool
    /\ \A t \in Workers : Serves[t] # MainPool

\* What the program has made before, it has made in order: an actor on a pool
\* there is, a pool with a sink there is.
ASSUME EarlyAssumption ==
    /\ \A a \in Actors \cap Early : Home[a] \in Early \cup {MainPool}
    /\ \A p \in Pools \cap Early : Sink[p] \in Early \cup {Nobody}

ASSUME NamesAreDistinct ==
    /\ Actors \cap (Pools \cup Threads \cup Nat \cup {Nobody}) = {}
    /\ Pools \cap (Threads \cup Nat \cup {Nobody}) = {}
    /\ Threads \cap (Nat \cup {Nobody}) = {}
    /\ Workers \cap Hosts = {} /\ Main \notin Workers \cup Hosts

VARIABLES
    made,        \* the actors and pools there are
    queue, userLen, gate, running, dead, blocked, watchers,   \* ActorRec
    idle, tasks, readyQ, retired,                             \* PoolRec
    owed,        \* ActorRec.owed and PoolRec.owed
    waiters, freeWaiters, idleHooks,
    nextSlot, active, parkedFrames, mainWaits, externals,
    bulk,        \* the call that is delivering a list of tokens
    target, tracked, held,                                    \* Token
    stack, pc, sending, permit,                     \* threads
    exit         \* "no" while the process runs

actorVars  == <<queue, userLen, gate, running, dead, blocked, watchers>>
poolVars   == <<idle, tasks, readyQ, retired>>
waiterVars == <<waiters, freeWaiters>>
countVars  == <<active, parkedFrames, mainWaits, externals>>
tokenVars  == <<nextSlot, target, tracked, held, owed>>
threadVars == <<stack, pc, sending, permit>>
vars == <<made, actorVars, poolVars, waiterVars, idleHooks, countVars, bulk,
          tokenVars, threadVars, exit>>

(***************************************************************************)
(* Records.                                                                *)
(***************************************************************************)
Delivered(tok) == [kind |-> "msg", id |-> tok]   \* tok 0: carries no reply
Answered(s)    == [kind |-> "ans", id |-> s]
Reported       == [kind |-> "rep", id |-> 0]
Entry == {Delivered(s) : s \in Slots \cup {0}} \cup {Answered(s) : s \in Slots}
           \cup {Reported}

Frame == [who : Owners, wid : Wids \cup {0}]
Running(o) == [who |-> o, wid |-> 0]

\* waiting: 0 not waiting, 1 an activation or a task, 2 main's own thread.
WaiterRec == [pool : Pools, filled : BOOLEAN, parker : Threads \cup {Nobody},
              waiting : 0 .. 2, slot : Slots]
NewWaiter(p, s) == [pool |-> p, filled |-> FALSE, parker |-> Nobody,
                    waiting |-> 0, slot |-> s]

SendRec    == [to : Actors \cup {Nobody}, tok : Slots \cup {0}]
NotSending == [to |-> Nobody, tok |-> 0]
Label      == {"unborn", "run", "look", "park", "send", "full", "done"}
BulkRec    == [what : {"free", "finish", "settled", "again"}, tokens : Seq(Slots), pool : Pools]
Free       == [what |-> "free", tokens |-> <<>>, pool |-> MainPool]

Init ==
    /\ made = Early \cup {MainPool}
    /\ queue = [a \in Actors |-> <<>>]
    /\ userLen = [a \in Actors |-> 0]
    /\ gate = [a \in Actors |-> 0]
    /\ running = {} /\ dead = {}
    /\ blocked = [a \in Actors |-> <<>>]
    /\ watchers = [a \in Actors |-> <<>>]
    /\ idle = [p \in Pools |-> <<>>]
    /\ tasks = [p \in Pools |-> <<>>]
    /\ readyQ = [p \in Pools |-> <<>>]
    /\ retired = {}
    /\ owed = [x \in Actors \cup Pools |-> 0]
    /\ waiters = <<>> /\ freeWaiters = <<>> /\ idleHooks = <<>>
    /\ nextSlot = 0
    /\ active = 0 /\ parkedFrames = 0 /\ mainWaits = 0 /\ externals = 0
    /\ bulk = Free
    /\ target = [s \in Slots |-> MainPool]
    /\ tracked = {}
    /\ held = [o \in Owners |-> {}]
    /\ stack = [t \in Threads |-> IF t = Main THEN <<Running(Main)>> ELSE <<>>]
    /\ pc = [t \in Threads |-> IF t = Main THEN "run"
                               ELSE IF t \in Workers /\ Serves[t] \in Early
                                    THEN "look" ELSE "unborn"]
    /\ sending = [t \in Threads |-> NotSending]
    /\ permit = {}
    /\ exit = "no"

(***************************************************************************)
(* What a handler reads.                                                   *)
(***************************************************************************)
Top(t) == Last(stack[t])

\* The positions an activation may be made for: the head, or, while the
\* actor is gated, only the awaited answer.
DeliverableUngated(q, g) == DOMAIN q \cap {1}
Deliverable(q, g) == IF g = 0 THEN DOMAIN q \cap {1}
                              ELSE {i \in DOMAIN q : q[i] = Answered(g)}

Ready(a) == a \in ToSet(readyQ[Home[a]])

Takeable(a, own) == /\ a # own
                    /\ a \notin running \cup dead
                    /\ Deliverable(queue[a], gate[a]) # {}

\* Where take_work stops in a ready queue: past the entries it drops.
Hits(p, own) == {k \in DOMAIN readyQ[p] : Takeable(readyQ[p][k], own)}
HasWork(p, own) == tasks[p] # <<>> \/ Hits(p, own) # {}

First(x, S) == x \in S /\ \A y \in S : x <= y

\* No work is queued anywhere, nor an answer not yet picked up, and no host
\* thread is open that could bring some.  (The mutant forgets those.)
QuietDespiteHosts(wrec) ==
    /\ \A p \in Pools : tasks[p] = <<>>
    /\ \A a \in Actors \ (running \cup dead) : Deliverable(queue[a], gate[a]) = {}
    /\ \A w \in DOMAIN wrec : ~(wrec[w].waiting > 0 /\ wrec[w].filled)
Quiet(wrec) ==
    /\ externals = 0
    /\ \A p \in Pools : tasks[p] = <<>>
    /\ \A a \in Actors \ (running \cup dead) : Deliverable(queue[a], gate[a]) = {}
    /\ \A w \in DOMAIN wrec : ~(wrec[w].waiting > 0 /\ wrec[w].filled)

\* Every activation and task under way is parked in a wait, and nothing is
\* queued.  (The mutant is the test as it was before nested waits counted.)
SettledWhenNoneRuns(parked, wrec) == active = 0 /\ Quiet(wrec)
Settled(parked, wrec) == active = parked /\ Quiet(wrec)

OwedTo(s) == IF target[s] \in Wids THEN waiters[target[s]].pool ELSE target[s]

(***************************************************************************)
(* What the handlers share.  `also' is the set of threads unparked by the  *)
(* rest of the same call.                                                  *)
(***************************************************************************)
\* wake_pool takes the first idle thread off the list and unparks it.  (The
\* mutant unparks nobody.)
WakePoolInName(p, also) ==
    /\ idle' = [idle EXCEPT ![p] = IF @ = <<>> THEN @ ELSE Tail(@)]
    /\ permit' = permit \cup also
WakePool(p, also) ==
    /\ idle' = [idle EXCEPT ![p] = IF @ = <<>> THEN @ ELSE Tail(@)]
    /\ permit' = permit \cup also
                   \cup (IF idle[p] = <<>> THEN {} ELSE {Head(idle[p])})

WakeEvery(ps, also) ==
    /\ idle' = [p \in Pools |-> IF p \in ps THEN <<>> ELSE idle[p]]
    /\ permit' = permit \cup also \cup UNION {ToSet(idle[p]) : p \in ps}

MayQueueAgain(a) == /\ a \notin running' \cup dead'
                    /\ Deliverable(queue'[a], gate'[a]) # {}
MayQueue(a) == /\ ~Ready(a)
               /\ a \notin running' \cup dead'
               /\ Deliverable(queue'[a], gate'[a]) # {}

MarkReady(a) ==
    readyQ' = IF MayQueue(a) THEN [readyQ EXCEPT ![Home[a]] = Append(@, a)]
                             ELSE readyQ

MarkReadySilently(a, also) ==
    /\ MarkReady(a)
    /\ permit' = permit \cup also /\ UNCHANGED idle
MarkReadyAndWake(a, also) ==
    /\ MarkReady(a)
    /\ IF MayQueue(a) THEN WakePool(Home[a], also)
                      ELSE permit' = permit \cup also /\ UNCHANGED idle

\* One owed token fewer, if it still counts.  (The mutant forgets to look.)
ReleaseAnyway(s) ==
    /\ tracked' = tracked \ {s}
    /\ owed' = [owed EXCEPT ![OwedTo(s)] = @ - 1]
Release(s) ==
    /\ tracked' = tracked \ {s}
    /\ owed' = IF s \in tracked /\ owed[OwedTo(s)] > 0
               THEN [owed EXCEPT ![OwedTo(s)] = @ - 1] ELSE owed

\* An answer joins its actor's queue, past the bound; the dead drop it.
PostToAnyone(a, e) == queue' = [queue EXCEPT ![a] = Append(@, e)]
Post(a, e) == queue' = IF a \in dead THEN queue
                       ELSE [queue EXCEPT ![a] = Append(@, e)]

DeliverToActor(s) ==
    LET a == target[s] IN
    /\ a \in Actors
    /\ Post(a, Answered(s))
    /\ MarkReadyAndWake(a, {})
    /\ UNCHANGED <<tasks, waiters>>

\* A record takes the answer of its own wait, once, from the moment of the
\* mint on.  (The mutant takes it only once the frame waits.)
AwaitedLate(w, s) == /\ waiters[w].slot = s /\ ~waiters[w].filled
                     /\ waiters[w].waiting > 0
Awaited(w, s) == waiters[w].slot = s /\ ~waiters[w].filled

\* The thread asleep in the wait, if it sleeps.
NoParker(w) == {}
ParkerOf(w) == {waiters[w].parker} \ {Nobody}

DeliverToWaiter(s) ==
    LET w == target[s] IN
    /\ w \in Wids
    /\ waiters' = IF Awaited(w, s) THEN [waiters EXCEPT ![w].filled = TRUE]
                                   ELSE waiters
    /\ permit' = IF Awaited(w, s) THEN permit \cup ParkerOf(w) ELSE permit
    /\ UNCHANGED <<queue, readyQ, idle, tasks>>

DeliverToTask(s) ==
    LET p == target[s] IN
    /\ p \in Pools
    /\ tasks' = [tasks EXCEPT ![p] = Append(@, s)]
    /\ WakePool(p, {})
    /\ UNCHANGED <<queue, readyQ, waiters>>

DeliverTo(s) ==
    /\ UNCHANGED <<userLen, gate, running, dead, blocked, retired, freeWaiters>>
    /\ DeliverToActor(s) \/ DeliverToWaiter(s) \/ DeliverToTask(s)

\* retire_if_done's condition, the state being the one its caller leaves.
Done(p) == /\ p \in Dedicated \ retired
           /\ tasks[p] = <<>> /\ owed[p] = 0
           /\ \A a \in Actors \cap made : Home[a] = p => a \in dead'

Push(t, o) == stack' = [stack EXCEPT ![t] = Append(@, Running(o))]
Pop(t)     == stack' = [stack EXCEPT ![t] = Front(@)]
SetWid(t, w) ==
    stack' = [stack EXCEPT ![t] = Append(Front(@), [who |-> Top(t).who, wid |-> w])]
Goto(t, l) == pc' = [pc EXCEPT ![t] = l]

(***************************************************************************)
(* What program code does, from the frame that is running on thread t.     *)
(***************************************************************************)
Me(t) == Top(t).who

Runs(t) == exit = "no" /\ bulk = Free /\ pc[t] = "run"

Does(t, op, on) ==
    /\ Runs(t)
    /\ [by |-> IF Me(t) \in Slots THEN TaskCode ELSE Me(t), op |-> op, on |-> on]
         \in May

\* enqueue, and the part of send_or_back that follows it.
Enqueue(t, a, s) ==
    /\ UNCHANGED <<gate, running, dead>>
    /\ \/ /\ a \in dead
          /\ Goto(t, "run") /\ sending' = [sending EXCEPT ![t] = NotSending]
          /\ UNCHANGED <<queue, userLen, blocked, readyQ, idle, permit, exit>>
       \/ /\ a \notin dead /\ userLen[a] < Bound[a]
          /\ queue' = [queue EXCEPT ![a] = Append(@, Delivered(s))]
          /\ userLen' = [userLen EXCEPT ![a] = @ + 1]
          /\ MarkReadyAndWake(a, {})
          /\ Goto(t, "run") /\ sending' = [sending EXCEPT ![t] = NotSending]
          /\ UNCHANGED <<blocked, exit>>
       \/ /\ a \notin dead /\ userLen[a] >= Bound[a]
          /\ blocked' = [blocked EXCEPT ![a] = Append(@, t)]
          /\ exit' = IF Serves[t] = MainPool /\ Me(t) \in Threads
                          /\ Home[a] = MainPool THEN "wedged" ELSE "no"
          /\ Goto(t, "full") /\ sending' = [sending EXCEPT ![t] = [to |-> a, tok |-> s]]
          /\ UNCHANGED <<queue, userLen, readyQ, idle, permit>>

Send(t, a, s) ==
    /\ Does(t, IF s = 0 THEN "send" ELSE "pass", a) /\ a \in made
    /\ s = 0 \/ s \in held[Me(t)]
    /\ held' = [held EXCEPT ![Me(t)] = @ \ {s}]
    /\ Enqueue(t, a, s)
    /\ UNCHANGED <<made, watchers, tasks, retired, waiterVars, idleHooks,
                   countVars, bulk, nextSlot, target, tracked, owed, stack>>

Resend(t) ==
    /\ exit = "no" /\ bulk = Free /\ pc[t] = "send"
    /\ Enqueue(t, sending[t].to, sending[t].tok)
    /\ UNCHANGED <<made, watchers, tasks, retired, waiterVars, idleHooks,
                   countVars, bulk, tokenVars, stack>>

\* Mints the next slot, aimed at `place' and owed to `to', for the frame on t.
Mint(t, place, to, captured) ==
    LET s == nextSlot + 1 IN
    /\ s \in Slots
    /\ nextSlot' = s
    /\ target' = [target EXCEPT ![s] = place]
    /\ tracked' = tracked \cup {s}
    /\ owed' = [owed EXCEPT ![to] = @ + 1]
    /\ held' = [held EXCEPT ![Me(t)] = (@ \ captured) \cup {s}, ![s] = captured]

MintActor(t, gated) ==
    /\ Runs(t) /\ Me(t) \in Actors
    /\ Does(t, IF gated THEN "gate" ELSE "mint", Nobody)
    /\ Mint(t, Me(t), Me(t), {})
    /\ gate' = IF gated THEN [gate EXCEPT ![Me(t)] = nextSlot + 1] ELSE gate
    /\ UNCHANGED <<made, queue, userLen, running, dead, blocked, watchers,
                   poolVars, waiterVars, idleHooks, countVars, bulk, threadVars, exit>>

\* The task's body travels in its token, with a reply it captured, if any.
MintTask(t, p, captured) ==
    /\ Does(t, "task", p) /\ p \in made
    /\ captured \subseteq held[Me(t)] /\ Cardinality(captured) <= 1
    /\ Mint(t, p, p, captured)
    /\ UNCHANGED <<made, actorVars, poolVars, waiterVars, idleHooks, countVars,
                   bulk, threadVars, exit>>

FreeAfterMintKept == freeWaiters
FreeAfterMint == IF freeWaiters = <<>> THEN <<>> ELSE Tail(freeWaiters)

MintWaiter(t) ==
    /\ Does(t, "waiter", Nobody) /\ Top(t).wid = 0
    /\ LET p == Serves[t]
           w == IF freeWaiters # <<>> THEN Head(freeWaiters) ELSE Len(waiters) + 1
           rec == NewWaiter(p, nextSlot + 1)
       IN /\ w \in Wids
          /\ waiters' = IF freeWaiters # <<>> THEN [waiters EXCEPT ![w] = rec]
                                              ELSE Append(waiters, rec)
          /\ freeWaiters' = FreeAfterMint
          /\ Mint(t, w, p, {})
          /\ SetWid(t, w)
    /\ UNCHANGED <<made, actorVars, poolVars, idleHooks, countVars, bulk,
                   pc, sending, permit, exit>>

Await(t) ==
    /\ exit = "no" /\ pc[t] = "run" /\ Top(t).wid # 0
    /\ Goto(t, "look")
    /\ UNCHANGED <<made, actorVars, poolVars, waiterVars, idleHooks, countVars,
                   bulk, tokenVars, stack, sending, permit, exit>>

Answer(t, s) ==
    /\ Does(t, "answer", Nobody) /\ s \in held[Me(t)]
    /\ held' = [held EXCEPT ![Me(t)] = @ \ {s}]
    /\ Release(s)
    /\ DeliverTo(s)
    /\ UNCHANGED <<made, watchers, idleHooks, countVars, bulk, nextSlot, target,
                   stack, pc, sending, exit>>

Watch(t, a, s) ==
    /\ Does(t, "watch", a) /\ a \in made /\ s \in held[Me(t)]
    /\ held' = [held EXCEPT ![Me(t)] = @ \ {s}]
    /\ Release(s)
    /\ \/ /\ a \in dead
          /\ DeliverTo(s)
          /\ UNCHANGED watchers
       \/ /\ a \notin dead
          /\ watchers' = [watchers EXCEPT ![a] = Append(@, s)]
          /\ UNCHANGED <<queue, userLen, gate, running, dead, blocked, poolVars,
                         waiterVars, permit>>
    /\ UNCHANGED <<made, idleHooks, countVars, bulk, nextSlot, target,
                   stack, pc, sending, exit>>

OnIdle(t, s) ==
    /\ Does(t, "idle", Nobody) /\ s \in held[Me(t)]
    /\ held' = [held EXCEPT ![Me(t)] = @ \ {s}]
    /\ Release(s)
    /\ idleHooks' = Append(idleHooks, s)
    /\ WakeEvery(Pools, {})
    /\ UNCHANGED <<made, actorVars, tasks, readyQ, retired, waiterVars, countVars,
                   bulk, nextSlot, target, stack, pc, sending, exit>>

\* start_pool: the record, then its threads.
NewPool(t, p) ==
    /\ Does(t, "pool", p) /\ p \in Pools \ made /\ Sink[p] \in made \cup {Nobody}
    /\ made' = made \cup {p}
    /\ pc' = [u \in Threads |-> IF u \in Workers /\ Serves[u] = p THEN "look" ELSE pc[u]]
    /\ UNCHANGED <<actorVars, poolVars, waiterVars, idleHooks, countVars, bulk,
                   tokenVars, stack, sending, permit, exit>>

NewActor(t, a) ==
    /\ Does(t, "actor", a) /\ a \in Actors \ made /\ Home[a] \in made
    /\ made' = made \cup {a}
    /\ UNCHANGED <<actorVars, poolVars, waiterVars, idleHooks, countVars, bulk,
                   tokenVars, threadVars, exit>>

\* A platform handler opens a thread of its own, with replies to answer.
HostOpens(t, h, captured) ==
    /\ Does(t, "host", h) /\ pc[h] = "unborn" /\ h \in Hosts
    /\ captured \subseteq held[Me(t)]
    /\ externals' = externals + 1
    /\ WakeEvery(Pools, {})
    /\ held' = [held EXCEPT ![Me(t)] = @ \ captured, ![h] = captured]
    /\ Push(h, h) /\ Goto(h, "run")
    /\ UNCHANGED <<made, actorVars, tasks, readyQ, retired, waiterVars, idleHooks,
                   active, parkedFrames, mainWaits, bulk, nextSlot, target,
                   tracked, owed, sending, exit>>

HostCloses(h) ==
    /\ h \in Hosts /\ Runs(h) /\ Me(h) = h /\ Top(h).wid = 0 /\ held[h] = {}
    /\ externals' = IF externals = 0 THEN 0 ELSE externals - 1
    /\ WakeEvery(Pools, {})
    /\ Goto(h, "done")
    /\ UNCHANGED <<made, actorVars, tasks, readyQ, retired, waiterVars, idleHooks,
                   active, parkedFrames, mainWaits, bulk, tokenVars, stack,
                   sending, exit>>

MainReturns ==
    /\ Runs(Main) /\ Me(Main) = Main /\ Top(Main).wid = 0
    /\ exit' = "returned"
    /\ UNCHANGED <<made, actorVars, poolVars, waiterVars, idleHooks, countVars,
                   bulk, tokenVars, threadVars>>

(***************************************************************************)
(* The end of an activation or a task: finish and task_done.               *)
(***************************************************************************)
Ends(t) ==
    /\ Runs(t)
    /\ active' = active - 1
    /\ Pop(t) /\ Goto(t, "look")
    /\ UNCHANGED <<made, waiterVars, idleHooks, parkedFrames, mainWaits, externals,
                   nextSlot, target, tracked, owed, sending, exit>>

ActorReturns(t) ==
    LET a == Me(t) IN
    /\ Runs(t) /\ a \in Actors /\ Top(t).wid = 0
    /\ Ends(t)
    /\ running' = running \ {a}
    /\ UNCHANGED <<queue, userLen, gate, dead, blocked, watchers>>
    /\ MarkReady(a)
    /\ UNCHANGED <<idle, tasks, retired, bulk, held, permit>>

\* report_fault's sink for pool p, when it has a live one.
LiveSink(p) == {Sink[p]} \ ({Nobody} \cup dead')

\* The actor dies, and the lock is kept while its watchers are answered.
ActorFaults(t) ==
    LET a == Me(t)
        toSink == IF watchers[a] = <<>> THEN LiveSink(Home[a]) ELSE {}
    IN /\ Does(t, "fault", Nobody) /\ a \in Actors
       /\ Ends(t)
       /\ dead' = dead \cup {a} /\ running' = running \ {a}
       /\ gate' = [gate EXCEPT ![a] = 0]
       /\ userLen' = [userLen EXCEPT ![a] = 0]
       /\ queue' = [b \in Actors |-> IF b = a THEN <<>>
                                     ELSE IF b \in toSink THEN Append(queue[b], Reported)
                                     ELSE queue[b]]
       /\ blocked' = [blocked EXCEPT ![a] = <<>>]
       /\ watchers' = [watchers EXCEPT ![a] = <<>>]
       /\ held' = [held EXCEPT ![a] = {}]
       /\ IF toSink = {} THEN permit' = permit \cup ToSet(blocked[a])
                              /\ UNCHANGED <<readyQ, idle>>
                         ELSE MarkReadyAndWake(Sink[Home[a]], ToSet(blocked[a]))
       /\ bulk' = [what |-> "finish", tokens |-> watchers[a], pool |-> Home[a]]
       /\ UNCHANGED <<tasks, retired>>

\* task_done.  Only a dedicated pool retires, and such a pool has no sink.
TaskEnds(t, sinks) ==
    LET p == Serves[t] IN
    /\ Ends(t) /\ Me(t) \in Slots
    /\ held' = [held EXCEPT ![Me(t)] = {}]
    /\ UNCHANGED <<userLen, gate, running, dead, blocked, watchers, tasks, bulk>>
    /\ queue' = [b \in Actors |-> IF b \in sinks THEN Append(queue[b], Reported)
                                                 ELSE queue[b]]
    /\ IF sinks # {} THEN MarkReadyAndWake(Sink[p], {}) /\ UNCHANGED retired
       ELSE /\ retired' = IF Done(p) THEN retired \cup {p} ELSE retired
            /\ WakeEvery(IF Done(p) THEN {p} ELSE {}, {})
            /\ UNCHANGED readyQ

TaskReturns(t) == /\ Runs(t) /\ Top(t).wid = 0 /\ held[Me(t)] = {}
                  /\ TaskEnds(t, {})
TaskFaults(t)  == /\ Does(t, "fault", Nobody)
                  /\ TaskEnds(t, LiveSink(Serves[t]))

DeliverNext ==
    /\ exit = "no" /\ bulk.tokens # <<>>
    /\ bulk' = [bulk EXCEPT !.tokens = Tail(@)]
    /\ Release(Head(bulk.tokens))
    /\ DeliverTo(Head(bulk.tokens))
    /\ UNCHANGED <<made, watchers, idleHooks, countVars, nextSlot, target, held,
                   stack, pc, sending, exit>>

\* What follows the list: finish retires the pool and wakes everyone, an
\* idle thread that found the scheduler settled has the waiting frames look
\* again, and wait_step looks again itself.
EndBulk ==
    /\ exit = "no" /\ bulk # Free /\ bulk.tokens = <<>>
    /\ bulk' = Free
    /\ UNCHANGED <<made, actorVars, tasks, readyQ, waiterVars, idleHooks, countVars,
                   tokenVars, stack, pc, sending, exit>>
    /\ \/ /\ bulk.what = "finish"
          /\ retired' = IF Done(bulk.pool) THEN retired \cup {bulk.pool} ELSE retired
          /\ WakeEvery(Pools, {})
       \/ /\ bulk.what = "settled"
          /\ WakeEvery({}, {waiters[w].parker :
                  w \in {v \in DOMAIN waiters : waiters[v].waiting > 0}} \ {Nobody})
          /\ UNCHANGED retired
       \/ /\ bulk.what = "again"
          /\ UNCHANGED <<retired, idle, permit>>

\* The hooks wait for every activation and task to end, parked ones too.  (The
\* mutant asks only that nothing is queued.)
NoneRunsUnasked == TRUE
NoneRuns == active = 0

(***************************************************************************)
(* Looking for work: next_work and wait_step, on behalf of `own'.          *)
(***************************************************************************)
Looks(t) == exit = "no" /\ bulk = Free /\ pc[t] = "look"

TakeTask(t) ==
    LET p == Serves[t] IN
    /\ tasks[p] # <<>>
    /\ tasks' = [tasks EXCEPT ![p] = Tail(@)]
    /\ Push(t, Head(tasks[p]))
    /\ UNCHANGED <<actorVars, readyQ, held, permit>>

\* A message taken out makes room: the first blocked sender is woken.  (The
\* mutants drop the wake, and leave the sender on the list.)
WakeSenderInName(a) == /\ blocked' = [blocked EXCEPT ![a] = IF @ = <<>> THEN @ ELSE Tail(@)]
                       /\ permit' = permit
WakeSenderAndKeep(a) == /\ blocked' = blocked
                        /\ permit' = IF blocked[a] = <<>> THEN permit
                                     ELSE permit \cup {Head(blocked[a])}
WakeSender(a) == /\ blocked' = [blocked EXCEPT ![a] = IF @ = <<>> THEN @ ELSE Tail(@)]
                 /\ permit' = IF blocked[a] = <<>> THEN permit
                              ELSE permit \cup {Head(blocked[a])}

NotOccupied(a) == running' = running
Occupy(a) == running' = running \cup {a}

\* The first actor of the ready queue that may run, and its first entry that
\* may be delivered; what take_work passes over leaves the ready queue.
TakeEntryOf(t, own, a, k) ==
    LET p == Serves[t]
        e == queue[a][k]
    IN /\ tasks[p] = <<>>
       /\ \E j \in DOMAIN readyQ[p] :
            /\ First(j, Hits(p, own)) /\ readyQ[p][j] = a
            /\ readyQ' = [readyQ EXCEPT ![p] = SubSeq(@, j + 1, Len(@))]
       /\ First(k, Deliverable(queue[a], gate[a]))
       /\ queue' = [queue EXCEPT ![a] = RemoveAt(@, k)]
       /\ Occupy(a)
       /\ gate' = IF e = Answered(gate[a]) THEN [gate EXCEPT ![a] = 0] ELSE gate
       /\ IF e.kind = "msg"
          THEN /\ userLen' = [userLen EXCEPT ![a] = @ - 1]
               /\ WakeSender(a)
               /\ held' = [held EXCEPT ![a] = @ \cup ({e.id} \ {0})]
          ELSE UNCHANGED <<userLen, blocked, permit, held>>
       /\ Push(t, a)
       /\ UNCHANGED <<dead, watchers, tasks>>

TakeEntry(t, own) ==
    \E a \in Actors : \E k \in DOMAIN queue[a] : TakeEntryOf(t, own, a, k)

TakeWork(t, own) ==
    /\ TakeTask(t) \/ TakeEntry(t, own)
    /\ active' = active + 1
    /\ Goto(t, "run")
    /\ UNCHANGED <<made, idle, retired, freeWaiters, idleHooks, externals, bulk,
                   nextSlot, target, tracked, owed, sending, exit>>

\* No work for `own' on pool p: what take_work dropped from its ready queue.
NoWork(p, own) ==
    /\ ~HasWork(p, own)
    /\ readyQ' = [readyQ EXCEPT ![p] = <<>>]

NextRetires(t) ==
    /\ Looks(t) /\ stack[t] = <<>> /\ Serves[t] \in retired
    /\ Goto(t, "done")
    /\ UNCHANGED <<made, actorVars, poolVars, waiterVars, idleHooks, countVars,
                   bulk, tokenVars, stack, sending, permit, exit>>

NextWork(t) ==
    /\ Looks(t) /\ stack[t] = <<>> /\ Serves[t] \notin retired
    /\ TakeWork(t, Nobody)
    /\ UNCHANGED <<waiters, parkedFrames, mainWaits>>

NextSleeps(t) ==
    LET p == Serves[t]
        settled == Settled(parkedFrames, waiters)
        fires   == IF settled /\ NoneRuns THEN idleHooks ELSE <<>>
    IN /\ Looks(t) /\ stack[t] = <<>> /\ p \notin retired
       /\ NoWork(p, Nobody)
       /\ idle' = [idle EXCEPT ![p] = Append(@, t)]
       /\ bulk' = IF settled THEN [what |-> "settled", tokens |-> fires, pool |-> p]
                             ELSE Free
       /\ idleHooks' = IF fires = <<>> THEN idleHooks ELSE <<>>
       /\ Goto(t, "park")
       /\ UNCHANGED <<made, actorVars, tasks, retired, waiterVars, countVars,
                      tokenVars, stack, sending, permit, exit>>

\* Booked once, on a wait's first step.
Kind(t)    == IF Me(t) \in Threads THEN 2 ELSE 1
EveryStep(t) == TRUE
FirstStep(t) == waiters[Top(t).wid].waiting = 0
Booked(t)  == [waiters EXCEPT ![Top(t).wid].waiting = Kind(t)]
ParkedNow(t) == parkedFrames + (IF FirstStep(t) /\ Kind(t) = 1 THEN 1 ELSE 0)
MainNow(t)   == mainWaits + (IF FirstStep(t) /\ Kind(t) = 2 THEN 1 ELSE 0)

WaitLooks(t) == Looks(t) /\ stack[t] # <<>>
Unanswered(t) == ~waiters[Top(t).wid].filled

WaitGot(t) ==
    LET w == Top(t).wid IN
    /\ WaitLooks(t) /\ ~Unanswered(t)
    /\ waiters' = [waiters EXCEPT ![w] = [@ EXCEPT !.filled = FALSE,
                                          !.parker = Nobody, !.waiting = 0]]
    /\ parkedFrames' = ParkedNow(t) - (IF Kind(t) = 1 THEN 1 ELSE 0)
    /\ mainWaits' = MainNow(t) - (IF Kind(t) = 2 THEN 1 ELSE 0)
    /\ freeWaiters' = Append(freeWaiters, w)
    /\ WakePool(Serves[t], {})
    /\ SetWid(t, 0) /\ Goto(t, "run")
    /\ UNCHANGED <<made, actorVars, tasks, readyQ, retired, idleHooks, active,
                   externals, bulk, tokenVars, sending, exit>>

WaitWork(t) ==
    /\ WaitLooks(t) /\ Unanswered(t)
    /\ TakeWork(t, Me(t))
    /\ waiters' = Booked(t)
    /\ parkedFrames' = ParkedNow(t) /\ mainWaits' = MainNow(t)

\* Nothing to run meanwhile: fire the hooks, report the deadlock, or sleep.
WaitIdles(t) ==
    LET p == Serves[t]
        fires == idleHooks # <<>> /\ NoneRuns /\ Quiet(Booked(t))
        stuck == Settled(ParkedNow(t), Booked(t)) /\ MainNow(t) > 0
    IN /\ WaitLooks(t) /\ Unanswered(t)
       /\ NoWork(p, Me(t))
       /\ parkedFrames' = ParkedNow(t) /\ mainWaits' = MainNow(t)
       /\ \/ /\ fires
             /\ bulk' = [what |-> "again", tokens |-> idleHooks, pool |-> p]
             /\ idleHooks' = <<>>
             /\ waiters' = Booked(t)
             /\ UNCHANGED <<idle, pc, exit>>
          \/ /\ ~fires /\ stuck
             /\ exit' = "deadlock"
             /\ waiters' = Booked(t)
             /\ UNCHANGED <<idle, pc, bulk, idleHooks>>
          \/ /\ ~fires /\ ~stuck
             /\ waiters' = [Booked(t) EXCEPT ![Top(t).wid].parker = t]
             /\ idle' = [idle EXCEPT ![p] = Append(@, t)]
             /\ Goto(t, "park")
             /\ UNCHANGED <<bulk, idleHooks, exit>>
       /\ UNCHANGED <<made, actorVars, tasks, retired, freeWaiters, active,
                      externals, tokenVars, stack, sending, permit>>

SleepsOn(t) == IF pc[t] = "park" THEN idle[Serves[t]] ELSE blocked[sending[t].to]

\* park returns: on a permit, which it consumes, or for no reason, as the
\* host's park may.
Park(t) ==
    /\ exit = "no" /\ pc[t] \in {"park", "full"}
    /\ t \in permit \/ Len(SleepsOn(t)) <= MaxSpurious
    /\ permit' = permit \ {t}
    /\ Goto(t, IF pc[t] = "park" THEN "look" ELSE "send")
    /\ UNCHANGED <<made, actorVars, poolVars, waiterVars, idleHooks, countVars,
                   bulk, tokenVars, stack, sending, exit>>

Program(t) ==
    \/ \E a \in Actors, s \in Slots \cup {0} : Send(t, a, s)
    \/ \E gated \in BOOLEAN : MintActor(t, gated)
    \/ \E p \in Pools, c \in SUBSET Slots : MintTask(t, p, c)
    \/ MintWaiter(t) \/ Await(t)
    \/ \E s \in Slots : Answer(t, s) \/ OnIdle(t, s)
    \/ \E a \in Actors, s \in Slots : Watch(t, a, s)
    \/ \E p \in Pools : NewPool(t, p)
    \/ \E a \in Actors : NewActor(t, a)
    \/ \E h \in Hosts, c \in SUBSET Slots : HostOpens(t, h, c)
    \/ ActorFaults(t) \/ TaskFaults(t)

\* What the runtime does by itself on thread t once program code lets it.
Runtime(t) ==
    \/ Resend(t) \/ Park(t)
    \/ ActorReturns(t) \/ TaskReturns(t)
    \/ NextRetires(t) \/ NextWork(t) \/ NextSleeps(t)
    \/ WaitGot(t) \/ WaitWork(t) \/ WaitIdles(t)

Exited == exit # "no" /\ UNCHANGED vars

Next ==
    \/ \E t \in Threads : Program(t) \/ Runtime(t) \/ HostCloses(t)
    \/ DeliverNext \/ EndBulk
    \/ MainReturns
    \/ Exited

Spec == Init /\ [][Next]_vars

\* The host runs every thread that can run, the mutex is not withheld from one
\* for ever, an activation's code ends, and the block of a waitfor ends.
Fairness == /\ \A t \in Threads : WF_vars(Runtime(t)) /\ WF_vars(Await(t))
            /\ WF_vars(DeliverNext \/ EndBulk)
FairSpec == Spec /\ Fairness

(***************************************************************************)
(* Correctness.                                                            *)
(***************************************************************************)
TypeOK ==
    /\ made \subseteq Actors \cup Pools
    /\ queue \in [Actors -> Seq(Entry)]
    /\ userLen \in [Actors -> Int]
    /\ gate \in [Actors -> Slots \cup {0}]
    /\ running \subseteq Actors /\ dead \subseteq Actors
    /\ blocked \in [Actors -> Seq(Threads)]
    /\ watchers \in [Actors -> Seq(Slots)]
    /\ idle \in [Pools -> Seq(Threads)]
    /\ tasks \in [Pools -> Seq(Slots)]
    /\ readyQ \in [Pools -> Seq(Actors)]
    /\ retired \subseteq Pools
    /\ owed \in [Actors \cup Pools -> Nat]
    /\ waiters \in Seq(WaiterRec) /\ freeWaiters \in Seq(Wids)
    /\ idleHooks \in Seq(Slots)
    /\ nextSlot \in Slots \cup {0}
    /\ active \in Int /\ parkedFrames \in Int /\ mainWaits \in Int
    /\ externals \in Nat
    /\ bulk \in BulkRec
    /\ target \in [Slots -> Places] /\ tracked \subseteq Slots
    /\ held \in [Owners -> SUBSET Slots]
    /\ stack \in [Threads -> Seq(Frame)]
    /\ pc \in [Threads -> Label]
    /\ sending \in [Threads -> SendRec]
    /\ permit \subseteq Threads
    /\ exit \in {"no", "returned", "deadlock", "wedged"}

\* An actor's activation is on at most one stack, at one depth: the body is
\* "owned by the table or by the one thread running it, which is how an actor
\* never runs twice at once".
OneActivation ==
    \A t, u \in Threads : \A i \in DOMAIN stack[t], j \in DOMAIN stack[u] :
        /\ stack[t][i].who \in Actors => stack[t][i].who \in running \ dead
        /\ stack[t][i].who \in Actors /\ stack[t][i].who = stack[u][j].who
             => t = u /\ i = j

\* A thread asleep for want of work (in serve_pool or await_answer) is on its
\* pool's idle list, so the next wake_pool can reach it.
SleepersAreListed ==
    \A t \in Threads : pc[t] = "park" /\ t \notin permit
        => t \in ToSet(idle[Serves[t]])

\* A sender asleep on a full mailbox is on that actor's blocked list.
BlockedAreListed ==
    \A t \in Threads : pc[t] = "full" /\ t \notin permit
        => t \in ToSet(blocked[sending[t].to])

\* A frame asleep in a wait has not been answered, and the answer knows whom
\* to wake.
WaitersAreWoken ==
    \A t \in Threads : pc[t] = "park" /\ stack[t] # <<>> /\ t \notin permit
        => Unanswered(t) /\ waiters[Top(t).wid].parker = t

\* An actor is on its pool's ready queue exactly while it could be activated:
\* no work is forgotten, and the queue holds each actor once.
ReadyQueueIsExact ==
    \A a \in Actors :
        /\ Ready(a) <=> Takeable(a, Nobody)
        /\ \A i, j \in DOMAIN readyQ[Home[a]] :
             readyQ[Home[a]][i] = a /\ readyQ[Home[a]][j] = a => i = j

Asleep(t) == pc[t] \in {"park", "full"} /\ t \notin permit
CrewOf(p) == {t \in Workers \cup {Main} : Serves[t] = p /\ pc[t] # "done"}

\* wake_pool's comment: "work is never left with every thread asleep".  While
\* a pool has work queued, its threads are not all asleep with one of them
\* asleep for want of work.
WorkIsNotSleptOn ==
    \A p \in Pools :
        HasWork(p, Nobody) /\ exit = "no" /\ bulk = Free
          => \/ \E t \in CrewOf(p) : ~Asleep(t)
             \/ \A t \in CrewOf(p) : pc[t] # "park"

\* ActorRec.blocked: "Senders parked on a full mailbox, woken one per dequeue".
\* A sender still asleep when the mailbox holds no message has another sender
\* ahead of it, woken and about to send.
SendersAreNotStranded ==
    \A t \in Threads :
        pc[t] = "full" /\ Asleep(t) /\ exit = "no" /\ userLen[sending[t].to] = 0
          => \E u \in Threads : /\ sending[u].to = sending[t].to
                                /\ pc[u] = "send" \/ (pc[u] = "full" /\ ~Asleep(u))

\* The settled system is reported.  When every thread is asleep, none of them
\* in a send, main in a wait, and no host thread is open, nothing will ever
\* move again: "a waiting frame prints a report and the process exits with
\* status 1, rather than hang".
NoSilentHang ==
    exit = "no" /\ bulk = Free /\ externals = 0 /\ pc[Main] = "park"
      => \E t \in Threads : pc[t] \notin {"park", "done", "unborn"} \/ t \in permit

\* The frames of every stack, as <<thread, depth>>.
Frames == UNION {{<<t, i>> : i \in DOMAIN stack[t]} : t \in Threads}
FrameAt(f) == stack[f[1]][f[2]]
Waits(f) == FrameAt(f).wid # 0 /\ waiters[FrameAt(f).wid].waiting > 0
Activations == {f \in Frames : FrameAt(f).who \notin Threads}

\* The three counters the idle and deadlock tests rest on agree with the
\* stacks: activations and tasks begun and not finished, those of them in a
\* wait, and how deep main's own thread is in a wait.
BooksBalance ==
    /\ active = Cardinality(Activations)
    /\ parkedFrames = Cardinality({f \in Activations : Waits(f)})
    /\ mainWaits = Cardinality({f \in Frames \ Activations : Waits(f)})

\* The deadlock report is never wrong: when it is made, every frame there is
\* waits for an answer nobody has given, and nothing is queued that any
\* thread could run.
StuckIsReal ==
    exit = "deadlock" =>
        /\ \A f \in Frames : f[1] \notin Hosts
              => /\ FrameAt(f).wid # 0 /\ ~waiters[FrameAt(f).wid].filled
                 /\ pc[f[1]] \in {"look", "park"}
        /\ \A x \in Hosts : pc[x] \in {"unborn", "done"}
        /\ \A p \in Pools : ~HasWork(p, Nobody)

\* on_idle: "the moment nothing anywhere can run".  When the hooks are
\* answered no activation or task is under way and none can begin.
IdleIsReal ==
    [][idleHooks # <<>> /\ idleHooks' = <<>>
         => Activations = {} /\ \A p \in Pools : ~HasWork(p, Nobody)]_idleHooks

\* `owed', which on_idle reports and retirement waits for, counts exactly the
\* replies aimed there that the program still owes.
OwedIsExact ==
    \A x \in Actors \cup Pools :
        owed[x] = Cardinality({s \in tracked : OwedTo(s) = x})

\* Nobody waits on the dead: no sender is parked on a dead actor's mailbox, no
\* watcher is still registered, nothing is queued for it.
TheDeadAreLeft ==
    \A a \in dead : /\ queue[a] = <<>> /\ blocked[a] = <<>>
                    /\ watchers[a] = <<>> /\ gate[a] = 0

\* Where a reply is in its life: 0 unminted, 1 open (somebody has the token),
\* 2 answered and not yet picked up, 3 over.
InMessage(s) == \/ \E a \in Actors : Delivered(s) \in ToSet(queue[a])
                \/ \E t \in Threads : sending[t].tok = s
Open(s) == \/ \E o \in Owners : s \in held[o]
           \/ InMessage(s)
           \/ \E a \in Actors : s \in ToSet(watchers[a])
           \/ s \in ToSet(idleHooks) \cup ToSet(bulk.tokens)
Due(s) == \/ \E a \in Actors : Answered(s) \in ToSet(queue[a])
          \/ \E p \in Pools : s \in ToSet(tasks[p])
          \/ \E w \in DOMAIN waiters : waiters[w].slot = s /\ waiters[w].filled
Phase(s) == IF s > nextSlot THEN 0 ELSE IF Open(s) THEN 1 ELSE IF Due(s) THEN 2 ELSE 3

\* A token goes where the dead are: with a message to an actor that has died,
\* or with the task that held it.
Dropped(s) == \/ \E t \in Threads : sending[t].tok = s /\ sending[t].to \in dead
              \/ \E t \in Threads : \/ TaskFaults(t) /\ s \in held[Me(t)]
                                    \/ \E a \in dead : Send(t, a, s)

\* A reply is answered at most once, and an answer given is not lost: the only
\* replies that end unanswered were for the dead, or their tokens went with a
\* death or to the dead.
RepliesAreKept ==
    [][\A s \in Slots :
         /\ Phase(s) <= Phase(s)'
         /\ Phase(s) = 1 /\ Phase(s)' = 3
              => \/ target[s] \in dead
                 \/ \E a \in dead' \ dead :
                      s \in held[a] \/ Delivered(s) \in ToSet(queue[a])
                 \/ Dropped(s)]_vars

\* Every actor that could be activated is, unless it dies or the process ends.
EveryActorIsServed ==
    \A a \in Actors : Takeable(a, Nobody) ~> a \in running \cup dead \/ exit # "no"

\* main's wait ends: "a wait that cannot end is a named error, not a hang".
MainWaitsEnd ==
    (pc[Main] \in {"look", "park"}) ~> (pc[Main] = "run" /\ Me(Main) = Main) \/ exit # "no"

\* A reply still open to a waiting frame is aimed at the record of its own
\* wait: the record was not reused, nor filled by another answer.
OpenWaitsKeepTheirRecord ==
    \A s \in Slots :
        Open(s) /\ s <= nextSlot /\ target[s] \in Wids =>
            /\ waiters[target[s]].slot = s /\ ~waiters[target[s]].filled
            /\ target[s] \notin ToSet(freeWaiters)

(***************************************************************************)
(* What the proofs need to know of every state besides.                    *)
(***************************************************************************)
\* A thread's frames are nested: all but the top one wait, the top one waits
\* exactly while the thread looks for work or is parked for it, and a thread
\* that runs or sends has a frame to run.  Pools not made have no threads.
NestedOn(t) ==
    /\ \A i \in DOMAIN stack[t] : i < Len(stack[t]) => stack[t][i].wid # 0
    /\ pc[t] \in {"look", "park"} /\ stack[t] # <<>> => Top(t).wid # 0
    /\ pc[t] \in {"run", "send", "full"} => stack[t] # <<>>
    /\ pc[t] = "unborn" => stack[t] = <<>>
    /\ pc[t] \in {"send", "full"} => sending[t].to \in Actors
FramesAreNested ==
    /\ \A t \in Threads : NestedOn(t)
    /\ \A t \in Workers : Serves[t] \notin made => pc[t] = "unborn"

\* A waiter record once made is never unmade.
WaitersExist ==
    /\ \A s \in Slots : target[s] \in Wids => target[s] \in DOMAIN waiters
    /\ \A t \in Threads : \A i \in DOMAIN stack[t] :
         stack[t][i].wid # 0 => stack[t][i].wid \in DOMAIN waiters
    /\ ToSet(freeWaiters) \subseteq DOMAIN waiters
=============================================================================
