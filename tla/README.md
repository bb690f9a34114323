# A verification of Salvo's actor runtime

Salvo is a language whose compiler is written in Rust and whose runtime is
written in Salvo itself. This directory holds TLA+ specifications of the
runtime's concurrent core and of the compiler's check for actors that may wait
for one another, TLC runs that check them on small instances, and proofs,
checked by TLAPS, that hold for every instance. Paths below are relative to the
repository.

## 1. What there is to verify

### The parts of the system

| part | where | state it keeps | operations | modelled |
|---|---|---|---|---|
| **actor scheduler** | `lib/std/runtime.sv` | one table under one mutex: actors (mailbox, gate, `running`, `dead`, `blocked`, `watchers`, `owed`), pools (`tasks`, `ready`, `idle`, `retired`), waiter records, idle hooks, four counters | spawn, send, mint/answer a reply, watch, wait, take work, finish, task_done, idle hook, external begin/end | `Scheduler` |
| **host runtime** | `lib/platform/std/runtime.{rs,kt}` | each thread's park permit and its place (pool, actor) | park, unpark, start a thread, exit | in `Scheduler` |
| **host stream readers** | `lib/std/runtime/streams.sv` | table of open streams, replies pending | receive: a host thread reads a chunk and answers | the two calls, in `Scheduler` |
| **timers** | `lib/std/runtime/timers.sv` | pending deadlines, whether the wheel runs, its parker; on the virtual runtime a clock and its hook | register, the wheel's activation, advance | `Timers` |
| **routing** | `lib/std/runtime/routing.sv` | identities of proxies, credits, frames staged and parked, routes, group views | import an address, send through a proxy, flush, deliver a frame, grant, node_left | `Routing` |
| **actor-cycle check** | `crates/salvo-core/src/deadlock.rs` | a graph of who waits for whom; the search's queue, visited and done nodes | build the graph, report cycles of waits, then of sends | `Deadlock` |
| **groups and routers** | `lib/std/net.sv`, `net/shard.sv` | members of node and actor groups, watchers, dialled endpoints | handshake, join, leave, replicate, route | no |
| **streams** | `lib/std/stream.sv`, `stream/` | position, chunk in hand | adapters over readers | no |
| **actor tests** | `lib/std/test.sv`, `test/` | virtual clock, seeded choice of the next actor | run a test on one thread | the clock, in `Timers` |
| **library** | `lib/std/core/`, `heap.sv`, `random.sv`, `fs`, `process`, ... | values only | pure operations and I/O | no |
| **rest of the compiler** | `crates/salvo-syntax`, `salvo-core`, `salvo-backend*` | syntax trees, tables of one pass | parse, resolve, check, lower, print | no |
| **tools** | `crates/salvo-cli`, `salvo-test`, `salvo-testkit`, `vscode` | files | drive the compiler | no |

### How they interact

Program code runs only inside an *activation* of an actor, a *task*, `main`, or
a host thread, each a frame on some thread's stack. It calls the scheduler,
whose handler runs whole under the table's mutex; parking and running code
happen outside it. A `waitfor` does not idle its thread: `await_answer` serves
the thread's pool from inside the wait, so frames of different actors nest on
one stack. Replies are linear tokens: minted aimed at an actor, a pool (a task)
or a waiter record, passed in messages, and answered once. Timers, streams and
the wire layer are clients of the same table: timers and streams answer tokens
from threads of their own, routing turns frames into entries and back.

### What is hard here

Threads interleave between two calls on the table, and everything read before
a park may be stale after it. `park` may return for no reason, and one permit
serves both "there is work" and "there is room". Whether the program is idle,
stuck or still waiting for an outside source is decided by comparing counters.
Deaths must reach whoever waits. Over the wire, frames are lost or wait for a
route, nodes leave, and one operation takes several locks in turn. The timer
thread sleeps by a look at the clock that is stale when it sleeps. The cycle
check answers a question about all paths with one search per node. Values are
parsed, formatted and compiled by sequential code that tests reach well; the
concurrency is where tests do not, so that is where the specifications are.
`PROJECT.json` lists the hazards one by one, each at its line and with the
properties that would catch it, or the reason there is none.

### What makes each part correct

* *Scheduler*: an actor runs once at a time; every message and answer that can
  be delivered is; nobody sleeps off the list that would wake it; a sender
  woken finds room or another before it; replies are answered at most once and
  counted exactly; idle and deadlock are reported when true and only then.
* *Timers*: a deadline fires, once, not before its time; the wheel is started
  once for each time it stops and sleeps past no deadline.
* *Routing*: two nodes' books of credits agree; credits held, in flight and
  queued keep to a mailbox's room; a grant reaches the senders asleep for it, and
  none waits for ever once the others stop sending; a proxy is one identity; a
  frame staged is flushed.
* *Groups*: all members of a connected, quiet network see the same group; who
  left is dropped once; a route goes to a member.
* *Streams*: a stream is used by one reader at a time and closed once; every
  receive answers.
* *Cycle check*: every actor on a cycle is named, those on a cycle of waits by
  an error, and what is reported is a cycle of the strength it says.

## 2. The plan, and what is left of it

1. `Scheduler`, with `Mailbox` as what it promises each actor, and the proofs
   of `SchedulerProofs` and the three modules on top of it: done.
2. `Timers`, with `Alarm` as what they promise, the refinement proved: done.
3. `Routing` over a lossy wire, with the scheduler cut down to mailboxes and
   proxy entries: done for messages and credits. Left: replies and tasks that
   leave the node, control frames.
4. `Deadlock`, the static check, against a definition of cycles by closed sets:
   done.
5. `Groups`: the membership handshake and actor-group replicas. It stands on
   the control frames of 3. Left.
6. `Streams` (check-out, close once). Left.
7. Proofs: all the safety of `Timers`, `Routing` and `Deadlock`, and all of
   `Scheduler`'s that holds for every program, done (section 5).

Runs are kept few: each asks several related questions of one instance.

## 3. The modules

| module | what it is |
|---|---|
| `Scheduler` | the table, the threads and their stacks; every operation an action; properties at the end |
| `Mailbox` | what the scheduler promises one actor: capacity, order, the gate. No threads |
| `SchedulerMailboxes` | the refinement: `Box` instantiates `Mailbox` for one actor, the constant `Whose` |
| `Routing` | nodes, proxies, credits, frames and the wire between them |
| `Timers` | the deadline table, the wheel, its callers; the virtual clock |
| `Alarm` | what the timers promise: answered once, at a reading past the deadline that the clock has reached |
| `Deadlock` | a program's wait-for graph and the search for its cycles |
| `MCScheduler`, `MCRouting`, `MCTimers`, `MCDeadlock` | small programs, clusters and delays for TLC |
| `SchedulerProofs` | the types and nesting of the scheduler's tables, activations, sleepers, the dead: theorems and proofs; where a reply's token may be |
| `SchedulerWaitProofs` | on top of it: the ready queues and the mailboxes; the waits and the counters |
| `SchedulerReportProofs` | on top of `SchedulerWaitProofs`: the deadlock and idle reports, the replies owed, open and answered |
| `SchedulerHangProofs` | on top of that: queued work finds a thread, a hang is reported; in programs that never wait, neither work nor a sender is slept on |
| `RoutingProofs` | routing's addresses, sleepers and flushes; what a step may do with the frames; types, parked frames, nothing arrives twice; whoever a frame is about has a proxy |
| `RoutingCreditProofs` | on top of that: the books of credits, the room in a mailbox, what is pending |
| `TimersProofs`, `DeadlockProofs` | the theorems of the other components and their proofs |

### How `Scheduler` corresponds to the code

*State.* One variable per field of the source's records (`ActorRec`, `PoolRec`,
`WaiterRec`, the handler's own counters), with these merged: an actor's entries
carry their slot, so the source's parallel lists `queue` and `slots` are one;
the flag `ActorRec.ready` is membership of the ready queue; `retired_workers`
is the number of threads whose label is `"done"`. A token is its slot number:
`target` says where it is aimed, `tracked` whether it still counts as owed and
`held` whose code has it. `stack[t]` is thread `t`'s nest of `run_actor`,
`run_task` and `await_answer` calls; a frame's `wid` is the waiter record of
its open `waitfor`. `pc[t]` says where `t` is between calls on the table:
running program code, about to look for work, parked for it, about to send
again, parked in a send, or gone. `permit` is the set of threads with an unpark
pending.

*Actions.* A call on the table is one action, made whole under the lock, with
every wake and every retirement that happens in it. Two kinds of call deliver a
list of tokens, each delivery changing the same tables: `bulk` is such a call
in progress, no other call starts meanwhile (the mutex is held), and
`DeliverNext`/`EndBulk` are its loop and its end. `Enqueue` is shared by a
first `Send` and by the `Resend` of a sender that was parked. `WaitGot`,
`WaitWork` and `WaitIdles` are the branches of `wait_step`; `NextRetires`,
`NextWork` and `NextSleeps` those of `next_work`. `TakeWork` includes what
`take_work` drops on its way.

*Program code* is open: `May` says which operations the code of each actor,
thread and of tasks may perform, in any order and number, holding whatever
tokens it has come by. Proofs are for every `May`. An activation may fault
where `May` allows.

*Abstractions.* Messages carry at most one reply and nothing else; answers
carry none. A frame has one open `waitfor` at a time (nested ones in one frame
are not modelled: inner blocks run as nested frames only through the serve). A
task captures at most one reply, a host thread any number. What reports and
idle notices say is left out. The process stops where `exit_process` does.

*Bounds.* `MaxSlot`, `MaxWaiters` cap how many replies are minted and how many
waiter records made; `MaxSpurious` says up to what length of the list a thread
sleeps on park may return without a permit (each such return lengthens the
list, so it must stop somewhere). Everything else is bounded by these and by
the mailbox capacities.

### How `Routing` corresponds to the code

*State.* One variable per field of `Routes` and of the part of `ActorRec` that
a proxy or a hosted actor uses; the source's `held_n`, which counts credits
granted for an actor and messages in flight for a proxy, is two variables,
`held` and `pending`. A process hosts one node, as every process does outside
tests. `pc` says between which two calls a thread of `import_addr`,
`send_remote`, `flush`, `deliver` or `node_left` is: each call takes the routing
table's lock or the scheduler's, never both, so every such place is one where
other threads run. A message is the sender and a number; what it says is left
out, and so are bits of identity: every address is of an actor that was made.

*The wire* keeps the frames of each pair of nodes in order, as the transports
in `lib/std/net.sv` do, and may lose any (`Lose`); it never makes a second copy.
`lost`, `sent` and `arrived` are history, which no guard reads.

*The scheduler's part* is what the entries need: a mailbox with its capacity
(`LocalSend`, `EnqueueRemote`, `Dequeue`), a death (`Die`), a proxy's mark and
kill. That mailboxes are served at all is `Scheduler`'s to show, and
`FairSpec` assumes it.

*Left out of a thread's steps.* `park` returns only on a permit here: a sender
woken for nothing looks for credit and is listed once more, and that it may be
is modelled in `Scheduler` only. Every frame and every payload decodes: one
that does not is dropped by `deliver` before it changes any table, so it is as
good as lost (`Lose`).

### How `Timers` corresponds to the code

Each reply stands for one call of `after_nanos` on a thread of its own, at its
own pace (`pc`); the wheel's thread runs `Wheeling.run` in the steps between
which the table, the clock or a permit may change. The clock ticks when it
likes, up to `MaxClock`. Longs wrap at `MaxLong`: the sum of now and a delay,
and the difference that the wheel naps for. `park_nanos` returns on a permit, at
its end or for no reason; a permit may be lost between two activations, where
the scheduler parks and unparks the same thread. A behaviour is on one runtime,
the ordinary or the virtual one; on the virtual one there is a single thread,
so a call is a step, and so is the task the clock hook runs. `Alarm` sees only
the clock, what has been set and what was answered.

### How `Deadlock` corresponds to the code

A program is what the checker has recorded of it: which effects each handler
wears, requires and claims, which members it has, what it mints, binds and
sends. `Graph` gives the edges, with their kind, that `build` adds loop by loop
for actors, servants (mixed handlers and routers) and monitors. Between two
nodes only the strongest kind is kept, as in the source; the site that the
source keeps with it is left out, so ties are not modelled. The search is one
action per turn of the innermost loop, in the order of the nodes' names
(`Rank`), once over the edges that wait and once over all. A cycle in the
properties is stated without paths: a node is on one when it is in every closed
set that has its successors.

`TasksAreCode` compares the graph with that of the same program in which nothing
is left to follow: each task's sends with its minters, each wait with whoever
binds its way to it (`WrittenOut`). It has two exceptions, and they are the
code's. Whether a stateful handler of a plain effect, one that is run under a
lock, is worth a node is asked of its dependencies and its *own* `waitfor`
(`deadlock.rs:254`), not of what it binds, as lines 267-270 do for everything
else: such a handler (`Overlooked`) makes whoever binds it wait, but has no node.
And of a monitor's sends only its tasks' are read (lines 556-563), so its tasks
are left with it. The programs are what the checker has recorded, those it
refuses included: it lets no member of a handler bind and no monitor be spawned
with a `with` clause, so in an accepted program nothing is `Overlooked`.

## 4. The runs

Deadlock checking is off: a program that has nothing more to do stops, and the
open program may decline to take any further step. That a *stop* is legitimate
is what `NoSilentHang`, `WorkIsNotSleptOn` and the liveness properties are about.

| run | instance | what it shows |
|---|---|---|
| `MCPipeline` | main feeds A, A feeds B, mailboxes of one, two shared threads, a gate, deaths, a watch, a fault sink | ready queues are exact, work is never slept on, senders are not stranded or lost, the dead hold nobody; each actor implements `Mailbox`; every deliverable actor is activated |
| `MCWait` | main waits for A, A waits for B, two threads | one activation at a time, no lost wakeup, the books balance, a settled system is reported, records are not reused early; main's wait ends, with its answer or the report |
| `MCTasks` | a dedicated pool made at run time, tasks, a watch, an idle hook, faults, a host thread, an actor on main's pool, spurious parks | types, exact counts of owed replies, idle only when idle, a reported deadlock is real, replies answered once and never lost |
| `MCRemote` | two senders on one node and one on another, an actor with a mailbox of two on a third | the mailbox's room is kept across nodes, what is pending is counted exactly; of a bounded number of messages each, every one gets its credit and arrives |
| `MCNodes` | two nodes, one with its outbound hook bound late, that lose frames, hear each other leave and meet again; local senders; the actor may die | types, credit books agree up to what was lost, one proxy per identity, no credit or frame is slept on, nothing arrives twice |
| `MCTimers` | two calls, delays negative, short and too long, on Longs of a few bits | the wheel is started once, no deadline is slept on, none fires early; `Alarm` is implemented; every deadline the clock reaches fires |
| `MCCycles` | 11,340 programs of two actors and a handler that is mixed, a monitor or a router, with gates, waits, bindings two levels deep, tasks minting tasks | the reports are true and complete; tasks and bindings count as if written in place, but for the two exceptions of section 3 |
| `MCStaleIdle`, `MCRetired`, `MCReorder`, `MCCreditStuck`, `MCOccupancy` | see below | five sentences of the source that the source does not keep |

*Why the bounds are enough.* Each instance is the smallest in which the hazard
it is for can happen at all: two threads in one pool and a third elsewhere for
races; capacity one so that every second send blocks; a wait of main's and a
wait of the actor it waits for, on two threads either of which may serve the
other's work from inside its own; one death with one watcher; two senders of one
node so that one may take the other's frame, credit or proxy; room for two
entries so that both may make one; a third node so that two share a mailbox;
two calls of `after_nanos`, since a third finds the wheel in no other state
than the second, and a `Long` just wider than the clock so that sums wrap; two
actors and one more node so that cycles of length two and three cross. Each
property of a passing run is also checked to *fail* when a plausible mistake is
made in one definition (a dropped guard, a forgotten wake, a record not reset):
the `mutants` of `PROJECT.json`. `MCNodes` takes its two senders, which run the
same code on the same node, as symmetric.

*Named bounds.* `MaxSlot`, `MaxWaiters`, `MaxSpurious` (section 3); `MaxSends`,
how many messages a sender begins (so `MessagesArrive` is about senders that
stop: one that never does might take each credit as it comes back, since a grant
wakes all who wait and keeps no order among them); `MaxEntries`, how many entries a node's
table has room for; `MaxClock`, where the clock stops; `MaxLong`, the width of
a `Long`.

*Fairness.* In `Scheduler`, weak fairness of each thread's runtime steps (the
host schedules every thread that can run, and the mutex is handed on), of
`Await` (the block of a `waitfor` ends) and of the loop of a call that delivers
a list. Nothing is asked of program code: it may stop sending, never answer,
never fault. So `MainWaitsEnd` holds because the *runtime* notices; and
`EveryActorIsServed` is checked on a program whose code always returns. In
`Routing`, of a thread inside an operation, of each node's receiver, of
dequeues and of flushes; nobody must begin a send, import an address or meet a
node. In `Timers`, of the clock, of a call begun, of the wheel's thread and of
the test's advance; `WokenForNothing` has none.

### What the code does not keep

Each of these runs checks one sentence of the source and finds a behaviour that
breaks it; `PROJECT.json` quotes the lines.

* `MCStaleIdle` (`WorkIsNotSleptOn`): a frame woken by its answer leaves its
  entry on the idle list. The next wake is spent on it while it runs; if it
  then parks in a send, work is queued with every thread of the pool asleep.
  `MCPipeline` shows the property holds when no program waits.
* `MCRetired` (`NoSilentHang`): the worker of a pool that has just retired
  returns before the test that a worker going idle makes. If the retirement was
  the last thing to happen, main is asleep in a wait that cannot end, nothing is
  left to run, and nobody looks: the program hangs where a report is promised.
* `MCReorder` (`MessagesArriveInOrder`): a thread stages a frame, another's
  flush takes it and is stopped before it sends it; the first thread's next
  message reaches the wire before it, though delivery is said to be in order
  for each pair.
* `MCCreditStuck` (`SendersStop`): `node_left` wakes the senders that wait for
  credit and only then kills their proxies. One that looks in between parks
  again, and nobody is left to wake it.
* `MCOccupancy` (`OccupancyCyclesAreErrors`): the search marks the nodes of the
  cycle it reports. An occupancy edge all of whose cycles are longer than send
  cycles through its nodes is never followed: the program gets warnings where
  an error is promised.

*Met on the way, and without a run.* Of most of these no sentence of the
repository is clear enough to hold the code to; the last two break one that is,
and the properties that would meet them are stated without them.

* A pool retires when no task is queued, no reply owed and no actor alive,
  though a task may still run on it; what that task then queues there never
  runs.
* A fault inside a `waitfor` block leaks its waiter record.
* A permit left over from a wait lets a sender's park return at once; it is
  then listed twice on the mailbox it waits for.
* A thread that finds a proxy before it is marked as one sends to an inert
  entry: the send finds no room and is never woken.
* Local senders look only at the mailbox, so it may hold more than its capacity
  once the credits granted on it are spent.
* A message lost, or dropped by a death, gives no credit back: its sender's
  share of the room is gone for good.
* The comment on `cycles` says one cycle per strongly connected component; a
  component may have several reported.
* A handler under a lock that waits only by what it binds is given no node
  (section 3); no program that is accepted has one.
* A grant wakes every sender that waits, and the first to look takes the credit:
  no sender is promised a turn.
* A deadline is answered "once at least the delay has passed" and "never earlier
  than the deadline" (`timers.sv:20-23`, and again at 191-192). Now and a delay
  of nearly the greatest `Long` wrap round, and such a reply is answered at
  once. `FiredAtTheDeadline` is stated for the deadlines that do not wrap.
* "What its members can wait on or send to becomes an edge held while the lock
  is" (`deadlock.rs:233-235`): what a monitor sends through an address it holds
  becomes none, only what its tasks send does. `TasksAreCode` leaves it so.

## 5. What is proved

For any sets of actors, pools, threads, nodes, replies and handlers, any
program, any capacities and bounds:

| theorem | statement | why it matters |
|---|---|---|
| `SchedulerProofs` | | |
| `TypesAreKept` | `Spec => []Typed` | the inductive invariant the rest stands on |
| `TypeCorrect` | `Spec => []TypeOK` | no counter of owed replies goes below zero; no record is read that is not there |
| `ActivationsAreSingle` | `Spec => []OneActivation` | an actor never runs twice at once, nor once dead |
| `SleepersAreReachable` | `Spec => []SleepersAreListed` | no wakeup is lost between look and park |
| `SendersAreReachable` | `Spec => []BlockedAreListed` | the same for senders |
| `DeadActorsAreLeft` | `Spec => []TheDeadAreLeft` | nothing waits on, or is queued for, the dead |
| `SchedulerWaitProofs` | | |
| `ReadyQueuesAreExact` | `Spec => []ReadyQueueIsExact` | no work is forgotten or queued twice |
| `MailboxesAreImplemented` | `Spec => MailboxIsKept` | the scheduler implements `Mailbox` for every actor |
| `SleepingFramesAreWoken` | `Spec => []WaitersAreWoken` | an answer finds the thread asleep in the wait |
| `BooksAreBalanced` | `Spec => []BooksBalance` | the counters behind the reports are true of the stacks |
| `SchedulerReportProofs` | | |
| `ReportsAreReal` | `Spec => []StuckIsReal` | a program that could go on is never ended as deadlocked |
| `IdleMomentsAreReal` | `Spec => IdleIsReal` | idle hooks fire only when nothing can run |
| `RepliesAreCounted` | `Spec => []OwedIsExact` | retirement never drops a pool still owed a reply |
| `OpenWaitsAreSafe` | `Spec => []OpenWaitsKeepTheirRecord` | a record is not used again under a reply still to come |
| `AnswersAreKept` | `Spec => RepliesAreKept` | nothing is answered twice, and no answer is lost but to a death |
| `SchedulerHangProofs` | | |
| `WorkFindsAThread` | `Staffed`: `Spec => []WorkHasAThread` | queued work has a thread that is not asleep for want of it |
| `HangsAreReported` | `Staffed`: `Spec => [](NoSilentHang \/ Buried \/ retired # {})` | "a wait that cannot end is a named error, not a hang", but for two cases |
| `WorkIsTaken` | `Calm`: `Spec => []WorkIsNotSleptOn` | "work is never left with every thread asleep", in a program that never waits |
| `SendersFollowRoom` | `Calm`, room everywhere: `Spec => []SendersAreNotStranded` | a sender asleep on an empty mailbox has another awake ahead of it |
| `RoutingProofs` | | |
| `AddressesAreOne` | `Spec => []AddressesAgree` | one identity is one proxy |
| `NoCreditIsSleptOn` | `Spec => []CreditIsNotSleptOn` | no grant is lost between look and park |
| `StagedFramesAreFlushed` | `Spec => []FramesAreFlushed` | what is staged has a thread to send it |
| `TypeCorrect` | `Spec => []TypeOK` | every frame parked, staged, taken or on the wire is a well-formed one |
| `ParkedFramesHaveAReason` | `Spec => []ParkedFramesWait` | no frame is forgotten when its route or hook comes |
| `MessagesAreNotRepeated` | `Spec => []MessagesArriveOnce` | no interleaving of stagers and flushers sends a frame twice |
| `RoutingCreditProofs` | | |
| `CreditsBalance` | `Spec => []CreditsAreKept` | no credit is made or leaks but with a frame the wire lost |
| `CapacityHoldsAcrossNodes` | `Spec => []RoomIsKept` | many nodes share one mailbox without overrunning it |
| `PendingIsCounted` | `Spec => []PendingIsExact` | what a proxy answers for its occupancy is true |
| `TimersProofs` | | |
| `TypeCorrect` | `Spec => []TypeOK` | at most one clock hook |
| `OneStartAtATime` | `Spec => []WheelIsStartedOnce` | the wheel is neither forgotten nor started twice |
| `NothingIsSleptOn` | `Spec => []NoDeadlineIsSleptOn` | a registration always reaches the wheel |
| `FiresInTime` | `Spec => []FiredAtTheDeadline` | nothing fires early |
| `ThePromiseIsKept` | `Spec => KeepsItsPromise` | the service implements `Alarm` |
| `DeadlockProofs` | | |
| `TypeCorrect` | `Spec => []TypeOK` | |
| `ReportsAreFair` | `Spec => []ReportsAreTrue` | soundness of the reports |
| `NoCycleGoesUnreported` | `Spec => []EveryCycleIsReported` | completeness |
| `NoGateCycleGoesUnreported` | `Spec => []GateCyclesAreErrors` | ... for errors |
| `TasksAndBindingsAreCode` | `Spec => []TasksAreCode` | a wait or send is seen through any chain of tasks and bindings, but where section 3 says |

*Assumptions.* In `Scheduler`, `ConstantsAssumption` (the shapes of the
constants: main's pool is not dedicated and has no worker, a dedicated pool has
no sink, as `spawn` makes them), `EarlyAssumption` (what is there from the start
was made in order: an actor's pool and a pool's sink before it) and
`NamesAreDistinct`; the refinement is proved for whichever actor the constant
`Whose` is. The first two theorems of `SchedulerHangProofs` have a hypothesis, `Staffed`:
every pool but main's has a worker. It is not an assumption of the model, since
the code lets a program ask for a pool of no threads; what is queued on such a
pool never runs. The last two have another, `Calm`: the program's code has no
`waitfor`, the host's park returns only when its thread is unparked
(`MaxSpurious = 0`), and threads are finitely many, so that they can be counted.
It too is a hypothesis on the program and the host, not on the model: main's
pool, tasks, watches, host threads, faults and retirements are all in, and
`MCPipeline` runs such a program. The first part is needed: `MCStaleIdle` breaks
the conclusion with a wait. `SendersFollowRoom` asks besides that each
mailbox hold at least one message (`Bound[a] > 0`): with a capacity of zero a
mailbox is always empty and its senders sleep for good. In `Routing`, the shapes of
the constants, that the mark of a local message is no node's name
(`Local \notin Nodes`), and `OneReceiver`: a node's frames are delivered by the
one `Receiving` actor that `lib/std/net.sv:534` spawns, and an actor runs on one
thread at a time (`ActivationsAreSingle`). In `Timers`, that delays are `Long`s and that the mailbox of
the wheel holds at least one message. In `Deadlock`, that names of nodes are
distinct, and that a program's handlers and tasks are finitely many and no name
or effect is two things (`ProgramAssumption`). No other set need be finite. TLC evaluates the assumptions on every run.

*The arguments.*

* *Scheduler.* `TypeOK` alone is not inductive: `WaitGot` reads the waiter
  record of the top frame, and the table would not stay a table if there were
  none. So `Typed` adds `FramesAreNested` (every frame but the top one is in a
  wait, the top one is exactly while its thread looks for work or is parked for
  it, a thread that runs or sends has a frame, one that sends knows to whom)
  and `WaitersExist` (whatever names a waiter record names one that exists).
  `OneActivation` then needs only that `take_work` passes over running and dead
  actors, and that the frame popped is the only one of its actor. The two
  sleepers' invariants rest on `IdleAreWoken` and `SendersAreWoken`: whoever a
  step takes off a list it unparks. `TheDeadAreLeft` needs `OneActivation`: a
  gate is closed by an activation, and the dead have none.
* *Ready queues.* `QueuesInv` says it per entry: every entry may be activated
  (`EntriesAreGood`), none is there twice (`EntriesDiffer`), and what may be
  activated is queued (`WorkIsQueued`). An activation's end puts its actor back
  if more may be delivered; that it was not queued meanwhile is `EntriesAreGood`,
  and that nobody else runs it is `OneActivation`.
* *Mailboxes.* Each step maps to the step of `Mailbox` that its name says, or
  to none, for the actor `Whose`. The mapping counts the user messages of the
  mailbox, which the code keeps in a field of its own: `UserLenIsExact`, that
  the field is the count, is the strengthening. `StepTouches` says which steps
  touch an actor's mailbox at all.
* *Waits.* A waiter record is taken from the free list or made, and returned;
  `OwnRecords` says one frame at most has it and a free one has none, so an
  answer changes one wait only. `RunnersDoNotWait` (a thread whose top frame is
  in a wait looks for work or is parked for it) fixes which step counts a wait
  in and which counts it out. The counters are then cardinalities of sets of
  stack positions (`BooksInv`), each step adding or removing one. `Accounted`
  adds `Rooted` (a thread's own code is the bottom of its own stack) and the
  count of open host threads: at the report `active` equals `parkedFrames`,
  so the two finite sets, one within the other, are equal and every frame
  waits. `OwedIsExact` needs `OwedRecords`: a live reply aimed at a wait names
  the record made for it, which is neither filled nor free.
* *Tokens.* A reply not yet answered is in one of `Spots`: in somebody's hand, in
  a mailbox's message, with who watches an actor, with a parked sender, among the
  idle hooks, in a list being delivered. `Singly` says it is in no two,
  `NoRepeats` not twice in a list, `Minted` that a name not minted is nowhere;
  each step passes a set of tokens from one spot to another or ends them
  (`TokenMove`). `Kept` joins these with `Accounted` and with `RecordsOf(Opens)`:
  an open reply to a wait names the record made for it, neither filled nor free.
  So a second answer cannot come, nor an answer to a record taken again. For
  `RepliesAreKept`, an answer is in a mailbox, among a pool's tasks or in a
  record until the step that delivers it, and a token that leaves every spot
  unanswered was with whoever died in that step or on its way to the dead.
* *Hangs.* `Crewed` says who may be on an idle list and which threads have
  ended, `AtHome` that an actor runs on a thread of its own pool, `Founded` that
  whatever is named has been made. `StepStirs` says of every step that a pool
  with work then had work before, or has nobody on its idle list, or its first
  sleeper has a permit, or a thread about to look: with `SleepersAreListed` that
  gives `WorkHasAThread`. A thread stopped in a send counts as awake there, so a
  stale idle entry (`MCStaleIdle`) does no harm to it. Now let main sleep and
  no thread be awake. Then no pool has work; every record still counted is some
  frame's (`BookedIsOwned`), and a frame that has been answered would be awake
  unless it is buried; so the scheduler is settled. Every frame under another,
  and every frame whose thread is parked for work, is in a wait (`Begun`), main's
  first of all (`MainRooted`): the counters agree by `BooksInv`. But `Noticed`
  says that a settled scheduler with main in a wait has a thread about to look.
  It is the heart of the proof: whoever settles it by going to sleep wakes the
  waiting frames, whoever does so by ending an activation looks next; only a
  worker that retires does neither, hence `retired # {}`.
* *Calm programs.* Without a `waitfor` no record is made (`NoRecords`) and
  whoever looks for work has an empty stack. Then the lists tell the truth
  (`Punctual`): who is on one sleeps there, is there once and has no permit, and
  a permit is for somebody asleep; so each unpark wakes a thread for the thing it
  was unparked for. What remains is to count. `Matched`: while anybody is on a
  pool's idle list, as many threads of the pool look for work, or are about to,
  as there are pieces of it. A push adds a piece and takes a sleeper off the list;
  a take removes a piece and a looker; a thread joins the list only when it
  finds nothing, and then there are no pieces. `Expected` is the same for
  mailboxes: while a sender is parked on one, as many are on their way to it as
  it has room for; a dequeue makes room for one and wakes one, a sender that
  arrives uses the room or, if there is none, parks; a death wakes all. Each
  step of the scheduler is one of these or changes neither (`Tidy`).
* *Routing.* `Shape` ties a thread's label to the job it holds. `AgreeInv` adds
  to `AddressesAgree` that a thread about to mark an entry has the one that is
  registered. `NoCreditIsSleptOn` and `StagedFramesAreFlushed` follow each
  operation from the step that makes a promise (joins the waiters, stages a
  frame) to the one that keeps it.
* *Frames.* All queues, batches and wires are one function `Q` from places to
  sequences, and a *slot* is a place and a position. Whatever a step does with
  them, it moves frames, adds one or drops one, and that is said by a bijection
  between the slots before and after that keeps the frame in each (`Moves`,
  `Adds`). So what is counted over frames changes by what is added or dropped
  and by nothing else, and no induction over sequences is needed; `Restage`,
  which sorts a queue into two, numbers the positions it picks by their rank.
  `Flow` gives the types with what each thread has in hand; `OnceInv` says that
  a send is with its sender, in one slot, in a receiver's hand, or arrived.
* *Credits.* `Met` says that whoever writes to an actor, is written to about it,
  or is about to, has a proxy for it, and `Fresh` that an entry is one actor's:
  so a grant finds the purse it is for. Each credit held is then a token in one
  of four sets: unspent at a proxy (`Purse`), with a sender that has not staged
  its message, carried by a frame (`Load`), lost.
* *Room.* `RoomInv` sets one credit aside for each request on its way, queued or
  in hand (`Claims`), of which there are no more than proxies. Between a
  receiver's look at the mailbox and its grant, no step but its own takes room
  from others: a message's credit becomes a queued message, a queued message a
  credit again. That the receiver is one per node is what makes the two looks
  (at the mailbox, at the credits held) agree.
* *Pending.* `PendingOK` says per proxy: before its first credits it has spent
  and sent nothing, and its one request, or the grant that answers it, is all
  that is on its way; from then on no request is, so every grant that arrives
  returns credits that are pending, and the count is exact. `OwnedOK` makes a
  new proxy's count start from zero. The count forgets nothing because the
  actor lives and nothing was lost; both are in the property.
* *Timers.* `Served` is one inductive invariant of five parts: `Modes` (what
  the virtual runtime never has), `Once` (exactly one start under way while
  marked running), `Seen` (what the wheel's last look had missed has a caller
  on its way), `Orderly` (where the wheel is and what it holds) and `Exact`
  (what was answered, and when). The refinement needs only `Orderly` and that
  what is due is no longer in the table.
* *Deadlock.* `Searching` says that every path in the queue is a path of the
  graph from the start, and that what is visited is closed under successors but
  for what is queued: so a search that ends without a cycle has visited a closed
  set that lacks its start. `Checked` adds that each start tried has been
  answered (`Handled`) and each node marked done is on a report (`Marked`).
  The second pass keeps what the first reported. For `ReportsAreTrue`, a cycle
  of the second pass with no send on it is one of waits, all of whose nodes an
  error has named already. `TasksAreCode` is about the loops that follow tasks
  and bindings: what is reached in k steps grows with k within a finite set, so
  by induction on its size it stops after as many steps as the set has members
  (`GrowthEnds`), and what it stops at is the least closed set. Written out, a
  program has the same monitors, and the same handlers wait but the overlooked:
  these have no node and are no routers (`OverlookedHaveNoNode`), so whether they
  wait shows in no edge.

*Only model-checked.* In `Scheduler`, `WorkIsNotSleptOn` and
`SendersAreNotStranded` are proved for `Calm` programs and of no other: the
first is false of some program with a wait (`MCStaleIdle`), the second of one
whose mailbox has no capacity, and a permit left over from a stale entry may
upset the count it rests on. `NoSilentHang` is
proved with its two exceptions named: `MCRetired` shows that the second is
needed, and an answer for a buried frame is the first. Liveness under fairness,
everywhere: the prover has neither `ENABLED` nor the fairness rules. No module
has a `RECURSIVE` operator.

## 6. What is not modelled, and why

* Of the scheduler: the virtual runtime's choice of the next actor, which only
  tests use; the entries for replies that leave the node; the wording of
  reports and the figures of an idle notice.
* Of routing: answers and exported tasks, control frames, protocol tables,
  group views, forged addresses and the dead entry they share. Addresses are
  taken to be true, since the properties are about honest nodes.
* Of the timers: `reset_timers`, the change from the ordinary to the virtual
  runtime within one program, the order of answers due at once.
* Of the cycle check: sites, names and the text of a diagnostic.
* Groups and streams: section 2 says what they stand on.
* The compiler's other passes, the code generators and the tools: most of the
  repository's lines of Rust and Kotlin. They are sequential and pure, and well
  reached by the repository's own tests; a specification of them would restate
  them. So the share of those lines that the specifications cover is small: the
  core they are about is written in Salvo (`.sv`).
* Generated copies of the runtime (`lib/platform/**/*.sv.rs`, `*.sv.kt`), which
  the compiler writes from the modules above; examples, benchmarks, editors.
