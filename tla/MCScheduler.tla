----------------------------- MODULE MCScheduler -----------------------------
(***************************************************************************)
(* Small programs to run on the scheduler: main, two or three actors, one  *)
(* or two pools.  Each section is one program; its .cfg names it.          *)
(***************************************************************************)
EXTENDS SchedulerMailboxes

CONSTANTS actA, actB, actC,      \* actors
          pool0, pool1, pool2,   \* pools: main's, a worker pool, a second one
          main, thr1, thr2, thr3, host \* main, worker threads, a host thread

Op(who, op, on) == [by |-> who, op |-> op, on |-> on]

\* main waits for actA, which waits for actB; the two actors share two threads.
WaitHome   == actA :> pool1 @@ actB :> pool1
WaitBound  == actA :> 1 @@ actB :> 1
WaitServes == main :> pool0 @@ thr1 :> pool1 @@ thr2 :> pool1
NoSinks    == [p \in {pool0, pool1} |-> Nobody]
WaitMay == {Op(main, "waiter", Nobody), Op(main, "pass", actA),
            Op(actA, "answer", Nobody), Op(actA, "waiter", Nobody), Op(actA, "pass", actB),
            Op(actB, "answer", Nobody)}

\* actA, on a pool of two threads, waits for actC on a pool of its own, then
\* sends to actB, which shares actA's pool.
StaleHome   == actA :> pool1 @@ actB :> pool1 @@ actC :> pool2
StaleBound  == [x \in {actA, actB, actC} |-> 1]
StaleServes == main :> pool0 @@ thr1 :> pool1 @@ thr2 :> pool1 @@ thr3 :> pool2
StaleSink  == [p \in {pool0, pool1, pool2} |-> Nobody]
StaleMay == {Op(main, "send", actA), Op(actA, "waiter", Nobody), Op(actA, "pass", actC),
             Op(actC, "answer", Nobody), Op(actA, "send", actB)}

\* No waits: main feeds actA, actA feeds actB on the same two threads, both
\* mailboxes of one; actA may close its queue for a reply from actB (replyto!);
\* either may die, actB watched by actA or not, and actC on pool2 is the sink of
\* their pool's faults.
PipeHome   == actA :> pool1 @@ actB :> pool1 @@ actC :> pool2
PipeBound  == [x \in {actA, actB, actC} |-> 1]
PipeSink   == pool0 :> Nobody @@ pool1 :> actC @@ pool2 :> Nobody
PipeServes == main :> pool0 @@ thr1 :> pool1 @@ thr2 :> pool1 @@ thr3 :> pool2
PipeMay == {Op(main, "send", actA), Op(main, "send", actB),
            Op(actA, "send", actB), Op(actA, "mint", Nobody),
            Op(actA, "gate", Nobody), Op(actA, "pass", actB), Op(actB, "answer", Nobody),
            Op(actA, "watch", actB), Op(actA, "fault", Nobody), Op(actB, "fault", Nobody)}

\* Tasks and a dedicated pool, made as the program runs: actA lives there alone,
\* hands tasks to its own pool and to main's, and may die with replies owed; a
\* platform handler's thread answers one of main's replies.
TaskHome   == actA :> pool1 @@ actB :> pool0
TaskBound  == [x \in {actA, actB} |-> 1]
TaskSink   == [p \in {pool0, pool1} |-> Nobody]
TaskServes == main :> pool0 @@ thr1 :> pool1 @@ host :> pool0
TaskMay == {Op(main, "pool", pool1), Op(main, "actor", actA), Op(main, "waiter", Nobody),
            Op(main, "idle", Nobody), Op(main, "pass", actA),
            Op(main, "watch", actA), Op(main, "host", host), Op(host, "answer", Nobody), Op(main, "send", actB),
            Op(actA, "task", pool1), Op(actA, "task", pool0), Op(actA, "answer", Nobody), Op(actA, "fault", Nobody),
            Op(TaskCode, "answer", Nobody), Op(TaskCode, "fault", Nobody)}

\* actA, alone on a dedicated pool, hands its pool a task and may die with
\* main's reply in hand.
RetireHome   == actA :> pool1
RetireBound  == actA :> 1
RetireServes == main :> pool0 @@ thr1 :> pool1
RetireMay == {Op(main, "waiter", Nobody), Op(main, "pass", actA), Op(actA, "task", pool1),
              Op(actA, "answer", Nobody), Op(actA, "fault", Nobody)}
==============================================================================
