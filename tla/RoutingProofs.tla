---------------------------- MODULE RoutingProofs ----------------------------
(***************************************************************************)
(* Safety of routing for every number of nodes, actors and threads, every  *)
(* capacity, and however frames are lost, nodes leave and actors die.      *)
(*                                                                         *)
(* Addresses, sleepers and flushes need only the tables and where each     *)
(* thread is between two calls on them.  The second half is about frames:  *)
(* the queues of a node, the batches of its threads and the wire are one   *)
(* function from places to sequences of frames.  Whatever a step does with *)
(* them, it moves frames, adds one or drops one: it comes with a bijection *)
(* between the slots before and after that keeps the frame in each.        *)
(* On that stand the types, where frames wait, that none arrives twice,    *)
(* and that whoever a frame is about has a proxy that is nobody else's.    *)
(***************************************************************************)
EXTENDS Routing, FiniteSetTheorems, FunctionTheorems, TLAPS

SendLabels == {"full", "credit", "none", "park", "woken", "stage"}
Labels ==
    {"idle", "make", "register", "mark", "flush", "wire", "queue", "room", "grant", "kill"}
        \cup SendLabels

\* The tables, as far as the proofs look into them.
EntriesOK ==
    /\ made \in [Nodes -> 0..MaxEntries]
    /\ blocked \in [Nodes -> [Entries -> SUBSET Senders]]
BooksOK ==
    /\ proxies \in [Nodes -> [Actors -> 0..MaxEntries]]
    /\ DOMAIN credits = Nodes /\ \A n \in Nodes : DOMAIN credits[n] = Entries
    /\ waiters \in [Nodes -> SUBSET Senders]
    /\ DOMAIN outbox = Nodes
ThreadsOK ==
    /\ permit \subseteq Senders
    /\ holds \in [Senders -> [Actors -> 0..MaxEntries]]
    /\ pc \in [Threads -> Labels]
    /\ DOMAIN job = Threads
TablesOK == EntriesOK /\ BooksOK /\ ThreadsOK

\* What a thread works on, by where it is.
SenderOK(s) ==
    /\ pc[s] \notin {"queue", "room", "grant", "kill"}
    /\ pc[s] \in {"make", "register", "mark"} \cup SendLabels => job[s].at \in Actors
    /\ pc[s] \in {"register", "mark"} \cup SendLabels => job[s].idx \in Entries
    /\ pc[s] = "full" => holds[s][job[s].at] # 0
ReceiverOK(t) ==
    /\ pc[t] \in {"idle", "flush", "wire", "queue", "room", "grant"}
    /\ pc[t] \in {"room", "grant"} => Home[job[t].at] = Place[t]
WorkerOK(w) ==
    /\ pc[w] \in {"idle", "flush", "wire", "kill"}
    /\ pc[w] = "kill" => job[w].gone \subseteq Entries
JobsOK ==
    /\ \A s \in Senders : SenderOK(s)
    /\ \A t \in Receivers : ReceiverOK(t)
    /\ \A w \in Workers : WorkerOK(w)
Shape == TablesOK /\ JobsOK

\* Replacing one value of a table of tables keeps its shape.
LEMMA NestedExcept ==
    ASSUME NEW A, NEW B, NEW C, NEW f \in [A -> [B -> C]], NEW x \in A, NEW y \in B, NEW c \in C
    PROVE  [f EXCEPT ![x][y] = c] \in [A -> [B -> C]]
  OBVIOUS
LEMMA NestedDomain ==
    ASSUME NEW A, NEW B, NEW f, DOMAIN f = A, \A z \in A : DOMAIN f[z] = B, NEW x \in A, NEW y, NEW c
    PROVE  LET g == [f EXCEPT ![x][y] = c] IN DOMAIN g = A /\ \A z \in A : DOMAIN g[z] = B
  OBVIOUS

LEMMA InitShape == Init => Shape
<1>. SUFFICES ASSUME Init PROVE Shape
  OBVIOUS
<1>1. TablesOK
  BY ConstantsAssumption DEF Init, TablesOK, EntriesOK, BooksOK, ThreadsOK, Entries, Labels
<1>2. JobsOK
  BY ConstantsAssumption DEF Init, JobsOK, SenderOK, ReceiverOK, WorkerOK, Threads, SendLabels
<1>. QED  BY <1>1, <1>2 DEF Shape

\* A step of a sender.
LEMMA SenderShape ==
    ASSUME Shape, NEW s \in Senders, Sender(s)
    PROVE  Shape'
<1>. USE ConstantsAssumption DEF Threads, Entries
<1>t. TablesOK /\ JobsOK /\ s \in Threads /\ SenderOK(s)
  BY DEF Shape, JobsOK
<1>o. ASSUME NEW u \in Threads, u # s, pc'[u] = pc[u], job'[u] = job[u],
             \A x \in Senders : x # s => holds'[x] = holds[x]
      PROVE  /\ u \in Senders => SenderOK(u)'
             /\ u \in Receivers => ReceiverOK(u)'
             /\ u \in Workers => WorkerOK(u)'
  BY <1>t, <1>o DEF JobsOK, SenderOK, ReceiverOK, WorkerOK
<1>j. ASSUME SenderOK(s)', \A u \in Threads : u # s => pc'[u] = pc[u] /\ job'[u] = job[u],
             \A x \in Senders : x # s => holds'[x] = holds[x]
      PROVE  JobsOK'
  BY <1>j, <1>o DEF JobsOK
<1>1. ASSUME NEW a \in Actors, ImportFinds(s, a) PROVE Shape'
  <2>1. TablesOK'
    <3>1. EntriesOK'
      BY <1>t, <1>1 DEF TablesOK, EntriesOK, ImportFinds, entries
    <3>2. BooksOK'
      BY <1>t, <1>1 DEF TablesOK, BooksOK, ThreadsOK, ImportFinds, Works, Goto, Labels, books,
       roads, staged, entries
    <3>3. ThreadsOK'
      <4>1. permit' = permit /\ pc' \in [Threads -> Labels] /\ DOMAIN job' = Threads
        BY <1>t, <1>1 DEF TablesOK, ThreadsOK, ImportFinds, Works, Goto, Labels
      <4>2. proxies[Place[s]][a] \in 0..MaxEntries /\ holds \in [Senders -> [Actors -> 0..MaxEntries]]
        BY <1>t DEF TablesOK, BooksOK, ThreadsOK
      <4>3. [holds EXCEPT ![s][a] = proxies[Place[s]][a]] \in [Senders -> [Actors -> 0..MaxEntries]]
        BY <4>2, NestedExcept
      <4>4. holds' \in [Senders -> [Actors -> 0..MaxEntries]]
        BY <4>2, <4>3, <1>1 DEF ImportFinds
      <4>. QED  BY <1>t, <4>1, <4>4 DEF TablesOK, ThreadsOK
    <3>. QED  BY <3>1, <3>2, <3>3 DEF TablesOK
  <2>2. SenderOK(s)'
    BY <1>t, <1>1 DEF TablesOK, ThreadsOK, ImportFinds, Works, Goto, SenderOK, SendLabels
  <2>3. JobsOK'
    BY <1>t, <1>1, <2>2, <1>j DEF TablesOK, EntriesOK, BooksOK, ThreadsOK, ImportFinds, Works, Goto
  <2>. QED  BY <2>1, <2>3 DEF Shape
<1>2. ASSUME NEW a \in Actors, Send(s, a) PROVE Shape'
  <2>1. TablesOK'
    <3>1. EntriesOK'
      <4>1. made' = made /\ blocked \in [Nodes -> [Entries -> SUBSET Senders]]
        BY <1>t, <1>2 DEF TablesOK, EntriesOK, Send
      <4>2. holds[s][a] \in Entries
        BY <1>t, <1>2 DEF TablesOK, ThreadsOK, Send, SenderOK, SendLabels
      <4>3. [blocked EXCEPT ![Place[s]][holds[s][a]] = blocked[Place[s]][holds[s][a]] \cup {s}]
                \in [Nodes -> [Entries -> SUBSET Senders]]
        BY <4>1, <4>2, NestedExcept
      <4>4. blocked' \in [Nodes -> [Entries -> SUBSET Senders]]
        BY <4>1, <4>3, <1>2 DEF Send, Tries
      <4>. QED  BY <1>t, <4>1, <4>4 DEF TablesOK, EntriesOK
    <3>2. BooksOK'
      BY <1>t, <1>2 DEF TablesOK, BooksOK, ThreadsOK, Send, Tries, Works, Goto, Idle, Labels,
       SendLabels, books, roads, staged
    <3>3. ThreadsOK'
      BY <1>t, <1>2 DEF TablesOK, EntriesOK, BooksOK, ThreadsOK, Send, Tries, Works, Goto, Idle,
       Labels, SendLabels, books, roads, staged
    <3>. QED  BY <3>1, <3>2, <3>3 DEF TablesOK
  <2>2. SenderOK(s)'
    BY SMTT(30), <1>t, <1>2 DEF TablesOK, EntriesOK, BooksOK, ThreadsOK, Send, Tries, Works, Goto, Idle, SenderOK, SendLabels
  <2>3. JobsOK'
    BY <1>t, <1>2, <2>2, <1>j DEF TablesOK, EntriesOK, BooksOK, ThreadsOK, Send, Tries, Works, Goto, Idle
  <2>. QED  BY <2>1, <2>3 DEF Shape
<1>3. CASE ImportMakes(s)
  <2>1. TablesOK'
    <3>1. EntriesOK'
      BY <1>t, <1>3 DEF TablesOK, EntriesOK, ThreadsOK, ImportMakes, Works, Goto, Labels,
       SendLabels, books, roads, staged
    <3>2. BooksOK'
      BY <1>t, <1>3 DEF TablesOK, BooksOK, ThreadsOK, ImportMakes, Works, Goto, Labels,
       SendLabels, books, roads, staged
    <3>3. ThreadsOK'
      BY <1>t, <1>3 DEF TablesOK, EntriesOK, BooksOK, ThreadsOK, ImportMakes, Works, Goto,
       Labels, SendLabels, books, roads, staged
    <3>. QED  BY <3>1, <3>2, <3>3 DEF TablesOK
  <2>2. SenderOK(s)'
    BY <1>t, <1>3 DEF TablesOK, EntriesOK, BooksOK, ThreadsOK, ImportMakes, Works, Goto, SenderOK, SendLabels
  <2>3. JobsOK'
    BY <1>t, <1>3, <2>2, <1>j DEF TablesOK, EntriesOK, BooksOK, ThreadsOK, ImportMakes, Works, Goto
  <2>. QED  BY <2>1, <2>3 DEF Shape
<1>4. CASE ImportRegisters(s)
  <2>1. TablesOK'
    <3>1. EntriesOK'
      BY <1>t, <1>4 DEF TablesOK, EntriesOK, ThreadsOK, ImportRegisters, SenderOK, ImportedNow,
       StageIn, ThenFlush, Works, Goto, Labels, entries, roads, staged
    <3>2. BooksOK'
      <4>. DEFINE n == Place[s]  a == job[s].at  i == job[s].idx
      <4>1. n \in Nodes /\ a \in Actors /\ i \in 0..MaxEntries
        BY <1>t, <1>4 DEF TablesOK, ThreadsOK, ImportRegisters, SenderOK
      <4>2. waiters' = waiters /\ DOMAIN outbox' = Nodes
        BY <1>t, <1>4 DEF TablesOK, BooksOK, ImportRegisters, StageIn, staged
      <4>3. [proxies EXCEPT ![n][a] = i] \in [Nodes -> [Actors -> 0..MaxEntries]]
        BY <1>t, <4>1, NestedExcept DEF TablesOK, BooksOK
      <4>4. proxies' \in [Nodes -> [Actors -> 0..MaxEntries]]
        BY <1>t, <1>4, <4>3 DEF TablesOK, BooksOK, ImportRegisters
      <4>5. LET g == [credits EXCEPT ![n][i] = 0]
            IN  DOMAIN g = Nodes /\ \A z \in Nodes : DOMAIN g[z] = Entries
        BY <1>t, <4>1, NestedDomain DEF TablesOK, BooksOK
      <4>6. DOMAIN credits' = Nodes /\ \A z \in Nodes : DOMAIN credits'[z] = Entries
        BY <1>t, <1>4, <4>5 DEF TablesOK, BooksOK, ImportRegisters
      <4>. QED  BY <1>t, <4>2, <4>4, <4>6 DEF TablesOK, BooksOK
    <3>3. ThreadsOK'
      <4>1. permit' = permit /\ pc' \in [Threads -> Labels] /\ DOMAIN job' = Threads
        BY <1>t, <1>4 DEF TablesOK, ThreadsOK, ImportRegisters, ThenFlush, Works, Goto, Labels
      <4>2. /\ job[s].at \in Actors /\ holds \in [Senders -> [Actors -> 0..MaxEntries]]
            /\ proxies[Place[s]][job[s].at] \in 0..MaxEntries
        BY <1>t, <1>4 DEF TablesOK, BooksOK, ThreadsOK, ImportRegisters, SenderOK
      <4>3. [holds EXCEPT ![s][job[s].at] = proxies[Place[s]][job[s].at]]
                \in [Senders -> [Actors -> 0..MaxEntries]]
        BY <4>2, NestedExcept
      <4>4. holds' \in [Senders -> [Actors -> 0..MaxEntries]]
        BY <4>2, <4>3, <1>4 DEF ImportRegisters
      <4>. QED  BY <1>t, <4>1, <4>4 DEF TablesOK, ThreadsOK
    <3>. QED  BY <3>1, <3>2, <3>3 DEF TablesOK
  <2>2. SenderOK(s)'
    BY ZenonT(30), <1>t, <1>4 DEF TablesOK, EntriesOK, BooksOK, ThreadsOK, ImportRegisters, ThenFlush, Works, Goto, SenderOK, SendLabels
  <2>3. JobsOK'
    BY <1>t, <1>4, <2>2, <1>j DEF TablesOK, EntriesOK, BooksOK, ThreadsOK, ImportRegisters, ThenFlush, Works, Goto
  <2>. QED  BY <2>1, <2>3 DEF Shape
<1>5. CASE ImportMarks(s)
  <2>1. TablesOK'
    <3>1. EntriesOK'
      BY <1>t, <1>5 DEF TablesOK, EntriesOK, ThreadsOK, ImportMarks, SenderOK, ThenFlush, Works,
       Goto, Labels, books, roads, staged
    <3>2. BooksOK'
      BY <1>t, <1>5 DEF TablesOK, BooksOK, ThreadsOK, ImportMarks, SenderOK, ThenFlush, Works,
       Goto, Labels, books, roads, staged
    <3>3. ThreadsOK'
      BY <1>t, <1>5 DEF TablesOK, EntriesOK, BooksOK, ThreadsOK, ImportMarks, SenderOK,
       ThenFlush, Works, Goto, Labels, books, roads, staged
    <3>. QED  BY <3>1, <3>2, <3>3 DEF TablesOK
  <2>2. SenderOK(s)'
    BY <1>t, <1>5 DEF TablesOK, EntriesOK, BooksOK, ThreadsOK, ImportMarks, ThenFlush, Works, Goto, SenderOK, SendLabels
  <2>3. JobsOK'
    BY <1>t, <1>5, <2>2, <1>j DEF TablesOK, EntriesOK, BooksOK, ThreadsOK, ImportMarks, ThenFlush, Works, Goto
  <2>. QED  BY <2>1, <2>3 DEF Shape
<1>6. CASE SendAgain(s)
  <2>1. TablesOK'
    <3>1. EntriesOK'
      <4>1. made' = made /\ blocked \in [Nodes -> [Entries -> SUBSET Senders]]
        BY <1>t, <1>6 DEF TablesOK, EntriesOK, SendAgain
      <4>2. holds[s][job[s].at] \in Entries
        BY <1>t, <1>6 DEF TablesOK, ThreadsOK, SendAgain, SenderOK, SendLabels
      <4>3. [blocked EXCEPT ![Place[s]][holds[s][job[s].at]] = blocked[Place[s]][holds[s][job[s].at]] \cup {s}]
                \in [Nodes -> [Entries -> SUBSET Senders]]
        BY <4>1, <4>2, NestedExcept
      <4>4. blocked' \in [Nodes -> [Entries -> SUBSET Senders]]
        BY <4>1, <4>3, <1>6 DEF SendAgain, Tries
      <4>. QED  BY <1>t, <4>1, <4>4 DEF TablesOK, EntriesOK
    <3>2. BooksOK'
      BY <1>t, <1>6 DEF TablesOK, BooksOK, ThreadsOK, SendAgain, SenderOK, SendLabels, Tries,
       Works, Goto, Idle, Labels, books, roads, staged
    <3>3. ThreadsOK'
      BY <1>t, <1>6 DEF TablesOK, EntriesOK, BooksOK, ThreadsOK, SendAgain, SenderOK, SendLabels,
       Tries, Works, Goto, Idle, Labels, books, roads, staged
    <3>. QED  BY <3>1, <3>2, <3>3 DEF TablesOK
  <2>2. SenderOK(s)'
    BY SMTT(30), <1>t, <1>6 DEF TablesOK, EntriesOK, BooksOK, ThreadsOK, SendAgain, Tries, Works, Goto, Idle, SenderOK, SendLabels
  <2>3. JobsOK'
    BY <1>t, <1>6, <2>2, <1>j DEF TablesOK, EntriesOK, BooksOK, ThreadsOK, SendAgain, Tries, Works, Goto, Idle
  <2>. QED  BY <2>1, <2>3 DEF Shape
<1>7. CASE TakeCredit(s)
  <2>1. TablesOK'
    <3>1. EntriesOK'
      BY <1>t, <1>7 DEF TablesOK, EntriesOK, ThreadsOK, TakeCredit, SenderOK, SendLabels, Goto,
       Labels, entries, roads, staged
    <3>2. BooksOK'
      <4>. DEFINE n == Place[s]  i == job[s].idx
      <4>1. proxies' = proxies /\ outbox' = outbox /\ n \in Nodes
        BY <1>t, <1>7 DEF TablesOK, TakeCredit, staged
      <4>2. LET g == [credits EXCEPT ![n][i] = credits[n][i] - 1]
            IN  DOMAIN g = Nodes /\ \A z \in Nodes : DOMAIN g[z] = Entries
        BY <1>t, <4>1, NestedDomain DEF TablesOK, BooksOK
      <4>3. DOMAIN credits' = Nodes /\ \A z \in Nodes : DOMAIN credits'[z] = Entries
        BY <1>t, <1>7, <4>2 DEF TablesOK, BooksOK, TakeCredit
      <4>4. waiters' \in [Nodes -> SUBSET Senders]
        <5>1. waiters' = waiters \/ waiters' = [waiters EXCEPT ![n] = waiters[n] \cup {s}]
          BY <1>7 DEF TakeCredit
        <5>2. waiters \in [Nodes -> SUBSET Senders]
          BY <1>t DEF TablesOK, BooksOK
        <5>. HIDE DEF n
        <5>. QED  BY <4>1, <5>1, <5>2
      <4>. QED  BY <1>t, <4>1, <4>3, <4>4 DEF TablesOK, BooksOK
    <3>3. ThreadsOK'
      BY <1>t, <1>7 DEF TablesOK, EntriesOK, BooksOK, ThreadsOK, TakeCredit, SenderOK,
       SendLabels, Goto, Labels, entries, roads, staged
    <3>. QED  BY <3>1, <3>2, <3>3 DEF TablesOK
  <2>2. SenderOK(s)'
    BY <1>t, <1>7 DEF TablesOK, EntriesOK, BooksOK, ThreadsOK, TakeCredit, Goto, SenderOK, SendLabels
  <2>3. JobsOK'
    BY <1>t, <1>7, <2>2, <1>j DEF TablesOK, EntriesOK, BooksOK, ThreadsOK, TakeCredit, Goto
  <2>. QED  BY <2>1, <2>3 DEF Shape
<1>8. CASE LooksBefore(s) \/ LooksAfter(s)
  <2>1. TablesOK'
    <3>1. EntriesOK'
      BY <1>t, <1>8 DEF TablesOK, EntriesOK, ThreadsOK, LooksBefore, LooksAfter, LooksIfDead,
       Works, Idle, Goto, Labels, SendLabels, entries, books, roads, staged
    <3>2. BooksOK'
      BY <1>t, <1>8 DEF TablesOK, BooksOK, ThreadsOK, LooksBefore, LooksAfter, LooksIfDead,
       Works, Idle, Goto, Labels, SendLabels, entries, books, roads, staged
    <3>3. ThreadsOK'
      BY <1>t, <1>8 DEF TablesOK, EntriesOK, BooksOK, ThreadsOK, LooksBefore, LooksAfter,
       LooksIfDead, Works, Idle, Goto, Labels, SendLabels, entries, books, roads, staged
    <3>. QED  BY <3>1, <3>2, <3>3 DEF TablesOK
  <2>2. SenderOK(s)'
    BY <1>t, <1>8 DEF TablesOK, EntriesOK, BooksOK, ThreadsOK, LooksBefore, LooksAfter, LooksIfDead, Works, Idle, Goto, SenderOK, SendLabels
  <2>3. JobsOK'
    BY <1>t, <1>8, <2>2, <1>j DEF TablesOK, EntriesOK, BooksOK, ThreadsOK, LooksBefore, LooksAfter, LooksIfDead, Works, Idle, Goto
  <2>. QED  BY <2>1, <2>3 DEF Shape
<1>9. CASE ParkEnds(s)
  <2>1. TablesOK'
    <3>1. EntriesOK'
      BY <1>t, <1>9 DEF TablesOK, EntriesOK, ThreadsOK, ParkEnds, Goto, Labels, SendLabels,
       entries, books, roads, staged
    <3>2. BooksOK'
      BY <1>t, <1>9 DEF TablesOK, BooksOK, ThreadsOK, ParkEnds, Goto, Labels, SendLabels,
       entries, books, roads, staged
    <3>3. ThreadsOK'
      BY <1>t, <1>9 DEF TablesOK, EntriesOK, BooksOK, ThreadsOK, ParkEnds, Goto, Labels,
       SendLabels, entries, books, roads, staged
    <3>. QED  BY <3>1, <3>2, <3>3 DEF TablesOK
  <2>2. SenderOK(s)'
    BY <1>t, <1>9 DEF TablesOK, EntriesOK, BooksOK, ThreadsOK, ParkEnds, Goto, SenderOK, SendLabels
  <2>3. JobsOK'
    BY <1>t, <1>9, <2>2, <1>j DEF TablesOK, EntriesOK, BooksOK, ThreadsOK, ParkEnds, Goto
  <2>. QED  BY <2>1, <2>3 DEF Shape
<1>10. CASE Stage(s)
  <2>1. TablesOK'
    <3>1. EntriesOK'
      BY <1>t, <1>10 DEF TablesOK, EntriesOK, ThreadsOK, Stage, StageIn, ThenFlush, Works, Goto,
       Labels, entries, books, roads
    <3>2. BooksOK'
      BY <1>t, <1>10 DEF TablesOK, BooksOK, ThreadsOK, Stage, StageIn, ThenFlush, Works, Goto,
       Labels, entries, books, roads
    <3>3. ThreadsOK'
      BY <1>t, <1>10 DEF TablesOK, EntriesOK, BooksOK, ThreadsOK, Stage, StageIn, ThenFlush,
       Works, Goto, Labels, entries, books, roads
    <3>. QED  BY <3>1, <3>2, <3>3 DEF TablesOK
  <2>2. SenderOK(s)'
    BY <1>t, <1>10 DEF TablesOK, EntriesOK, BooksOK, ThreadsOK, Stage, ThenFlush, Works, Goto, SenderOK, SendLabels
  <2>3. JobsOK'
    BY <1>t, <1>10, <2>2, <1>j DEF TablesOK, EntriesOK, BooksOK, ThreadsOK, Stage, ThenFlush, Works, Goto
  <2>. QED  BY <2>1, <2>3 DEF Shape
<1>. QED  BY <1>1, <1>2, <1>3, <1>4, <1>5, <1>6, <1>7, <1>8, <1>9, <1>10 DEF Sender

\* A step of the thread that receives, of a worker, of a flush, and of everything else.
LEMMA OthersShape ==
    ASSUME Shape,
           \/ \E t \in Receivers : Receiver(t)
           \/ \E w \in Workers : Worker(w)
           \/ \E t \in Threads : Flush(t)
           \/ \E a \in Actors : LocalSend(a) \/ Die(a)
           \/ \E m, n \in Nodes : Lose(m, n)
    PROVE  Shape'
<1>. USE ConstantsAssumption DEF Threads, Entries
<1>t. TablesOK /\ JobsOK
  BY DEF Shape
<1>h. ASSUME entries' = entries, books' = books, outbox' = outbox, permit' = permit, holds' = holds,
             pc' \in [Threads -> Labels], DOMAIN job' = Threads
      PROVE  TablesOK'
  BY <1>t, <1>h DEF TablesOK, EntriesOK, BooksOK, ThreadsOK, entries, books
<1>j. ASSUME NEW t \in Threads, holds' = holds,
             \A u \in Threads : u # t => pc'[u] = pc[u] /\ job'[u] = job[u],
             t \in Senders => SenderOK(t)', t \in Receivers => ReceiverOK(t)', t \in Workers => WorkerOK(t)'
      PROVE  JobsOK'
  BY <1>t, <1>j DEF JobsOK, SenderOK, ReceiverOK, WorkerOK
<1>n. ASSUME holds' = holds, pc' = pc, job' = job PROVE JobsOK'
  BY <1>t, <1>n DEF JobsOK, SenderOK, ReceiverOK, WorkerOK
<1>1. ASSUME NEW t \in Receivers, NEW m \in Nodes, DeliverMsg(t, m) PROVE Shape'
  <2>1. TablesOK'
    BY <1>t, <1>1 DEF TablesOK, EntriesOK, BooksOK, ThreadsOK, DeliverMsg, Received, Works, Goto, Labels, entries, staged
  <2>2. ReceiverOK(t)' /\ JobsOK'
    BY <1>t, <1>1, <1>j DEF TablesOK, ThreadsOK, DeliverMsg, Works, Goto, ReceiverOK
  <2>. QED  BY <2>1, <2>2 DEF Shape
<1>2. ASSUME NEW t \in Receivers, NEW m \in Nodes, DeliverOpen(t, m) PROVE Shape'
  <2>1. TablesOK'
    BY <1>t, <1>2, <1>h DEF TablesOK, ThreadsOK, DeliverOpen, Works, Goto, Labels, staged
  <2>2. ReceiverOK(t)' /\ JobsOK'
    BY <1>t, <1>2, <1>j DEF TablesOK, ThreadsOK, DeliverOpen, Accepted, Works, Goto, ReceiverOK
  <2>. QED  BY <2>1, <2>2 DEF Shape
<1>3. ASSUME NEW t \in Receivers, NEW m \in Nodes, DeliverGrant(t, m) PROVE Shape'
  <2>. DEFINE n == Place[t]  f == Head(Heard(t, m))  i == proxies[n][f.actor]
  <2>1. EntriesOK'
    BY <1>t, <1>3 DEF TablesOK, EntriesOK, DeliverGrant, entries
  <2>2. BooksOK'
    <3>1. proxies' = proxies /\ outbox' = outbox /\ n \in Nodes
      BY <1>t, <1>3 DEF DeliverGrant, staged
    <3>2. LET g == [credits EXCEPT ![n][i] = credits[n][i] + f.n]
          IN  DOMAIN g = Nodes /\ \A z \in Nodes : DOMAIN g[z] = Entries
      BY <1>t, <3>1, NestedDomain DEF TablesOK, BooksOK
    <3>3. DOMAIN credits' = Nodes /\ \A z \in Nodes : DOMAIN credits'[z] = Entries
      BY <1>t, <1>3, <3>2 DEF TablesOK, BooksOK, DeliverGrant
    <3>4. waiters' = waiters \/ waiters' = [waiters EXCEPT ![n] = {}]
      BY <1>3 DEF DeliverGrant, WakeSenders
    <3>. QED  BY <1>t, <3>1, <3>3, <3>4 DEF TablesOK, BooksOK
  <2>3. ThreadsOK'
    BY <1>t, <1>3 DEF TablesOK, BooksOK, ThreadsOK, DeliverGrant, WakeSenders
  <2>4. JobsOK'
    BY <1>3, <1>n DEF DeliverGrant
  <2>. QED  BY <2>1, <2>2, <2>3, <2>4 DEF Shape, TablesOK
<1>4. ASSUME NEW t \in Receivers, EnqueueRemote(t) PROVE Shape'
  <2>1. TablesOK'
    BY <1>t, <1>4, <1>h DEF TablesOK, ThreadsOK, EnqueueRemote, Idle, Works, Goto, Labels, entries, staged
  <2>2. ReceiverOK(t)' /\ JobsOK'
    BY <1>t, <1>4, <1>j DEF TablesOK, ThreadsOK, EnqueueRemote, Idle, Works, Goto, ReceiverOK
  <2>. QED  BY <2>1, <2>2 DEF Shape
<1>5. ASSUME NEW t \in Receivers, OpenRoom(t) PROVE Shape'
  <2>1. TablesOK'
    BY <1>t, <1>5, <1>h DEF TablesOK, ThreadsOK, OpenRoom, Works, Goto, Labels, staged
  <2>2. ReceiverOK(t)' /\ JobsOK'
    BY <1>t, <1>5, <1>j DEF TablesOK, ThreadsOK, JobsOK, OpenRoom, Works, Goto, ReceiverOK
  <2>. QED  BY <2>1, <2>2 DEF Shape
<1>6. ASSUME NEW t \in Receivers, OpenGrants(t) PROVE Shape'
  <2>1. TablesOK'
    BY <1>t, <1>6 DEF TablesOK, EntriesOK, BooksOK, ThreadsOK, OpenGrants, Grant, StageIn, ThenFlush, Works, Goto,
       Labels, entries
  <2>2. ReceiverOK(t)' /\ JobsOK'
    BY <1>t, <1>6, <1>j DEF TablesOK, ThreadsOK, OpenGrants, ThenFlush, Works, Goto, ReceiverOK
  <2>. QED  BY <2>1, <2>2 DEF Shape
<1>7. ASSUME NEW w \in Workers, NEW a \in Actors, Dequeue(w, a) PROVE Shape'
  <2>1. TablesOK'
    <3>1. DOMAIN outbox' = Nodes
      BY <1>t, <1>7 DEF TablesOK, BooksOK, Dequeue, CreditBack, Grant, StageIn, staged
    <3>2. pc' \in [Threads -> Labels] /\ DOMAIN job' = Threads
      BY <1>t, <1>7 DEF TablesOK, ThreadsOK, Dequeue, ThenFlush, Works, Goto, Labels
    <3>3. /\ made' = made /\ blocked' = blocked /\ proxies' = proxies /\ credits' = credits
          /\ waiters' = waiters /\ permit' = permit /\ holds' = holds
      BY <1>7 DEF Dequeue, entries
    <3>. QED  BY <1>t, <3>1, <3>2, <3>3 DEF TablesOK, EntriesOK, BooksOK, ThreadsOK
  <2>2. WorkerOK(w)' /\ JobsOK'
    BY <1>t, <1>7, <1>j DEF TablesOK, ThreadsOK, Dequeue, ThenFlush, Works, Goto, WorkerOK
  <2>. QED  BY <2>1, <2>2 DEF Shape
<1>8. ASSUME NEW w \in Workers, NEW m \in Nodes, AddRoute(w, m) PROVE Shape'
  <2>1. TablesOK'
    BY <1>t, <1>8 DEF TablesOK, EntriesOK, BooksOK, ThreadsOK, AddRoute, Restage, ThenFlush, Works, Goto, Labels,
       entries, books
  <2>2. WorkerOK(w)' /\ JobsOK'
    BY <1>t, <1>8, <1>j DEF TablesOK, ThreadsOK, AddRoute, ThenFlush, Works, Goto, WorkerOK
  <2>. QED  BY <2>1, <2>2 DEF Shape
<1>9. ASSUME NEW w \in Workers, SetOutbound(w) PROVE Shape'
  <2>1. TablesOK'
    BY <1>t, <1>9 DEF TablesOK, EntriesOK, BooksOK, ThreadsOK, SetOutbound, Restage, ThenFlush, Works, Goto, Labels,
       entries, books
  <2>2. WorkerOK(w)' /\ JobsOK'
    BY <1>t, <1>9, <1>j DEF TablesOK, ThreadsOK, SetOutbound, ThenFlush, Works, Goto, WorkerOK
  <2>. QED  BY <2>1, <2>2 DEF Shape
<1>10. ASSUME NEW w \in Workers, NEW m \in Nodes, NodeLeft(w, m) PROVE Shape'
  <2>1. TablesOK'
    BY <1>t, <1>10 DEF TablesOK, EntriesOK, BooksOK, ThreadsOK, NodeLeft, WakeSenders, Works, Goto, Labels, entries,
       staged
  <2>2. WorkerOK(w)' /\ JobsOK'
    <3>1. ProxiesOf(Place[w], m) \subseteq Entries
      BY <1>t DEF TablesOK, BooksOK, ProxiesOf
    <3>. QED  BY <1>t, <1>10, <3>1, <1>j DEF TablesOK, ThreadsOK, NodeLeft, Works, Goto, WorkerOK
  <2>. QED  BY <2>1, <2>2 DEF Shape
<1>11. ASSUME NEW w \in Workers, KillNext(w) PROVE Shape'
  <2>1. EntriesOK' /\ permit' \subseteq Senders
    <3>1. CASE blocked' = blocked /\ permit' = permit
      BY <1>t, <1>11, <3>1 DEF TablesOK, EntriesOK, ThreadsOK, KillNext
    <3>2. ASSUME NEW i, permit' = permit \cup blocked[Place[w]][i],
                 blocked' = [blocked EXCEPT ![Place[w]][i] = {}], i \in Entries
          PROVE  EntriesOK' /\ permit' \subseteq Senders
      <4>1. [blocked EXCEPT ![Place[w]][i] = {}] \in [Nodes -> [Entries -> SUBSET Senders]]
        BY <1>t, <3>2, NestedExcept DEF TablesOK, EntriesOK
      <4>. QED  BY <1>t, <1>11, <3>2, <4>1 DEF TablesOK, EntriesOK, ThreadsOK, KillNext
    <3>. QED  BY <1>t, <1>11, <3>1, <3>2 DEF KillNext, JobsOK, WorkerOK
  <2>2. BooksOK' /\ ThreadsOK'
    BY <1>t, <1>11, <2>1 DEF TablesOK, BooksOK, ThreadsOK, KillNext, Idle, Works, Goto, Labels, books, staged
  <2>3. WorkerOK(w)' /\ JobsOK'
    BY <1>t, <1>11, <1>j DEF TablesOK, ThreadsOK, JobsOK, KillNext, Idle, Works, Goto, WorkerOK
  <2>. QED  BY <2>1, <2>2, <2>3 DEF Shape, TablesOK
<1>12. ASSUME NEW t \in Threads, TakeOutbox(t) PROVE Shape'
  <2>1. TablesOK'
    BY <1>t, <1>12 DEF TablesOK, EntriesOK, BooksOK, ThreadsOK, TakeOutbox, Emptied, Goto, Labels, entries, books
  <2>2. JobsOK'
    BY <1>t, <1>12 DEF TablesOK, ThreadsOK, JobsOK, SenderOK, ReceiverOK, WorkerOK, TakeOutbox, Goto, SendLabels
  <2>. QED  BY <2>1, <2>2 DEF Shape
<1>13. ASSUME NEW t \in Threads, WireOut(t) PROVE Shape'
  <2>1. TablesOK'
    BY <1>t, <1>13, <1>h DEF TablesOK, ThreadsOK, WireOut, Goto, Labels, staged
  <2>2. JobsOK'
    BY <1>t, <1>13 DEF TablesOK, ThreadsOK, JobsOK, SenderOK, ReceiverOK, WorkerOK, WireOut, Goto, SendLabels
  <2>. QED  BY <2>1, <2>2 DEF Shape
<1>14. ASSUME NEW a \in Actors, LocalSend(a) \/ Die(a) PROVE Shape'
  BY <1>t, <1>14, <1>h, <1>n DEF LocalSend, Die, entries, books, staged, thread, Shape, TablesOK, ThreadsOK
<1>15. ASSUME NEW m \in Nodes, NEW n \in Nodes, Lose(m, n) PROVE Shape'
  BY <1>t, <1>15, <1>h, <1>n DEF Lose, entries, books, staged, thread, Shape, TablesOK, ThreadsOK
<1>. QED  BY <1>1, <1>2, <1>3, <1>4, <1>5, <1>6, <1>7, <1>8, <1>9, <1>10, <1>11, <1>12, <1>13, <1>14, <1>15
          DEF Receiver, Worker, Flush

THEOREM ShapeIsKept == Spec => []Shape
<1>1. Init => Shape
  BY InitShape
<1>2. Shape /\ [Next]_vars => Shape'
  <2>. SUFFICES ASSUME Shape, [Next]_vars PROVE Shape'
    OBVIOUS
  <2>1. CASE Next
    BY <2>1, SenderShape, OthersShape DEF Next
  <2>2. CASE UNCHANGED vars
    BY <2>2 DEF vars, entries, books, staged, thread, Shape, TablesOK, EntriesOK, BooksOK, ThreadsOK, JobsOK,
       SenderOK, ReceiverOK, WorkerOK
  <2>. QED  BY <2>1, <2>2
<1>. QED  BY <1>1, <1>2, PTL DEF Spec

------------------------------------------------------------------------------
(***************************************************************************)
(* One identity, one proxy.                                                *)
(***************************************************************************)
AgreeInv ==
    /\ AddressesAgree
    /\ \A s \in Senders : pc[s] = "mark" => proxies[Place[s]][job[s].at] = job[s].idx

\* Once a node's table has an entry for an actor it keeps it, and nobody holds another.
LEMMA AgreeStep == Shape /\ AgreeInv /\ [Next]_vars => AgreeInv'
<1>. SUFFICES ASSUME Shape, AgreeInv, [Next]_vars PROVE AgreeInv'
  OBVIOUS
<1>. USE ConstantsAssumption DEF Threads
<1>t. /\ proxies \in [Nodes -> [Actors -> 0..MaxEntries]]
      /\ holds \in [Senders -> [Actors -> 0..MaxEntries]]
      /\ pc \in [Threads -> Labels] /\ DOMAIN job = Threads
      /\ \A s \in Senders : SenderOK(s)
  BY DEF Shape, TablesOK, BooksOK, ThreadsOK, JobsOK
<1>k. ASSUME proxies' = proxies, holds' = holds,
             \A s \in Senders : pc'[s] = "mark" => pc[s] = "mark" /\ job'[s] = job[s]
      PROVE  AgreeInv'
  BY <1>k DEF AgreeInv, AddressesAgree
<1>1. ASSUME NEW s \in Senders, NEW a \in Actors, ImportFinds(s, a) PROVE AgreeInv'
  <2>1. proxies' = proxies
    BY <1>1 DEF ImportFinds, books
  <2>2. \A u \in Senders : pc'[u] = "mark" => pc[u] = "mark" /\ job'[u] = job[u]
    BY <1>1, <1>t DEF ImportFinds, Works, Goto
  <2>3. holds' = holds \/ holds' = [holds EXCEPT ![s][a] = proxies[Place[s]][a]]
    BY <1>1 DEF ImportFinds
  <2>4. CASE holds' = holds
    BY <1>k, <2>1, <2>2, <2>4, <1>1 DEF ImportFinds, Works, Goto
  <2>5. CASE holds' = [holds EXCEPT ![s][a] = proxies[Place[s]][a]]
    <3>1. \A u \in Senders, b \in Actors :
            holds'[u][b] = IF u = s /\ b = a THEN proxies[Place[s]][a] ELSE holds[u][b]
      BY <1>t, <2>5
    <3>2. AddressesAgree'
      BY <3>1, <2>1 DEF AgreeInv, AddressesAgree
    <3>3. \A u \in Senders : pc'[u] = "mark" => pc[u] = "mark" /\ job'[u] = job[u]
      BY <2>2
    <3>. QED  BY <3>2, <3>3, <2>1 DEF AgreeInv
  <2>. QED  BY <2>3, <2>4, <2>5
<1>2. ASSUME NEW s \in Senders, ImportRegisters(s) PROVE AgreeInv'
  <2>. DEFINE n == Place[s]  a == job[s].at  i == job[s].idx
  <2>1. n \in Nodes /\ a \in Actors /\ pc[s] = "register" /\ s \in Threads
    BY <1>2, <1>t DEF ImportRegisters, SenderOK
  <2>2. \A u \in Senders \ {s} : pc'[u] = pc[u] /\ job'[u] = job[u]
    BY <1>2, <1>t DEF ImportRegisters, ThenFlush, Works, Goto
  <2>3. CASE proxies[n][a] # 0
    <3>1. proxies' = proxies /\ holds' = [holds EXCEPT ![s][a] = proxies[n][a]] /\ pc'[s] # "mark"
      BY <1>2, <2>1, <2>3, <1>t DEF ImportRegisters, ImportedNow, ThenFlush, Works, Goto
    <3>. HIDE DEF n, a, i
    <3>2. AddressesAgree'
      BY <1>t, <2>1, <3>1 DEF AgreeInv, AddressesAgree, n
    <3>. QED  BY <2>2, <3>1, <3>2 DEF AgreeInv
  <2>4. CASE proxies[n][a] = 0
    <3>1. proxies' = [proxies EXCEPT ![n][a] = i] /\ holds' = holds /\ job' = job
      BY <1>2, <2>4 DEF ImportRegisters, ImportedNow
    <3>2. AddressesAgree'
      BY <1>t, <2>1, <2>4, <3>1 DEF AgreeInv, AddressesAgree
    <3>3. \A u \in Senders : pc'[u] = "mark" => proxies'[Place[u]][job'[u].at] = job'[u].idx
      <4>. SUFFICES ASSUME NEW u \in Senders, pc'[u] = "mark"
                    PROVE  proxies'[Place[u]][job[u].at] = job[u].idx
        BY <3>1
      <4>1. CASE u = s
        BY <1>t, <2>1, <3>1, <4>1
      <4>2. CASE u # s
        <5>1. pc[u] = "mark" /\ job[u].at \in Actors /\ job[u].idx \in Entries
          BY <2>2, <4>2, <1>t DEF SenderOK
        <5>2. proxies[Place[u]][job[u].at] = job[u].idx /\ job[u].idx # 0
          BY <5>1 DEF AgreeInv, Entries
        <5>. HIDE DEF n, a, i
        <5>3. Place[u] # n \/ job[u].at # a
          BY <2>4, <5>2
        <5>. QED  BY <1>t, <2>1, <3>1, <5>1, <5>2, <5>3
      <4>. QED  BY <4>1, <4>2
    <3>. QED  BY <3>2, <3>3 DEF AgreeInv
  <2>. QED  BY <2>3, <2>4
<1>3. ASSUME NEW s \in Senders, ImportMarks(s) PROVE AgreeInv'
  <2>1. /\ proxies' = proxies /\ pc[s] = "mark" /\ job[s].at \in Actors
        /\ holds' = [holds EXCEPT ![s][job[s].at] = job[s].idx]
    BY <1>3, <1>t DEF ImportMarks, books, SenderOK
  <2>2. \A u \in Senders : pc'[u] = "mark" => pc[u] = "mark" /\ job'[u] = job[u]
    BY <1>3, <1>t DEF ImportMarks, ThenFlush, Works, Goto
  <2>. QED  BY <1>t, <2>1, <2>2 DEF AgreeInv, AddressesAgree
<1>4. ASSUME NEW s \in Senders,
             \/ \E a \in Actors : Send(s, a)
             \/ ImportMakes(s) \/ SendAgain(s) \/ TakeCredit(s) \/ LooksBefore(s) \/ LooksAfter(s)
             \/ ParkEnds(s) \/ Stage(s)
      PROVE  AgreeInv'
  <2>1. proxies' = proxies /\ holds' = holds
    BY <1>4 DEF Send, ImportMakes, SendAgain, TakeCredit, LooksBefore, LooksAfter, LooksIfDead, ParkEnds, Stage, books
  <2>2. \A u \in Senders : pc'[u] = "mark" => pc[u] = "mark" /\ job'[u] = job[u]
    BY <1>4, <1>t DEF Send, Tries, ImportMakes, SendAgain, TakeCredit, LooksBefore, LooksAfter, LooksIfDead,
       ParkEnds, Stage, ThenFlush, Idle, Works, Goto
  <2>. QED  BY <1>k, <2>1, <2>2
<1>5. ASSUME \/ \E t \in Receivers : Receiver(t)
             \/ \E w \in Workers : Worker(w)
             \/ \E t \in Threads : Flush(t)
             \/ \E a \in Actors : LocalSend(a) \/ Die(a)
             \/ \E m, n \in Nodes : Lose(m, n)
      PROVE  AgreeInv'
  <2>1. proxies' = proxies /\ holds' = holds
    BY ZenonT(30), <1>5 DEF Receiver, DeliverMsg, DeliverOpen, DeliverGrant, EnqueueRemote, OpenRoom, OpenGrants, Worker, Dequeue,
       AddRoute, SetOutbound, NodeLeft, KillNext, Flush, TakeOutbox, WireOut, LocalSend, Die, Lose, books
  <2>2. \A u \in Senders : pc'[u] = "mark" => pc[u] = "mark" /\ job'[u] = job[u]
    <3>1. ASSUME NEW t \in Receivers, Receiver(t), NEW u \in Senders, pc'[u] = "mark"
          PROVE  pc[u] = "mark" /\ job'[u] = job[u]
      <4>1. CASE \E m \in Nodes : DeliverMsg(t, m) \/ DeliverOpen(t, m) \/ DeliverGrant(t, m)
        BY <3>1, <4>1, <1>t DEF DeliverMsg, DeliverOpen, DeliverGrant, Works, Goto
      <4>2. CASE EnqueueRemote(t) \/ OpenRoom(t) \/ OpenGrants(t)
        BY <3>1, <4>2, <1>t DEF EnqueueRemote, OpenRoom, OpenGrants, ThenFlush, Idle, Works, Goto
      <4>. QED  BY <3>1, <4>1, <4>2 DEF Receiver
    <3>2. CASE \E w \in Workers : Worker(w)
      BY ZenonT(30), <3>2, <1>t DEF Worker, Dequeue, AddRoute, SetOutbound, NodeLeft, KillNext, ThenFlush, Idle, Works, Goto
    <3>3. CASE \E t \in Threads : Flush(t)
      BY <3>3, <1>t DEF Flush, TakeOutbox, WireOut, Goto
    <3>4. CASE (\E a \in Actors : LocalSend(a) \/ Die(a)) \/ (\E m, n \in Nodes : Lose(m, n))
      BY <3>4 DEF LocalSend, Die, Lose, thread
    <3>. QED  BY <1>5, <3>1, <3>2, <3>3, <3>4
  <2>. QED  BY <1>k, <2>1, <2>2
<1>6. CASE UNCHANGED vars
  BY <1>6, <1>k DEF vars, books, thread
<1>. QED  BY <1>1, <1>2, <1>3, <1>4, <1>5, <1>6 DEF Next, Sender

\* One identity is one proxy on each node, whichever of its threads decode the address
\* and however their calls interleave.
THEOREM AddressesAreOne == Spec => []AddressesAgree
<1>1. Init => AgreeInv
  BY ConstantsAssumption DEF Init, AgreeInv, AddressesAgree, Threads
<1>2. AgreeInv => AddressesAgree
  BY DEF AgreeInv
<1>. QED  BY <1>1, <1>2, AgreeStep, ShapeIsKept, PTL DEF Spec

------------------------------------------------------------------------------
(***************************************************************************)
(* No credit is slept on.                                                  *)
(***************************************************************************)
Dozes(s) == pc[s] \in {"none", "park"} /\ s \notin permit

\* A grant wakes all of a node's sleepers under the lock that a sender takes to look for
\* credit and to join their list, and nothing but a grant adds credit.
LEMMA SleepStep == Shape /\ CreditIsNotSleptOn /\ [Next]_vars => CreditIsNotSleptOn'
<1>. SUFFICES ASSUME Shape, CreditIsNotSleptOn, [Next]_vars,
                     NEW u \in Senders, pc'[u] \in {"none", "park"}, u \notin permit'
              PROVE  u \in waiters'[Place[u]] /\ ~MaySpend(Place[u], job[u].idx)'
  BY DEF CreditIsNotSleptOn
<1>. USE ConstantsAssumption DEF Threads
<1>t. /\ DOMAIN credits = Nodes /\ \A n \in Nodes : DOMAIN credits[n] = Entries
      /\ waiters \in [Nodes -> SUBSET Senders]
      /\ pc \in [Threads -> Labels] /\ DOMAIN job = Threads
      /\ SenderOK(u) /\ u \in Threads /\ Place[u] \in Nodes
  BY DEF Shape, TablesOK, BooksOK, ThreadsOK, JobsOK
<1>d. ASSUME Dozes(u) PROVE u \in waiters[Place[u]] /\ ~(credits[Place[u]][job[u].idx] > 0)
  BY <1>d DEF CreditIsNotSleptOn, Dozes, MaySpend
<1>k. ASSUME Dozes(u), credits' = credits, waiters' = waiters, job'[u] = job[u]
      PROVE  u \in waiters'[Place[u]] /\ ~MaySpend(Place[u], job[u].idx)'
  BY <1>k, <1>d DEF MaySpend
<1>1. ASSUME NEW s \in Senders,
             \/ \E a \in Actors : ImportFinds(s, a) \/ Send(s, a)
             \/ ImportMakes(s) \/ ImportMarks(s) \/ SendAgain(s) \/ LooksBefore(s) \/ LooksAfter(s)
             \/ ParkEnds(s) \/ Stage(s)
      PROVE  u \in waiters'[Place[u]] /\ ~MaySpend(Place[u], job[u].idx)'
  <2>1. credits' = credits /\ waiters' = waiters
    BY <1>1 DEF ImportFinds, Send, ImportMakes, ImportMarks, SendAgain, LooksBefore, LooksAfter, LooksIfDead, ParkEnds,
       Stage, books
  <2>2. Dozes(u) /\ job'[u] = job[u]
    <3>1. CASE u = s
      BY <1>1, <1>t, <3>1 DEF ImportFinds, Send, Tries, ImportMakes, ImportMarks, SendAgain, LooksBefore, LooksAfter,
         LooksIfDead, ParkEnds, Stage, ThenFlush, Idle, Works, Goto, Dozes
    <3>2. CASE u # s
      BY <1>1, <1>t, <3>2 DEF ImportFinds, Send, Tries, ImportMakes, ImportMarks, SendAgain, LooksBefore, LooksAfter,
         LooksIfDead, ParkEnds, Stage, ThenFlush, Idle, Works, Goto, Dozes
    <3>. QED  BY <3>1, <3>2
  <2>. QED  BY <1>k, <2>1, <2>2
<1>2. ASSUME NEW s \in Senders, TakeCredit(s)
      PROVE  u \in waiters'[Place[u]] /\ ~MaySpend(Place[u], job[u].idx)'
  <2>1. job' = job /\ permit' = permit
    BY <1>2 DEF TakeCredit
  <2>2. CASE u = s
    <3>1. ~MaySpend(Place[s], job[s].idx)
      BY <1>2, <1>t, <2>2 DEF TakeCredit, Goto
    <3>2. credits' = credits /\ waiters' = [waiters EXCEPT ![Place[s]] = waiters[Place[s]] \cup {s}]
      BY <1>2, <3>1 DEF TakeCredit
    <3>. QED  BY <1>t, <2>1, <2>2, <3>1, <3>2 DEF MaySpend
  <2>3. CASE u # s
    <3>1. Dozes(u)
      BY <1>2, <1>t, <2>1, <2>3 DEF TakeCredit, Goto, Dozes
    <3>2. u \in waiters'[Place[u]]
      <4>1. waiters' = waiters \/ waiters' = [waiters EXCEPT ![Place[s]] = waiters[Place[s]] \cup {s}]
        BY <1>2 DEF TakeCredit
      <4>. QED  BY <1>t, <1>d, <3>1, <4>1
    <3>3. ~(credits'[Place[u]][job[u].idx] > 0)
      <4>. DEFINE n == Place[s]  i == job[s].idx
      <4>1. CASE credits' = credits
        BY <1>d, <3>1, <4>1
      <4>2. CASE MaySpend(n, i) /\ credits' = [credits EXCEPT ![n][i] = credits[n][i] - 1]
        <5>1. n # Place[u] \/ i # job[u].idx
          BY <1>d, <3>1, <4>2 DEF MaySpend
        <5>2. credits'[Place[u]][job[u].idx] = credits[Place[u]][job[u].idx]
          <6>. HIDE DEF n, i
          <6>. QED  BY <1>t, <4>2, <5>1
        <5>. QED  BY <1>d, <3>1, <5>2
      <4>. QED  BY <1>2, <4>1, <4>2 DEF TakeCredit
    <3>. QED  BY <2>1, <3>2, <3>3 DEF MaySpend
  <2>. QED  BY <2>2, <2>3
<1>3. ASSUME NEW s \in Senders, ImportRegisters(s)
      PROVE  u \in waiters'[Place[u]] /\ ~MaySpend(Place[u], job[u].idx)'
  <2>1. Dozes(u) /\ job'[u] = job[u] /\ waiters' = waiters
    <3>1. CASE u = s
      BY <1>3, <1>t, <3>1 DEF ImportRegisters, ThenFlush, Works, Goto, Dozes
    <3>2. CASE u # s
      BY <1>3, <1>t, <3>2 DEF ImportRegisters, ThenFlush, Works, Goto, Dozes
    <3>. QED  BY <3>1, <3>2
  <2>2. ~(credits'[Place[u]][job[u].idx] > 0)
    <3>. DEFINE n == Place[s]  i == job[s].idx
    <3>1. credits' = credits \/ credits' = [credits EXCEPT ![n][i] = 0]
      BY <1>3 DEF ImportRegisters
    <3>2. ~(0 > 0)
      OBVIOUS
    <3>. HIDE DEF n, i
    <3>3. credits'[Place[u]][job[u].idx] \in {credits[Place[u]][job[u].idx], 0}
      BY <1>t, <3>1, <2>1 DEF SenderOK, Dozes, SendLabels
    <3>. QED  BY <1>d, <2>1, <3>2, <3>3
  <2>. QED  BY <1>d, <2>1, <2>2 DEF MaySpend
<1>4. ASSUME NEW t \in Receivers, NEW m \in Nodes, DeliverGrant(t, m)
      PROVE  u \in waiters'[Place[u]] /\ ~MaySpend(Place[u], job[u].idx)'
  <2>. DEFINE n == Place[t]  f == Head(Heard(t, m))  i == proxies[n][f.actor]
  <2>1. pc' = pc /\ job' = job /\ n \in Nodes
    BY <1>4 DEF DeliverGrant
  <2>2. CASE i = 0
    BY <1>4, <1>k, <2>1, <2>2 DEF DeliverGrant, Dozes
  <2>3. CASE i # 0
    <3>1. /\ permit' = permit \cup waiters[n] /\ waiters' = [waiters EXCEPT ![n] = {}]
          /\ credits' = [credits EXCEPT ![n][i] = credits[n][i] + f.n]
      BY <1>4, <2>3 DEF DeliverGrant, WakeSenders
    <3>2. Dozes(u) /\ u \notin waiters[n]
      BY <2>1, <3>1 DEF Dozes
    <3>3. Place[u] # n
      BY <1>d, <3>2
    <3>. HIDE DEF n, f, i
    <3>4. waiters'[Place[u]] = waiters[Place[u]] /\ credits'[Place[u]] = credits[Place[u]]
      BY <1>t, <2>1, <3>1, <3>3
    <3>. QED  BY <1>d, <2>1, <3>2, <3>4 DEF MaySpend
  <2>. QED  BY <2>2, <2>3
<1>5. ASSUME NEW w \in Workers, NEW m \in Nodes, NodeLeft(w, m)
      PROVE  u \in waiters'[Place[u]] /\ ~MaySpend(Place[u], job[u].idx)'
  <2>. DEFINE n == Place[w]
  <2>1. /\ permit' = permit \cup waiters[n] /\ waiters' = [waiters EXCEPT ![n] = {}] /\ credits' = credits
        /\ n \in Nodes /\ pc'[u] = pc[u] /\ job'[u] = job[u]
    BY <1>5, <1>t DEF NodeLeft, WakeSenders, Works, Goto
  <2>2. Dozes(u) /\ u \notin waiters[n]
    BY <2>1 DEF Dozes
  <2>. HIDE DEF n
  <2>. QED  BY <1>t, <1>d, <2>1, <2>2 DEF MaySpend
<1>6. ASSUME \/ \E t \in Receivers : \/ \E m \in Nodes : DeliverMsg(t, m) \/ DeliverOpen(t, m)
                                     \/ EnqueueRemote(t) \/ OpenRoom(t) \/ OpenGrants(t)
             \/ \E w \in Workers : \/ \E a \in Actors : Dequeue(w, a)
                                   \/ \E m \in Nodes : AddRoute(w, m)
                                   \/ SetOutbound(w) \/ KillNext(w)
             \/ \E t \in Threads : Flush(t)
             \/ \E a \in Actors : LocalSend(a) \/ Die(a)
             \/ \E m, n \in Nodes : Lose(m, n)
      PROVE  u \in waiters'[Place[u]] /\ ~MaySpend(Place[u], job[u].idx)'
  <2>1. credits' = credits /\ waiters' = waiters
    BY <1>6 DEF DeliverMsg, DeliverOpen, EnqueueRemote, OpenRoom, OpenGrants, Dequeue, AddRoute, SetOutbound, KillNext,
       Flush, TakeOutbox, WireOut, LocalSend, Die, Lose, books
  <2>2. Dozes(u) /\ job'[u] = job[u]
    <3>1. CASE \E t \in Receivers : \/ \E m \in Nodes : DeliverMsg(t, m) \/ DeliverOpen(t, m)
                                    \/ EnqueueRemote(t) \/ OpenRoom(t) \/ OpenGrants(t)
      BY <3>1, <1>t DEF DeliverMsg, DeliverOpen, EnqueueRemote, OpenRoom, OpenGrants, ThenFlush, Idle, Works, Goto, Dozes
    <3>2. CASE \E w \in Workers : \/ \E a \in Actors : Dequeue(w, a)
                                  \/ \E m \in Nodes : AddRoute(w, m)
                                  \/ SetOutbound(w) \/ KillNext(w)
      BY <3>2, <1>t DEF Dequeue, AddRoute, SetOutbound, KillNext, ThenFlush, Idle, Works, Goto, Dozes
    <3>3. CASE \E t \in Threads : Flush(t)
      BY <3>3, <1>t DEF Flush, TakeOutbox, WireOut, Goto, Dozes
    <3>4. CASE (\E a \in Actors : LocalSend(a) \/ Die(a)) \/ (\E m, n \in Nodes : Lose(m, n))
      BY <3>4 DEF LocalSend, Die, Lose, thread, Dozes
    <3>. QED  BY <1>6, <3>1, <3>2, <3>3, <3>4
  <2>. QED  BY <1>k, <2>1, <2>2
<1>7. CASE UNCHANGED vars
  BY <1>7, <1>k DEF vars, books, thread, Dozes
<1>. QED  BY <1>1, <1>2, <1>3, <1>4, <1>5, <1>6, <1>7 DEF Next, Sender, Receiver, Worker

\* A sender asleep for credit has none to spend and is on the list the next grant wakes,
\* however grants, looks and parks interleave.
THEOREM NoCreditIsSleptOn == Spec => []CreditIsNotSleptOn
<1>1. Init => CreditIsNotSleptOn
  BY ConstantsAssumption DEF Init, CreditIsNotSleptOn, Threads
<1>. QED  BY <1>1, SleepStep, ShapeIsKept, PTL DEF Spec

------------------------------------------------------------------------------
(***************************************************************************)
(* No staged frame is forgotten.                                           *)
(***************************************************************************)
Flushes(t, n) == Place[t] = n /\ pc[t] \in {"mark", "flush"}

\* Whoever stages a frame flushes after, and a flush takes all there is.
LEMMA FlushStep == Shape /\ FramesAreFlushed /\ [Next]_vars => FramesAreFlushed'
<1>. SUFFICES ASSUME Shape, FramesAreFlushed, [Next]_vars, NEW n \in Nodes, outbox'[n] # <<>>
              PROVE  \E t \in Threads : Flushes(t, n)'
  BY DEF FramesAreFlushed, Flushes
<1>. USE ConstantsAssumption DEF Threads
<1>t. /\ DOMAIN outbox = Nodes /\ pc \in [Threads -> Labels]
      /\ \A s \in Senders : SenderOK(s)
      /\ \A t \in Receivers : ReceiverOK(t)
  BY DEF Shape, TablesOK, BooksOK, ThreadsOK, JobsOK
<1>k. ASSUME outbox'[n] = outbox[n],
             \A t \in Threads : pc[t] \in {"mark", "flush"} => pc'[t] \in {"mark", "flush"}
      PROVE  \E t \in Threads : Flushes(t, n)'
  BY <1>k DEF FramesAreFlushed, Flushes
<1>s. ASSUME NEW u \in Threads, pc'[u] = "flush" \/ pc'[u] = "mark", \A t \in Threads \ {u} : pc'[t] = pc[t],
             outbox' = outbox \/ \E q : outbox' = [outbox EXCEPT ![Place[u]] = q]
      PROVE  \E t \in Threads : Flushes(t, n)'
  <2>1. CASE n = Place[u]
    BY <1>s, <2>1 DEF Flushes
  <2>2. CASE n # Place[u]
    <3>1. outbox'[n] = outbox[n]
      BY <1>s, <1>t, <2>2
    <3>. QED  BY <1>s, <1>k, <3>1
  <2>. QED  BY <2>1, <2>2
<1>1. ASSUME NEW s \in Senders,
             \/ \E a \in Actors : ImportFinds(s, a) \/ Send(s, a)
             \/ ImportMakes(s) \/ SendAgain(s) \/ TakeCredit(s) \/ LooksBefore(s) \/ LooksAfter(s) \/ ParkEnds(s)
      PROVE  \E t \in Threads : Flushes(t, n)'
  <2>1. outbox' = outbox
    BY <1>1 DEF ImportFinds, Send, ImportMakes, SendAgain, TakeCredit, LooksBefore, LooksAfter, LooksIfDead, ParkEnds, staged
  <2>2. ASSUME NEW t \in Threads, pc[t] \in {"mark", "flush"} PROVE pc'[t] \in {"mark", "flush"}
    BY <1>1, <1>t, <2>2 DEF ImportFinds, Send, Tries, ImportMakes, SendAgain, TakeCredit, LooksBefore, LooksAfter,
       LooksIfDead, ParkEnds, Idle, Works, Goto
  <2>. QED  BY <1>k, <2>1, <2>2
<1>2. ASSUME NEW s \in Senders, ImportRegisters(s) \/ ImportMarks(s) \/ Stage(s)
      PROVE  \E t \in Threads : Flushes(t, n)'
  <2>1. outbox' = outbox \/ \E q : outbox' = [outbox EXCEPT ![Place[s]] = q]
    BY <1>2 DEF ImportRegisters, ImportMarks, Stage, StageIn, staged
  <2>2. (pc'[s] = "flush" \/ pc'[s] = "mark") /\ \A t \in Threads \ {s} : pc'[t] = pc[t]
    BY <1>2, <1>t DEF ImportRegisters, ImportMarks, Stage, ThenFlush, Works, Goto
  <2>. QED  BY <1>s, <2>1, <2>2
<1>3. ASSUME NEW t \in Receivers,
             \/ \E m \in Nodes : DeliverMsg(t, m) \/ DeliverOpen(t, m) \/ DeliverGrant(t, m)
             \/ EnqueueRemote(t) \/ OpenRoom(t)
      PROVE  \E u \in Threads : Flushes(u, n)'
  <2>1. outbox' = outbox
    BY <1>3 DEF DeliverMsg, DeliverOpen, DeliverGrant, EnqueueRemote, OpenRoom, staged
  <2>2. ASSUME NEW u \in Threads, pc[u] \in {"mark", "flush"} PROVE pc'[u] \in {"mark", "flush"}
    <3>1. CASE \E m \in Nodes : DeliverMsg(t, m) \/ DeliverOpen(t, m) \/ DeliverGrant(t, m)
      BY <3>1, <1>t, <2>2 DEF DeliverMsg, DeliverOpen, DeliverGrant, Takes, Works, Goto
    <3>2. CASE EnqueueRemote(t) \/ OpenRoom(t)
      BY <3>2, <1>t, <2>2 DEF EnqueueRemote, OpenRoom, Idle, Works, Goto
    <3>. QED  BY <1>3, <3>1, <3>2
  <2>. QED  BY <1>k, <2>1, <2>2
<1>4. ASSUME NEW t \in Receivers, OpenGrants(t)
      PROVE  \E u \in Threads : Flushes(u, n)'
  <2>1. Home[job[t].at] = Place[t]
    BY <1>4, <1>t DEF OpenGrants, ReceiverOK
  <2>2. outbox' = outbox \/ \E q : outbox' = [outbox EXCEPT ![Place[t]] = q]
    BY <1>4, <2>1 DEF OpenGrants, Grant, StageIn
  <2>3. pc'[t] = "flush" /\ \A u \in Threads \ {t} : pc'[u] = pc[u]
    BY <1>4, <1>t DEF OpenGrants, ThenFlush, Works, Goto
  <2>. QED  BY <1>s, <2>2, <2>3
<1>5. ASSUME NEW w \in Workers,
             \/ \E a \in Actors : Dequeue(w, a)
             \/ \E m \in Nodes : AddRoute(w, m)
             \/ SetOutbound(w)
      PROVE  \E u \in Threads : Flushes(u, n)'
  <2>1. outbox' = outbox \/ \E q : outbox' = [outbox EXCEPT ![Place[w]] = q]
    BY <1>5 DEF Dequeue, CreditBack, Grant, StageIn, AddRoute, SetOutbound, Restage, staged
  <2>2. pc'[w] = "flush" /\ \A u \in Threads \ {w} : pc'[u] = pc[u]
    BY <1>5, <1>t DEF Dequeue, AddRoute, SetOutbound, ThenFlush, Works, Goto
  <2>. QED  BY <1>s, <2>1, <2>2
<1>6. ASSUME NEW w \in Workers, (\E m \in Nodes : NodeLeft(w, m)) \/ KillNext(w)
      PROVE  \E u \in Threads : Flushes(u, n)'
  <2>1. outbox' = outbox
    BY <1>6 DEF NodeLeft, KillNext, staged
  <2>2. ASSUME NEW u \in Threads, pc[u] \in {"mark", "flush"} PROVE pc'[u] \in {"mark", "flush"}
    BY <1>6, <1>t, <2>2 DEF NodeLeft, KillNext, Idle, Works, Goto
  <2>. QED  BY <1>k, <2>1, <2>2
<1>7. ASSUME NEW t \in Threads, TakeOutbox(t)
      PROVE  \E u \in Threads : Flushes(u, n)'
  <2>1. outbox' = [outbox EXCEPT ![Place[t]] = <<>>] /\ Place[t] \in Nodes
    BY <1>7 DEF TakeOutbox, Emptied
  <2>2. n # Place[t] /\ outbox'[n] = outbox[n]
    BY <1>t, <2>1
  <2>3. PICK u \in Threads : Flushes(u, n)
    BY <2>2 DEF FramesAreFlushed, Flushes
  <2>4. pc'[u] = pc[u]
    BY <1>7, <1>t, <2>2, <2>3 DEF TakeOutbox, Goto, Flushes
  <2>. QED  BY <2>3, <2>4 DEF Flushes
<1>8. ASSUME NEW t \in Threads, WireOut(t)
      PROVE  \E u \in Threads : Flushes(u, n)'
  <2>1. outbox' = outbox /\ pc[t] = "wire" /\ \A u \in Threads \ {t} : pc'[u] = pc[u]
    BY <1>8, <1>t DEF WireOut, staged, Goto
  <2>. QED  BY <1>k, <2>1
<1>9. CASE \/ \E a \in Actors : LocalSend(a) \/ Die(a)
           \/ \E m, o \in Nodes : Lose(m, o)
           \/ UNCHANGED vars
  BY <1>9, <1>k DEF LocalSend, Die, Lose, vars, staged, thread
<1>. QED  BY <1>1, <1>2, <1>3, <1>4, <1>5, <1>6, <1>7, <1>8, <1>9 DEF Next, Sender, Receiver, Worker, Flush

\* A staged frame always has a thread of its node on the way to flush it, though credits
\* are staged under a lock that forbids flushing.
THEOREM StagedFramesAreFlushed == Spec => []FramesAreFlushed
<1>1. Init => FramesAreFlushed
  BY DEF Init, FramesAreFlushed
<1>. QED  BY <1>1, FlushStep, ShapeIsKept, PTL DEF Spec

------------------------------------------------------------------------------
(***************************************************************************)
(* Frames and the slots they are in.                                       *)
(***************************************************************************)
SlotsIn(q) == UNION {{p} \X (1..Len(q[p])) : p \in DOMAIN q}
At(q, x)   == q[x[1]][x[2]]
Load(q, F) == UNION {{x} \X (1..Worth(At(q, x))) : x \in {y \in SlotsIn(q) : At(q, y) \in F}}

\* The frames of q are those of r, each in a slot of its own; or r has one frame more.
Moves(q, r) ==
    \E g \in Bijection(SlotsIn(q), SlotsIn(r)) : \A x \in SlotsIn(q) : At(r, g[x]) = At(q, x)
Adds(q, r, f) ==
    \E z \in SlotsIn(r) :
        /\ At(r, z) = f
        /\ \E g \in Bijection(SlotsIn(q), SlotsIn(r) \ {z}) : \A x \in SlotsIn(q) : At(r, g[x]) = At(q, x)

\* What a bijection is.
LEMMA BijectionIs ==
    ASSUME NEW S, NEW T, NEW g, g \in Bijection(S, T)
    PROVE  /\ g \in [S -> T]
           /\ \A x \in S : g[x] \in T
           /\ \A x, y \in S : g[x] = g[y] => x = y
           /\ \A z \in T : \E x \in S : g[x] = z
  BY Fun_BijectionProperties

\* A slot is a place and a position in its queue.
LEMMA SlotsAre ==
    ASSUME NEW q
    PROVE  /\ \A p \in DOMAIN q : \A k \in 1..Len(q[p]) : <<p, k>> \in SlotsIn(q)
           /\ \A x \in SlotsIn(q) : x[1] \in DOMAIN q /\ x[2] \in 1..Len(q[x[1]]) /\ x = <<x[1], x[2]>>
  BY DEF SlotsIn
LEMMA LoadIs ==
    ASSUME NEW q, NEW F
    PROVE  /\ \A x \in SlotsIn(q) : \A j \in 1..Worth(At(q, x)) : At(q, x) \in F => <<x, j>> \in Load(q, F)
           /\ \A y \in Load(q, F) : /\ y[1] \in SlotsIn(q) /\ At(q, y[1]) \in F
                                    /\ y[2] \in 1..Worth(At(q, y[1])) /\ y = <<y[1], y[2]>>
  BY DEF Load

\* Frames that move are worth what they were.
LEMMA MovedLoad ==
    ASSUME NEW q, NEW r, NEW F, Moves(q, r), IsFiniteSet(Load(q, F))
    PROVE  IsFiniteSet(Load(r, F)) /\ Cardinality(Load(r, F)) = Cardinality(Load(q, F))
<1>1. PICK g \in Bijection(SlotsIn(q), SlotsIn(r)) : \A x \in SlotsIn(q) : At(r, g[x]) = At(q, x)
  BY DEF Moves
<1>2. /\ \A x \in SlotsIn(q) : g[x] \in SlotsIn(r)
      /\ \A x, y \in SlotsIn(q) : g[x] = g[y] => x = y
      /\ \A z \in SlotsIn(r) : \E x \in SlotsIn(q) : g[x] = z
  BY Fun_BijectionProperties
<1>. DEFINE h == [y \in Load(q, F) |-> <<g[y[1]], y[2]>>]
<1>3. h \in [Load(q, F) -> Load(r, F)]
  BY <1>1, <1>2, LoadIs
<1>4. \A y, z \in Load(q, F) : h[y] = h[z] => y = z
  BY <1>2, LoadIs
<1>5. \A z \in Load(r, F) : \E y \in Load(q, F) : h[y] = z
  <2>. TAKE z \in Load(r, F)
  <2>1. z[1] \in SlotsIn(r) /\ At(r, z[1]) \in F /\ z[2] \in 1..Worth(At(r, z[1])) /\ z = <<z[1], z[2]>>
    BY LoadIs
  <2>2. PICK x \in SlotsIn(q) : g[x] = z[1]
    BY <1>2, <2>1
  <2>3. <<x, z[2]>> \in Load(q, F)
    BY <1>1, <2>1, <2>2, LoadIs
  <2>. QED  BY <2>1, <2>2, <2>3
<1>. HIDE DEF h
<1>6. h \in Bijection(Load(q, F), Load(r, F))
  BY <1>3, <1>4, <1>5, Fun_IsBij
<1>7. ExistsBijection(Load(q, F), Load(r, F))
  BY <1>6, Fun_ExistsBij
<1>. QED  BY <1>7, FS_Bijection

\* A frame that is added brings its worth, and one that is dropped takes it along.
LEMMA AddedLoad ==
    ASSUME NEW q, NEW r, NEW F, NEW f, Adds(q, r, f), Worth(f) \in Nat, IsFiniteSet(Load(q, F))
    PROVE  /\ IsFiniteSet(Load(r, F))
           /\ Cardinality(Load(r, F)) = Cardinality(Load(q, F)) + IF f \in F THEN Worth(f) ELSE 0
<1>1. PICK z \in SlotsIn(r) :
          /\ At(r, z) = f
          /\ \E g \in Bijection(SlotsIn(q), SlotsIn(r) \ {z}) : \A x \in SlotsIn(q) : At(r, g[x]) = At(q, x)
  BY DEF Adds
<1>2. PICK g \in Bijection(SlotsIn(q), SlotsIn(r) \ {z}) : \A x \in SlotsIn(q) : At(r, g[x]) = At(q, x)
  BY <1>1
<1>3. /\ \A x \in SlotsIn(q) : g[x] \in SlotsIn(r) \ {z}
      /\ \A x, y \in SlotsIn(q) : g[x] = g[y] => x = y
      /\ \A x \in SlotsIn(r) \ {z} : \E y \in SlotsIn(q) : g[y] = x
  BY Fun_BijectionProperties
<1>. DEFINE Old == {y \in Load(r, F) : y[1] # z}
            New == {y \in Load(r, F) : y[1] = z}
            W   == IF f \in F THEN Worth(f) ELSE 0
            h   == [y \in Load(q, F) |-> <<g[y[1]], y[2]>>]
            k   == [j \in 1..W |-> <<z, j>>]
<1>4. h \in [Load(q, F) -> Old]
  BY <1>2, <1>3, LoadIs
<1>5. \A y, x \in Load(q, F) : h[y] = h[x] => y = x
  BY <1>3, LoadIs
<1>6. \A x \in Old : \E y \in Load(q, F) : h[y] = x
  <2>. TAKE x \in Old
  <2>1. x[1] \in SlotsIn(r) \ {z} /\ At(r, x[1]) \in F /\ x[2] \in 1..Worth(At(r, x[1])) /\ x = <<x[1], x[2]>>
    BY LoadIs
  <2>2. PICK y \in SlotsIn(q) : g[y] = x[1]
    BY <1>3, <2>1
  <2>3. <<y, x[2]>> \in Load(q, F)
    BY <1>2, <2>1, <2>2, LoadIs
  <2>. QED  BY <2>1, <2>2, <2>3
<1>7. IsFiniteSet(Old) /\ Cardinality(Old) = Cardinality(Load(q, F))
  <2>. HIDE DEF h, Old
  <2>1. ExistsBijection(Load(q, F), Old)
    BY <1>4, <1>5, <1>6, Fun_IsBij, Fun_ExistsBij
  <2>. QED  BY <2>1, FS_Bijection
<1>8. IsFiniteSet(New) /\ Cardinality(New) = W
  <2>0. W \in Nat
    OBVIOUS
  <2>1. k \in [1..W -> New]
    BY <1>1, LoadIs
  <2>2. \A i, j \in 1..W : k[i] = k[j] => i = j
    OBVIOUS
  <2>3. \A y \in New : \E j \in 1..W : k[j] = y
    <3>. TAKE y \in New
    <3>1. y[1] = z /\ f \in F /\ y[2] \in 1..Worth(f) /\ y = <<y[1], y[2]>>
      BY <1>1, LoadIs
    <3>2. y[2] \in 1..W /\ k[y[2]] = y
      BY <3>1
    <3>. QED  BY <3>2
  <2>. HIDE DEF k, New, W
  <2>4. ExistsBijection(1..W, New)
    BY <2>1, <2>2, <2>3, Fun_IsBij, Fun_ExistsBij
  <2>5. IsFiniteSet(New)
    BY <2>0, <2>4, FS_NatBijection
  <2>. QED  BY <2>0, <2>4, <2>5, FS_CountingElements
<1>9. Load(r, F) = Old \cup New /\ Old \cap New = {}
  OBVIOUS
<1>. HIDE DEF Old, New, W
<1>10. /\ IsFiniteSet(Old \cup New)
       /\ Cardinality(Old \cup New) = Cardinality(Old) + Cardinality(New) - Cardinality({})
  BY <1>7, <1>8, <1>9, FS_Union
<1>11. Cardinality({}) = 0 /\ Cardinality(Load(q, F)) \in Nat /\ W \in Nat
  BY FS_EmptySet, FS_CardinalityType DEF W
<1>. QED  BY <1>7, <1>8, <1>9, <1>10, <1>11 DEF W
LEMMA DroppedLoad ==
    ASSUME NEW q, NEW r, NEW F, NEW f, Adds(r, q, f), Worth(f) \in Nat, IsFiniteSet(Load(q, F))
    PROVE  /\ IsFiniteSet(Load(r, F))
           /\ Cardinality(Load(r, F)) = Cardinality(Load(q, F)) - IF f \in F THEN Worth(f) ELSE 0
           /\ f \in F => Cardinality(Load(q, F)) >= Worth(f)
<1>1. PICK z \in SlotsIn(q) :
          /\ At(q, z) = f
          /\ \E g \in Bijection(SlotsIn(r), SlotsIn(q) \ {z}) : \A x \in SlotsIn(r) : At(q, g[x]) = At(r, x)
  BY DEF Adds
<1>2. PICK g \in Bijection(SlotsIn(r), SlotsIn(q) \ {z}) : \A x \in SlotsIn(r) : At(q, g[x]) = At(r, x)
  BY <1>1
<1>3. /\ \A x \in SlotsIn(r) : g[x] \in SlotsIn(q) \ {z}
      /\ \A x, y \in SlotsIn(r) : g[x] = g[y] => x = y
  BY Fun_BijectionProperties
<1>. DEFINE h == [y \in Load(r, F) |-> <<g[y[1]], y[2]>>]
<1>4. h \in [Load(r, F) -> Load(q, F)]
  BY <1>2, <1>3, LoadIs
<1>5. \A y, x \in Load(r, F) : h[y] = h[x] => y = x
  BY <1>3, LoadIs
<1>. HIDE DEF h
<1>6. IsFiniteSet(Load(r, F))
  BY <1>4, <1>5, Fun_IsInj, FS_Injection
<1>7. Cardinality(Load(q, F)) = Cardinality(Load(r, F)) + IF f \in F THEN Worth(f) ELSE 0
  BY <1>6, AddedLoad
<1>8. Cardinality(Load(r, F)) \in Nat
  BY <1>6, FS_CardinalityType
<1>. QED  BY <1>6, <1>7, <1>8

\* A frame that joins a queue, and one that leaves it from the front.
LEMMA AppendAdds ==
    ASSUME NEW q, NEW p \in DOMAIN q, NEW S, q[p] \in Seq(S), NEW f
    PROVE  Adds(q, [q EXCEPT ![p] = Append(q[p], f)], f)
<1>. DEFINE r == [q EXCEPT ![p] = Append(q[p], f)]
            z == <<p, Len(q[p]) + 1>>
            g == [x \in SlotsIn(q) |-> x]
<1>1. /\ DOMAIN r = DOMAIN q /\ \A o \in DOMAIN q : o # p => r[o] = q[o]
      /\ Len(r[p]) = Len(q[p]) + 1 /\ Len(q[p]) \in Nat /\ r[p][Len(q[p]) + 1] = f
      /\ \A k \in 1..Len(q[p]) : r[p][k] = q[p][k]
  OBVIOUS
<1>. HIDE DEF r
<1>2. z \in SlotsIn(r) /\ At(r, z) = f
  BY <1>1, SlotsAre DEF At
<1>3. \A x \in SlotsIn(q) : x \in SlotsIn(r) /\ x # z /\ At(r, x) = At(q, x)
  <2>. TAKE x \in SlotsIn(q)
  <2>1. x[1] \in DOMAIN q /\ x[2] \in 1..Len(q[x[1]]) /\ x = <<x[1], x[2]>>
    BY SlotsAre
  <2>2. x[2] \in 1..Len(r[x[1]])
    BY <1>1, <2>1
  <2>. QED  BY <1>1, <2>1, <2>2, SlotsAre DEF At
<1>4. \A x \in SlotsIn(r) \ {z} : x \in SlotsIn(q)
  <2>. TAKE x \in SlotsIn(r) \ {z}
  <2>1. x[1] \in DOMAIN q /\ x[2] \in 1..Len(r[x[1]]) /\ x = <<x[1], x[2]>>
    BY <1>1, SlotsAre
  <2>2. x[2] \in 1..Len(q[x[1]])
    BY <1>1, <2>1
  <2>. QED  BY <2>1, <2>2, SlotsAre
<1>5. g \in Bijection(SlotsIn(q), SlotsIn(r) \ {z})
  <2>1. g \in [SlotsIn(q) -> SlotsIn(r) \ {z}] /\ \A x, y \in SlotsIn(q) : g[x] = g[y] => x = y
    BY <1>3
  <2>2. \A x \in SlotsIn(r) \ {z} : \E y \in SlotsIn(q) : g[y] = x
    BY <1>4
  <2>. HIDE DEF g, z
  <2>. QED  BY <2>1, <2>2, Fun_IsBij
<1>6. \A x \in SlotsIn(q) : At(r, g[x]) = At(q, x)
  BY <1>3
<1>. HIDE DEF g, z
<1>. QED  BY <1>2, <1>5, <1>6 DEF Adds, r
LEMMA TailDrops ==
    ASSUME NEW q, NEW p \in DOMAIN q, NEW S, q[p] \in Seq(S), q[p] # <<>>
    PROVE  Adds([q EXCEPT ![p] = Tail(q[p])], q, Head(q[p]))
<1>. DEFINE r == [q EXCEPT ![p] = Tail(q[p])]
            z == <<p, 1>>
            g == [x \in SlotsIn(r) |-> IF x[1] = p THEN <<p, x[2] + 1>> ELSE x]
<1>1. /\ DOMAIN r = DOMAIN q /\ \A o \in DOMAIN q : o # p => r[o] = q[o]
      /\ Len(r[p]) = Len(q[p]) - 1 /\ Len(q[p]) \in Nat \ {0} /\ Head(q[p]) = q[p][1]
      /\ \A k \in 1..Len(r[p]) : r[p][k] = q[p][k + 1]
  OBVIOUS
<1>. HIDE DEF r
<1>2. z \in SlotsIn(q) /\ At(q, z) = Head(q[p])
  BY <1>1, SlotsAre DEF At
<1>3. \A x \in SlotsIn(r) : g[x] \in SlotsIn(q) \ {z} /\ At(q, g[x]) = At(r, x)
  <2>. TAKE x \in SlotsIn(r)
  <2>1. x[1] \in DOMAIN q /\ x[2] \in 1..Len(r[x[1]]) /\ x = <<x[1], x[2]>>
    BY <1>1, SlotsAre
  <2>2. CASE x[1] = p
    <3>1. x[2] + 1 \in 1..Len(q[p]) /\ x[2] + 1 # 1 /\ g[x] = <<p, x[2] + 1>>
      BY <1>1, <2>1, <2>2
    <3>. QED  BY <1>1, <2>1, <2>2, <3>1, SlotsAre DEF At
  <2>3. CASE x[1] # p
    BY <1>1, <2>1, <2>3, SlotsAre DEF At
  <2>. QED  BY <2>2, <2>3
<1>4. \A x, y \in SlotsIn(r) : g[x] = g[y] => x = y
  <2>. TAKE x, y \in SlotsIn(r)
  <2>1. /\ x[1] \in DOMAIN q /\ x[2] \in 1..Len(r[x[1]]) /\ x = <<x[1], x[2]>>
        /\ y[1] \in DOMAIN q /\ y[2] \in 1..Len(r[y[1]]) /\ y = <<y[1], y[2]>>
    BY <1>1, SlotsAre
  <2>. QED  BY <2>1
<1>5. \A x \in SlotsIn(q) \ {z} : \E y \in SlotsIn(r) : g[y] = x
  <2>. TAKE x \in SlotsIn(q) \ {z}
  <2>1. x[1] \in DOMAIN q /\ x[2] \in 1..Len(q[x[1]]) /\ x = <<x[1], x[2]>>
    BY SlotsAre
  <2>2. CASE x[1] = p
    <3>1. x[2] # 1
      BY <2>1, <2>2
    <3>2. x[2] - 1 \in 1..Len(r[p])
      BY <1>1, <2>1, <2>2, <3>1
    <3>3. <<p, x[2] - 1>> \in SlotsIn(r)
      BY <1>1, <3>2, SlotsAre
    <3>4. g[<<p, x[2] - 1>>] = x
      BY <2>1, <2>2, <3>3
    <3>. QED  BY <3>3, <3>4
  <2>3. CASE x[1] # p
    <3>1. x \in SlotsIn(r)
      BY <1>1, <2>1, <2>3, SlotsAre
    <3>. QED  BY <2>3, <3>1
  <2>. QED  BY <2>2, <2>3
<1>6. g \in [SlotsIn(r) -> SlotsIn(q) \ {z}]
  BY <1>3
<1>. HIDE DEF g, z
<1>7. g \in Bijection(SlotsIn(r), SlotsIn(q) \ {z})
  BY <1>4, <1>5, <1>6, Fun_IsBij
<1>. QED  BY <1>2, <1>3, <1>7 DEF Adds, r

\* A frame that leaves one queue and joins another moves.
LEMMA DropThenAdd ==
    ASSUME NEW q, NEW m, NEW r, NEW f, Adds(m, q, f), Adds(m, r, f)
    PROVE  Moves(q, r)
<1>1. PICK y \in SlotsIn(q) :
          /\ At(q, y) = f
          /\ \E g \in Bijection(SlotsIn(m), SlotsIn(q) \ {y}) : \A x \in SlotsIn(m) : At(q, g[x]) = At(m, x)
  BY DEF Adds
<1>2. PICK z \in SlotsIn(r) :
          /\ At(r, z) = f
          /\ \E g \in Bijection(SlotsIn(m), SlotsIn(r) \ {z}) : \A x \in SlotsIn(m) : At(r, g[x]) = At(m, x)
  BY DEF Adds
<1>3. PICK g \in Bijection(SlotsIn(m), SlotsIn(q) \ {y}) : \A x \in SlotsIn(m) : At(q, g[x]) = At(m, x)
  BY <1>1
<1>4. PICK h \in Bijection(SlotsIn(m), SlotsIn(r) \ {z}) : \A x \in SlotsIn(m) : At(r, h[x]) = At(m, x)
  BY <1>2
<1>5. /\ \A x \in SlotsIn(m) : g[x] \in SlotsIn(q) \ {y}
      /\ \A x, w \in SlotsIn(m) : g[x] = g[w] => x = w
      /\ \A x \in SlotsIn(q) \ {y} : \E w \in SlotsIn(m) : g[w] = x
  <2>. DEFINE T == SlotsIn(q) \ {y}
  <2>1. g \in Bijection(SlotsIn(m), T)
    OBVIOUS
  <2>. HIDE DEF T
  <2>2. /\ \A x \in SlotsIn(m) : g[x] \in T
        /\ \A x, w \in SlotsIn(m) : g[x] = g[w] => x = w
        /\ \A x \in T : \E w \in SlotsIn(m) : g[w] = x
    BY <2>1, BijectionIs
  <2>. QED  BY <2>2 DEF T
<1>6. /\ \A x \in SlotsIn(m) : h[x] \in SlotsIn(r) \ {z}
      /\ \A x, w \in SlotsIn(m) : h[x] = h[w] => x = w
      /\ \A x \in SlotsIn(r) \ {z} : \E w \in SlotsIn(m) : h[w] = x
  <2>. DEFINE T == SlotsIn(r) \ {z}
  <2>1. h \in Bijection(SlotsIn(m), T)
    OBVIOUS
  <2>. HIDE DEF T
  <2>2. /\ \A x \in SlotsIn(m) : h[x] \in T
        /\ \A x, w \in SlotsIn(m) : h[x] = h[w] => x = w
        /\ \A x \in T : \E w \in SlotsIn(m) : h[w] = x
    BY <2>1, BijectionIs
  <2>. QED  BY <2>2 DEF T
<1>. DEFINE back(x) == CHOOSE w \in SlotsIn(m) : g[w] = x
            k == [x \in SlotsIn(q) |-> IF x = y THEN z ELSE h[back(x)]]
<1>7. \A x \in SlotsIn(q) \ {y} : back(x) \in SlotsIn(m) /\ g[back(x)] = x
  BY <1>5
<1>8. \A w \in SlotsIn(m) : back(g[w]) = w
  BY <1>5, <1>7
<1>. HIDE DEF back
<1>9. k \in [SlotsIn(q) -> SlotsIn(r)]
  BY <1>6, <1>7
<1>10. \A x, w \in SlotsIn(q) : k[x] = k[w] => x = w
  BY <1>6, <1>7
<1>11. \A x \in SlotsIn(r) : \E w \in SlotsIn(q) : k[w] = x
  <2>. TAKE x \in SlotsIn(r)
  <2>1. CASE x = z
    BY <2>1
  <2>2. CASE x # z
    <3>1. PICK v \in SlotsIn(m) : h[v] = x
      BY <1>6, <2>2
    <3>2. g[v] \in SlotsIn(q) \ {y} /\ back(g[v]) = v
      BY <1>5, <1>8
    <3>. QED  BY <3>1, <3>2
  <2>. QED  BY <2>1, <2>2
<1>12. \A x \in SlotsIn(q) : At(r, k[x]) = At(q, x)
  BY <1>1, <1>2, <1>3, <1>4, <1>7
<1>. HIDE DEF k
<1>13. k \in Bijection(SlotsIn(q), SlotsIn(r))
  BY <1>9, <1>10, <1>11, Fun_IsBij
<1>. QED  BY <1>12, <1>13 DEF Moves

\* A whole queue that becomes another.
LEMMA TakeMoves ==
    ASSUME NEW q, NEW a \in DOMAIN q, NEW b \in DOMAIN q, a # b, q[b] = <<>>
    PROVE  Moves(q, [q EXCEPT ![b] = q[a], ![a] = <<>>])
<1>. DEFINE r == [q EXCEPT ![b] = q[a], ![a] = <<>>]
            g == [x \in SlotsIn(q) |-> IF x[1] = a THEN <<b, x[2]>> ELSE x]
<1>1. /\ DOMAIN r = DOMAIN q /\ \A o \in DOMAIN q \ {a, b} : r[o] = q[o]
      /\ r[b] = q[a] /\ Len(r[a]) = 0 /\ Len(q[b]) = 0
  OBVIOUS
<1>. HIDE DEF r
<1>2. \A x \in SlotsIn(q) : x[1] \in DOMAIN q /\ x[1] # b /\ x[2] \in 1..Len(q[x[1]]) /\ x = <<x[1], x[2]>>
  BY <1>1, SlotsAre
<1>3. \A x \in SlotsIn(r) : x[1] \in DOMAIN q /\ x[1] # a /\ x[2] \in 1..Len(r[x[1]]) /\ x = <<x[1], x[2]>>
  BY <1>1, SlotsAre
<1>4. \A x \in SlotsIn(q) : g[x] \in SlotsIn(r) /\ At(r, g[x]) = At(q, x)
  <2>. TAKE x \in SlotsIn(q)
  <2>1. CASE x[1] = a
    BY <1>1, <1>2, <2>1, SlotsAre DEF At
  <2>2. CASE x[1] # a
    <3>1. r[x[1]] = q[x[1]]
      BY <1>1, <1>2, <2>2
    <3>. QED  BY <1>1, <1>2, <2>2, <3>1, SlotsAre DEF At
  <2>. QED  BY <2>1, <2>2
<1>5. \A x, y \in SlotsIn(q) : g[x] = g[y] => x = y
  BY <1>2
<1>6. \A x \in SlotsIn(r) : \E y \in SlotsIn(q) : g[y] = x
  <2>. TAKE x \in SlotsIn(r)
  <2>1. CASE x[1] = b
    <3>1. <<a, x[2]>> \in SlotsIn(q)
      BY <1>1, <1>3, <2>1, SlotsAre
    <3>. QED  BY <1>3, <2>1, <3>1
  <2>2. CASE x[1] # b
    <3>1. x \in SlotsIn(q)
      BY <1>1, <1>3, <2>2, SlotsAre
    <3>. QED  BY <1>3, <2>2, <3>1
  <2>. QED  BY <2>1, <2>2
<1>7. g \in [SlotsIn(q) -> SlotsIn(r)]
  BY <1>4
<1>. HIDE DEF g
<1>8. g \in Bijection(SlotsIn(q), SlotsIn(r))
  BY <1>5, <1>6, <1>7, Fun_IsBij
<1>. QED  BY <1>4, <1>8 DEF Moves, r

\* Counting up to each of them numbers the members of a set of positions in order.
LEMMA RankNumbers ==
    ASSUME NEW n \in Nat, NEW K \in SUBSET (1..n)
    PROVE  /\ IsFiniteSet(K)
           /\ [k \in K |-> Cardinality(K \cap 1..k)] \in Bijection(K, 1..Cardinality(K))
<1>. DEFINE rank == [k \in K |-> Cardinality(K \cap 1..k)]
<1>1. IsFiniteSet(1..n)
  BY FS_Interval
<1>2. IsFiniteSet(K) /\ Cardinality(K) \in Nat
  BY <1>1, FS_Subset, FS_CardinalityType
<1>3. \A k \in K : IsFiniteSet(K \cap 1..k) /\ Cardinality(K \cap 1..k) \in Nat
  BY <1>2, FS_Intersection, FS_CardinalityType
<1>4. \A k \in K : rank[k] \in 1..Cardinality(K)
  <2>. TAKE k \in K
  <2>1. Cardinality(K \cap 1..k) <= Cardinality(K)
    BY <1>2, FS_Intersection
  <2>2. Cardinality(K \cap 1..k) # 0
    BY <1>3, FS_EmptySet
  <2>. QED  BY <1>2, <1>3, <2>1, <2>2
<1>5. \A k, l \in K : k < l => rank[k] < rank[l]
  <2>. SUFFICES ASSUME NEW k \in K, NEW l \in K, k < l
                PROVE  Cardinality(K \cap 1..k) < Cardinality(K \cap 1..l)
    OBVIOUS
  <2>1. (K \cap 1..k) \cup {l} \in SUBSET (K \cap 1..l) /\ l \notin K \cap 1..k
    OBVIOUS
  <2>2. Cardinality((K \cap 1..k) \cup {l}) = Cardinality(K \cap 1..k) + 1
    BY <1>3, <2>1, FS_AddElement
  <2>3. Cardinality((K \cap 1..k) \cup {l}) <= Cardinality(K \cap 1..l)
    BY <1>3, <2>1, FS_Subset
  <2>. QED  BY <1>3, <2>2, <2>3
<1>6. rank \in [K -> 1..Cardinality(K)]
  BY <1>4
<1>7. \A k, l \in K : rank[k] = rank[l] => k = l
  BY <1>4, <1>5
<1>. HIDE DEF rank
<1>8. rank \in Injection(K, 1..Cardinality(K))
  BY <1>6, <1>7, Fun_IsInj
<1>9. IsFiniteSet(1..Cardinality(K)) /\ Cardinality(1..Cardinality(K)) = Cardinality(K)
  BY <1>2, FS_Interval
<1>10. rank \in Surjection(K, 1..Cardinality(K))
  BY <1>8, <1>9, FS_Injection
<1>. QED  BY <1>2, <1>8, <1>10, Fun_IsBij DEF rank

LEMMA FunctionIsSeq ==
    ASSUME NEW S, NEW n \in Nat, NEW g \in [1..n -> S]
    PROVE  g \in Seq(S) /\ Len(g) = n
  OBVIOUS
\* What is picked from a queue are its members at the positions it is picked from.
LEMMA PickedAre ==
    ASSUME NEW S, NEW q \in Seq(S), NEW K \in SUBSET (1..Len(q))
    PROVE  /\ Picked(q, K) \in Seq(S)
           /\ \E g \in Bijection(K, 1..Len(Picked(q, K))) : \A k \in K : Picked(q, K)[g[k]] = q[k]
<1>. DEFINE g == [k \in K |-> Cardinality(K \cap 1..k)]
            at(j) == CHOOSE k \in K : Cardinality(K \cap 1..k) = j
<1>1. Len(q) \in Nat /\ q \in [1..Len(q) -> S]
  OBVIOUS
<1>2. IsFiniteSet(K) /\ Cardinality(K) \in Nat /\ g \in Bijection(K, 1..Cardinality(K))
  BY <1>1, RankNumbers, FS_CardinalityType
<1>3. /\ \A k \in K : g[k] \in 1..Cardinality(K)
      /\ \A k, l \in K : g[k] = g[l] => k = l
      /\ \A j \in 1..Cardinality(K) : \E k \in K : g[k] = j
  <2>. DEFINE T == 1..Cardinality(K)
  <2>1. g \in Bijection(K, T)
    BY <1>2
  <2>. HIDE DEF g, T
  <2>2. /\ \A k \in K : g[k] \in T
        /\ \A k, l \in K : g[k] = g[l] => k = l
        /\ \A j \in T : \E k \in K : g[k] = j
    BY <2>1, BijectionIs
  <2>. QED  BY <2>2 DEF T
<1>4. \A j \in 1..Cardinality(K) : at(j) \in K
  BY <1>3
<1>5. \A k \in K : at(g[k]) = k
  BY <1>3
<1>6. Picked(q, K) = [j \in 1..Cardinality(K) |-> q[at(j)]]
  BY DEF Picked
<1>. HIDE DEF at, g
<1>7. Picked(q, K) \in Seq(S) /\ Len(Picked(q, K)) = Cardinality(K)
  <2>1. [j \in 1..Cardinality(K) |-> q[at(j)]] \in [1..Cardinality(K) -> S]
    BY <1>1, <1>4
  <2>. QED  BY <1>2, <1>6, <2>1, FunctionIsSeq
<1>8. \A k \in K : Picked(q, K)[g[k]] = q[k]
  BY <1>3, <1>5, <1>6
<1>. QED  BY <1>2, <1>7, <1>8

\* Part of a queue that joins another, while the rest of it stays.
LEMMA PickMoves ==
    ASSUME NEW q, NEW a \in DOMAIN q, NEW b \in DOMAIN q, a # b, NEW S, q[a] \in Seq(S), q[b] \in Seq(S),
           NEW K \in SUBSET (1..Len(q[a]))
    PROVE  Moves(q, [q EXCEPT ![b] = q[b] \o Picked(q[a], K), ![a] = Picked(q[a], 1..Len(q[a]) \ K)])
<1>. DEFINE R == 1..Len(q[a]) \ K
            go == Picked(q[a], K)
            stay == Picked(q[a], R)
            r == [q EXCEPT ![b] = q[b] \o go, ![a] = stay]
            l == Len(q[b])
<1>1. go \in Seq(S) /\ \E h \in Bijection(K, 1..Len(go)) : \A k \in K : go[h[k]] = q[a][k]
  BY PickedAre
<1>0. R \in SUBSET (1..Len(q[a]))
  OBVIOUS
<1>. HIDE DEF R
<1>2. stay \in Seq(S) /\ \E h \in Bijection(R, 1..Len(stay)) : \A k \in R : stay[h[k]] = q[a][k]
  BY <1>0, PickedAre
<1>. HIDE DEF go, stay
<1>3. PICK u \in Bijection(K, 1..Len(go)) : \A k \in K : go[u[k]] = q[a][k]
  BY <1>1
<1>4. PICK v \in Bijection(R, 1..Len(stay)) : \A k \in R : stay[v[k]] = q[a][k]
  BY <1>2
<1>5. /\ \A k \in K : u[k] \in 1..Len(go)
      /\ \A k, i \in K : u[k] = u[i] => k = i
      /\ \A j \in 1..Len(go) : \E k \in K : u[k] = j
  <2>. DEFINE T == 1..Len(go)
  <2>1. u \in Bijection(K, T)
    OBVIOUS
  <2>. HIDE DEF T
  <2>2. /\ \A k \in K : u[k] \in T
        /\ \A k, i \in K : u[k] = u[i] => k = i
        /\ \A j \in T : \E k \in K : u[k] = j
    BY <2>1, BijectionIs
  <2>. QED  BY <2>2 DEF T
<1>6. /\ \A k \in R : v[k] \in 1..Len(stay)
      /\ \A k, i \in R : v[k] = v[i] => k = i
      /\ \A j \in 1..Len(stay) : \E k \in R : v[k] = j
  <2>. DEFINE T == 1..Len(stay)
  <2>1. v \in Bijection(R, T)
    OBVIOUS
  <2>. HIDE DEF T
  <2>2. /\ \A k \in R : v[k] \in T
        /\ \A k, i \in R : v[k] = v[i] => k = i
        /\ \A j \in T : \E k \in R : v[k] = j
    BY <2>1, BijectionIs
  <2>. QED  BY <2>2 DEF T
<1>7. /\ \A k \in 1..Len(q[a]) : k \in K \/ k \in R
      /\ \A k \in K : k \in 1..Len(q[a]) /\ k \notin R
      /\ \A k \in R : k \in 1..Len(q[a]) /\ k \notin K
  BY DEF R
<1>8. /\ DOMAIN r = DOMAIN q /\ \A o \in DOMAIN q \ {a, b} : r[o] = q[o]
      /\ r[a] = stay /\ r[b] = q[b] \o go
  OBVIOUS
<1>9. /\ l \in Nat /\ Len(go) \in Nat /\ Len(stay) \in Nat
      /\ Len(r[b]) = l + Len(go)
      /\ \A j \in 1..l : r[b][j] = q[b][j]
      /\ \A j \in 1..Len(go) : r[b][l + j] = go[j]
  <2>1. go \in Seq(S) /\ stay \in Seq(S) /\ q[b] \in Seq(S) /\ r[b] = q[b] \o go
    BY <1>1, <1>2, <1>8
  <2>. HIDE DEF r
  <2>2. Len(q[b]) \in Nat /\ Len(go) \in Nat /\ Len(stay) \in Nat
    BY <2>1
  <2>3. /\ Len(q[b] \o go) = Len(q[b]) + Len(go)
        /\ \A j \in 1..Len(q[b]) : (q[b] \o go)[j] = q[b][j]
        /\ \A j \in 1..Len(go) : (q[b] \o go)[Len(q[b]) + j] = go[j]
    BY <2>1
  <2>. QED  BY <2>1, <2>2, <2>3
<1>. HIDE DEF r, l
<1>. DEFINE g == [x \in SlotsIn(q) |-> IF x[1] = a THEN IF x[2] \in K THEN <<b, l + u[x[2]]>> ELSE <<a, v[x[2]]>>
                                       ELSE x]
<1>10. \A x \in SlotsIn(q) : x[1] \in DOMAIN q /\ x[2] \in 1..Len(q[x[1]]) /\ x = <<x[1], x[2]>>
  BY SlotsAre
<1>11. \A x \in SlotsIn(q) : g[x] \in SlotsIn(r) /\ At(r, g[x]) = At(q, x)
  <2>. TAKE x \in SlotsIn(q)
  <2>1. CASE x[1] = a /\ x[2] \in K
    <3>1. l + u[x[2]] \in 1..Len(r[b])
      BY <1>5, <1>9, <2>1
    <3>2. g[x] = <<b, l + u[x[2]]>>
      BY <2>1
    <3>3. r[b][l + u[x[2]]] = q[a][x[2]]
      BY <1>3, <1>5, <1>9, <2>1
    <3>. QED  BY <1>8, <2>1, <3>1, <3>2, <3>3, SlotsAre DEF At
  <2>2. CASE x[1] = a /\ x[2] \notin K
    <3>1. x[2] \in R
      BY <1>7, <1>10, <2>2
    <3>2. v[x[2]] \in 1..Len(r[a]) /\ r[a][v[x[2]]] = q[a][x[2]]
      BY <1>4, <1>6, <1>8, <3>1
    <3>3. g[x] = <<a, v[x[2]]>>
      BY <2>2
    <3>. QED  BY <1>8, <2>2, <3>2, <3>3, SlotsAre DEF At
  <2>3. CASE x[1] # a
    <3>1. x[2] \in 1..Len(r[x[1]]) /\ r[x[1]][x[2]] = q[x[1]][x[2]]
      <4>1. CASE x[1] = b
        <5>1. x[2] \in 1..l
          BY <1>10, <4>1 DEF l
        <5>. QED  BY <1>9, <4>1, <5>1
      <4>2. CASE x[1] # b
        BY <1>8, <1>10, <2>3, <4>2
      <4>. QED  BY <4>1, <4>2
    <3>2. g[x] = x
      BY <2>3
    <3>. QED  BY <1>8, <1>10, <3>1, <3>2, SlotsAre DEF At
  <2>. QED  BY <2>1, <2>2, <2>3
<1>12. \A x, y \in SlotsIn(q) : g[x] = g[y] => x = y
  <2>. TAKE x, y \in SlotsIn(q)
  <2>. SUFFICES ASSUME g[x] = g[y] PROVE x = y
    OBVIOUS
  <2>1. \A z \in SlotsIn(q) :
           /\ z[1] = a /\ z[2] \in K => u[z[2]] \in 1..Len(go) /\ g[z] = <<b, l + u[z[2]]>>
           /\ z[1] = a /\ z[2] \notin K => z[2] \in R /\ g[z] = <<a, v[z[2]]>>
           /\ z[1] = b => z[2] \in 1..l /\ g[z] = z
           /\ z[1] # a => g[z] = z
    BY <1>5, <1>7, <1>10 DEF l
  <2>. HIDE DEF g
  <2>2. CASE x[1] = a /\ x[2] \in K
    <3>1. y[1] = a /\ y[2] \in K
      BY <1>9, <1>10, <2>1, <2>2
    <3>2. u[x[2]] = u[y[2]]
      BY <1>9, <2>1, <2>2, <3>1
    <3>. QED  BY <1>5, <1>10, <2>2, <3>1, <3>2
  <2>3. CASE x[1] = a /\ x[2] \notin K
    <3>1. y[1] = a /\ y[2] \notin K
      BY <1>10, <2>1, <2>3
    <3>. QED  BY <1>6, <1>10, <2>1, <2>3, <3>1
  <2>4. CASE x[1] # a
    <3>1. y[1] # a
      BY <1>9, <1>10, <2>1, <2>4
    <3>. QED  BY <2>1, <2>4, <3>1
  <2>. QED  BY <2>2, <2>3, <2>4
<1>13. \A x \in SlotsIn(r) : \E y \in SlotsIn(q) : g[y] = x
  <2>. TAKE x \in SlotsIn(r)
  <2>0. x[1] \in DOMAIN q /\ x[2] \in 1..Len(r[x[1]]) /\ x = <<x[1], x[2]>>
    BY <1>8, SlotsAre
  <2>1. CASE x[1] = a
    <3>1. PICK k \in R : v[k] = x[2]
      BY <1>6, <1>8, <2>0, <2>1
    <3>2. <<a, k>> \in SlotsIn(q) /\ k \notin K
      BY <1>7, SlotsAre
    <3>3. g[<<a, k>>] = x
      BY <2>0, <2>1, <3>1, <3>2
    <3>. QED  BY <3>2, <3>3
  <2>2. CASE x[1] = b /\ x[2] \in 1..l
    <3>1. x \in SlotsIn(q)
      BY <2>0, <2>2, SlotsAre DEF l
    <3>. QED  BY <2>2, <3>1
  <2>3. CASE x[1] = b /\ x[2] \notin 1..l
    <3>1. x[2] - l \in 1..Len(go)
      BY <1>9, <2>0, <2>3
    <3>2. PICK k \in K : u[k] = x[2] - l
      BY <1>5, <3>1
    <3>3. <<a, k>> \in SlotsIn(q)
      BY <1>7, SlotsAre
    <3>4. l + u[k] = x[2]
      BY <1>9, <2>0, <3>2
    <3>5. g[<<a, k>>] = x
      BY <2>0, <2>3, <3>3, <3>4
    <3>. QED  BY <3>3, <3>5
  <2>4. CASE x[1] \notin {a, b}
    <3>1. x \in SlotsIn(q)
      BY <1>8, <2>0, <2>4, SlotsAre
    <3>. QED  BY <2>4, <3>1
  <2>. QED  BY <2>1, <2>2, <2>3, <2>4
<1>14. g \in [SlotsIn(q) -> SlotsIn(r)]
  BY <1>11
<1>. HIDE DEF g
<1>15. g \in Bijection(SlotsIn(q), SlotsIn(r))
  BY <1>12, <1>13, <1>14, Fun_IsBij
<1>. QED  BY <1>11, <1>15 DEF Moves, r, R, go, stay

------------------------------------------------------------------------------
(***************************************************************************)
(* What a step may do with the frames.                                     *)
(***************************************************************************)
Q == [p \in Places |-> Queue(p)]

QueuesOK ==
    /\ parked \in [Nodes -> Seq(Frame)] /\ outbox \in [Nodes -> Seq(Frame)]
    /\ batch \in [Threads -> Seq(Frame)] /\ wire \in [Nodes -> [Nodes -> Seq(Frame)]]

LEMMA SlotsAreInQ == Slots = SlotsIn(Q) /\ \A x \in Slots : FrameAt(x) = At(Q, x)
<1>1. DOMAIN Q = Places /\ \A p \in Places : Q[p] = Queue(p)
  BY DEF Q
<1>2. Slots = SlotsIn(Q)
  BY <1>1 DEF Slots, SlotsIn
<1>3. \A x \in SlotsIn(Q) : x[1] \in Places
  BY <1>1, SlotsAre
<1>. QED  BY <1>1, <1>2, <1>3 DEF FrameAt, At
LEMMA CarriedIsLoad == ASSUME NEW F PROVE Carried(F) = Load(Q, F)
<1>1. {y \in Slots : FrameAt(y) \in F} = {y \in SlotsIn(Q) : At(Q, y) \in F}
  BY SlotsAreInQ
<1>2. \A x \in {y \in Slots : FrameAt(y) \in F} : Worth(FrameAt(x)) = Worth(At(Q, x))
  BY SlotsAreInQ
<1>. QED  BY <1>1, <1>2 DEF Carried, Load

LEMMA PlacesAre ==
    /\ \A n \in Nodes : <<"parked", n>> \in Places /\ <<"outbox", n>> \in Places
    /\ \A t \in Threads : <<"batch", t>> \in Places
    /\ \A m, n \in Nodes : <<"wire", <<m, n>>>> \in Places
    /\ \A p \in Places :
          \/ \E n \in Nodes : p = <<"parked", n>> \/ p = <<"outbox", n>>
          \/ \E t \in Threads : p = <<"batch", t>>
          \/ \E m, n \in Nodes : p = <<"wire", <<m, n>>>>
  BY DEF Places
LEMMA QueuesAre ==
    /\ DOMAIN Q = Places /\ DOMAIN Q' = Places
    /\ \A n \in Nodes : Q[<<"parked", n>>] = parked[n] /\ Q[<<"outbox", n>>] = outbox[n]
    /\ \A t \in Threads : Q[<<"batch", t>>] = batch[t]
    /\ \A m, n \in Nodes : Q[<<"wire", <<m, n>>>>] = wire[m][n]
    /\ \A n \in Nodes : Q'[<<"parked", n>>] = parked'[n] /\ Q'[<<"outbox", n>>] = outbox'[n]
    /\ \A t \in Threads : Q'[<<"batch", t>>] = batch'[t]
    /\ \A m, n \in Nodes : Q'[<<"wire", <<m, n>>>>] = wire'[m][n]
  BY PlacesAre DEF Q, Queue
LEMMA SameQueues ==
    ASSUME NEW r, DOMAIN r = Places,
           \A n \in Nodes : r[<<"parked", n>>] = parked'[n] /\ r[<<"outbox", n>>] = outbox'[n],
           \A t \in Threads : r[<<"batch", t>>] = batch'[t],
           \A m, n \in Nodes : r[<<"wire", <<m, n>>>>] = wire'[m][n],
           r = [p \in DOMAIN r |-> r[p]]
    PROVE  r = Q'
<1>1. \A p \in Places : r[p] = Q'[p]
  <2>. TAKE p \in Places
  <2>1. CASE \E n \in Nodes : p = <<"parked", n>> \/ p = <<"outbox", n>>
    <3>1. PICK n \in Nodes : p = <<"parked", n>> \/ p = <<"outbox", n>>
      BY <2>1
    <3>2. CASE p = <<"parked", n>>
      BY <3>2, QueuesAre
    <3>3. CASE p = <<"outbox", n>>
      BY <3>3, QueuesAre
    <3>. QED  BY <3>1, <3>2, <3>3
  <2>2. CASE \E t \in Threads : p = <<"batch", t>>
    BY <2>2, QueuesAre
  <2>3. CASE \E m, n \in Nodes : p = <<"wire", <<m, n>>>>
    BY <2>3, QueuesAre
  <2>. QED  BY <2>1, <2>2, <2>3, PlacesAre
<1>2. Q' = [p \in Places |-> Q'[p]]
  BY DEF Q
<1>. QED  BY <1>1, <1>2

\* A frame is staged: it joins the outbox or the parked.
LEMMA StageInAdds ==
    ASSUME QueuesOK, NEW n \in Nodes, NEW f \in Frame, StageIn(n, f), UNCHANGED <<wire, batch>>
    PROVE  QueuesOK' /\ Adds(Q, Q', f)
<1>. USE QueuesAre, PlacesAre
<1>1. CASE Goes(n, f)
  <2>. DEFINE p == <<"outbox", n>>
              r == [Q EXCEPT ![p] = Append(Q[p], f)]
  <2>1. outbox' = [outbox EXCEPT ![n] = Append(outbox[n], f)] /\ parked' = parked /\ wire' = wire /\ batch' = batch
    BY <1>1 DEF StageIn
  <2>2. QueuesOK'
    BY <2>1 DEF QueuesOK
  <2>3. p \in DOMAIN Q /\ Q[p] = outbox[n] /\ Q[p] \in Seq(Frame)
    BY DEF QueuesOK
  <2>4. r = Q'
    <3>1. DOMAIN r = Places /\ r = [o \in DOMAIN r |-> r[o]]
      OBVIOUS
    <3>2. \A o \in Places : r[o] = IF o = p THEN Append(outbox[n], f) ELSE Q[o]
      BY <2>3
    <3>. HIDE DEF r
    <3>3. \A k \in Nodes : r[<<"parked", k>>] = parked'[k] /\ r[<<"outbox", k>>] = outbox'[k]
      BY ZenonT(30), <2>1, <3>2 DEF QueuesOK
    <3>4. \A t \in Threads : r[<<"batch", t>>] = batch'[t]
      BY ZenonT(30), <2>1, <3>2
    <3>5. ASSUME NEW m \in Nodes, NEW k \in Nodes PROVE r[<<"wire", <<m, k>>>>] = wire'[m][k]
      <4>1. <<"wire", <<m, k>>>> \in Places /\ <<"wire", <<m, k>>>> # p
        OBVIOUS
      <4>. HIDE DEF p
      <4>. QED  BY <2>1, <3>2, <4>1
    <3>. QED  BY <3>1, <3>3, <3>4, <3>5, SameQueues
  <2>5. Adds(Q, r, f)
    BY <2>3, AppendAdds
  <2>. HIDE DEF r
  <2>. QED  BY <2>2, <2>4, <2>5
<1>2. CASE ~Goes(n, f)
  <2>. DEFINE p == <<"parked", n>>
              r == [Q EXCEPT ![p] = Append(Q[p], f)]
  <2>1. parked' = [parked EXCEPT ![n] = Append(parked[n], f)] /\ outbox' = outbox /\ wire' = wire /\ batch' = batch
    BY <1>2 DEF StageIn
  <2>2. QueuesOK'
    BY <2>1 DEF QueuesOK
  <2>3. p \in DOMAIN Q /\ Q[p] = parked[n] /\ Q[p] \in Seq(Frame)
    BY DEF QueuesOK
  <2>4. r = Q'
    <3>1. DOMAIN r = Places /\ r = [o \in DOMAIN r |-> r[o]]
      OBVIOUS
    <3>2. \A o \in Places : r[o] = IF o = p THEN Append(parked[n], f) ELSE Q[o]
      BY <2>3
    <3>. HIDE DEF r
    <3>3. \A k \in Nodes : r[<<"parked", k>>] = parked'[k] /\ r[<<"outbox", k>>] = outbox'[k]
      BY ZenonT(30), <2>1, <3>2 DEF QueuesOK
    <3>4. \A t \in Threads : r[<<"batch", t>>] = batch'[t]
      BY ZenonT(30), <2>1, <3>2
    <3>5. ASSUME NEW m \in Nodes, NEW k \in Nodes PROVE r[<<"wire", <<m, k>>>>] = wire'[m][k]
      <4>1. <<"wire", <<m, k>>>> \in Places /\ <<"wire", <<m, k>>>> # p
        OBVIOUS
      <4>. HIDE DEF p
      <4>. QED  BY <2>1, <3>2, <4>1
    <3>. QED  BY <3>1, <3>3, <3>4, <3>5, SameQueues
  <2>5. Adds(Q, r, f)
    BY <2>3, AppendAdds
  <2>. HIDE DEF r
  <2>. QED  BY <2>2, <2>4, <2>5
<1>. QED  BY <1>1, <1>2

\* A frame leaves the wire: it is delivered or lost.
Leaves(m, n) ==
    /\ wire[m][n] # <<>>
    /\ wire' = [wire EXCEPT ![m][n] = Tail(wire[m][n])]
    /\ UNCHANGED <<parked, outbox, batch>>
LEMMA LeavesDrops ==
    ASSUME QueuesOK, NEW m \in Nodes, NEW n \in Nodes, Leaves(m, n)
    PROVE  QueuesOK' /\ Head(wire[m][n]) \in Frame /\ Adds(Q', Q, Head(wire[m][n]))
<1>. USE QueuesAre, PlacesAre
<1>. DEFINE p == <<"wire", <<m, n>>>>
            r == [Q EXCEPT ![p] = Tail(Q[p])]
<1>1. /\ wire[m][n] \in Seq(Frame) /\ wire[m][n] # <<>> /\ parked' = parked /\ outbox' = outbox /\ batch' = batch
      /\ wire' = [wire EXCEPT ![m][n] = Tail(wire[m][n])]
  BY DEF QueuesOK, Leaves
<1>2. Tail(wire[m][n]) \in Seq(Frame) /\ Head(wire[m][n]) \in Frame
  BY <1>1
<1>3. wire' \in [Nodes -> [Nodes -> Seq(Frame)]]
  <2>1. wire \in [Nodes -> [Nodes -> Seq(Frame)]]
    BY DEF QueuesOK
  <2>. QED  BY <1>1, <1>2, <2>1, NestedExcept
<1>4. QueuesOK'
  BY <1>1, <1>3 DEF QueuesOK
<1>5. p \in DOMAIN Q /\ Q[p] = wire[m][n]
  OBVIOUS
<1>6. r = Q'
  <2>1. DOMAIN r = Places /\ r = [o \in DOMAIN r |-> r[o]]
    OBVIOUS
  <2>2. \A o \in Places : r[o] = IF o = p THEN Tail(wire[m][n]) ELSE Q[o]
    BY <1>5
  <2>. HIDE DEF r
  <2>3. \A k \in Nodes : r[<<"parked", k>>] = parked'[k] /\ r[<<"outbox", k>>] = outbox'[k]
    BY ZenonT(30), <1>1, <2>2
  <2>4. \A t \in Threads : r[<<"batch", t>>] = batch'[t]
    BY ZenonT(30), <1>1, <2>2
  <2>5. ASSUME NEW i \in Nodes, NEW k \in Nodes PROVE r[<<"wire", <<i, k>>>>] = wire'[i][k]
    <3>1. CASE i = m /\ k = n
      BY <1>1, <2>2, <3>1 DEF QueuesOK
    <3>2. CASE i # m \/ k # n
      <4>1. <<"wire", <<i, k>>>> \in Places /\ <<"wire", <<i, k>>>> # p
        BY <3>2
      <4>2. wire'[i][k] = wire[i][k]
        BY <1>1, <3>2 DEF QueuesOK
      <4>. HIDE DEF p
      <4>. QED  BY <2>2, <4>1, <4>2
    <3>. QED  BY <3>1, <3>2
  <2>. QED  BY <2>1, <2>3, <2>4, <2>5, SameQueues
<1>7. Adds(r, Q, Head(wire[m][n]))
  BY <1>1, <1>5, TailDrops
<1>. HIDE DEF r
<1>. QED  BY <1>2, <1>4, <1>6, <1>7

\* A flush takes the whole outbox; then it sends one frame after the other.
LEMMA TakeOutboxMoves ==
    ASSUME QueuesOK, NEW t \in Threads, batch[t] = <<>>, TakeOutbox(t)
    PROVE  QueuesOK' /\ Moves(Q, Q')
<1>. USE QueuesAre, PlacesAre
<1>. DEFINE n == Place[t]
            a == <<"outbox", n>>
            b == <<"batch", t>>
            r == [Q EXCEPT ![b] = Q[a], ![a] = <<>>]
<1>1. /\ n \in Nodes /\ outbox' = [outbox EXCEPT ![n] = <<>>] /\ batch' = [batch EXCEPT ![t] = outbox[n]]
      /\ parked' = parked /\ wire' = wire
  BY ConstantsAssumption DEF TakeOutbox, Emptied
<1>2. QueuesOK'
  <2>1. outbox[n] \in Seq(Frame) /\ <<>> \in Seq(Frame)
    BY <1>1 DEF QueuesOK
  <2>. QED  BY <1>1, <2>1 DEF QueuesOK
<1>3. a \in DOMAIN Q /\ b \in DOMAIN Q /\ a # b /\ Q[b] = <<>> /\ Q[a] = outbox[n]
  BY <1>1
<1>4. r = Q'
  <2>1. DOMAIN r = Places /\ r = [o \in DOMAIN r |-> r[o]]
    OBVIOUS
  <2>2. \A o \in Places : r[o] = IF o = b THEN outbox[n] ELSE IF o = a THEN <<>> ELSE Q[o]
    BY <1>3
  <2>. HIDE DEF r
  <2>3. ASSUME NEW k \in Nodes PROVE r[<<"parked", k>>] = parked'[k] /\ r[<<"outbox", k>>] = outbox'[k]
    <3>1. r[<<"parked", k>>] = parked'[k]
      BY <1>1, <2>2
    <3>2. CASE k = n
      <4>1. a \in Places /\ a # b /\ <<"outbox", k>> = a
        BY <1>3, <3>2
      <4>2. outbox'[k] = <<>>
        BY <1>1, <3>2 DEF QueuesOK
      <4>. HIDE DEF a, b
      <4>. QED  BY <2>2, <3>1, <4>1, <4>2
    <3>3. CASE k # n
      <4>1. <<"outbox", k>> \in Places /\ <<"outbox", k>> \notin {a, b}
        BY <3>3
      <4>2. outbox'[k] = outbox[k]
        BY <1>1, <3>3 DEF QueuesOK
      <4>. HIDE DEF a, b
      <4>. QED  BY <2>2, <3>1, <4>1, <4>2
    <3>. QED  BY <3>1, <3>2, <3>3
  <2>4. ASSUME NEW u \in Threads PROVE r[<<"batch", u>>] = batch'[u]
    <3>1. CASE u = t
      BY <1>1, <2>2, <3>1 DEF QueuesOK
    <3>2. CASE u # t
      <4>1. <<"batch", u>> \in Places /\ <<"batch", u>> \notin {a, b}
        BY <3>2
      <4>2. batch'[u] = batch[u]
        BY <1>1, <3>2 DEF QueuesOK
      <4>. HIDE DEF a, b
      <4>. QED  BY <2>2, <4>1, <4>2
    <3>. QED  BY <3>1, <3>2
  <2>5. ASSUME NEW i \in Nodes, NEW k \in Nodes PROVE r[<<"wire", <<i, k>>>>] = wire'[i][k]
    <3>1. <<"wire", <<i, k>>>> \in Places /\ <<"wire", <<i, k>>>> # a /\ <<"wire", <<i, k>>>> # b
      OBVIOUS
    <3>. HIDE DEF a, b
    <3>. QED  BY <1>1, <2>2, <3>1
  <2>. QED  BY <2>1, <2>3, <2>4, <2>5, SameQueues
<1>5. Moves(Q, r)
  BY <1>3, TakeMoves
<1>. HIDE DEF r
<1>. QED  BY <1>2, <1>4, <1>5
LEMMA WireOutMoves ==
    ASSUME QueuesOK, NEW t \in Threads, batch[t] # <<>>, WireOut(t)
    PROVE  QueuesOK' /\ Moves(Q, Q')
<1>. USE QueuesAre, PlacesAre
<1>. DEFINE m == Place[t]
            f == Head(batch[t])
            n == f.to
            b == <<"batch", t>>
            w == <<"wire", <<m, n>>>>
            q == [Q EXCEPT ![b] = Tail(Q[b])]
            r == [q EXCEPT ![w] = Append(q[w], f)]
<1>1. /\ m \in Nodes /\ batch[t] \in Seq(Frame) /\ batch' = [batch EXCEPT ![t] = Tail(batch[t])]
      /\ wire' = [wire EXCEPT ![m][n] = Append(wire[m][n], f)] /\ parked' = parked /\ outbox' = outbox
  BY ConstantsAssumption DEF WireOut, QueuesOK, staged
<1>2. f \in Frame /\ Tail(batch[t]) \in Seq(Frame)
  BY <1>1
<1>3. n \in Nodes
  BY <1>2 DEF Frame
<1>. HIDE DEF f, n, m
<1>4. wire[m][n] \in Seq(Frame) /\ Append(wire[m][n], f) \in Seq(Frame)
  <2>1. wire[m][n] \in Seq(Frame)
    BY <1>1, <1>3 DEF QueuesOK
  <2>. QED  BY <1>2, <2>1
<1>5. QueuesOK'
  <2>1. wire' \in [Nodes -> [Nodes -> Seq(Frame)]]
    BY <1>1, <1>3, <1>4, NestedExcept DEF QueuesOK
  <2>. QED  BY <1>1, <1>2, <2>1 DEF QueuesOK
<1>6. b \in DOMAIN Q /\ w \in DOMAIN Q /\ b # w /\ Q[b] = batch[t] /\ Q[w] = wire[m][n]
  BY <1>1, <1>3
<1>7. Adds(q, Q, f)
  BY <1>1, <1>6, TailDrops DEF f
<1>8. DOMAIN q = Places /\ q[w] = wire[m][n]
  BY <1>6
<1>9. Adds(q, r, f)
  <2>. HIDE DEF q, w
  <2>1. w \in DOMAIN q /\ q[w] \in Seq(Frame)
    BY <1>4, <1>6, <1>8
  <2>. QED  BY <2>1, AppendAdds
<1>10. r = Q'
  <2>1. DOMAIN r = Places /\ r = [o \in DOMAIN r |-> r[o]]
    BY <1>8
  <2>2. \A o \in Places : r[o] = IF o = b THEN Tail(batch[t])
                                 ELSE IF o = w THEN Append(wire[m][n], f) ELSE Q[o]
    BY <1>6
  <2>. HIDE DEF r, q
  <2>3. \A k \in Nodes : r[<<"parked", k>>] = parked'[k] /\ r[<<"outbox", k>>] = outbox'[k]
    BY ZenonT(30), <1>1, <2>2
  <2>4. ASSUME NEW u \in Threads PROVE r[<<"batch", u>>] = batch'[u]
    <3>1. CASE u = t
      BY <1>1, <2>2, <3>1 DEF QueuesOK
    <3>2. CASE u # t
      <4>1. <<"batch", u>> \in Places /\ <<"batch", u>> \notin {w, b}
        BY <3>2
      <4>2. batch'[u] = batch[u]
        BY <1>1, <3>2 DEF QueuesOK
      <4>. HIDE DEF w, b
      <4>. QED  BY <2>2, <4>1, <4>2
    <3>. QED  BY <3>1, <3>2
  <2>5. ASSUME NEW i \in Nodes, NEW k \in Nodes PROVE r[<<"wire", <<i, k>>>>] = wire'[i][k]
    <3>0. <<"wire", <<i, k>>>> \in Places /\ <<"wire", <<i, k>>>> # b
      OBVIOUS
    <3>1. CASE i = m /\ k = n
      BY ZenonT(30), <1>1, <1>3, <2>2, <3>0, <3>1 DEF QueuesOK
    <3>2. CASE i # m \/ k # n
      <4>1. <<"wire", <<i, k>>>> # w
        BY <3>2
      <4>2. wire'[i][k] = wire[i][k]
        BY <1>1, <1>3, <3>2 DEF QueuesOK
      <4>. HIDE DEF w, b
      <4>. QED  BY <2>2, <3>0, <4>1, <4>2
    <3>. QED  BY <3>1, <3>2
  <2>. QED  BY <2>1, <2>3, <2>4, <2>5, SameQueues
<1>. HIDE DEF r, q
<1>. QED  BY <1>5, <1>7, <1>9, <1>10, DropThenAdd

\* What was parked tries again: part of it moves to the outbox, and what stays still waits.
LEMMA RestageMoves ==
    ASSUME QueuesOK, NEW n \in Nodes, Restage(n), UNCHANGED <<wire, batch>>
    PROVE  /\ QueuesOK' /\ Moves(Q, Q')
           /\ \A k \in 1..Len(parked'[n]) : ~Goes(n, parked[n][k])'
           /\ \A m \in Nodes : m # n => parked'[m] = parked[m]
<1>. USE QueuesAre, PlacesAre
<1>. DEFINE all  == 1..Len(parked[n])
            goes == {k \in all : parked[n][k].to \in routes'[n] /\ n \in outbound'}
            stay == all \ goes
            go   == Picked(parked[n], goes)
            rest == Picked(parked[n], stay)
            a == <<"parked", n>>
            b == <<"outbox", n>>
            r == [Q EXCEPT ![b] = Q[b] \o Picked(Q[a], goes), ![a] = Picked(Q[a], 1..Len(Q[a]) \ goes)]
<1>1. /\ outbox' = [outbox EXCEPT ![n] = outbox[n] \o go] /\ parked' = [parked EXCEPT ![n] = rest]
      /\ wire' = wire /\ batch' = batch
  BY DEF Restage
<1>2. parked[n] \in Seq(Frame) /\ outbox[n] \in Seq(Frame) /\ goes \in SUBSET all /\ stay \in SUBSET all
  BY DEF QueuesOK
<1>3. go \in Seq(Frame) /\ rest \in Seq(Frame)
  <2>. HIDE DEF goes, stay
  <2>. QED  BY <1>2, PickedAre
<1>4. QueuesOK'
  <2>. HIDE DEF go, rest
  <2>1. outbox[n] \o go \in Seq(Frame)
    BY <1>2, <1>3
  <2>. QED  BY <1>1, <1>3, <2>1 DEF QueuesOK
<1>5. a \in DOMAIN Q /\ b \in DOMAIN Q /\ a # b /\ Q[a] = parked[n] /\ Q[b] = outbox[n]
  OBVIOUS
<1>6. Moves(Q, r)
  <2>. HIDE DEF goes, a, b
  <2>. QED  BY <1>2, <1>5, PickMoves
<1>7. r = Q'
  <2>1. DOMAIN r = Places /\ r = [o \in DOMAIN r |-> r[o]]
    OBVIOUS
  <2>2. \A o \in Places : r[o] = IF o = a THEN rest ELSE IF o = b THEN outbox[n] \o go ELSE Q[o]
    <3>. HIDE DEF goes
    <3>. QED  BY <1>5
  <2>. HIDE DEF r, go, rest
  <2>3. ASSUME NEW k \in Nodes PROVE r[<<"parked", k>>] = parked'[k]
    <3>1. CASE k = n
      BY <1>1, <2>2, <3>1 DEF QueuesOK
    <3>2. CASE k # n
      <4>1. <<"parked", k>> \in Places /\ <<"parked", k>> \notin {a, b}
        BY <3>2
      <4>2. parked'[k] = parked[k]
        BY <1>1, <3>2 DEF QueuesOK
      <4>. HIDE DEF a, b
      <4>. QED  BY <2>2, <4>1, <4>2
    <3>. QED  BY <3>1, <3>2
  <2>4. ASSUME NEW k \in Nodes PROVE r[<<"outbox", k>>] = outbox'[k]
    <3>1. CASE k = n
      BY <1>1, <2>2, <3>1 DEF QueuesOK
    <3>2. CASE k # n
      <4>1. <<"outbox", k>> \in Places /\ <<"outbox", k>> \notin {a, b}
        BY <3>2
      <4>2. outbox'[k] = outbox[k]
        BY <1>1, <3>2 DEF QueuesOK
      <4>. HIDE DEF a, b
      <4>. QED  BY <2>2, <4>1, <4>2
    <3>. QED  BY <3>1, <3>2
  <2>5. ASSUME NEW u \in Threads PROVE r[<<"batch", u>>] = batch'[u]
    <3>1. <<"batch", u>> \in Places /\ <<"batch", u>> \notin {a, b}
      OBVIOUS
    <3>. HIDE DEF a, b
    <3>. QED  BY <1>1, <2>2, <3>1
  <2>6. ASSUME NEW i \in Nodes, NEW k \in Nodes PROVE r[<<"wire", <<i, k>>>>] = wire'[i][k]
    <3>1. <<"wire", <<i, k>>>> \in Places /\ <<"wire", <<i, k>>>> \notin {a, b}
      OBVIOUS
    <3>. HIDE DEF a, b
    <3>. QED  BY <1>1, <2>2, <3>1
  <2>. QED  BY <2>1, <2>3, <2>4, <2>5, <2>6, SameQueues
<1>8. \A k \in 1..Len(parked'[n]) : ~Goes(n, parked[n][k])'
  <2>1. parked'[n] = rest
    BY <1>1 DEF QueuesOK
  <2>2. \E g \in Bijection(stay, 1..Len(rest)) : \A k \in stay : rest[g[k]] = parked[n][k]
    <3>1. parked[n] \in Seq(Frame) /\ stay \in SUBSET (1..Len(parked[n]))
      BY <1>2
    <3>. DEFINE p == parked[n]
    <3>. HIDE DEF stay, p
    <3>2. \E g \in Bijection(stay, 1..Len(Picked(p, stay))) : \A k \in stay : Picked(p, stay)[g[k]] = p[k]
      BY <3>1, PickedAre DEF p
    <3>. QED  BY <3>2 DEF p
  <2>. HIDE DEF rest, stay
  <2>3. PICK g \in Bijection(stay, 1..Len(rest)) : \A k \in stay : rest[g[k]] = parked[n][k]
    BY <2>2
  <2>4. \A j \in 1..Len(rest) : \E k \in stay : g[k] = j
    <3>. DEFINE T == 1..Len(rest)
    <3>1. g \in Bijection(stay, T)
      OBVIOUS
    <3>. HIDE DEF T
    <3>2. \A j \in T : \E k \in stay : g[k] = j
      BY <3>1, BijectionIs
    <3>. QED  BY <3>2 DEF T
  <2>5. \A k \in stay : ~(parked[n][k].to \in routes'[n] /\ n \in outbound')
    BY DEF stay
  <2>. QED  BY <2>1, <2>3, <2>4, <2>5 DEF Goes
<1>9. \A m \in Nodes : m # n => parked'[m] = parked[m]
  BY <1>1 DEF QueuesOK
<1>. HIDE DEF r
<1>. QED  BY <1>4, <1>6, <1>7, <1>8, <1>9

LEMMA EmptyAtFirst == Init => SlotsIn(Q) = {}
<1>. SUFFICES ASSUME Init, NEW x \in SlotsIn(Q) PROVE FALSE
  OBVIOUS
<1>1. x[1] \in Places /\ x[2] \in 1..Len(Q[x[1]])
  BY SlotsAre, QueuesAre
<1>2. /\ \A n \in Nodes : parked[n] = <<>> /\ outbox[n] = <<>>
      /\ \A t \in Threads : batch[t] = <<>>
      /\ \A m, n \in Nodes : wire[m][n] = <<>>
  BY DEF Init
<1>3. \A p \in Places : Q[p] = <<>>
  <2>. TAKE p \in Places
  <2>1. CASE \E n \in Nodes : p = <<"parked", n>> \/ p = <<"outbox", n>>
    <3>1. PICK n \in Nodes : p = <<"parked", n>> \/ p = <<"outbox", n>>
      BY <2>1
    <3>2. Q[<<"parked", n>>] = <<>> /\ Q[<<"outbox", n>>] = <<>>
      BY <1>2, QueuesAre
    <3>. QED  BY <3>1, <3>2
  <2>2. CASE \E t \in Threads : p = <<"batch", t>>
    BY <1>2, <2>2, QueuesAre
  <2>3. CASE \E m, n \in Nodes : p = <<"wire", <<m, n>>>>
    BY <1>2, <2>3, QueuesAre
  <2>. QED  BY <2>1, <2>2, <2>3, PlacesAre
<1>. QED  BY <1>1, <1>3

------------------------------------------------------------------------------
(***************************************************************************)
(* Types, with what each thread has in hand.                               *)
(***************************************************************************)
NodesOK ==
    /\ proxy \subseteq Nodes \X Entries /\ dead \subseteq Nodes \X Entries /\ died \subseteq Actors
    /\ routes \in [Nodes -> SUBSET Nodes] /\ outbound \subseteq Nodes
BoxesOK ==
    /\ mailbox \in [Actors -> Seq(Nodes \cup {Local})]
    /\ arrived \in [Senders -> [Actors -> Seq(1..MaxSends)]]
CountsOK ==
    /\ credits \in [Nodes -> [Entries -> Nat]] /\ pending \in [Nodes -> [Entries -> Nat]]
    /\ held \in [Actors -> Nat] /\ lost \in [Actors -> Nat]
    /\ sent \in [Senders -> 0..MaxSends]

\* A sender works on its last send; a receiver has a message, a newcomer or a grant in
\* hand; and a thread that sends frames has some.
SenderHas(s) == pc[s] \in SendLabels => job[s].no = sent[s] /\ sent[s] # 0
ReceiverHas(t) ==
    /\ pc[t] = "queue" => job[t].msg \in Frame /\ job[t].msg.kind = "msg" /\ job[t].at = job[t].msg.actor
    /\ pc[t] = "room" => job[t].at \in Actors /\ job[t].from \in Nodes /\ job[t].queued \in Nat
    /\ pc[t] = "grant" => job[t].at \in Actors /\ job[t].from \in Nodes /\ job[t].n \in Nat \ {0}
FlushHas(t) == pc[t] = "wire" <=> batch[t] # <<>>
HandsOK ==
    /\ \A s \in Senders : SenderHas(s)
    /\ \A t \in Receivers : ReceiverHas(t)
    /\ \A t \in Threads : FlushHas(t)
Flow == QueuesOK /\ NodesOK /\ BoxesOK /\ CountsOK /\ HandsOK

LEMMA FrameIs ==
    ASSUME NEW f \in Frame
    PROVE  /\ f.kind \in {"msg", "open", "grant"} /\ f.actor \in Actors /\ f.from \in Nodes /\ f.to \in Nodes
           /\ Worth(f) \in Nat
           /\ f.kind = "msg" => f.by \in Senders /\ f.no \in 1..MaxSends /\ Worth(f) = 1
           /\ f.kind = "grant" => f.n \in Nat /\ Worth(f) = f.n
  BY DEF Frame, Worth
LEMMA FramesMade ==
    ASSUME NEW a \in Actors, NEW n \in Nodes
    PROVE  /\ \A s \in Senders, k \in 1..MaxSends : MsgFrame(a, n, s, k) \in Frame
           /\ OpenFrame(a, n) \in Frame
           /\ \A k \in Nat : GrantFrame(a, n, k) \in Frame
  BY ConstantsAssumption DEF Frame, MsgFrame, OpenFrame, GrantFrame

LEMMA TailIsEmpty ==
    ASSUME NEW S, NEW q \in Seq(S), q # <<>>
    PROVE  Tail(q) = <<>> <=> Len(q) = 1
<1>1. Len(Tail(q)) = Len(q) - 1 /\ Tail(q) \in Seq(S) /\ Len(q) \in Nat
  OBVIOUS
<1>2. ASSUME NEW r \in Seq(S) PROVE r = <<>> <=> Len(r) = 0
  OBVIOUS
<1>. DEFINE T == Tail(q)
<1>3. T \in Seq(S) /\ Len(T) = Len(q) - 1
  BY <1>1
<1>. HIDE DEF T
<1>4. T = <<>> <=> Len(T) = 0
  BY <1>2, <1>3
<1>5. T = <<>> <=> Len(q) = 1
  BY <1>1, <1>3, <1>4
<1>. QED  BY <1>5 DEF T

LEMMA InitFlow == Init => Flow
<1>. SUFFICES ASSUME Init PROVE Flow
  OBVIOUS
<1>. USE ConstantsAssumption
<1>1. QueuesOK
  BY DEF Init, QueuesOK
<1>2. NodesOK
  BY DEF Init, NodesOK
<1>3. BoxesOK
  BY DEF Init, BoxesOK
<1>4. CountsOK
  BY DEF Init, CountsOK
<1>5. HandsOK
  BY DEF Init, HandsOK, SenderHas, ReceiverHas, FlushHas, SendLabels, Threads
<1>. QED  BY <1>1, <1>2, <1>3, <1>4, <1>5 DEF Flow

\* One thread goes on, with what it then has in hand.
LEMMA HandsKept ==
    ASSUME HandsOK, Shape, NEW t \in Threads,
           \A u \in Threads : u # t => pc'[u] = pc[u] /\ job'[u] = job[u] /\ batch'[u] = batch[u],
           \A s \in Senders : s # t => sent'[s] = sent[s],
           t \in Senders => SenderHas(t)', t \in Receivers => ReceiverHas(t)', FlushHas(t)'
    PROVE  HandsOK'
<1>1. \A u \in Senders : SenderHas(u)'
  BY DEF HandsOK, SenderHas, Threads
<1>2. \A u \in Receivers : ReceiverHas(u)'
  BY DEF HandsOK, ReceiverHas, Threads
<1>3. \A u \in Threads : FlushHas(u)'
  BY DEF HandsOK, FlushHas
<1>. QED  BY <1>1, <1>2, <1>3 DEF HandsOK
LEMMA HandsSame ==
    ASSUME HandsOK, UNCHANGED <<pc, job, batch, sent>>
    PROVE  HandsOK'
  BY DEF HandsOK, SenderHas, ReceiverHas, FlushHas

\* A step of a sender.
LEMMA SenderFlow ==
    ASSUME Shape, Flow, NEW s \in Senders, Sender(s)
    PROVE  Flow'
<1>. USE ConstantsAssumption DEF Threads
<1>t. /\ QueuesOK /\ NodesOK /\ BoxesOK /\ CountsOK /\ HandsOK
      /\ pc \in [Threads -> Labels] /\ DOMAIN job = Threads /\ s \in Threads /\ s \notin Receivers
      /\ SenderOK(s) /\ SenderHas(s) /\ FlushHas(s) /\ Place[s] \in Nodes /\ sent[s] \in 0..MaxSends
      /\ holds[s] \in [Actors -> 0..MaxEntries]
  BY DEF Flow, HandsOK, Shape, TablesOK, ThreadsOK, JobsOK, CountsOK
<1>n. ASSUME UNCHANGED <<parked, outbox, batch, wire>> PROVE QueuesOK'
  BY <1>t, <1>n DEF QueuesOK
<1>o. ASSUME UNCHANGED <<proxy, dead, died, routes, outbound>> PROVE NodesOK'
  BY <1>t, <1>o DEF NodesOK
<1>b. ASSUME UNCHANGED <<mailbox, arrived>> PROVE BoxesOK'
  BY <1>t, <1>b DEF BoxesOK
<1>c. ASSUME UNCHANGED <<credits, pending, held, lost, sent>> PROVE CountsOK'
  BY <1>t, <1>c DEF CountsOK
<1>h. ASSUME SenderHas(s)', FlushHas(s)', batch' = batch,
             \A u \in Threads : u # s => pc'[u] = pc[u] /\ job'[u] = job[u],
             \A u \in Senders : u # s => sent'[u] = sent[u]
      PROVE  HandsOK'
  BY <1>t, <1>h, HandsKept
<1>1. ASSUME NEW a \in Actors, ImportFinds(s, a) PROVE Flow'
  <2>1. QueuesOK' /\ NodesOK' /\ BoxesOK' /\ CountsOK'
    BY <1>1, <1>n, <1>o, <1>b, <1>c DEF ImportFinds, entries, boxes, books, roads, staged, history
  <2>2. HandsOK'
    BY <1>t, <1>1, <1>h DEF ImportFinds, Works, Goto, SenderHas, FlushHas, SendLabels, history
  <2>. QED  BY <2>1, <2>2 DEF Flow
<1>2. ASSUME NEW a \in Actors, Send(s, a) PROVE Flow'
  <2>1. QueuesOK' /\ NodesOK' /\ BoxesOK'
    BY <1>2, <1>n, <1>o, <1>b DEF Send, boxes, books, roads, staged
  <2>2. sent' = [sent EXCEPT ![s] = sent[s] + 1] /\ sent[s] + 1 \in 1..MaxSends
    BY <1>t, <1>2 DEF Send
  <2>3. CountsOK'
    BY <1>t, <1>2, <2>2 DEF Send, CountsOK, books
  <2>4. sent'[s] = sent[s] + 1 /\ \A u \in Senders : u # s => sent'[u] = sent[u]
    BY <1>t, <2>2 DEF CountsOK
  <2>5. SenderHas(s)' /\ FlushHas(s)'
    BY <1>t, <1>2, <2>2, <2>4 DEF Send, Tries, Idle, Works, Goto, SenderHas, FlushHas, SendLabels
  <2>6. HandsOK'
    BY <1>t, <1>2, <2>4, <2>5, <1>h DEF Send, Tries, Idle, Works, Goto
  <2>. QED  BY <2>1, <2>3, <2>6 DEF Flow
<1>3. CASE ImportMakes(s)
  <2>1. QueuesOK' /\ NodesOK' /\ BoxesOK' /\ CountsOK'
    BY <1>3, <1>n, <1>o, <1>b, <1>c DEF ImportMakes, boxes, books, roads, staged, history
  <2>2. HandsOK'
    BY <1>t, <1>3, <1>h DEF ImportMakes, Works, Goto, SenderHas, FlushHas, SendLabels, history
  <2>. QED  BY <2>1, <2>2 DEF Flow
<1>4. CASE ImportRegisters(s)
  <2>. DEFINE n == Place[s]  a == job[s].at  i == job[s].idx
  <2>0. n \in Nodes /\ a \in Actors /\ i \in Entries
    BY <1>t, <1>4 DEF ImportRegisters, SenderOK
  <2>1. NodesOK' /\ BoxesOK'
    BY <1>4, <1>o, <1>b DEF ImportRegisters, entries, boxes, roads, history
  <2>2. QueuesOK'
    <3>1. CASE ImportedNow(n, a)
      BY <1>4, <3>1, <1>n DEF ImportRegisters, staged
    <3>2. CASE ~ImportedNow(n, a)
      BY <1>t, <1>4, <2>0, <3>2, StageInAdds, FramesMade DEF ImportRegisters
    <3>. QED  BY <3>1, <3>2
  <2>3. CountsOK'
    <3>1. credits' = credits \/ credits' = [credits EXCEPT ![n][i] = 0]
      BY <1>4 DEF ImportRegisters
    <3>2. credits \in [Nodes -> [Entries -> Nat]]
      BY <1>t DEF CountsOK
    <3>3. credits' \in [Nodes -> [Entries -> Nat]]
      <4>. HIDE DEF n, i
      <4>1. [credits EXCEPT ![n][i] = 0] \in [Nodes -> [Entries -> Nat]]
        BY <2>0, <3>2, NestedExcept
      <4>. QED  BY <3>1, <3>2, <4>1
    <3>. QED  BY <1>t, <1>4, <3>3 DEF ImportRegisters, CountsOK, history
  <2>4. HandsOK'
    BY <1>t, <1>4, <1>h DEF ImportRegisters, ThenFlush, Works, Goto, SenderHas, FlushHas, SendLabels, history
  <2>. QED  BY <2>1, <2>2, <2>3, <2>4 DEF Flow
<1>5. CASE ImportMarks(s)
  <2>1. QueuesOK' /\ BoxesOK' /\ CountsOK'
    BY <1>5, <1>n, <1>b, <1>c DEF ImportMarks, boxes, books, staged, history
  <2>2. NodesOK'
    BY <1>t, <1>5 DEF ImportMarks, SenderOK, NodesOK, boxes, roads
  <2>3. HandsOK'
    BY <1>t, <1>5, <1>h DEF ImportMarks, ThenFlush, Works, Goto, SenderHas, FlushHas, SendLabels, history
  <2>. QED  BY <2>1, <2>2, <2>3 DEF Flow
<1>6. CASE SendAgain(s)
  <2>1. QueuesOK' /\ NodesOK' /\ BoxesOK' /\ CountsOK'
    BY <1>6, <1>n, <1>o, <1>b, <1>c DEF SendAgain, boxes, books, roads, staged, history
  <2>2. SenderHas(s)' /\ FlushHas(s)'
    BY <1>t, <1>6 DEF SendAgain, Tries, Idle, Works, Goto, SenderHas, FlushHas, SendLabels, history
  <2>3. HandsOK'
    BY <1>t, <1>6, <2>2, <1>h DEF SendAgain, Tries, Idle, Works, Goto, history
  <2>. QED  BY <2>1, <2>3 DEF Flow
<1>7. CASE TakeCredit(s)
  <2>. DEFINE n == Place[s]  i == job[s].idx
  <2>0. n \in Nodes /\ i \in Entries
    BY <1>t, <1>7 DEF TakeCredit, SenderOK, SendLabels
  <2>1. QueuesOK' /\ NodesOK' /\ BoxesOK'
    BY <1>7, <1>n, <1>o, <1>b DEF TakeCredit, entries, boxes, roads, staged, history
  <2>2. CountsOK'
    <3>0. credits \in [Nodes -> [Entries -> Nat]] /\ pending \in [Nodes -> [Entries -> Nat]]
      BY <1>t DEF CountsOK
    <3>1. credits[n][i] \in Nat /\ pending[n][i] \in Nat
      BY <2>0, <3>0
    <3>2. CASE MaySpend(n, i)
      <4>1. /\ credits' = [credits EXCEPT ![n][i] = credits[n][i] - 1]
            /\ pending' = [pending EXCEPT ![n][i] = pending[n][i] + 1]
        BY <1>7, <3>2 DEF TakeCredit, Counted
      <4>2. credits[n][i] - 1 \in Nat /\ pending[n][i] + 1 \in Nat
        BY <3>1, <3>2 DEF MaySpend
      <4>. HIDE DEF n, i
      <4>3. credits' \in [Nodes -> [Entries -> Nat]] /\ pending' \in [Nodes -> [Entries -> Nat]]
        BY <2>0, <3>0, <4>1, <4>2, NestedExcept
      <4>. QED  BY <1>t, <1>7, <4>3 DEF TakeCredit, CountsOK, history
    <3>3. CASE ~MaySpend(n, i)
      BY <1>7, <1>c, <3>3 DEF TakeCredit, history
    <3>. QED  BY <3>2, <3>3
  <2>3. HandsOK'
    BY <1>t, <1>7, <1>h DEF TakeCredit, Goto, SenderHas, FlushHas, SendLabels, history
  <2>. QED  BY <2>1, <2>2, <2>3 DEF Flow
<1>8. CASE LooksBefore(s) \/ LooksAfter(s) \/ ParkEnds(s)
  <2>1. QueuesOK' /\ NodesOK' /\ BoxesOK' /\ CountsOK'
    BY <1>8, <1>n, <1>o, <1>b, <1>c DEF LooksBefore, LooksAfter, LooksIfDead, ParkEnds, entries, boxes, books, roads,
       staged, history
  <2>2. SenderHas(s)' /\ FlushHas(s)'
    BY <1>t, <1>8 DEF LooksBefore, LooksAfter, LooksIfDead, ParkEnds, Idle, Works, Goto, SenderHas, FlushHas,
       SendLabels, history
  <2>3. HandsOK'
    BY <1>t, <1>8, <2>2, <1>h DEF LooksBefore, LooksAfter, LooksIfDead, ParkEnds, Idle, Works, Goto, history
  <2>. QED  BY <2>1, <2>3 DEF Flow
<1>9. CASE Stage(s)
  <2>1. NodesOK' /\ BoxesOK' /\ CountsOK'
    BY <1>9, <1>o, <1>b, <1>c DEF Stage, entries, boxes, books, roads, history
  <2>2. QueuesOK'
    <3>1. job[s].at \in Actors /\ job[s].no \in 1..MaxSends
      BY <1>t, <1>9 DEF Stage, SenderOK, SenderHas, SendLabels
    <3>2. MsgFrame(job[s].at, Place[s], s, job[s].no) \in Frame
      BY <1>t, <3>1, FramesMade
    <3>. QED  BY <1>t, <1>9, <3>2, StageInAdds DEF Stage
  <2>3. HandsOK'
    BY <1>t, <1>9, <1>h DEF Stage, ThenFlush, Works, Goto, SenderHas, FlushHas, SendLabels, history
  <2>. QED  BY <2>1, <2>2, <2>3 DEF Flow
<1>. QED  BY <1>1, <1>2, <1>3, <1>4, <1>5, <1>6, <1>7, <1>8, <1>9 DEF Sender

\* A step of the thread that receives.
LEMMA ReceiverFlow ==
    ASSUME Shape, Flow, NEW t \in Receivers, Receiver(t)
    PROVE  Flow'
<1>. USE ConstantsAssumption DEF Threads
<1>t. /\ QueuesOK /\ NodesOK /\ BoxesOK /\ CountsOK /\ HandsOK
      /\ pc \in [Threads -> Labels] /\ DOMAIN job = Threads /\ t \in Threads /\ t \notin Senders
      /\ ReceiverOK(t) /\ ReceiverHas(t) /\ FlushHas(t) /\ Place[t] \in Nodes
      /\ proxies \in [Nodes -> [Actors -> 0..MaxEntries]]
  BY DEF Flow, HandsOK, Shape, TablesOK, BooksOK, ThreadsOK, JobsOK
<1>n. ASSUME UNCHANGED <<parked, outbox, batch, wire>> PROVE QueuesOK'
  BY <1>t, <1>n DEF QueuesOK
<1>o. ASSUME UNCHANGED <<proxy, dead, died, routes, outbound>> PROVE NodesOK'
  BY <1>t, <1>o DEF NodesOK
<1>b. ASSUME UNCHANGED <<mailbox, arrived>> PROVE BoxesOK'
  BY <1>t, <1>b DEF BoxesOK
<1>c. ASSUME UNCHANGED <<credits, pending, held, lost, sent>> PROVE CountsOK'
  BY <1>t, <1>c DEF CountsOK
<1>h. ASSUME ReceiverHas(t)', FlushHas(t)', batch' = batch, sent' = sent,
             \A u \in Threads : u # t => pc'[u] = pc[u] /\ job'[u] = job[u]
      PROVE  HandsOK'
  BY <1>t, <1>h, HandsKept
<1>d. ASSUME NEW m \in Nodes, Takes(t, m), UNCHANGED <<staged, batch>>
      PROVE  QueuesOK' /\ Head(Heard(t, m)) \in Frame
  BY <1>t, <1>d, LeavesDrops DEF Takes, Heard, Leaves, staged
<1>1. ASSUME NEW m \in Nodes, DeliverMsg(t, m) PROVE Flow'
  <2>. DEFINE f == Head(Heard(t, m))
  <2>1. QueuesOK' /\ f \in Frame
    BY <1>1, <1>d DEF DeliverMsg
  <2>2. NodesOK' /\ BoxesOK'
    BY <1>1, <1>o, <1>b DEF DeliverMsg, entries, boxes, roads, history
  <2>3. CountsOK'
    BY <1>t, <1>1, <2>1, FrameIs DEF DeliverMsg, Received, CountsOK, history
  <2>4. HandsOK'
    BY <1>t, <1>1, <2>1, <1>h DEF DeliverMsg, Works, Goto, ReceiverHas, FlushHas, Takes, history
  <2>. QED  BY <2>1, <2>2, <2>3, <2>4 DEF Flow
<1>2. ASSUME NEW m \in Nodes, DeliverOpen(t, m) PROVE Flow'
  <2>. DEFINE f == Head(Heard(t, m))
  <2>1. QueuesOK' /\ f \in Frame
    BY <1>2, <1>d DEF DeliverOpen
  <2>2. NodesOK' /\ BoxesOK' /\ CountsOK'
    BY <1>2, <1>o, <1>b, <1>c DEF DeliverOpen, entries, boxes, books, roads, history
  <2>3. f.actor \in Actors /\ f.from \in Nodes /\ Len(mailbox[f.actor]) \in Nat
    BY <1>t, <2>1, FrameIs DEF BoxesOK
  <2>4. HandsOK'
    BY <1>t, <1>2, <2>3, <1>h DEF DeliverOpen, Works, Goto, ReceiverHas, FlushHas, Takes, history
  <2>. QED  BY <2>1, <2>2, <2>4 DEF Flow
<1>3. ASSUME NEW m \in Nodes, DeliverGrant(t, m) PROVE Flow'
  <2>. DEFINE f == Head(Heard(t, m))  n == Place[t]  i == proxies[n][f.actor]
  <2>1. QueuesOK' /\ f \in Frame /\ f.kind = "grant"
    BY <1>3, <1>d DEF DeliverGrant
  <2>2. NodesOK' /\ BoxesOK'
    BY <1>3, <1>o, <1>b DEF DeliverGrant, entries, boxes, roads, history
  <2>3. CountsOK'
    <3>1. CASE i = 0
      BY <1>3, <1>c, <3>1 DEF DeliverGrant, history
    <3>2. CASE i # 0
      <4>0. f.n \in Nat /\ n \in Nodes /\ i \in Entries
        BY <1>t, <2>1, <3>2, FrameIs DEF Entries
      <4>1. /\ credits' = [credits EXCEPT ![n][i] = credits[n][i] + f.n]
            /\ pending' = [pending EXCEPT ![n][i] = IF pending[n][i] > f.n THEN pending[n][i] - f.n ELSE 0]
        BY <1>3, <3>2 DEF DeliverGrant
      <4>2. credits \in [Nodes -> [Entries -> Nat]] /\ pending \in [Nodes -> [Entries -> Nat]]
        BY <1>t DEF CountsOK
      <4>3. credits[n][i] \in Nat /\ pending[n][i] \in Nat
        BY <4>0, <4>2
      <4>4. credits[n][i] + f.n \in Nat /\ (IF pending[n][i] > f.n THEN pending[n][i] - f.n ELSE 0) \in Nat
        BY <4>0, <4>3
      <4>. HIDE DEF n, i, f
      <4>5. credits' \in [Nodes -> [Entries -> Nat]] /\ pending' \in [Nodes -> [Entries -> Nat]]
        <5>. DEFINE c == credits[n][i] + f.n
                    p == IF pending[n][i] > f.n THEN pending[n][i] - f.n ELSE 0
        <5>1. c \in Nat /\ p \in Nat /\ credits' = [credits EXCEPT ![n][i] = c] /\ pending' = [pending EXCEPT ![n][i] = p]
          BY <4>1, <4>4
        <5>. HIDE DEF c, p
        <5>2. [credits EXCEPT ![n][i] = c] \in [Nodes -> [Entries -> Nat]]
          BY <4>0, <4>2, <5>1, NestedExcept
        <5>3. [pending EXCEPT ![n][i] = p] \in [Nodes -> [Entries -> Nat]]
          BY <4>0, <4>2, <5>1, NestedExcept
        <5>. QED  BY <5>1, <5>2, <5>3
      <4>. QED  BY <1>t, <1>3, <4>5 DEF DeliverGrant, CountsOK, history
    <3>. QED  BY <3>1, <3>2
  <2>4. HandsOK'
    BY <1>t, <1>3, HandsSame DEF DeliverGrant, history
  <2>. QED  BY <2>1, <2>2, <2>3, <2>4 DEF Flow
<1>4. CASE EnqueueRemote(t)
  <2>. DEFINE a == job[t].at  f == job[t].msg
  <2>1. QueuesOK' /\ NodesOK' /\ CountsOK'
    BY <1>4, <1>n, <1>o, <1>c DEF EnqueueRemote, entries, books, roads, staged
  <2>2. f \in Frame /\ a = f.actor /\ f.kind = "msg"
    BY <1>t, <1>4 DEF EnqueueRemote, ReceiverHas
  <2>3. a \in Actors /\ f.from \in Nodes /\ f.by \in Senders /\ f.no \in 1..MaxSends
    BY <2>2, FrameIs
  <2>4. BoxesOK'
    <3>1. CASE ~Accepts(a)
      BY <1>4, <1>b, <3>1 DEF EnqueueRemote
    <3>2. CASE Accepts(a)
      <4>1. /\ mailbox' = [mailbox EXCEPT ![a] = Append(mailbox[a], f.from)]
            /\ arrived' = [arrived EXCEPT ![f.by][a] = Append(arrived[f.by][a], f.no)]
        BY <1>4, <3>2 DEF EnqueueRemote
      <4>2. /\ mailbox \in [Actors -> Seq(Nodes \cup {Local})]
            /\ arrived \in [Senders -> [Actors -> Seq(1..MaxSends)]]
        BY <1>t DEF BoxesOK
      <4>. HIDE DEF a, f
      <4>3. Append(mailbox[a], f.from) \in Seq(Nodes \cup {Local}) /\ Append(arrived[f.by][a], f.no) \in Seq(1..MaxSends)
        BY <2>3, <4>2
      <4>4. arrived' \in [Senders -> [Actors -> Seq(1..MaxSends)]]
        BY <2>3, <4>1, <4>2, <4>3, NestedExcept
      <4>. QED  BY <2>3, <4>1, <4>2, <4>3, <4>4 DEF BoxesOK
    <3>. QED  BY <3>1, <3>2
  <2>5. HandsOK'
    BY <1>t, <1>4, <1>h DEF EnqueueRemote, Idle, Works, Goto, ReceiverHas, FlushHas
  <2>. QED  BY <2>1, <2>4, <2>5 DEF Flow
<1>5. CASE OpenRoom(t)
  <2>1. QueuesOK' /\ NodesOK' /\ BoxesOK' /\ CountsOK'
    BY <1>5, <1>n, <1>o, <1>b, <1>c DEF OpenRoom, entries, boxes, books, roads, staged, history
  <2>2. Room(job[t].at, job[t].queued) \in Nat \ {0}
    <3>1. job[t].at \in Actors /\ job[t].queued \in Nat
      BY <1>t, <1>5 DEF OpenRoom, ReceiverHas
    <3>2. Bound[job[t].at] \in Nat /\ held[job[t].at] \in Nat
      BY <1>t, <3>1 DEF CountsOK
    <3>. QED  BY <3>1, <3>2 DEF Room
  <2>3. HandsOK'
    BY <1>t, <1>5, <2>2, <1>h DEF OpenRoom, Works, Goto, ReceiverHas, FlushHas, history
  <2>. QED  BY <2>1, <2>3 DEF Flow
<1>6. CASE OpenGrants(t)
  <2>0. job[t].at \in Actors /\ job[t].from \in Nodes /\ job[t].n \in Nat
    BY <1>t, <1>6 DEF OpenGrants, ReceiverHas
  <2>1. NodesOK' /\ BoxesOK'
    BY <1>6, <1>o, <1>b DEF OpenGrants, entries, boxes, roads, history
  <2>2. QueuesOK'
    BY <1>t, <1>6, <2>0, FramesMade, StageInAdds DEF OpenGrants, Grant
  <2>3. CountsOK'
    BY <1>t, <1>6, <2>0 DEF OpenGrants, Grant, CountsOK, history
  <2>4. HandsOK'
    BY <1>t, <1>6, <1>h DEF OpenGrants, ThenFlush, Works, Goto, ReceiverHas, FlushHas, history
  <2>. QED  BY <2>1, <2>2, <2>3, <2>4 DEF Flow
<1>. QED  BY <1>1, <1>2, <1>3, <1>4, <1>5, <1>6 DEF Receiver

\* A step of a worker, of a flush, and of everything else.
LEMMA OthersFlow ==
    ASSUME Shape, Flow,
           \/ \E w \in Workers : Worker(w)
           \/ \E t \in Threads : Flush(t)
           \/ \E a \in Actors : LocalSend(a) \/ Die(a)
           \/ \E m, n \in Nodes : Lose(m, n)
    PROVE  Flow'
<1>. USE ConstantsAssumption DEF Threads
<1>t. /\ QueuesOK /\ NodesOK /\ BoxesOK /\ CountsOK /\ HandsOK
      /\ pc \in [Threads -> Labels] /\ DOMAIN job = Threads
  BY DEF Flow, Shape, TablesOK, ThreadsOK
<1>n. ASSUME UNCHANGED <<parked, outbox, batch, wire>> PROVE QueuesOK'
  BY <1>t, <1>n DEF QueuesOK
<1>o. ASSUME UNCHANGED <<proxy, dead, died, routes, outbound>> PROVE NodesOK'
  BY <1>t, <1>o DEF NodesOK
<1>b. ASSUME UNCHANGED <<mailbox, arrived>> PROVE BoxesOK'
  BY <1>t, <1>b DEF BoxesOK
<1>c. ASSUME UNCHANGED <<credits, pending, held, lost, sent>> PROVE CountsOK'
  BY <1>t, <1>c DEF CountsOK
<1>h. ASSUME NEW w \in Workers, FlushHas(w)', batch' = batch, sent' = sent,
             \A u \in Threads : u # w => pc'[u] = pc[u] /\ job'[u] = job[u]
      PROVE  HandsOK'
  BY <1>t, <1>h, HandsKept
<1>f. \A t \in Threads : FlushHas(t)
  BY <1>t DEF HandsOK
<1>1. ASSUME NEW w \in Workers, NEW a \in Actors, Dequeue(w, a) PROVE Flow'
  <2>1. NodesOK'
    BY <1>1, <1>o DEF Dequeue, entries, roads
  <2>2. /\ mailbox[a] \in Seq(Nodes \cup {Local}) /\ mailbox[a] # <<>>
        /\ mailbox' = [mailbox EXCEPT ![a] = Tail(mailbox[a])] /\ arrived' = arrived
    BY <1>t, <1>1 DEF Dequeue, BoxesOK, history
  <2>3. BoxesOK'
    <3>1. Tail(mailbox[a]) \in Seq(Nodes \cup {Local})
      BY <2>2
    <3>. QED  BY <1>t, <2>2, <3>1 DEF BoxesOK
  <2>4. QueuesOK' /\ CountsOK'
    <3>1. CASE Head(mailbox[a]) \notin Nodes
      BY <1>1, <1>n, <1>c, <3>1 DEF Dequeue, CreditBack, staged, history
    <3>2. CASE Head(mailbox[a]) \in Nodes
      <4>1. /\ held' = [held EXCEPT ![a] = held[a] + 1]
            /\ StageIn(Home[a], GrantFrame(a, Head(mailbox[a]), 1))
        BY <1>1, <3>2 DEF Dequeue, CreditBack, Grant
      <4>2. QueuesOK'
        BY <1>t, <1>1, <3>2, <4>1, FramesMade, StageInAdds DEF Dequeue
      <4>3. CountsOK'
        BY <1>t, <1>1, <4>1 DEF Dequeue, CountsOK, history
      <4>. QED  BY <4>2, <4>3
    <3>. QED  BY <3>1, <3>2
  <2>5. HandsOK'
    BY <1>t, <1>1, <1>h, <1>f DEF Dequeue, ThenFlush, Works, Goto, FlushHas, history
  <2>. QED  BY <2>1, <2>3, <2>4, <2>5 DEF Flow
<1>2. ASSUME NEW w \in Workers, (\E m \in Nodes : AddRoute(w, m)) \/ SetOutbound(w) PROVE Flow'
  <2>1. Place[w] \in Nodes
    OBVIOUS
  <2>2. BoxesOK' /\ CountsOK'
    BY <1>2, <1>b, <1>c DEF AddRoute, SetOutbound, boxes, books, history
  <2>3. QueuesOK'
    BY <1>t, <1>2, <2>1, RestageMoves DEF AddRoute, SetOutbound
  <2>4. NodesOK'
    BY <1>t, <1>2, <2>1 DEF AddRoute, SetOutbound, NodesOK, entries, boxes
  <2>5. HandsOK'
    BY <1>t, <1>2, <1>h, <1>f DEF AddRoute, SetOutbound, ThenFlush, Works, Goto, FlushHas, history
  <2>. QED  BY <2>2, <2>3, <2>4, <2>5 DEF Flow
<1>3. ASSUME NEW w \in Workers, NEW m \in Nodes, NodeLeft(w, m) PROVE Flow'
  <2>1. QueuesOK' /\ BoxesOK' /\ CountsOK'
    BY <1>3, <1>n, <1>b, <1>c DEF NodeLeft, boxes, staged, history
  <2>2. NodesOK'
    BY <1>t, <1>3 DEF NodeLeft, NodesOK, entries, boxes
  <2>3. HandsOK'
    BY <1>t, <1>3, <1>h, <1>f DEF NodeLeft, Works, Goto, FlushHas, history
  <2>. QED  BY <2>1, <2>2, <2>3 DEF Flow
<1>4. ASSUME NEW w \in Workers, KillNext(w) PROVE Flow'
  <2>1. QueuesOK' /\ BoxesOK' /\ CountsOK'
    BY <1>4, <1>n, <1>b, <1>c DEF KillNext, boxes, books, staged, history
  <2>2. NodesOK'
    <3>1. WorkerOK(w) /\ Place[w] \in Nodes
      BY DEF Shape, JobsOK
    <3>2. job[w].gone \subseteq Entries
      BY <1>4, <3>1 DEF KillNext, WorkerOK
    <3>3. dead' \subseteq Nodes \X Entries
      <4>1. dead' = dead \/ \E i \in job[w].gone : dead' = dead \cup {<<Place[w], i>>}
        BY <1>4 DEF KillNext
      <4>2. \A i \in job[w].gone : <<Place[w], i>> \in Nodes \X Entries
        BY <3>1, <3>2
      <4>. QED  BY <1>t, <4>1, <4>2 DEF NodesOK
    <3>. QED  BY <1>t, <1>4, <3>3 DEF KillNext, NodesOK, boxes, roads
  <2>3. HandsOK'
    BY <1>t, <1>4, <1>h, <1>f DEF KillNext, Idle, Works, Goto, FlushHas, history
  <2>. QED  BY <2>1, <2>2, <2>3 DEF Flow
<1>5. ASSUME NEW t \in Threads, Flush(t) PROVE Flow'
  <2>1. NodesOK' /\ BoxesOK' /\ CountsOK'
    BY ZenonT(30), <1>5, <1>o, <1>b, <1>c DEF Flush, TakeOutbox, WireOut, entries, boxes, books, roads, history
  <2>2. QueuesOK'
    <3>1. CASE TakeOutbox(t)
      BY <1>t, <1>f, <3>1, TakeOutboxMoves DEF TakeOutbox, FlushHas
    <3>2. CASE WireOut(t)
      BY ZenonT(30), <1>t, <1>f, <3>2, WireOutMoves DEF WireOut, FlushHas
    <3>. QED  BY <1>5, <3>1, <3>2 DEF Flush
  <2>3. /\ pc' = [pc EXCEPT ![t] = pc'[t]] /\ pc[t] \in {"flush", "wire"} /\ pc'[t] \in {"idle", "wire"}
        /\ job' = job /\ batch' = [batch EXCEPT ![t] = batch'[t]] /\ sent' = sent
    <3>1. batch \in [Threads -> Seq(Frame)]
      BY <1>t DEF QueuesOK
    <3>. QED  BY ZenonT(30), <1>t, <1>5, <3>1 DEF Flush, TakeOutbox, WireOut, Goto, history
  <2>4. FlushHas(t)'
    <3>1. CASE TakeOutbox(t)
      BY <1>t, <3>1 DEF TakeOutbox, Goto, FlushHas, QueuesOK
    <3>2. CASE WireOut(t)
      <4>1. batch[t] \in Seq(Frame) /\ batch[t] # <<>> /\ batch'[t] = Tail(batch[t])
        BY <1>t, <1>f, <3>2 DEF WireOut, FlushHas, QueuesOK
      <4>2. Tail(batch[t]) = <<>> <=> Len(batch[t]) = 1
        BY <4>1, TailIsEmpty
      <4>. QED  BY <1>t, <3>2, <4>1, <4>2 DEF WireOut, Goto, FlushHas
    <3>. QED  BY <1>5, <3>1, <3>2 DEF Flush
  <2>5. /\ t \in Senders => SenderHas(t)'
        /\ t \in Receivers => ReceiverHas(t)'
    BY <2>3 DEF SenderHas, ReceiverHas, SendLabels
  <2>6. \A u \in Threads : u # t => pc'[u] = pc[u] /\ job'[u] = job[u] /\ batch'[u] = batch[u]
    BY <1>t, <2>3 DEF QueuesOK
  <2>7. HandsOK'
    BY <1>t, <2>3, <2>4, <2>5, <2>6, HandsKept
  <2>. QED  BY <2>1, <2>2, <2>7 DEF Flow
<1>6. ASSUME NEW a \in Actors, LocalSend(a) \/ Die(a) PROVE Flow'
  <2>1. QueuesOK' /\ CountsOK' /\ HandsOK'
    BY <1>t, <1>6, <1>n, <1>c, HandsSame DEF LocalSend, Die, books, staged, thread, history
  <2>2. NodesOK'
    BY <1>t, <1>6 DEF LocalSend, Die, NodesOK, entries, roads
  <2>3. BoxesOK'
    <3>1. mailbox[a] \in Seq(Nodes \cup {Local})
      BY <1>t DEF BoxesOK
    <3>2. Append(mailbox[a], Local) \in Seq(Nodes \cup {Local}) /\ <<>> \in Seq(Nodes \cup {Local})
      BY <3>1
    <3>3. mailbox' = [mailbox EXCEPT ![a] = Append(mailbox[a], Local)] \/ mailbox' = [mailbox EXCEPT ![a] = <<>>]
      BY <1>6 DEF LocalSend, Die
    <3>4. arrived' = arrived
      BY <1>6 DEF LocalSend, Die, history
    <3>. QED  BY <1>t, <3>2, <3>3, <3>4 DEF BoxesOK
  <2>. QED  BY <2>1, <2>2, <2>3 DEF Flow
<1>7. ASSUME NEW m \in Nodes, NEW n \in Nodes, Lose(m, n) PROVE Flow'
  <2>1. NodesOK' /\ BoxesOK' /\ HandsOK'
    BY <1>t, <1>7, <1>o, <1>b, HandsSame DEF Lose, entries, boxes, roads, thread
  <2>2. QueuesOK' /\ Head(wire[m][n]) \in Frame
    BY <1>t, <1>7, LeavesDrops DEF Lose, Leaves, staged, thread
  <2>3. Worth(Head(wire[m][n])) \in Nat /\ Head(wire[m][n]).actor \in Actors
    BY <2>2, FrameIs
  <2>4. CountsOK'
    BY <1>t, <1>7, <2>3 DEF Lose, CountsOK, books
  <2>. QED  BY <2>1, <2>2, <2>4 DEF Flow
<1>. QED  BY <1>1, <1>2, <1>3, <1>4, <1>5, <1>6, <1>7 DEF Worker

LEMMA FlowStep == Shape /\ Flow /\ [Next]_vars => Flow'
<1>. SUFFICES ASSUME Shape, Flow, [Next]_vars PROVE Flow'
  OBVIOUS
<1>1. CASE Next
  BY <1>1, SenderFlow, ReceiverFlow, OthersFlow DEF Next
<1>2. CASE UNCHANGED vars
  <2>1. QueuesOK' /\ HandsOK'
    BY <1>2 DEF Flow, QueuesOK, HandsOK, SenderHas, ReceiverHas, FlushHas, vars, staged, thread, history
  <2>2. NodesOK'
    BY <1>2 DEF Flow, NodesOK, vars, entries, boxes, roads
  <2>3. BoxesOK' /\ CountsOK'
    BY <1>2 DEF Flow, BoxesOK, CountsOK, vars, boxes, books, history
  <2>. QED  BY <2>1, <2>2, <2>3 DEF Flow
<1>. QED  BY <1>1, <1>2
THEOREM FlowIsKept == Spec => []Flow
  BY InitFlow, FlowStep, ShapeIsKept, PTL DEF Spec

\* Every variable holds a value of its kind, credits and counts never below zero.
THEOREM TypeCorrect == Spec => []TypeOK
<1>1. Shape /\ Flow => TypeOK
  <2>. SUFFICES ASSUME Shape, Flow PROVE TypeOK
    OBVIOUS
  <2>1. 0..MaxEntries = Entries \cup {0}
    BY ConstantsAssumption DEF Entries
  <2>. QED  BY <2>1 DEF Shape, TablesOK, EntriesOK, BooksOK, ThreadsOK, Flow, QueuesOK, NodesOK, BoxesOK, CountsOK, TypeOK
<1>. QED  BY <1>1, ShapeIsKept, FlowIsKept, PTL

------------------------------------------------------------------------------
(***************************************************************************)
(* Parked frames wait for a reason.                                        *)
(***************************************************************************)
Waits(n) == \A k \in 1..Len(parked[n]) : ~Goes(n, parked[n][k])

\* What is staged with its way open is not parked, and a way that opens takes what waits
\* for it along.
LEMMA ParkedStep == Flow /\ ParkedFramesWait /\ [Next]_vars => ParkedFramesWait'
<1>. SUFFICES ASSUME Flow, ParkedFramesWait, [Next]_vars, NEW n \in Nodes
              PROVE  Waits(n)'
  BY DEF ParkedFramesWait, Waits
<1>. USE ConstantsAssumption DEF Threads
<1>t. QueuesOK /\ NodesOK /\ Waits(n)
  BY DEF Flow, ParkedFramesWait, Waits
<1>k. ASSUME parked'[n] = parked[n], routes'[n] \subseteq routes[n], n \in outbound' => n \in outbound PROVE Waits(n)'
  BY <1>t, <1>k DEF Waits, Goes
<1>s. ASSUME NEW m \in Nodes, NEW f, StageIn(m, f), UNCHANGED roads PROVE Waits(n)'
  <2>1. CASE m = n /\ ~Goes(n, f)
    <3>1. parked'[n] = Append(parked[n], f) /\ parked[n] \in Seq(Frame)
      BY <1>s, <1>t, <2>1 DEF StageIn, QueuesOK
    <3>2. Len(parked'[n]) = Len(parked[n]) + 1 /\ Len(parked[n]) \in Nat
      BY <3>1
    <3>3. parked'[n][Len(parked[n]) + 1] = f /\ \A k \in 1..Len(parked[n]) : parked'[n][k] = parked[n][k]
      BY <3>1
    <3>4. routes' = routes /\ outbound' = outbound
      BY <1>s DEF roads
    <3>5. ASSUME NEW k \in 1..Len(parked'[n]) PROVE ~Goes(n, parked[n][k])'
      <4>1. CASE k = Len(parked[n]) + 1
        BY <2>1, <3>3, <3>4, <4>1 DEF Goes
      <4>2. CASE k # Len(parked[n]) + 1
        <5>1. k \in 1..Len(parked[n])
          BY <3>2, <4>2
        <5>. QED  BY <1>t, <3>3, <3>4, <5>1 DEF Waits, Goes
      <4>. QED  BY <4>1, <4>2
    <3>. QED  BY <3>5 DEF Waits
  <2>2. CASE m # n \/ Goes(n, f)
    <3>1. parked'[n] = parked[n]
      BY <1>s, <1>t, <2>2 DEF StageIn, QueuesOK, Goes
    <3>. QED  BY <1>s, <1>k, <3>1 DEF roads
  <2>. QED  BY <2>1, <2>2
<1>r. ASSUME NEW m \in Nodes, Restage(m), UNCHANGED <<wire, batch>>,
             m # n => routes'[n] = routes[n] /\ (n \in outbound' => n \in outbound)
      PROVE  Waits(n)'
  <2>1. CASE m = n
    BY <1>r, <1>t, <2>1, RestageMoves DEF Waits
  <2>2. CASE m # n
    <3>1. parked'[n] = parked[n]
      BY <1>r, <1>t, <2>2, RestageMoves
    <3>. QED  BY <1>r, <1>k, <2>2, <3>1
  <2>. QED  BY <2>1, <2>2
<1>1. ASSUME NEW s \in Senders, ImportRegisters(s) \/ Stage(s) PROVE Waits(n)'
  <2>1. Place[s] \in Nodes
    OBVIOUS
  <2>2. CASE parked' = parked /\ roads' = roads
    BY <1>k, <2>2 DEF roads
  <2>3. CASE ~(parked' = parked /\ roads' = roads)
    <3>1. roads' = roads
      BY <1>1 DEF ImportRegisters, Stage, roads
    <3>2. \E f : StageIn(Place[s], f)
      BY <1>1, <2>3, <3>1 DEF ImportRegisters, Stage, staged
    <3>. QED  BY <1>s, <2>1, <3>1, <3>2
  <2>. QED  BY <2>2, <2>3
<1>2. ASSUME NEW t \in Receivers, OpenGrants(t) PROVE Waits(n)'
  <2>1. job[t].at \in Actors
    BY <1>2 DEF Flow, HandsOK, ReceiverHas, OpenGrants
  <2>. QED  BY <1>2, <1>s, <2>1 DEF OpenGrants, Grant
<1>3. ASSUME NEW w \in Workers, NEW a \in Actors, Dequeue(w, a) PROVE Waits(n)'
  <2>1. CASE Head(mailbox[a]) \in Nodes
    BY <1>3, <1>s, <2>1 DEF Dequeue, CreditBack, Grant
  <2>2. CASE Head(mailbox[a]) \notin Nodes
    BY <1>3, <1>k, <2>2 DEF Dequeue, CreditBack, staged, roads
  <2>. QED  BY <2>1, <2>2
<1>4. ASSUME NEW w \in Workers, (\E m \in Nodes : AddRoute(w, m)) \/ SetOutbound(w) PROVE Waits(n)'
  <2>1. Place[w] \in Nodes
    OBVIOUS
  <2>2. Restage(Place[w]) /\ wire' = wire /\ batch' = batch
    BY <1>4 DEF AddRoute, SetOutbound
  <2>3. Place[w] # n => routes'[n] = routes[n] /\ (n \in outbound' => n \in outbound)
    BY <1>4, <1>t DEF AddRoute, SetOutbound, NodesOK
  <2>. QED  BY <1>r, <2>1, <2>2, <2>3
<1>5. ASSUME NEW w \in Workers, NEW m \in Nodes, NodeLeft(w, m) PROVE Waits(n)'
  <2>1. parked' = parked /\ outbound' = outbound /\ routes'[n] \subseteq routes[n]
    BY <1>5, <1>t DEF NodeLeft, NodesOK, staged
  <2>. QED  BY <1>k, <2>1
<1>6. ASSUME \/ \E s \in Senders : \/ \E a \in Actors : ImportFinds(s, a) \/ Send(s, a)
                                   \/ ImportMakes(s) \/ ImportMarks(s) \/ SendAgain(s) \/ TakeCredit(s)
                                   \/ LooksBefore(s) \/ LooksAfter(s) \/ ParkEnds(s)
             \/ \E t \in Receivers : \/ \E m \in Nodes : DeliverMsg(t, m) \/ DeliverOpen(t, m) \/ DeliverGrant(t, m)
                                     \/ EnqueueRemote(t) \/ OpenRoom(t)
             \/ \E w \in Workers : KillNext(w)
             \/ \E t \in Threads : Flush(t)
             \/ \E a \in Actors : LocalSend(a) \/ Die(a)
             \/ \E m, o \in Nodes : Lose(m, o)
             \/ UNCHANGED vars
      PROVE  Waits(n)'
  <2>1. parked' = parked /\ routes' = routes /\ outbound' = outbound
    <3>1. CASE \E s \in Senders : \/ \E a \in Actors : ImportFinds(s, a) \/ Send(s, a)
                                  \/ ImportMakes(s) \/ ImportMarks(s) \/ SendAgain(s) \/ TakeCredit(s)
                                  \/ LooksBefore(s) \/ LooksAfter(s) \/ ParkEnds(s)
      BY ZenonT(30), <3>1 DEF ImportFinds, Send, ImportMakes, ImportMarks, SendAgain, TakeCredit, LooksBefore, LooksAfter,
         LooksIfDead, ParkEnds, staged, roads
    <3>2. CASE \E t \in Receivers : \/ \E m \in Nodes : DeliverMsg(t, m) \/ DeliverOpen(t, m) \/ DeliverGrant(t, m)
                                    \/ EnqueueRemote(t) \/ OpenRoom(t)
      BY ZenonT(30), <3>2 DEF DeliverMsg, DeliverOpen, DeliverGrant, EnqueueRemote, OpenRoom, staged, roads
    <3>3. CASE \/ \E w \in Workers : KillNext(w)
               \/ \E t \in Threads : Flush(t)
               \/ \E a \in Actors : LocalSend(a) \/ Die(a)
               \/ \E m, o \in Nodes : Lose(m, o)
               \/ UNCHANGED vars
      BY ZenonT(30), <3>3 DEF KillNext, Flush, TakeOutbox, WireOut, LocalSend, Die, Lose, vars, staged, roads
    <3>. QED  BY <1>6, <3>1, <3>2, <3>3
  <2>. QED  BY <1>k, <2>1
<1>. QED  BY <1>1, <1>2, <1>3, <1>4, <1>5, <1>6 DEF Next, Sender, Receiver, Worker

\* Frames stay parked only for the want of a route or of the outbound hook, in whatever
\* order hooks, routes, departures and sends come.
THEOREM ParkedFramesHaveAReason == Spec => []ParkedFramesWait
<1>1. Init => ParkedFramesWait
  BY DEF Init, ParkedFramesWait
<1>. QED  BY <1>1, ParkedStep, FlowIsKept, PTL DEF Spec

------------------------------------------------------------------------------
(***************************************************************************)
(* No message arrives twice.                                               *)
(***************************************************************************)
Msgs(q) == {x \in SlotsIn(q) : At(q, x).kind = "msg"}
Same(f, g) == f.by = g.by /\ f.no = g.no

\* A send that is over for its sender, and one that has not arrived either.
Sent(s, k) == k <= sent[s] /\ (pc[s] \in SendLabels => k # sent[s])
Underway(f) ==
    /\ Sent(f.by, f.no)
    /\ \A a \in Actors : \A j \in 1..Len(arrived[f.by][a]) : arrived[f.by][a][j] # f.no

\* A send is in one place: with its sender, in one frame, with the thread that received
\* it, or among what has arrived.
InHands == {t \in Receivers : pc[t] = "queue"}
OnceInv ==
    /\ \A x, y \in Msgs(Q) : Same(At(Q, x), At(Q, y)) => x = y
    /\ \A x \in Msgs(Q), t \in InHands : ~Same(At(Q, x), job[t].msg)
    /\ \A t, u \in InHands : Same(job[t].msg, job[u].msg) => t = u
    /\ \A x \in Msgs(Q) : Underway(At(Q, x))
    /\ \A t \in InHands : Underway(job[t].msg)
    /\ \A s \in Senders, a \in Actors : \A j \in 1..Len(arrived[s][a]) : Sent(s, arrived[s][a][j])
    /\ MessagesArriveOnce

\* Every message of r is one of q, each in a slot of its own.
ComesFrom(q, r) ==
    \E h : /\ \A x \in Msgs(r) : h[x] \in Msgs(q) /\ At(q, h[x]) = At(r, x)
           /\ \A x, y \in Msgs(r) : h[x] = h[y] => x = y
LEMMA SameComes == ASSUME NEW q PROVE ComesFrom(q, q)
<1>. DEFINE h == [x \in Msgs(q) |-> x]
<1>1. /\ \A x \in Msgs(q) : h[x] \in Msgs(q) /\ At(q, h[x]) = At(q, x)
      /\ \A x, y \in Msgs(q) : h[x] = h[y] => x = y
  OBVIOUS
<1>. HIDE DEF h
<1>. QED  BY <1>1 DEF ComesFrom
LEMMA BijectionBack ==
    ASSUME NEW S, NEW T, NEW g \in Bijection(S, T)
    PROVE  \E h : /\ \A x \in T : h[x] \in S /\ g[h[x]] = x
                  /\ \A x, y \in T : h[x] = h[y] => x = y
<1>1. \A x \in T : \E w \in S : g[w] = x
  BY BijectionIs
<1>. DEFINE h == [x \in T |-> CHOOSE w \in S : g[w] = x]
<1>2. \A x \in T : h[x] \in S /\ g[h[x]] = x
  BY <1>1
<1>. HIDE DEF h
<1>. QED  BY <1>2
LEMMA MovesComes == ASSUME NEW q, NEW r, Moves(q, r) PROVE ComesFrom(q, r)
<1>1. PICK g \in Bijection(SlotsIn(q), SlotsIn(r)) : \A x \in SlotsIn(q) : At(r, g[x]) = At(q, x)
  BY DEF Moves
<1>2. PICK h : /\ \A x \in SlotsIn(r) : h[x] \in SlotsIn(q) /\ g[h[x]] = x
               /\ \A x, y \in SlotsIn(r) : h[x] = h[y] => x = y
  BY BijectionBack
<1>3. \A x \in Msgs(r) : h[x] \in Msgs(q) /\ At(q, h[x]) = At(r, x)
  BY <1>1, <1>2 DEF Msgs
<1>. QED  BY <1>2, <1>3 DEF ComesFrom, Msgs
LEMMA AddsComes ==
    ASSUME NEW q, NEW r, NEW f, Adds(q, r, f)
    PROVE  /\ f.kind # "msg" => ComesFrom(q, r)
           /\ \E z, h : /\ At(r, z) = f
                        /\ \A x \in Msgs(r) \ {z} : h[x] \in Msgs(q) /\ At(q, h[x]) = At(r, x)
                        /\ \A x, y \in Msgs(r) \ {z} : h[x] = h[y] => x = y
<1>1. PICK z \in SlotsIn(r) :
          /\ At(r, z) = f
          /\ \E g \in Bijection(SlotsIn(q), SlotsIn(r) \ {z}) : \A x \in SlotsIn(q) : At(r, g[x]) = At(q, x)
  BY DEF Adds
<1>2. PICK g \in Bijection(SlotsIn(q), SlotsIn(r) \ {z}) : \A x \in SlotsIn(q) : At(r, g[x]) = At(q, x)
  BY <1>1
<1>3. PICK h : /\ \A x \in SlotsIn(r) \ {z} : h[x] \in SlotsIn(q) /\ g[h[x]] = x
               /\ \A x, y \in SlotsIn(r) \ {z} : h[x] = h[y] => x = y
  <2>. DEFINE T == SlotsIn(r) \ {z}
  <2>1. g \in Bijection(SlotsIn(q), T)
    OBVIOUS
  <2>. HIDE DEF T
  <2>2. \E h : /\ \A x \in T : h[x] \in SlotsIn(q) /\ g[h[x]] = x
               /\ \A x, y \in T : h[x] = h[y] => x = y
    BY <2>1, BijectionBack
  <2>. QED  BY <2>2 DEF T
<1>4. \A x \in Msgs(r) \ {z} : h[x] \in Msgs(q) /\ At(q, h[x]) = At(r, x)
  BY <1>2, <1>3 DEF Msgs
<1>5. \A x, y \in Msgs(r) \ {z} : h[x] = h[y] => x = y
  BY <1>3 DEF Msgs
<1>6. f.kind # "msg" => z \notin Msgs(r)
  BY <1>1 DEF Msgs
<1>7. f.kind # "msg" => ComesFrom(q, r)
  BY <1>4, <1>5, <1>6 DEF ComesFrom
<1>. QED  BY <1>1, <1>4, <1>5, <1>7
LEMMA DropsComes ==
    ASSUME NEW q, NEW r, NEW f, Adds(r, q, f)
    PROVE  /\ ComesFrom(q, r)
           /\ \E z, h : /\ z \in SlotsIn(q) /\ At(q, z) = f
                        /\ \A x \in Msgs(r) : h[x] \in Msgs(q) \ {z} /\ At(q, h[x]) = At(r, x)
                        /\ \A x, y \in Msgs(r) : h[x] = h[y] => x = y
<1>1. PICK z \in SlotsIn(q) :
          /\ At(q, z) = f
          /\ \E g \in Bijection(SlotsIn(r), SlotsIn(q) \ {z}) : \A x \in SlotsIn(r) : At(q, g[x]) = At(r, x)
  BY DEF Adds
<1>2. PICK g \in Bijection(SlotsIn(r), SlotsIn(q) \ {z}) : \A x \in SlotsIn(r) : At(q, g[x]) = At(r, x)
  BY <1>1
<1>3. /\ \A x \in SlotsIn(r) : g[x] \in SlotsIn(q) \ {z}
      /\ \A x, y \in SlotsIn(r) : g[x] = g[y] => x = y
  <2>. DEFINE T == SlotsIn(q) \ {z}
  <2>1. g \in Bijection(SlotsIn(r), T)
    OBVIOUS
  <2>. HIDE DEF T
  <2>2. /\ \A x \in SlotsIn(r) : g[x] \in T
        /\ \A x, y \in SlotsIn(r) : g[x] = g[y] => x = y
    BY <2>1, BijectionIs
  <2>. QED  BY <2>2 DEF T
<1>4. /\ \A x \in Msgs(r) : g[x] \in Msgs(q) \ {z} /\ At(q, g[x]) = At(r, x)
      /\ \A x, y \in Msgs(r) : g[x] = g[y] => x = y
  BY <1>2, <1>3 DEF Msgs
<1>5. ComesFrom(q, r)
  BY <1>4 DEF ComesFrom
<1>. QED  BY <1>1, <1>4, <1>5

LEMMA QueuesStay == ASSUME UNCHANGED <<parked, outbox, batch, wire>> PROVE Q' = Q
  BY DEF Q, Queue
LEMMA ElementIs == ASSUME NEW S, NEW q \in Seq(S), NEW j \in 1..Len(q) PROVE q[j] \in S
  OBVIOUS
LEMMA SlotHasFrame == ASSUME QueuesOK, NEW x \in SlotsIn(Q) PROVE At(Q, x) \in Frame
<1>. USE PlacesAre, QueuesAre
<1>1. x[1] \in Places /\ x[2] \in 1..Len(Q[x[1]])
  BY SlotsAre
<1>. DEFINE p == x[1]
<1>2. Q[p] \in Seq(Frame)
  <2>. HIDE DEF p
  <2>1. CASE \E n \in Nodes : p = <<"parked", n>> \/ p = <<"outbox", n>>
    <3>1. PICK n \in Nodes : p = <<"parked", n>> \/ p = <<"outbox", n>>
      BY <2>1
    <3>2. Q[p] = parked[n] \/ Q[p] = outbox[n]
      BY <3>1
    <3>. QED  BY <3>2 DEF QueuesOK
  <2>2. CASE \E t \in Threads : p = <<"batch", t>>
    BY <2>2 DEF QueuesOK
  <2>3. CASE \E m, n \in Nodes : p = <<"wire", <<m, n>>>>
    BY <2>3 DEF QueuesOK
  <2>. QED  BY <1>1, <2>1, <2>2, <2>3 DEF p
<1>. QED  BY <1>1, <1>2 DEF At

\* A step that adds no message, hands over none and lets none arrive.
SentStays == \A s \in Senders : \A k \in 1..MaxSends : Sent(s, k) => Sent(s, k)'
HandsStay == \A t \in Receivers : pc'[t] = "queue" => pc[t] = "queue" /\ job'[t] = job[t]
LEMMA UnderwayStays ==
    ASSUME SentStays, arrived' = arrived, NEW f \in Frame, f.kind = "msg", Underway(f)
    PROVE  Underway(f)'
  BY FrameIs DEF SentStays, Underway
LEMMA OnceStays ==
    ASSUME Flow, OnceInv, ComesFrom(Q, Q'), SentStays, HandsStay, arrived' = arrived
    PROVE  OnceInv'
<1>1. PICK h : /\ \A x \in Msgs(Q') : h[x] \in Msgs(Q) /\ At(Q, h[x]) = At(Q', x)
               /\ \A x, y \in Msgs(Q') : h[x] = h[y] => x = y
  BY DEF ComesFrom
<1>2. \A x \in Msgs(Q) : At(Q, x) \in Frame /\ At(Q, x).kind = "msg"
  BY SlotHasFrame DEF Msgs, Flow
<1>3. \A t \in InHands' : t \in InHands /\ job'[t] = job[t] /\ job[t].msg \in Frame /\ job[t].msg.kind = "msg"
  BY DEF InHands, HandsStay, Flow, HandsOK, ReceiverHas
<1>4. \A x, y \in Msgs(Q') : Same(At(Q', x), At(Q', y)) => x = y
  BY <1>1 DEF OnceInv
<1>5. \A x \in Msgs(Q'), t \in InHands' : ~Same(At(Q', x), job'[t].msg)
  BY <1>1, <1>3 DEF OnceInv
<1>6. \A t, u \in InHands' : Same(job'[t].msg, job'[u].msg) => t = u
  BY <1>3 DEF OnceInv
<1>7. ASSUME NEW x \in Msgs(Q') PROVE Underway(At(Q, x))'
  <2>. DEFINE f == At(Q, h[x])
  <2>1. f \in Frame /\ f.kind = "msg" /\ Underway(f) /\ At(Q', x) = f
    BY <1>1, <1>2 DEF OnceInv
  <2>. HIDE DEF f
  <2>2. f.by \in Senders /\ f.no \in 1..MaxSends
    BY <2>1, FrameIs
  <2>. QED  BY <2>1, <2>2 DEF SentStays, Underway, Sent
<1>8. ASSUME NEW t \in InHands' PROVE Underway(job[t].msg)'
  <2>. DEFINE f == job[t].msg
  <2>1. f \in Frame /\ f.kind = "msg" /\ Underway(f) /\ job'[t].msg = f
    BY <1>3 DEF OnceInv
  <2>. HIDE DEF f
  <2>2. f.by \in Senders /\ f.no \in 1..MaxSends
    BY <2>1, FrameIs
  <2>. QED  BY <2>1, <2>2 DEF SentStays, Underway, Sent
<1>9. \A s \in Senders, a \in Actors : \A j \in 1..Len(arrived'[s][a]) : Sent(s, arrived[s][a][j])'
  <2>1. \A s \in Senders, a \in Actors : arrived[s][a] \in Seq(1..MaxSends)
    BY DEF Flow, BoxesOK
  <2>2. \A s \in Senders, a \in Actors : \A j \in 1..Len(arrived[s][a]) :
           Sent(s, arrived[s][a][j])
    BY DEF OnceInv
  <2>3. \A s \in Senders, a \in Actors : \A j \in 1..Len(arrived[s][a]) : arrived[s][a][j] \in 1..MaxSends
    BY <2>1, ElementIs
  <2>. QED  BY <2>2, <2>3 DEF SentStays, Sent
<1>10. MessagesArriveOnce'
  BY DEF OnceInv, MessagesArriveOnce
<1>. QED  BY <1>4, <1>5, <1>6, <1>7, <1>8, <1>9, <1>10 DEF OnceInv, Sent, Underway

\* A send is staged, a message is received, and it arrives.
LEMMA StageOnce ==
    ASSUME Shape, Flow, OnceInv, NEW s \in Senders, Stage(s)
    PROVE  OnceInv'
<1>. USE ConstantsAssumption DEF Threads
<1>f. PICK f : f = MsgFrame(job[s].at, Place[s], s, job[s].no)
  OBVIOUS
<1>1. /\ pc \in [Threads -> Labels] /\ DOMAIN job = Threads /\ s \in Threads /\ pc[s] = "stage" /\ s \notin Receivers
      /\ job[s].at \in Actors /\ Place[s] \in Nodes /\ sent[s] \in 1..MaxSends /\ job[s].no = sent[s]
  BY DEF Shape, TablesOK, ThreadsOK, JobsOK, SenderOK, SendLabels, Flow, CountsOK, HandsOK, SenderHas, Stage
<1>2. f \in Frame /\ f.by = s /\ f.no = sent[s] /\ f.kind = "msg"
  BY <1>f, <1>1, FramesMade DEF MsgFrame
<1>3. Adds(Q, Q', f)
  <2>1. StageIn(Place[s], f) /\ wire' = wire /\ batch' = batch
    BY <1>f DEF Stage
  <2>. QED  BY <1>1, <1>2, <2>1, StageInAdds DEF Flow
<1>4. /\ pc' = [pc EXCEPT ![s] = "flush"] /\ \A u \in Threads : u # s => job'[u] = job[u]
      /\ sent' = sent /\ arrived' = arrived
  BY <1>1 DEF Stage, ThenFlush, Works, Goto, history
<1>5. PICK z, h : /\ At(Q', z) = f
                  /\ \A x \in Msgs(Q') \ {z} : h[x] \in Msgs(Q) /\ At(Q, h[x]) = At(Q', x)
                  /\ \A x, y \in Msgs(Q') \ {z} : h[x] = h[y] => x = y
  BY <1>3, AddsComes
<1>6. SentStays
  BY <1>1, <1>4 DEF SentStays, Sent, SendLabels
<1>7. InHands' = InHands /\ \A t \in InHands : job'[t] = job[t] /\ job[t].msg \in Frame /\ job[t].msg.kind = "msg"
  BY <1>1, <1>4 DEF InHands, Flow, HandsOK, ReceiverHas
<1>8. ASSUME NEW g, Underway(g) PROVE ~Same(f, g)
  BY <1>1, <1>2, <1>8 DEF Same, Underway, Sent, SendLabels
<1>9. \A x, y \in Msgs(Q') : Same(At(Q', x), At(Q', y)) => x = y
  <2>1. ASSUME NEW x \in Msgs(Q') \ {z} PROVE ~Same(f, At(Q', x)) /\ ~Same(At(Q', x), f)
    BY <1>5, <1>8 DEF OnceInv, Same
  <2>. QED  BY <1>5, <2>1 DEF OnceInv
<1>10. \A x \in Msgs(Q'), t \in InHands' : ~Same(At(Q', x), job'[t].msg)
  BY <1>5, <1>7, <1>8 DEF OnceInv
<1>11. \A t, u \in InHands' : Same(job'[t].msg, job'[u].msg) => t = u
  BY <1>7 DEF OnceInv
<1>12. Underway(f)'
  <2>1. Sent(s, sent[s])'
    BY <1>1, <1>4 DEF Sent, SendLabels
  <2>2. \A a \in Actors : \A j \in 1..Len(arrived[s][a]) : arrived[s][a][j] # sent[s]
    BY <1>1 DEF OnceInv, Sent, SendLabels
  <2>. QED  BY <1>2, <1>4, <2>1, <2>2 DEF Underway, Sent
<1>13. ASSUME NEW g \in Frame, g.kind = "msg", Underway(g) PROVE Underway(g)'
  BY <1>4, <1>6, <1>13, FrameIs DEF SentStays, Underway, Sent
<1>14. \A x \in Msgs(Q') : Underway(At(Q, x))'
  <2>. TAKE x \in Msgs(Q')
  <2>1. CASE x = z
    <3>1. At(Q', x) = f
      BY <1>5, <2>1
    <3>. QED  BY <1>12, <3>1 DEF Underway, Sent
  <2>2. CASE x # z
    <3>. DEFINE g == At(Q, h[x])
    <3>1. g \in Frame /\ g.kind = "msg" /\ Underway(g) /\ At(Q', x) = g
      BY <1>5, <2>2, SlotHasFrame DEF OnceInv, Msgs, Flow
    <3>. HIDE DEF g
    <3>. QED  BY <1>13, <3>1 DEF Underway, Sent
  <2>. QED  BY <2>1, <2>2
<1>15. \A t \in InHands' : Underway(job[t].msg)'
  <2>. TAKE t \in InHands'
  <2>1. PICK g : g = job[t].msg
    OBVIOUS
  <2>2. g \in Frame /\ g.kind = "msg" /\ Underway(g) /\ job'[t].msg = g
    BY <1>7, <2>1 DEF OnceInv
  <2>. QED  BY <1>13, <2>2 DEF Underway, Sent
<1>16. \A u \in Senders, a \in Actors : \A j \in 1..Len(arrived'[u][a]) : Sent(u, arrived[u][a][j])'
  <2>1. \A u \in Senders, a \in Actors : arrived[u][a] \in Seq(1..MaxSends)
    BY DEF Flow, BoxesOK
  <2>. QED  BY <1>4, <1>6, <2>1 DEF OnceInv, SentStays, Sent
<1>17. MessagesArriveOnce'
  BY <1>4 DEF OnceInv, MessagesArriveOnce
<1>. QED  BY <1>9, <1>10, <1>11, <1>14, <1>15, <1>16, <1>17 DEF OnceInv, Sent, Underway
LEMMA DeliverOnce ==
    ASSUME Shape, Flow, OnceInv, NEW t \in Receivers, NEW m \in Nodes, DeliverMsg(t, m)
    PROVE  OnceInv'
<1>. USE ConstantsAssumption DEF Threads
<1>f. PICK f : f = Head(wire[m][Place[t]])
  OBVIOUS
<1>1. /\ pc \in [Threads -> Labels] /\ DOMAIN job = Threads /\ t \in Threads /\ Place[t] \in Nodes
  BY DEF Shape, TablesOK, ThreadsOK
<1>2. Leaves(m, Place[t])
  BY DEF DeliverMsg, Takes, Heard, Leaves, staged
<1>3. f \in Frame /\ f.kind = "msg" /\ Adds(Q', Q, f)
  BY <1>f, <1>1, <1>2, LeavesDrops DEF DeliverMsg, Heard, Flow
<1>4. PICK z, h : /\ z \in SlotsIn(Q) /\ At(Q, z) = f
                  /\ \A x \in Msgs(Q') : h[x] \in Msgs(Q) \ {z} /\ At(Q, h[x]) = At(Q', x)
                  /\ \A x, y \in Msgs(Q') : h[x] = h[y] => x = y
  BY <1>3, DropsComes
<1>5. z \in Msgs(Q)
  BY <1>3, <1>4 DEF Msgs
<1>6. /\ pc' = [pc EXCEPT ![t] = "queue"] /\ job' = [job EXCEPT ![t] = [at |-> f.actor, msg |-> f]]
      /\ sent' = sent /\ arrived' = arrived
  BY <1>f, <1>1 DEF DeliverMsg, Heard, Works, Goto, history
<1>7. SentStays
  BY <1>1, <1>6 DEF SentStays, Sent, SendLabels
<1>8. /\ job'[t].msg = f
      /\ \A u \in InHands' : \/ u = t
                             \/ u \in InHands /\ job'[u] = job[u] /\ job[u].msg \in Frame /\ job[u].msg.kind = "msg"
  <2>1. job'[t].msg = f
    BY <1>1, <1>6
  <2>2. ASSUME NEW u \in InHands', u # t PROVE u \in InHands /\ job'[u] = job[u]
    <3>1. u \in Threads /\ u \in Receivers /\ pc'[u] = "queue"
      BY <2>2 DEF InHands
    <3>2. pc'[u] = pc[u] /\ job'[u] = job[u]
      BY <1>1, <1>6, <2>2, <3>1
    <3>. QED  BY <3>1, <3>2 DEF InHands
  <2>3. \A u \in InHands : job[u].msg \in Frame /\ job[u].msg.kind = "msg"
    BY DEF InHands, Flow, HandsOK, ReceiverHas
  <2>4. ASSUME NEW u \in InHands', u # t
        PROVE  u \in InHands /\ job'[u] = job[u] /\ job[u].msg \in Frame /\ job[u].msg.kind = "msg"
    BY <2>2, <2>3, <2>4
  <2>. QED  BY <2>1, <2>4
<1>9. \A x, y \in Msgs(Q') : Same(At(Q', x), At(Q', y)) => x = y
  BY <1>4 DEF OnceInv
<1>10. \A x \in Msgs(Q'), u \in InHands' : ~Same(At(Q', x), job'[u].msg)
  BY <1>4, <1>5, <1>8 DEF OnceInv
<1>11. \A u, v \in InHands' : Same(job'[u].msg, job'[v].msg) => u = v
  BY <1>4, <1>5, <1>8 DEF OnceInv, Same
<1>12. ASSUME NEW g \in Frame, g.kind = "msg", Underway(g) PROVE Underway(g)'
  BY <1>6, <1>7, <1>12, UnderwayStays
<1>13. \A x \in Msgs(Q') : Underway(At(Q, x))'
  <2>. TAKE x \in Msgs(Q')
  <2>1. PICK g : g = At(Q, h[x])
    OBVIOUS
  <2>2. g \in Frame /\ g.kind = "msg" /\ Underway(g) /\ At(Q', x) = g
    BY <1>4, <2>1, SlotHasFrame DEF OnceInv, Msgs, Flow
  <2>. QED  BY <1>12, <2>2 DEF Underway, Sent
<1>14. \A u \in InHands' : Underway(job[u].msg)'
  <2>. TAKE u \in InHands'
  <2>1. PICK g : g = job'[u].msg
    OBVIOUS
  <2>2. g \in Frame /\ g.kind = "msg" /\ Underway(g)
    BY <1>3, <1>4, <1>5, <1>8, <2>1 DEF OnceInv
  <2>. QED  BY <1>12, <2>1, <2>2 DEF Underway, Sent
<1>15. \A u \in Senders, a \in Actors : \A j \in 1..Len(arrived'[u][a]) : Sent(u, arrived[u][a][j])'
  <2>1. \A u \in Senders, a \in Actors : arrived[u][a] \in Seq(1..MaxSends)
    BY DEF Flow, BoxesOK
  <2>. QED  BY <1>6, <1>7, <2>1 DEF OnceInv, SentStays, Sent
<1>16. MessagesArriveOnce'
  BY <1>6 DEF OnceInv, MessagesArriveOnce
<1>. QED  BY <1>9, <1>10, <1>11, <1>13, <1>14, <1>15, <1>16 DEF OnceInv, Sent, Underway
LEMMA ArriveOnce ==
    ASSUME Shape, Flow, OnceInv, NEW t \in Receivers, EnqueueRemote(t)
    PROVE  OnceInv'
<1>. USE ConstantsAssumption DEF Threads
<1>f. PICK f : f = job[t].msg
  OBVIOUS
<1>1. /\ pc \in [Threads -> Labels] /\ DOMAIN job = Threads /\ t \in Threads /\ pc[t] = "queue" /\ t \in InHands
      /\ f \in Frame /\ f.kind = "msg" /\ job[t].at = f.actor
  BY <1>f DEF Shape, TablesOK, ThreadsOK, Flow, HandsOK, ReceiverHas, EnqueueRemote, InHands
<1>2. f.actor \in Actors /\ f.by \in Senders /\ f.no \in 1..MaxSends /\ Underway(f)
  BY <1>f, <1>1, FrameIs DEF OnceInv
<1>3. /\ pc' = [pc EXCEPT ![t] = "idle"] /\ \A u \in Threads : u # t => job'[u] = job[u]
      /\ sent' = sent
      /\ arrived' \in {arrived, [arrived EXCEPT ![f.by][f.actor] = Append(@, f.no)]}
  BY <1>f, <1>1 DEF EnqueueRemote, Idle, Works, Goto
<1>4. Q' = Q
  <2>1. UNCHANGED <<parked, outbox, batch, wire>>
    BY DEF EnqueueRemote, staged
  <2>. QED  BY <2>1, QueuesStay
<1>5. SentStays
  BY <1>1, <1>3 DEF SentStays, Sent, SendLabels
<1>6. \A u \in InHands' : u \in InHands /\ u # t /\ job'[u] = job[u] /\ job[u].msg \in Frame /\ job[u].msg.kind = "msg"
  BY <1>1, <1>3 DEF InHands, Flow, HandsOK, ReceiverHas
<1>7. ASSUME NEW u \in Senders, NEW a \in Actors
      PROVE  /\ arrived[u][a] \in Seq(1..MaxSends)
             /\ \/ arrived'[u][a] = arrived[u][a]
                \/ u = f.by /\ a = f.actor /\ arrived'[u][a] = Append(arrived[u][a], f.no)
  <2>1. arrived \in [Senders -> [Actors -> Seq(1..MaxSends)]]
    BY DEF Flow, BoxesOK
  <2>2. arrived[u][a] \in Seq(1..MaxSends)
    BY <2>1
  <2>3. CASE arrived' = arrived
    BY <2>2, <2>3
  <2>4. CASE arrived' = [arrived EXCEPT ![f.by][f.actor] = Append(@, f.no)]
    <3>1. CASE u = f.by /\ a = f.actor
      BY <2>1, <2>2, <2>4, <3>1
    <3>2. CASE u # f.by \/ a # f.actor
      BY <2>1, <2>2, <2>4, <3>2
    <3>. QED  BY <3>1, <3>2
  <2>. QED  BY <1>3, <2>3, <2>4
<1>8. ASSUME NEW u \in Senders, NEW a \in Actors, NEW j \in 1..Len(arrived'[u][a])
      PROVE  \/ j \in 1..Len(arrived[u][a]) /\ arrived'[u][a][j] = arrived[u][a][j]
             \/ u = f.by /\ a = f.actor /\ j = Len(arrived[u][a]) + 1 /\ arrived'[u][a][j] = f.no
  <2>1. CASE arrived'[u][a] = arrived[u][a]
    BY <2>1
  <2>2. CASE u = f.by /\ a = f.actor /\ arrived'[u][a] = Append(arrived[u][a], f.no)
    <3>. DEFINE q == arrived[u][a]
    <3>1. q \in Seq(1..MaxSends) /\ arrived'[u][a] = Append(q, f.no)
      BY <1>7, <2>2
    <3>. HIDE DEF q
    <3>2. Len(Append(q, f.no)) = Len(q) + 1 /\ Len(q) \in Nat
      BY <3>1
    <3>3. CASE j = Len(q) + 1
      BY <2>2, <3>1, <3>3 DEF q
    <3>4. CASE j # Len(q) + 1
      <4>1. j \in 1..Len(q)
        BY <3>1, <3>2, <3>4
      <4>2. Append(q, f.no)[j] = q[j]
        BY <3>1, <4>1
      <4>. QED  BY <3>1, <4>1, <4>2 DEF q
    <3>. QED  BY <3>3, <3>4
  <2>. QED  BY <1>7, <2>1, <2>2
<1>9. \A x, y \in Msgs(Q') : Same(At(Q', x), At(Q', y)) => x = y
  BY <1>4 DEF OnceInv
<1>10. \A x \in Msgs(Q'), u \in InHands' : ~Same(At(Q', x), job'[u].msg)
  BY <1>4, <1>6 DEF OnceInv
<1>11. \A u, v \in InHands' : Same(job'[u].msg, job'[v].msg) => u = v
  BY <1>6 DEF OnceInv
<1>12. ASSUME NEW g \in Frame, g.kind = "msg", Underway(g), ~Same(g, f) PROVE Underway(g)'
  <2>1. g.by \in Senders /\ g.no \in 1..MaxSends
    BY <1>12, FrameIs
  <2>2. Sent(g.by, g.no)'
    BY <1>5, <1>12, <2>1 DEF SentStays, Underway, Sent
  <2>3. \A a \in Actors : \A j \in 1..Len(arrived'[g.by][a]) : arrived'[g.by][a][j] # g.no
    BY <1>8, <1>12, <2>1 DEF Underway, Same
  <2>. QED  BY <2>2, <2>3 DEF Underway, Sent
<1>13. \A x \in Msgs(Q') : Underway(At(Q, x))'
  <2>. TAKE x \in Msgs(Q')
  <2>1. PICK g : g = At(Q, x)
    OBVIOUS
  <2>2. g \in Frame /\ g.kind = "msg" /\ Underway(g) /\ At(Q', x) = g /\ ~Same(g, f)
    BY <1>f, <1>1, <1>4, <2>1, SlotHasFrame DEF OnceInv, Msgs, Flow
  <2>. QED  BY <1>12, <2>2 DEF Underway, Sent
<1>14. \A u \in InHands' : Underway(job[u].msg)'
  <2>. TAKE u \in InHands'
  <2>1. PICK g : g = job'[u].msg
    OBVIOUS
  <2>2. g \in Frame /\ g.kind = "msg" /\ Underway(g) /\ ~Same(g, f)
    BY <1>f, <1>1, <1>6, <2>1 DEF OnceInv
  <2>. QED  BY <1>12, <2>1, <2>2 DEF Underway, Sent
<1>15. \A u \in Senders, a \in Actors : \A j \in 1..Len(arrived'[u][a]) : Sent(u, arrived[u][a][j])'
  <2>1. \A u \in Senders, a \in Actors : \A j \in 1..Len(arrived[u][a]) :
           arrived[u][a][j] \in 1..MaxSends /\ Sent(u, arrived[u][a][j])
    BY <1>7 DEF OnceInv
  <2>2. f.no \in 1..MaxSends /\ Sent(f.by, f.no)
    BY <1>2 DEF Underway
  <2>3. \A u \in Senders, a \in Actors : \A j \in 1..Len(arrived'[u][a]) :
           arrived'[u][a][j] \in 1..MaxSends /\ Sent(u, arrived'[u][a][j])
    BY <1>8, <2>1, <2>2
  <2>. QED  BY <1>5, <2>3 DEF SentStays, Sent
<1>16. MessagesArriveOnce'
  <2>. SUFFICES ASSUME NEW u \in Senders, NEW a \in Actors PROVE IsInjective(arrived'[u][a])
    BY DEF MessagesArriveOnce
  <2>1. \A j \in 1..Len(arrived[u][a]) : u = f.by => arrived[u][a][j] # f.no
    BY <1>2 DEF Underway
  <2>2. \A j, k \in 1..Len(arrived[u][a]) : arrived[u][a][j] = arrived[u][a][k] => j = k
    BY <1>7 DEF OnceInv, MessagesArriveOnce, IsInjective
  <2>3. \A j, k \in 1..Len(arrived'[u][a]) : arrived'[u][a][j] = arrived'[u][a][k] => j = k
    BY <1>8, <2>1, <2>2
  <2>4. DOMAIN arrived'[u][a] = 1..Len(arrived'[u][a])
    BY <1>2, <1>7
  <2>. QED  BY <2>3, <2>4 DEF IsInjective
<1>. QED  BY <1>9, <1>10, <1>11, <1>13, <1>14, <1>15, <1>16 DEF OnceInv, Sent, Underway

\* Every step.
LEMMA OnceStep == Shape /\ Flow /\ OnceInv /\ [Next]_vars => OnceInv'
<1>. SUFFICES ASSUME Shape, Flow, OnceInv, [Next]_vars PROVE OnceInv'
  OBVIOUS
<1>. USE ConstantsAssumption DEF Threads
<1>t. /\ pc \in [Threads -> Labels] /\ DOMAIN job = Threads /\ QueuesOK
      /\ sent \in [Senders -> 0..MaxSends]
  BY DEF Shape, TablesOK, ThreadsOK, Flow, CountsOK
<1>s. ASSUME sent' = sent, \A s \in Senders : pc'[s] \in SendLabels => pc[s] \in SendLabels PROVE SentStays
  BY <1>s DEF SentStays, Sent
<1>q. ASSUME UNCHANGED <<parked, outbox, batch, wire>> PROVE ComesFrom(Q, Q')
  <2>1. Q' = Q
    BY <1>q, QueuesStay
  <2>. QED  BY <2>1, SameComes
<1>a. ASSUME NEW n \in Nodes, NEW f \in Frame, f.kind # "msg", StageIn(n, f), UNCHANGED <<wire, batch>>
      PROVE  ComesFrom(Q, Q')
  BY <1>t, <1>a, StageInAdds, AddsComes
<1>1. ASSUME NEW s \in Senders, NEW a \in Actors, ImportFinds(s, a) PROVE OnceInv'
  <2>1. HandsStay /\ SentStays
    BY <1>1, <1>s, <1>t DEF HandsStay, ImportFinds, Works, Goto, SendLabels, history
  <2>. QED  BY <1>1, <1>q, <2>1, OnceStays DEF ImportFinds, staged, history
<1>2. ASSUME NEW s \in Senders, NEW a \in Actors, Send(s, a) PROVE OnceInv'
  <2>1. HandsStay
    BY <1>2, <1>t DEF HandsStay, Send, Tries, Idle, Works, Goto
  <2>2. SentStays
    <3>1. pc[s] = "idle" /\ sent' = [sent EXCEPT ![s] = sent[s] + 1] /\ \A u \in Senders : u # s => pc'[u] = pc[u]
      BY <1>2, <1>t DEF Send, Tries, Idle, Works, Goto
    <3>. QED  BY <1>t, <3>1 DEF SentStays, Sent
  <2>. QED  BY <1>2, <1>q, <2>1, <2>2, OnceStays DEF Send, staged
<1>3. ASSUME NEW s \in Senders, ImportMakes(s) \/ ImportMarks(s) PROVE OnceInv'
  <2>1. HandsStay /\ SentStays
    BY <1>3, <1>s, <1>t DEF HandsStay, ImportMakes, ImportMarks, ThenFlush, Works, Goto, SendLabels, history
  <2>. QED  BY <1>3, <1>q, <2>1, OnceStays DEF ImportMakes, ImportMarks, staged, history
<1>4. ASSUME NEW s \in Senders, ImportRegisters(s) PROVE OnceInv'
  <2>1. HandsStay /\ SentStays
    BY <1>4, <1>s, <1>t DEF HandsStay, ImportRegisters, ThenFlush, Works, Goto, SendLabels, history
  <2>2. ComesFrom(Q, Q')
    <3>. DEFINE n == Place[s]  a == job[s].at
    <3>1. a \in Actors /\ n \in Nodes /\ wire' = wire /\ batch' = batch
      BY <1>4, <1>t DEF Shape, JobsOK, SenderOK, ImportRegisters
    <3>2. CASE ImportedNow(n, a)
      BY <1>4, <1>q, <3>1, <3>2 DEF ImportRegisters, staged
    <3>3. CASE ~ImportedNow(n, a)
      <4>1. StageIn(n, OpenFrame(a, n))
        BY <1>4, <3>3 DEF ImportRegisters
      <4>2. OpenFrame(a, n) \in Frame /\ OpenFrame(a, n).kind # "msg"
        BY <3>1, FramesMade DEF OpenFrame
      <4>. QED  BY <1>a, <3>1, <4>1, <4>2
    <3>. QED  BY <3>2, <3>3
  <2>. QED  BY <1>4, <2>1, <2>2, OnceStays DEF ImportRegisters, history
<1>5. ASSUME NEW s \in Senders, SendAgain(s) PROVE OnceInv'
  <2>1. HandsStay /\ SentStays
    BY <1>5, <1>s, <1>t DEF HandsStay, SendAgain, Tries, Idle, Works, Goto, SendLabels, history
  <2>. QED  BY <1>5, <1>q, <2>1, OnceStays DEF SendAgain, staged, history
<1>6. ASSUME NEW s \in Senders, TakeCredit(s) \/ LooksBefore(s) \/ LooksAfter(s) \/ ParkEnds(s) PROVE OnceInv'
  <2>1. HandsStay /\ SentStays
    <3>1. CASE TakeCredit(s) \/ ParkEnds(s)
      BY <3>1, <1>s, <1>t DEF HandsStay, TakeCredit, ParkEnds, Goto, SendLabels, history
    <3>2. CASE LooksBefore(s) \/ LooksAfter(s)
      BY <3>2, <1>s, <1>t DEF HandsStay, LooksBefore, LooksAfter, LooksIfDead, Idle, Works, Goto, SendLabels, history
    <3>. QED  BY <1>6, <3>1, <3>2
  <2>. QED  BY <1>6, <1>q, <2>1, OnceStays DEF TakeCredit, LooksBefore, LooksAfter, LooksIfDead, ParkEnds, staged, history
<1>7. ASSUME NEW t \in Receivers, NEW m \in Nodes, DeliverOpen(t, m) \/ DeliverGrant(t, m) PROVE OnceInv'
  <2>1. HandsStay /\ SentStays
    BY <1>7, <1>s, <1>t DEF HandsStay, DeliverOpen, DeliverGrant, Takes, Works, Goto, SendLabels, history
  <2>2. Leaves(m, Place[t]) /\ Place[t] \in Nodes
    BY ZenonT(30), <1>7 DEF DeliverOpen, DeliverGrant, Takes, Heard, Leaves, staged
  <2>3. ComesFrom(Q, Q')
    BY <1>t, <2>2, LeavesDrops, DropsComes
  <2>. QED  BY <1>7, <2>1, <2>3, OnceStays DEF DeliverOpen, DeliverGrant, history
<1>8. ASSUME NEW t \in Receivers, OpenRoom(t) PROVE OnceInv'
  <2>1. HandsStay /\ SentStays
    BY <1>8, <1>s, <1>t DEF HandsStay, OpenRoom, Works, Goto, SendLabels, history
  <2>. QED  BY <1>8, <1>q, <2>1, OnceStays DEF OpenRoom, staged, history
<1>9. ASSUME NEW t \in Receivers, OpenGrants(t) PROVE OnceInv'
  <2>1. HandsStay /\ SentStays
    BY <1>9, <1>s, <1>t DEF HandsStay, OpenGrants, ThenFlush, Works, Goto, SendLabels, history
  <2>2. ComesFrom(Q, Q')
    <3>. DEFINE f == GrantFrame(job[t].at, job[t].from, job[t].n)
    <3>1. /\ job[t].at \in Actors /\ job[t].from \in Nodes /\ job[t].n \in Nat
          /\ Home[job[t].at] \in Nodes /\ wire' = wire /\ batch' = batch
      BY <1>9 DEF Flow, HandsOK, ReceiverHas, OpenGrants
    <3>2. f \in Frame /\ f.kind # "msg"
      BY <3>1, FramesMade DEF GrantFrame
    <3>3. StageIn(Home[job[t].at], f)
      BY <1>9 DEF OpenGrants, Grant
    <3>. QED  BY <1>a, <3>1, <3>2, <3>3
  <2>. QED  BY <1>9, <2>1, <2>2, OnceStays DEF OpenGrants, history
<1>10. ASSUME NEW w \in Workers, NEW a \in Actors, Dequeue(w, a) PROVE OnceInv'
  <2>1. HandsStay /\ SentStays
    BY <1>10, <1>s, <1>t DEF HandsStay, Dequeue, ThenFlush, Works, Goto, SendLabels, history
  <2>2. ComesFrom(Q, Q')
    <3>1. wire' = wire /\ batch' = batch
      BY <1>10 DEF Dequeue
    <3>2. CASE Head(mailbox[a]) \in Nodes
      <4>. DEFINE f == GrantFrame(a, Head(mailbox[a]), 1)
      <4>1. f \in Frame /\ f.kind # "msg" /\ Home[a] \in Nodes
        BY <3>2, FramesMade DEF GrantFrame
      <4>2. StageIn(Home[a], f)
        BY <1>10, <3>2 DEF Dequeue, CreditBack, Grant
      <4>. QED  BY <1>a, <3>1, <4>1, <4>2
    <3>3. CASE Head(mailbox[a]) \notin Nodes
      BY <1>10, <1>q, <3>1, <3>3 DEF Dequeue, CreditBack, staged
    <3>. QED  BY <3>2, <3>3
  <2>. QED  BY <1>10, <2>1, <2>2, OnceStays DEF Dequeue, history
<1>11. ASSUME NEW w \in Workers, (\E m \in Nodes : AddRoute(w, m)) \/ SetOutbound(w) PROVE OnceInv'
  <2>1. HandsStay /\ SentStays
    BY <1>11, <1>s, <1>t DEF HandsStay, AddRoute, SetOutbound, ThenFlush, Works, Goto, SendLabels, history
  <2>2. Restage(Place[w]) /\ wire' = wire /\ batch' = batch /\ Place[w] \in Nodes
    BY <1>11 DEF AddRoute, SetOutbound
  <2>3. ComesFrom(Q, Q')
    BY <1>t, <2>2, RestageMoves, MovesComes
  <2>. QED  BY <1>11, <2>1, <2>3, OnceStays DEF AddRoute, SetOutbound, history
<1>12. ASSUME NEW w \in Workers, (\E m \in Nodes : NodeLeft(w, m)) \/ KillNext(w) PROVE OnceInv'
  <2>1. HandsStay /\ SentStays
    <3>1. CASE \E m \in Nodes : NodeLeft(w, m)
      BY <3>1, <1>s, <1>t DEF HandsStay, NodeLeft, Works, Goto, SendLabels, history
    <3>2. CASE KillNext(w)
      BY <3>2, <1>s, <1>t DEF HandsStay, KillNext, Idle, Works, Goto, SendLabels, history
    <3>. QED  BY <1>12, <3>1, <3>2
  <2>. QED  BY <1>12, <1>q, <2>1, OnceStays DEF NodeLeft, KillNext, staged, history
<1>13. ASSUME NEW t \in Threads, Flush(t) PROVE OnceInv'
  <2>1. HandsStay /\ SentStays
    BY <1>13, <1>s, <1>t DEF HandsStay, Flush, TakeOutbox, WireOut, Goto, SendLabels, history
  <2>2. ComesFrom(Q, Q')
    <3>1. FlushHas(t)
      BY DEF Flow, HandsOK
    <3>2. CASE TakeOutbox(t)
      BY <1>t, <3>1, <3>2, TakeOutboxMoves, MovesComes DEF FlushHas, TakeOutbox
    <3>3. CASE WireOut(t)
      BY <1>t, <3>1, <3>3, WireOutMoves, MovesComes DEF FlushHas, WireOut
    <3>. QED  BY <1>13, <3>2, <3>3 DEF Flush
  <2>. QED  BY <1>13, <2>1, <2>2, OnceStays DEF Flush, TakeOutbox, WireOut, history
<1>14. ASSUME NEW a \in Actors, LocalSend(a) \/ Die(a) PROVE OnceInv'
  <2>1. HandsStay /\ SentStays
    BY <1>14, <1>s DEF HandsStay, LocalSend, Die, thread, history
  <2>. QED  BY <1>14, <1>q, <2>1, OnceStays DEF LocalSend, Die, staged, thread, history
<1>15. ASSUME NEW m \in Nodes, NEW n \in Nodes, Lose(m, n) PROVE OnceInv'
  <2>1. HandsStay /\ SentStays
    BY <1>15, <1>s DEF HandsStay, Lose, thread
  <2>2. Leaves(m, n)
    BY <1>15 DEF Lose, Leaves, staged, thread
  <2>3. ComesFrom(Q, Q')
    BY <1>t, <2>2, LeavesDrops, DropsComes
  <2>. QED  BY <1>15, <2>1, <2>3, OnceStays DEF Lose
<1>16. CASE UNCHANGED vars
  <2>1. HandsStay /\ SentStays
    BY <1>16, <1>s DEF HandsStay, vars, thread, history
  <2>. QED  BY <1>16, <1>q, <2>1, OnceStays DEF vars, staged, thread, history
<1>. QED  BY <1>1, <1>2, <1>3, <1>4, <1>5, <1>6, <1>7, <1>8, <1>9, <1>10, <1>11, <1>12, <1>13, <1>14, <1>15, <1>16,
             StageOnce, DeliverOnce, ArriveOnce DEF Next, Sender, Receiver, Worker

\* A message arrives at most once, however its frame is parked, staged, flushed by one
\* thread or another, and whatever is lost.
THEOREM MessagesAreNotRepeated == Spec => []MessagesArriveOnce
<1>1. Init => OnceInv
  <2>. SUFFICES ASSUME Init PROVE OnceInv
    OBVIOUS
  <2>1. SlotsIn(Q) = {}
    BY EmptyAtFirst
  <2>2. InHands = {} /\ \A s \in Senders, a \in Actors : arrived[s][a] = <<>>
    BY DEF Init, InHands, Threads
  <2>. QED  BY <2>1, <2>2 DEF OnceInv, Msgs, MessagesArriveOnce, IsInjective
<1>2. OnceInv => MessagesArriveOnce
  BY DEF OnceInv
<1>. QED  BY <1>1, <1>2, OnceStep, ShapeIsKept, FlowIsKept, PTL DEF Spec

------------------------------------------------------------------------------
(***************************************************************************)
(* Who writes, is written to or is written about has a proxy.              *)
(***************************************************************************)
FramesIn(q) == {At(q, x) : x \in SlotsIn(q)}
\* Whoever writes to an actor, is written to about it, or is to, has a proxy for it.
MetFrame(f) == IF f.kind = "grant" THEN proxies[f.to][f.actor] # 0 ELSE proxies[f.from][f.actor] # 0
MetSender(s) == pc[s] \in SendLabels => job[s].idx = proxies[Place[s]][job[s].at]
MetReceiver(t) ==
    /\ pc[t] = "queue" => proxies[job[t].msg.from][job[t].at] # 0
    /\ pc[t] \in {"room", "grant"} => proxies[job[t].from][job[t].at] # 0
MetBox(a) == \A k \in 1..Len(mailbox[a]) : mailbox[a][k] \in Nodes => proxies[mailbox[a][k]][a] # 0
WireIs(m, n) == \A k \in 1..Len(wire[m][n]) : wire[m][n][k].to = n
MetInv ==
    /\ \A f \in FramesIn(Q) : MetFrame(f)
    /\ \A m, n \in Nodes : WireIs(m, n)
    /\ \A a \in Actors : MetBox(a)
    /\ \A t \in Receivers : MetReceiver(t)
    /\ \A s \in Senders : MetSender(s)

\* An entry is one actor's, and the one a thread has just made nobody's.
Fresh(s) ==
    pc[s] = "register" =>
        job[s].idx <= made[Place[s]] /\ \A a \in Actors : proxies[Place[s]][a] # job[s].idx
FreshInv ==
    /\ \A n \in Nodes, a \in Actors : proxies[n][a] <= made[n]
    /\ \A n \in Nodes, a, b \in Actors : proxies[n][a] = proxies[n][b] /\ proxies[n][a] # 0 => a = b
    /\ \A s \in Senders : Fresh(s)
    /\ \A s, u \in Senders :
          pc[s] = "register" /\ pc[u] = "register" /\ Place[s] = Place[u] /\ job[s].idx = job[u].idx => s = u

\* Nobody forgets a proxy.
Remembers == \A n \in Nodes, a \in Actors : proxies[n][a] # 0 => proxies'[n][a] = proxies[n][a]
LEMMA RemembersStep == Shape /\ [Next]_vars => Remembers
<1>. SUFFICES ASSUME Shape, [Next]_vars PROVE Remembers
  OBVIOUS
<1>1. ASSUME NEW s \in Senders, ImportRegisters(s) PROVE Remembers
  <2>. DEFINE n == Place[s]  a == job[s].at
  <2>1. proxies \in [Nodes -> [Actors -> 0..MaxEntries]]
    BY DEF Shape, TablesOK, BooksOK
  <2>2. CASE ImportedNow(n, a)
    BY <1>1, <2>2 DEF ImportRegisters, Remembers
  <2>3. CASE ~ImportedNow(n, a)
    <3>1. proxies' = [proxies EXCEPT ![n][a] = job[s].idx] /\ proxies[n][a] = 0
      BY <1>1, <2>3 DEF ImportRegisters, ImportedNow
    <3>. HIDE DEF n, a
    <3>2. ASSUME NEW m \in Nodes, NEW b \in Actors, proxies[m][b] # 0 PROVE proxies'[m][b] = proxies[m][b]
      <4>1. m # n \/ b # a
        BY <3>1, <3>2
      <4>. QED  BY <2>1, <3>1, <4>1
    <3>. QED  BY <3>2 DEF Remembers
  <2>. QED  BY <2>2, <2>3
<1>2. ASSUME ~\E s \in Senders : ImportRegisters(s) PROVE proxies' = proxies
  BY ZenonT(30), <1>2 DEF Next, Sender, Receiver, Worker, Flush, ImportFinds, Send, ImportMakes, ImportMarks, SendAgain,
     TakeCredit, LooksBefore, LooksAfter, LooksIfDead, ParkEnds, Stage, DeliverMsg, DeliverOpen, DeliverGrant,
     EnqueueRemote, OpenRoom, OpenGrants, Dequeue, AddRoute, NodeLeft, SetOutbound, KillNext, TakeOutbox, WireOut,
     LocalSend, Die, Lose, books, vars
<1>. QED  BY <1>1, <1>2 DEF Remembers

LEMMA FreshStep == Shape /\ FreshInv /\ [Next]_vars => FreshInv'
<1>. SUFFICES ASSUME Shape, FreshInv, [Next]_vars PROVE FreshInv'
  OBVIOUS
<1>. USE ConstantsAssumption DEF Threads
<1>t. /\ pc \in [Threads -> Labels] /\ DOMAIN job = Threads /\ proxies \in [Nodes -> [Actors -> 0..MaxEntries]]
      /\ made \in [Nodes -> 0..MaxEntries]
  BY DEF Shape, TablesOK, ThreadsOK, BooksOK, EntriesOK
<1>k. ASSUME proxies' = proxies, made' = made,
             \A s \in Senders : pc'[s] = "register" => pc[s] = "register" /\ job'[s] = job[s]
      PROVE  FreshInv'
  BY <1>k DEF FreshInv, Fresh
<1>1. ASSUME NEW s \in Senders, ImportMakes(s) PROVE FreshInv'
  <2>. DEFINE n == Place[s]  i == made[n] + 1
  <2>1. n \in Nodes /\ made[n] \in Nat /\ i \in Nat /\ proxies' = proxies
    BY <1>1, <1>t DEF ImportMakes, books
  <2>2. made' = [made EXCEPT ![n] = made[n] + 1]
    BY <1>1 DEF ImportMakes
  <2>3. \A m \in Nodes : made'[m] = IF m = n THEN i ELSE made[m]
    BY <1>t, <2>2
  <2>4. job'[s].idx = i /\ \A u \in Senders : u # s => pc'[u] = pc[u] /\ job'[u] = job[u]
    BY <1>1, <1>t DEF ImportMakes, Works, Goto
  <2>. HIDE DEF n, i
  <2>5. \A m \in Nodes : made[m] <= made'[m] /\ made[m] \in Nat /\ made'[m] \in Nat
    BY <1>t, <2>1, <2>3 DEF i
  <2>6. \A m \in Nodes, a \in Actors : proxies[m][a] \in Nat
    BY <1>t
  <2>7. \A m \in Nodes, a \in Actors : proxies'[m][a] <= made'[m]
    BY <2>1, <2>3, <2>5, <2>6 DEF FreshInv
  <2>8. \A u \in Senders : u # s /\ pc'[u] = "register" => job[u].idx <= made[Place[u]]
    BY <2>4 DEF FreshInv, Fresh
  <2>9. i > made[n] /\ \A a \in Actors : proxies[n][a] # i
    BY <2>1, <2>6 DEF FreshInv, i
  <2>10. \A u \in Senders : Fresh(u)'
    <3>. SUFFICES ASSUME NEW u \in Senders, pc'[u] = "register"
                  PROVE  job'[u].idx <= made'[Place[u]] /\ \A a \in Actors : proxies'[Place[u]][a] # job'[u].idx
      BY DEF Fresh
    <3>1. CASE u = s
      BY <2>1, <2>3, <2>4, <2>9, <3>1 DEF n
    <3>2. CASE u # s
      <4>1. job[u].idx <= made[Place[u]] /\ job'[u] = job[u] /\ \A a \in Actors : proxies[Place[u]][a] # job[u].idx
        BY <2>4, <3>2 DEF FreshInv, Fresh
      <4>2. job[u].idx \in Nat
        BY <1>t, <2>4, <3>2 DEF Shape, JobsOK, SenderOK, Entries
      <4>3. Place[u] \in Nodes
        OBVIOUS
      <4>4. job[u].idx <= made'[Place[u]]
        BY <2>5, <4>1, <4>2, <4>3
      <4>. QED  BY <2>1, <4>1, <4>4
    <3>. QED  BY <3>1, <3>2
  <2>11. ASSUME NEW u \in Senders, NEW v \in Senders, pc'[u] = "register", pc'[v] = "register", Place[u] = Place[v],
                job'[u].idx = job'[v].idx
         PROVE  u = v
    <3>1. \A x \in Senders : x # s /\ pc[x] = "register" => job[x].idx \in Nat
      BY <1>t DEF Shape, JobsOK, SenderOK, Entries
    <3>2. CASE u # s /\ v # s
      BY <2>4, <2>11, <3>2 DEF FreshInv
    <3>3. CASE u = s /\ v # s
      BY <2>1, <2>4, <2>8, <2>9, <2>11, <3>1, <3>3 DEF n
    <3>4. CASE u # s /\ v = s
      BY <2>1, <2>4, <2>8, <2>9, <2>11, <3>1, <3>4 DEF n
    <3>. QED  BY <3>2, <3>3, <3>4
  <2>. QED  BY <2>1, <2>7, <2>10, <2>11 DEF FreshInv
<1>2. ASSUME NEW s \in Senders, ImportRegisters(s) PROVE FreshInv'
  <2>. DEFINE n == Place[s]  a == job[s].at  i == job[s].idx
  <2>1. n \in Nodes /\ a \in Actors /\ i \in Entries /\ pc[s] = "register" /\ made' = made
    BY <1>2, <1>t DEF Shape, JobsOK, SenderOK, ImportRegisters, entries
  <2>2. \A u \in Senders : pc'[u] = "register" => u # s /\ pc[u] = "register" /\ job'[u] = job[u]
    BY <1>2, <1>t DEF ImportRegisters, ThenFlush, Works, Goto
  <2>3. CASE ImportedNow(n, a)
    BY <1>2, <1>k, <2>1, <2>2, <2>3 DEF ImportRegisters
  <2>4. CASE ~ImportedNow(n, a)
    <3>1. proxies' = [proxies EXCEPT ![n][a] = i]
      BY <1>2, <2>4 DEF ImportRegisters
    <3>2. i <= made[n] /\ \A b \in Actors : proxies[n][b] # i
      BY <2>1 DEF FreshInv, Fresh
    <3>6. \A u \in Senders : u # s /\ pc[u] = "register" /\ Place[u] = n => job[u].idx # i
      BY <2>1 DEF FreshInv
    <3>. HIDE DEF n, a, i
    <3>3. \A m \in Nodes, b \in Actors : proxies'[m][b] = IF m = n /\ b = a THEN i ELSE proxies[m][b]
      BY <1>t, <2>1, <3>1
    <3>4. \A m \in Nodes, b \in Actors : proxies'[m][b] <= made'[m]
      BY <2>1, <3>2, <3>3 DEF FreshInv
    <3>5. \A m \in Nodes, b, c \in Actors : proxies'[m][b] = proxies'[m][c] /\ proxies'[m][b] # 0 => b = c
      BY <3>2, <3>3 DEF FreshInv
    <3>7. \A u \in Senders : Fresh(u)'
      BY <2>1, <2>2, <3>3, <3>6 DEF FreshInv, Fresh
    <3>8. \A u, v \in Senders : pc'[u] = "register" /\ pc'[v] = "register" /\ Place[u] = Place[v]
                                  /\ job'[u].idx = job'[v].idx => u = v
      BY <2>2 DEF FreshInv
    <3>. QED  BY <3>4, <3>5, <3>7, <3>8 DEF FreshInv
  <2>. QED  BY <2>3, <2>4
<1>3. ASSUME ~\E s \in Senders : ImportMakes(s) \/ ImportRegisters(s) PROVE FreshInv'
  <2>1. proxies' = proxies /\ made' = made
    BY ZenonT(30), <1>3 DEF Next, Sender, Receiver, Worker, Flush, ImportFinds, Send, ImportMarks, SendAgain,
       TakeCredit, LooksBefore, LooksAfter, LooksIfDead, ParkEnds, Stage, DeliverMsg, DeliverOpen, DeliverGrant,
       EnqueueRemote, OpenRoom, OpenGrants, Dequeue, AddRoute, NodeLeft, SetOutbound, KillNext, TakeOutbox, WireOut,
       LocalSend, Die, Lose, books, entries, vars
  <2>2. \A s \in Senders : pc'[s] = "register" => pc[s] = "register" /\ job'[s] = job[s]
    <3>1. ASSUME NEW u \in Senders, Sender(u) PROVE \A s \in Senders : pc'[s] = "register" => pc[s] = "register" /\ job'[s] = job[s]
      BY <1>3, <1>t, <3>1 DEF Sender, ImportFinds, Send, Tries, ImportMarks, SendAgain, TakeCredit, LooksBefore, LooksAfter,
         LooksIfDead, ParkEnds, Stage, ThenFlush, Idle, Works, Goto
    <3>2. ASSUME NEW u \in Receivers, Receiver(u) PROVE \A s \in Senders : pc'[s] = "register" => pc[s] = "register" /\ job'[s] = job[s]
      BY ZenonT(30), <1>t, <3>2 DEF Receiver, DeliverMsg, DeliverOpen, DeliverGrant,
         EnqueueRemote, OpenRoom, OpenGrants, ThenFlush, Idle, Works, Goto
    <3>3. ASSUME NEW u \in Workers, Worker(u) PROVE \A s \in Senders : pc'[s] = "register" => pc[s] = "register" /\ job'[s] = job[s]
      BY <1>t, <3>3 DEF Worker, Dequeue, AddRoute, NodeLeft, SetOutbound, KillNext, ThenFlush, Idle, Works, Goto
    <3>4. ASSUME NEW u \in Threads, Flush(u) PROVE \A s \in Senders : pc'[s] = "register" => pc[s] = "register" /\ job'[s] = job[s]
      BY <1>t, <3>4 DEF Flush, TakeOutbox, WireOut, Goto
    <3>5. ASSUME \/ \E a \in Actors : LocalSend(a) \/ Die(a)
                 \/ \E m, n \in Nodes : Lose(m, n)
                 \/ UNCHANGED vars
          PROVE  pc' = pc /\ job' = job
      BY <3>5 DEF LocalSend, Die, Lose, vars, thread
    <3>. QED  BY <3>1, <3>2, <3>3, <3>4, <3>5 DEF Next
  <2>. QED  BY <1>k, <2>1, <2>2
<1>. QED  BY <1>1, <1>2, <1>3

LEMMA FramesMoved ==
    ASSUME NEW q, NEW r
    PROVE  /\ Moves(q, r) => FramesIn(r) \subseteq FramesIn(q)
           /\ \A f : Adds(q, r, f) => FramesIn(r) \subseteq FramesIn(q) \cup {f}
           /\ \A f : Adds(r, q, f) => FramesIn(r) \subseteq FramesIn(q) /\ f \in FramesIn(q)
<1>1. ASSUME Moves(q, r) PROVE FramesIn(r) \subseteq FramesIn(q)
  <2>1. PICK g \in Bijection(SlotsIn(q), SlotsIn(r)) : \A x \in SlotsIn(q) : At(r, g[x]) = At(q, x)
    BY <1>1 DEF Moves
  <2>2. \A z \in SlotsIn(r) : \E x \in SlotsIn(q) : g[x] = z
    BY BijectionIs
  <2>. QED  BY <2>1, <2>2 DEF FramesIn
<1>2. ASSUME NEW f, Adds(q, r, f) PROVE FramesIn(r) \subseteq FramesIn(q) \cup {f}
  <2>1. PICK z \in SlotsIn(r) :
            /\ At(r, z) = f
            /\ \E g \in Bijection(SlotsIn(q), SlotsIn(r) \ {z}) : \A x \in SlotsIn(q) : At(r, g[x]) = At(q, x)
    BY <1>2 DEF Adds
  <2>2. PICK g \in Bijection(SlotsIn(q), SlotsIn(r) \ {z}) : \A x \in SlotsIn(q) : At(r, g[x]) = At(q, x)
    BY <2>1
  <2>3. \A y \in SlotsIn(r) \ {z} : \E x \in SlotsIn(q) : g[x] = y
    <3>. DEFINE T == SlotsIn(r) \ {z}
    <3>1. g \in Bijection(SlotsIn(q), T)
      OBVIOUS
    <3>. HIDE DEF T
    <3>2. \A y \in T : \E x \in SlotsIn(q) : g[x] = y
      BY <3>1, BijectionIs
    <3>. QED  BY <3>2 DEF T
  <2>. QED  BY <2>1, <2>2, <2>3 DEF FramesIn
<1>3. ASSUME NEW f, Adds(r, q, f) PROVE FramesIn(r) \subseteq FramesIn(q) /\ f \in FramesIn(q)
  <2>1. PICK z \in SlotsIn(q) :
            /\ At(q, z) = f
            /\ \E g \in Bijection(SlotsIn(r), SlotsIn(q) \ {z}) : \A x \in SlotsIn(r) : At(q, g[x]) = At(r, x)
    BY <1>3 DEF Adds
  <2>2. PICK g \in Bijection(SlotsIn(r), SlotsIn(q) \ {z}) : \A x \in SlotsIn(r) : At(q, g[x]) = At(r, x)
    BY <2>1
  <2>3. \A x \in SlotsIn(r) : g[x] \in SlotsIn(q)
    <3>. DEFINE T == SlotsIn(q) \ {z}
    <3>1. g \in Bijection(SlotsIn(r), T)
      OBVIOUS
    <3>. HIDE DEF T
    <3>2. \A x \in SlotsIn(r) : g[x] \in T
      BY <3>1, BijectionIs
    <3>. QED  BY <3>2 DEF T
  <2>. QED  BY <2>1, <2>2, <2>3 DEF FramesIn
<1>. QED  BY <1>1, <1>2, <1>3
LEMMA FramesInQ == QueuesOK => FramesIn(Q) \subseteq Frame
  BY SlotHasFrame DEF FramesIn

\* A frame that is taken off the wire.
LEMMA HeadMet ==
    ASSUME Flow, MetInv, NEW m \in Nodes, NEW n \in Nodes, Leaves(m, n)
    PROVE  /\ Head(wire[m][n]) \in Frame /\ MetFrame(Head(wire[m][n])) /\ Head(wire[m][n]).to = n
           /\ Adds(Q', Q, Head(wire[m][n])) /\ FramesIn(Q') \subseteq FramesIn(Q)
<1>1. Head(wire[m][n]) \in Frame /\ Adds(Q', Q, Head(wire[m][n]))
  BY LeavesDrops DEF Flow
<1>2. wire[m][n] \in Seq(Frame) /\ wire[m][n] # <<>>
  BY DEF Flow, QueuesOK, Leaves
<1>3. Head(wire[m][n]) = wire[m][n][1] /\ 1 \in 1..Len(wire[m][n])
  BY <1>2
<1>4. WireIs(m, n)
  BY DEF MetInv
<1>. QED  BY <1>1, <1>3, <1>4, FramesMoved DEF MetInv, WireIs

LEMMA MetBoxes == Flow /\ MetInv /\ Remembers /\ [Next]_vars => \A a \in Actors : MetBox(a)'
<1>. SUFFICES ASSUME Flow, MetInv, Remembers, [Next]_vars, NEW a \in Actors
              PROVE  MetBox(a)'
  OBVIOUS
<1>t. mailbox \in [Actors -> Seq(Nodes \cup {Local})] /\ MetBox(a)
  BY DEF Flow, BoxesOK, MetInv
<1>k. ASSUME mailbox'[a] = mailbox[a] PROVE MetBox(a)'
  BY <1>k, <1>t DEF MetBox, Remembers
<1>a. ASSUME NEW x, mailbox'[a] = Append(mailbox[a], x), x \in Nodes => proxies[x][a] # 0 PROVE MetBox(a)'
  <2>1. mailbox[a] \in Seq(Nodes \cup {Local})
    BY <1>t
  <2>2. ASSUME NEW k \in 1..Len(mailbox'[a]), mailbox'[a][k] \in Nodes PROVE proxies'[mailbox'[a][k]][a] # 0
    <3>1. CASE k = Len(mailbox[a]) + 1
      BY <1>a, <2>1, <2>2, <3>1 DEF Remembers
    <3>2. CASE k # Len(mailbox[a]) + 1
      <4>1. k \in 1..Len(mailbox[a]) /\ mailbox'[a][k] = mailbox[a][k]
        BY <1>a, <2>1, <3>2
      <4>. QED  BY <1>t, <2>2, <4>1 DEF MetBox, Remembers
    <3>. QED  BY <3>1, <3>2
  <2>. QED  BY <2>2 DEF MetBox
<1>1. ASSUME NEW t \in Receivers, EnqueueRemote(t) PROVE MetBox(a)'
  <2>. DEFINE b == job[t].at  f == job[t].msg
  <2>1. f \in Frame /\ b = f.actor /\ proxies[f.from][b] # 0
    BY <1>1 DEF EnqueueRemote, Flow, HandsOK, ReceiverHas, MetInv, MetReceiver
  <2>2. b \in Actors
    BY <2>1, FrameIs
  <2>3. mailbox' = mailbox \/ mailbox' = [mailbox EXCEPT ![b] = Append(mailbox[b], f.from)]
    BY <1>1 DEF EnqueueRemote
  <2>. HIDE DEF b, f
  <2>4. CASE mailbox'[a] = mailbox[a]
    BY <1>k, <2>4
  <2>5. CASE mailbox'[a] # mailbox[a]
    <3>1. b = a /\ mailbox'[a] = Append(mailbox[a], f.from)
      BY <1>t, <2>2, <2>3, <2>5
    <3>. QED  BY <1>a, <2>1, <3>1
  <2>. QED  BY <2>4, <2>5
<1>2. ASSUME NEW b \in Actors, LocalSend(b) PROVE MetBox(a)'
  <2>1. CASE b = a
    <3>1. mailbox'[a] = Append(mailbox[a], Local)
      BY <1>2, <1>t, <2>1 DEF LocalSend
    <3>. QED  BY <1>a, <3>1, ConstantsAssumption
  <2>2. CASE b # a
    BY <1>2, <1>k, <1>t, <2>2 DEF LocalSend
  <2>. QED  BY <2>1, <2>2
<1>3. ASSUME NEW b \in Actors, Die(b) PROVE MetBox(a)'
  <2>1. CASE b = a
    <3>1. mailbox'[a] = <<>>
      BY <1>3, <1>t, <2>1 DEF Die
    <3>. QED  BY <3>1 DEF MetBox
  <2>2. CASE b # a
    BY <1>3, <1>k, <1>t, <2>2 DEF Die
  <2>. QED  BY <2>1, <2>2
<1>4. ASSUME NEW w \in Workers, NEW b \in Actors, Dequeue(w, b) PROVE MetBox(a)'
  <2>1. CASE b = a
    <3>1. mailbox'[a] = Tail(mailbox[a]) /\ mailbox[a] # <<>> /\ mailbox[a] \in Seq(Nodes \cup {Local})
      BY <1>4, <1>t, <2>1 DEF Dequeue
    <3>2. \A k \in 1..Len(mailbox'[a]) : k + 1 \in 1..Len(mailbox[a]) /\ mailbox'[a][k] = mailbox[a][k + 1]
      BY <3>1
    <3>3. ASSUME NEW k \in 1..Len(mailbox'[a]), mailbox'[a][k] \in Nodes PROVE proxies'[mailbox'[a][k]][a] # 0
      <4>1. PICK x : x = mailbox'[a][k]
        OBVIOUS
      <4>2. x \in Nodes /\ proxies[x][a] # 0
        BY <1>t, <3>2, <3>3, <4>1 DEF MetBox
      <4>. QED  BY <4>1, <4>2 DEF Remembers
    <3>. QED  BY <3>3 DEF MetBox
  <2>2. CASE b # a
    BY <1>4, <1>k, <1>t, <2>2 DEF Dequeue
  <2>. QED  BY <2>1, <2>2
<1>5. ASSUME ~\E t \in Receivers : EnqueueRemote(t),
             ~\E b \in Actors : LocalSend(b) \/ Die(b) \/ \E w \in Workers : Dequeue(w, b)
      PROVE  mailbox' = mailbox
  BY ZenonT(30), <1>5 DEF Next, Sender, Receiver, Worker, Flush, ImportFinds, Send, ImportMakes, ImportRegisters, ImportMarks, SendAgain,
     TakeCredit, LooksBefore, LooksAfter, LooksIfDead, ParkEnds, Stage, DeliverMsg, DeliverOpen, DeliverGrant,
     OpenRoom, OpenGrants, AddRoute, NodeLeft, SetOutbound, KillNext, TakeOutbox, WireOut, Lose, boxes, vars
<1>. QED  BY <1>1, <1>2, <1>3, <1>4, <1>5, <1>k

LEMMA MetWires == Flow /\ MetInv /\ [Next]_vars => \A m, n \in Nodes : WireIs(m, n)'
<1>. SUFFICES ASSUME Flow, MetInv, [Next]_vars, NEW m \in Nodes, NEW n \in Nodes
              PROVE  WireIs(m, n)'
  OBVIOUS
<1>. USE ConstantsAssumption DEF Threads
<1>t. wire \in [Nodes -> [Nodes -> Seq(Frame)]] /\ WireIs(m, n) /\ wire[m][n] \in Seq(Frame)
  BY DEF Flow, QueuesOK, MetInv
<1>k. ASSUME wire'[m][n] = wire[m][n] PROVE WireIs(m, n)'
  BY <1>k, <1>t DEF WireIs
<1>d. ASSUME NEW i \in Nodes, NEW j \in Nodes, wire[i][j] # <<>>, wire' = [wire EXCEPT ![i][j] = Tail(wire[i][j])]
      PROVE  WireIs(m, n)'
  <2>1. CASE i = m /\ j = n
    <3>1. wire'[m][n] = Tail(wire[m][n])
      BY <1>d, <1>t, <2>1
    <3>2. \A k \in 1..Len(wire'[m][n]) : k + 1 \in 1..Len(wire[m][n]) /\ wire'[m][n][k] = wire[m][n][k + 1]
      BY <1>d, <1>t, <2>1, <3>1
    <3>. QED  BY <1>t, <3>2 DEF WireIs
  <2>2. CASE i # m \/ j # n
    <3>1. wire'[m][n] = wire[m][n]
      BY <1>d, <1>t, <2>2
    <3>. QED  BY <1>k, <3>1
  <2>. QED  BY <2>1, <2>2
<1>1. ASSUME NEW t \in Threads, WireOut(t) PROVE WireIs(m, n)'
  <2>. DEFINE i == Place[t]  f == Head(batch[t])
  <2>1. i \in Nodes /\ batch[t] # <<>> /\ batch[t] \in Seq(Frame) /\ wire' = [wire EXCEPT ![i][f.to] = Append(wire[i][f.to], f)]
    BY <1>1 DEF WireOut, Flow, HandsOK, FlushHas, QueuesOK
  <2>2. f \in Frame /\ f.to \in Nodes
    BY <2>1, FrameIs
  <2>. HIDE DEF i, f
  <2>3. CASE i = m /\ f.to = n
    <3>1. wire'[m][n] = Append(wire[m][n], f)
      BY <1>t, <2>1, <2>3
    <3>2. ASSUME NEW k \in 1..Len(wire'[m][n]) PROVE wire'[m][n][k].to = n
      <4>1. CASE k = Len(wire[m][n]) + 1
        BY <1>t, <2>3, <3>1, <4>1
      <4>2. CASE k # Len(wire[m][n]) + 1
        <5>1. k \in 1..Len(wire[m][n]) /\ wire'[m][n][k] = wire[m][n][k]
          BY <1>t, <3>1, <4>2
        <5>. QED  BY <1>t, <5>1 DEF WireIs
      <4>. QED  BY <4>1, <4>2
    <3>. QED  BY <3>2 DEF WireIs
  <2>4. CASE i # m \/ f.to # n
    <3>1. wire'[m][n] = wire[m][n]
      BY <1>t, <2>1, <2>2, <2>4
    <3>. QED  BY <1>k, <3>1
  <2>. QED  BY <2>3, <2>4
<1>2. ASSUME NEW t \in Receivers, NEW i \in Nodes, DeliverMsg(t, i) \/ DeliverOpen(t, i) \/ DeliverGrant(t, i)
      PROVE  WireIs(m, n)'
  <2>1. Place[t] \in Nodes /\ wire[i][Place[t]] # <<>> /\ wire' = [wire EXCEPT ![i][Place[t]] = Tail(wire[i][Place[t]])]
    BY ZenonT(30), <1>2 DEF DeliverMsg, DeliverOpen, DeliverGrant, Takes, Heard
  <2>. QED  BY ZenonT(30), <1>d, <2>1
<1>3. ASSUME NEW i \in Nodes, NEW j \in Nodes, Lose(i, j) PROVE WireIs(m, n)'
  BY ZenonT(30), <1>3, <1>d DEF Lose
<1>4. ASSUME ~\E t \in Threads : WireOut(t), ~\E i, j \in Nodes : Lose(i, j),
             ~\E t \in Receivers, i \in Nodes : DeliverMsg(t, i) \/ DeliverOpen(t, i) \/ DeliverGrant(t, i)
      PROVE  wire' = wire
  BY ZenonT(30), <1>4 DEF Next, Sender, Receiver, Worker, Flush, ImportFinds, Send, ImportMakes, ImportRegisters, ImportMarks, SendAgain,
     TakeCredit, LooksBefore, LooksAfter, LooksIfDead, ParkEnds, Stage, EnqueueRemote, LocalSend, Die, Dequeue,
     OpenRoom, OpenGrants, AddRoute, NodeLeft, SetOutbound, KillNext, TakeOutbox, vars
<1>. QED  BY <1>1, <1>2, <1>3, <1>4, <1>k

\* A thread's step moves no other thread.
LEMMA OthersRest ==
    ASSUME Shape, NEW t \in Threads,
           (t \in Senders /\ Sender(t)) \/ (t \in Receivers /\ Receiver(t)) \/ (t \in Workers /\ Worker(t))
    PROVE  \A u \in Threads : u # t => pc'[u] = pc[u] /\ job'[u] = job[u]
<1>t. pc \in [Threads -> Labels] /\ DOMAIN job = Threads
  BY DEF Shape, TablesOK, ThreadsOK
<1>g. ASSUME \E l : Goto(t, l), job' = job PROVE \A u \in Threads : u # t => pc'[u] = pc[u] /\ job'[u] = job[u]
  BY <1>g, <1>t DEF Goto
<1>w. ASSUME \E l, j : Works(t, l, j) PROVE \A u \in Threads : u # t => pc'[u] = pc[u] /\ job'[u] = job[u]
  BY <1>w, <1>t DEF Works, Goto
<1>s. ASSUME pc' = pc, job' = job PROVE \A u \in Threads : u # t => pc'[u] = pc[u] /\ job'[u] = job[u]
  BY <1>s
<1>1. ASSUME Sender(t) PROVE \A u \in Threads : u # t => pc'[u] = pc[u] /\ job'[u] = job[u]
  <2>1. CASE \E a \in Actors : ImportFinds(t, a) \/ Send(t, a)
    BY <1>w, <1>s, <2>1 DEF ImportFinds, Send, Tries, Idle
  <2>2. CASE ImportMakes(t) \/ ImportRegisters(t) \/ ImportMarks(t) \/ SendAgain(t) \/ Stage(t)
    BY <1>w, <1>g, <2>2 DEF ImportMakes, ImportRegisters, ImportMarks, SendAgain, Tries, Stage, ThenFlush, Idle
  <2>3. CASE TakeCredit(t) \/ LooksBefore(t) \/ LooksAfter(t) \/ ParkEnds(t)
    BY <1>w, <1>g, <2>3 DEF TakeCredit, LooksBefore, LooksAfter, LooksIfDead, ParkEnds, Idle
  <2>. QED  BY <1>1, <2>1, <2>2, <2>3 DEF Sender
<1>2. ASSUME Receiver(t) PROVE \A u \in Threads : u # t => pc'[u] = pc[u] /\ job'[u] = job[u]
  <2>1. CASE \E m \in Nodes : DeliverMsg(t, m) \/ DeliverOpen(t, m) \/ DeliverGrant(t, m)
    BY <1>w, <1>s, <2>1 DEF DeliverMsg, DeliverOpen, DeliverGrant
  <2>2. CASE EnqueueRemote(t) \/ OpenRoom(t) \/ OpenGrants(t)
    BY <1>w, <2>2 DEF EnqueueRemote, OpenRoom, OpenGrants, ThenFlush, Idle
  <2>. QED  BY <1>2, <2>1, <2>2 DEF Receiver
<1>3. ASSUME Worker(t) PROVE \A u \in Threads : u # t => pc'[u] = pc[u] /\ job'[u] = job[u]
  <2>1. CASE \/ \E a \in Actors : Dequeue(t, a)
             \/ \E m \in Nodes : AddRoute(t, m) \/ NodeLeft(t, m)
             \/ SetOutbound(t)
    BY <1>w, <1>g, <2>1 DEF Dequeue, AddRoute, NodeLeft, SetOutbound, ThenFlush
  <2>2. CASE KillNext(t)
    BY <1>w, <2>2 DEF KillNext, Idle
  <2>. QED  BY <1>3, <2>1, <2>2 DEF Worker
<1>. QED  BY <1>1, <1>2, <1>3

LEMMA MetReceivers == Shape /\ Flow /\ MetInv /\ Remembers /\ [Next]_vars => \A t \in Receivers : MetReceiver(t)'
<1>. SUFFICES ASSUME Shape, Flow, MetInv, Remembers, [Next]_vars, NEW t \in Receivers
              PROVE  MetReceiver(t)'
  OBVIOUS
<1>. USE ConstantsAssumption DEF Threads
<1>t. /\ pc \in [Threads -> Labels] /\ DOMAIN job = Threads /\ t \in Threads /\ MetReceiver(t) /\ ReceiverHas(t)
      /\ Place[t] \in Nodes
  BY DEF Shape, TablesOK, ThreadsOK, MetInv, Flow, HandsOK
<1>k. ASSUME pc'[t] \in {"queue", "room", "grant"} => pc'[t] = pc[t] /\ job'[t] = job[t] PROVE MetReceiver(t)'
  <2>1. ASSUME pc'[t] = "queue" PROVE proxies'[job'[t].msg.from][job'[t].at] # 0
    <3>1. pc[t] = "queue" /\ job'[t] = job[t] /\ job[t].msg \in Frame /\ job[t].at = job[t].msg.actor
      BY <1>k, <1>t, <2>1 DEF ReceiverHas
    <3>2. job[t].msg.from \in Nodes /\ job[t].at \in Actors
      BY <3>1, FrameIs
    <3>. QED  BY <1>t, <3>1, <3>2 DEF MetReceiver, Remembers
  <2>2. ASSUME pc'[t] \in {"room", "grant"} PROVE proxies'[job'[t].from][job'[t].at] # 0
    BY <1>k, <1>t, <2>2 DEF ReceiverHas, MetReceiver, Remembers
  <2>. QED  BY <2>1, <2>2 DEF MetReceiver
<1>1. ASSUME NEW m \in Nodes, DeliverMsg(t, m) \/ DeliverOpen(t, m) PROVE MetReceiver(t)'
  <2>. DEFINE f == Head(wire[m][Place[t]])
  <2>1. Leaves(m, Place[t])
    BY <1>1 DEF DeliverMsg, DeliverOpen, Takes, Heard, Leaves, staged
  <2>2. f \in Frame /\ MetFrame(f) /\ f.kind # "grant"
    BY <1>1, <1>t, <2>1, HeadMet DEF DeliverMsg, DeliverOpen, Heard
  <2>3. proxies[f.from][f.actor] # 0 /\ f.from \in Nodes /\ f.actor \in Actors
    BY <2>2, FrameIs DEF MetFrame
  <2>4. \/ pc'[t] = "queue" /\ job'[t] = [at |-> f.actor, msg |-> f]
        \/ pc'[t] = "room" /\ job'[t] = [at |-> f.actor, from |-> f.from, queued |-> Len(mailbox[f.actor])]
    BY <1>1, <1>t DEF DeliverMsg, DeliverOpen, Heard, Works, Goto
  <2>. HIDE DEF f
  <2>. QED  BY <2>3, <2>4 DEF MetReceiver, Remembers
<1>2. ASSUME OpenRoom(t) PROVE MetReceiver(t)'
  <2>1. pc'[t] = "grant" /\ job'[t].at = job[t].at /\ job'[t].from = job[t].from /\ pc[t] = "room"
    BY <1>2, <1>t DEF OpenRoom, Works, Goto
  <2>. QED  BY <1>t, <2>1 DEF ReceiverHas, MetReceiver, Remembers
<1>3. ASSUME \/ \E m \in Nodes : DeliverGrant(t, m)
             \/ EnqueueRemote(t) \/ OpenGrants(t)
      PROVE  MetReceiver(t)'
  <2>1. pc'[t] \notin {"queue", "room", "grant"}
    BY ZenonT(30), <1>3, <1>t DEF DeliverGrant, EnqueueRemote, OpenGrants, Takes, ThenFlush, Idle, Works, Goto
  <2>. QED  BY <1>k, <2>1
<1>4. ASSUME \/ \E s \in Senders : Sender(s)
             \/ \E u \in Receivers : u # t /\ Receiver(u)
             \/ \E w \in Workers : Worker(w)
      PROVE  MetReceiver(t)'
  <2>1. pc'[t] = pc[t] /\ job'[t] = job[t]
    BY <1>4, <1>t, OthersRest
  <2>. QED  BY <1>k, <2>1
<1>5. ASSUME \/ \E u \in Threads : Flush(u)
             \/ \E a \in Actors : LocalSend(a) \/ Die(a)
             \/ \E m, n \in Nodes : Lose(m, n)
             \/ UNCHANGED vars
      PROVE  MetReceiver(t)'
  <2>1. CASE \E u \in Threads : Flush(u)
    BY <1>t, <1>k, <2>1 DEF Flush, TakeOutbox, WireOut, Goto
  <2>2. CASE ~\E u \in Threads : Flush(u)
    BY <1>5, <1>k, <2>2 DEF LocalSend, Die, Lose, vars, thread
  <2>. QED  BY <2>1, <2>2
<1>. QED  BY <1>1, <1>2, <1>3, <1>4, <1>5 DEF Next, Receiver

LEMMA MetSenders == Shape /\ AgreeInv /\ MetInv /\ Remembers /\ [Next]_vars => \A s \in Senders : MetSender(s)'
<1>. SUFFICES ASSUME Shape, AgreeInv, MetInv, Remembers, [Next]_vars, NEW s \in Senders
              PROVE  MetSender(s)'
  OBVIOUS
<1>. USE ConstantsAssumption DEF Threads
<1>t. /\ pc \in [Threads -> Labels] /\ DOMAIN job = Threads /\ s \in Threads /\ MetSender(s) /\ SenderOK(s)
      /\ Place[s] \in Nodes
  BY DEF Shape, TablesOK, ThreadsOK, JobsOK, MetInv
<1>k. ASSUME pc'[s] \in SendLabels => pc[s] \in SendLabels /\ job'[s] = job[s] PROVE MetSender(s)'
  <2>1. ASSUME pc[s] \in SendLabels PROVE proxies[Place[s]][job[s].at] # 0 /\ job[s].at \in Actors
    BY <1>t, <2>1 DEF MetSender, SenderOK, Entries
  <2>. QED  BY <1>k, <1>t, <2>1 DEF MetSender, Remembers
<1>n. ASSUME NEW a \in Actors, NEW k, holds[s][a] # 0, Tries(s, a, k) PROVE MetSender(s)'
  <2>1. holds[s][a] = proxies[Place[s]][a]
    BY <1>n DEF AgreeInv, AddressesAgree
  <2>2. pc'[s] \in SendLabels => job'[s].at = a /\ job'[s].idx = holds[s][a]
    BY <1>n, <1>t DEF Tries, Idle, Works, Goto, SendLabels
  <2>. QED  BY <1>n, <1>t, <2>1, <2>2 DEF MetSender, Remembers
<1>1. ASSUME NEW a \in Actors, Send(s, a) PROVE MetSender(s)'
  BY <1>1, <1>n DEF Send
<1>2. ASSUME SendAgain(s) PROVE MetSender(s)'
  <2>1. job[s].at \in Actors /\ holds[s][job[s].at] # 0
    BY <1>2, <1>t DEF SendAgain, SenderOK, SendLabels
  <2>. QED  BY <1>2, <1>n, <2>1 DEF SendAgain
<1>3. ASSUME \/ \E a \in Actors : ImportFinds(s, a)
             \/ ImportMakes(s) \/ ImportRegisters(s) \/ ImportMarks(s) \/ TakeCredit(s)
             \/ LooksBefore(s) \/ LooksAfter(s) \/ ParkEnds(s) \/ Stage(s)
      PROVE  MetSender(s)'
  <2>1. CASE (\E a \in Actors : ImportFinds(s, a)) \/ ImportMakes(s) \/ ImportRegisters(s) \/ ImportMarks(s) \/ Stage(s)
    BY <1>t, <1>k, <2>1 DEF ImportFinds, ImportMakes, ImportRegisters, ImportMarks, Stage, ThenFlush, Works, Goto, SendLabels
  <2>2. CASE TakeCredit(s) \/ LooksBefore(s) \/ LooksAfter(s) \/ ParkEnds(s)
    BY <1>t, <1>k, <2>2 DEF TakeCredit, LooksBefore, LooksAfter, LooksIfDead, ParkEnds, Idle, Works, Goto, SendLabels
  <2>. QED  BY <1>3, <2>1, <2>2
<1>4. ASSUME \/ \E u \in Senders : u # s /\ Sender(u)
             \/ \E u \in Receivers : Receiver(u)
             \/ \E w \in Workers : Worker(w)
      PROVE  MetSender(s)'
  <2>1. pc'[s] = pc[s] /\ job'[s] = job[s]
    BY <1>4, <1>t, OthersRest
  <2>. QED  BY <1>k, <2>1
<1>5. ASSUME \/ \E u \in Threads : Flush(u)
             \/ \E a \in Actors : LocalSend(a) \/ Die(a)
             \/ \E m, n \in Nodes : Lose(m, n)
             \/ UNCHANGED vars
      PROVE  MetSender(s)'
  <2>1. CASE \E u \in Threads : Flush(u)
    BY <1>t, <1>k, <2>1 DEF Flush, TakeOutbox, WireOut, Goto, SendLabels
  <2>2. CASE ~\E u \in Threads : Flush(u)
    BY <1>5, <1>k, <2>2 DEF LocalSend, Die, Lose, vars, thread
  <2>. QED  BY <2>1, <2>2
<1>. QED  BY <1>1, <1>2, <1>3, <1>4, <1>5 DEF Next, Sender

\* Which steps stage a frame, and which take one off the wire; all others move some.
LEMMA RegisterAdds ==
    ASSUME Shape, Flow, NEW s \in Senders, ImportRegisters(s), ~ImportedNow(Place[s], job[s].at)
    PROVE  /\ Place[s] \in Nodes /\ job[s].at \in Actors /\ job[s].idx \in Entries
           /\ OpenFrame(job[s].at, Place[s]) \in Frame
           /\ Adds(Q, Q', OpenFrame(job[s].at, Place[s]))
<1>1. /\ Place[s] \in Nodes /\ job[s].at \in Actors /\ job[s].idx \in Entries /\ wire' = wire /\ batch' = batch
      /\ StageIn(Place[s], OpenFrame(job[s].at, Place[s]))
  BY ConstantsAssumption DEF Threads, Shape, JobsOK, SenderOK, ImportRegisters
<1>2. OpenFrame(job[s].at, Place[s]) \in Frame
  BY <1>1, FramesMade
<1>. QED  BY <1>1, <1>2, StageInAdds DEF Flow
LEMMA StageAdds ==
    ASSUME Shape, Flow, NEW s \in Senders, Stage(s)
    PROVE  LET f == MsgFrame(job[s].at, Place[s], s, job[s].no) IN
           Place[s] \in Nodes /\ job[s].at \in Actors /\ f \in Frame /\ Adds(Q, Q', f)
<1>. DEFINE f == MsgFrame(job[s].at, Place[s], s, job[s].no)
<1>1. /\ job[s].at \in Actors /\ Place[s] \in Nodes /\ job[s].no \in 1..MaxSends /\ wire' = wire /\ batch' = batch
      /\ StageIn(Place[s], f)
  BY ConstantsAssumption DEF Threads, Shape, JobsOK, SenderOK, SendLabels, Flow, CountsOK, HandsOK, SenderHas, Stage
<1>2. f \in Frame
  BY <1>1, FramesMade
<1>. HIDE DEF f
<1>3. Adds(Q, Q', f)
  BY <1>1, <1>2, StageInAdds DEF Flow
<1>. QED  BY <1>1, <1>2, <1>3 DEF f
LEMMA GrantAdds ==
    ASSUME Flow, NEW a \in Actors, NEW n \in Nodes, NEW k \in Nat, Grant(a, n, k), UNCHANGED <<wire, batch>>
    PROVE  GrantFrame(a, n, k) \in Frame /\ Adds(Q, Q', GrantFrame(a, n, k))
<1>1. Home[a] \in Nodes /\ StageIn(Home[a], GrantFrame(a, n, k)) /\ GrantFrame(a, n, k) \in Frame
  BY ConstantsAssumption, FramesMade DEF Grant
<1>. DEFINE f == GrantFrame(a, n, k)
<1>2. f \in Frame /\ StageIn(Home[a], f) /\ Home[a] \in Nodes
  BY <1>1
<1>. HIDE DEF f
<1>3. Adds(Q, Q', f)
  BY <1>2, StageInAdds DEF Flow
<1>. QED  BY <1>2, <1>3 DEF f
LEMMA TakesLeaves ==
    ASSUME NEW t \in Receivers, NEW m \in Nodes, DeliverMsg(t, m) \/ DeliverOpen(t, m) \/ DeliverGrant(t, m)
    PROVE  Place[t] \in Nodes /\ Leaves(m, Place[t])
  BY ZenonT(30), ConstantsAssumption DEF Threads, DeliverMsg, DeliverOpen, DeliverGrant, Takes, Heard, Leaves, staged

Registers == \E s \in Senders : ImportRegisters(s) /\ ~ImportedNow(Place[s], job[s].at)
Grants ==
    \/ \E t \in Receivers : OpenGrants(t)
    \/ \E w \in Workers, a \in Actors : Dequeue(w, a) /\ Head(mailbox[a]) \in Nodes
Receives ==
    \/ \E t \in Receivers, m \in Nodes : DeliverMsg(t, m) \/ DeliverOpen(t, m) \/ DeliverGrant(t, m)
    \/ \E m, n \in Nodes : Lose(m, n)
LEMMA SameMoves == ASSUME NEW q PROVE Moves(q, q)
<1>. DEFINE g == [x \in SlotsIn(q) |-> x]
<1>1. g \in Bijection(SlotsIn(q), SlotsIn(q))
  BY Fun_IsBij
<1>2. \A x \in SlotsIn(q) : At(q, g[x]) = At(q, x)
  OBVIOUS
<1>. HIDE DEF g
<1>. QED  BY <1>1, <1>2 DEF Moves
LEMMA OthersMove ==
    ASSUME Flow, [Next]_vars, ~Registers, ~Grants, ~Receives, ~\E s \in Senders : Stage(s)
    PROVE  Moves(Q, Q')
<1>. USE ConstantsAssumption DEF Threads
<1>q. ASSUME UNCHANGED <<parked, outbox, batch, wire>> PROVE Moves(Q, Q')
  BY <1>q, QueuesStay, SameMoves
<1>1. ASSUME NEW s \in Senders, Sender(s) PROVE Moves(Q, Q')
  <2>1. CASE ImportRegisters(s)
    <3>1. ImportedNow(Place[s], job[s].at)
      BY <2>1 DEF Registers
    <3>. QED  BY <1>q, <2>1, <3>1 DEF ImportRegisters, staged
  <2>2. CASE ~ImportRegisters(s)
    BY <1>1, <1>q, <2>2 DEF Sender, ImportFinds, Send, ImportMakes, ImportMarks, SendAgain, TakeCredit, LooksBefore, LooksAfter,
       LooksIfDead, ParkEnds, staged
  <2>. QED  BY <2>1, <2>2
<1>2. ASSUME NEW t \in Receivers, Receiver(t) PROVE Moves(Q, Q')
  <2>1. EnqueueRemote(t) \/ OpenRoom(t)
    BY <1>2 DEF Receiver, Receives, Grants
  <2>. QED  BY <1>q, <2>1 DEF EnqueueRemote, OpenRoom, staged
<1>3. ASSUME NEW w \in Workers, Worker(w) PROVE Moves(Q, Q')
  <2>1. CASE \E a \in Actors : Dequeue(w, a)
    BY <1>q, <2>1 DEF Grants, Dequeue, CreditBack, staged
  <2>2. CASE (\E m \in Nodes : AddRoute(w, m)) \/ SetOutbound(w)
    <3>1. Restage(Place[w]) /\ wire' = wire /\ batch' = batch /\ Place[w] \in Nodes
      BY <2>2 DEF AddRoute, SetOutbound
    <3>. QED  BY <3>1, RestageMoves DEF Flow
  <2>3. CASE (\E m \in Nodes : NodeLeft(w, m)) \/ KillNext(w)
    BY <1>q, <2>3 DEF NodeLeft, KillNext, staged
  <2>. QED  BY <1>3, <2>1, <2>2, <2>3 DEF Worker
<1>4. ASSUME NEW t \in Threads, Flush(t) PROVE Moves(Q, Q')
  <2>1. FlushHas(t) /\ QueuesOK
    BY DEF Flow, HandsOK
  <2>2. CASE TakeOutbox(t)
    BY <2>1, <2>2, TakeOutboxMoves DEF FlushHas, TakeOutbox
  <2>3. CASE WireOut(t)
    BY <2>1, <2>3, WireOutMoves DEF FlushHas, WireOut
  <2>. QED  BY <1>4, <2>2, <2>3 DEF Flush
<1>5. ASSUME \/ \E a \in Actors : LocalSend(a) \/ Die(a)
             \/ UNCHANGED vars
      PROVE  Moves(Q, Q')
  BY <1>5, <1>q DEF LocalSend, Die, vars, staged, thread
<1>. QED  BY <1>1, <1>2, <1>3, <1>4, <1>5 DEF Next, Receives

LEMMA MetFrames == Shape /\ Flow /\ MetInv /\ Remembers /\ [Next]_vars => \A f \in FramesIn(Q') : MetFrame(f)'
<1>. SUFFICES ASSUME Shape, Flow, MetInv, Remembers, [Next]_vars PROVE \A f \in FramesIn(Q') : MetFrame(f)'
  OBVIOUS
<1>k. ASSUME NEW f \in FramesIn(Q) PROVE MetFrame(f)'
  <2>1. f \in Frame /\ MetFrame(f)
    BY FramesInQ DEF Flow, MetInv
  <2>. QED  BY <2>1, FrameIs DEF MetFrame, Remembers
<1>1. ASSUME NEW s \in Senders, ImportRegisters(s), ~ImportedNow(Place[s], job[s].at)
      PROVE  \A f \in FramesIn(Q') : MetFrame(f)'
  <2>. DEFINE n == Place[s]  a == job[s].at  i == job[s].idx
  <2>1. PICK g : g = OpenFrame(a, n)
    OBVIOUS
  <2>2. n \in Nodes /\ a \in Actors /\ i \in Entries /\ FramesIn(Q') \subseteq FramesIn(Q) \cup {g}
    <3>1. n \in Nodes /\ a \in Actors /\ i \in Entries /\ Adds(Q, Q', g)
      BY <1>1, <2>1, RegisterAdds
    <3>. QED  BY <3>1, FramesMoved
  <2>3. proxies' = [proxies EXCEPT ![n][a] = i] /\ proxies \in [Nodes -> [Actors -> 0..MaxEntries]]
    BY <1>1 DEF ImportRegisters, Shape, TablesOK, BooksOK
  <2>4. g.kind # "grant" /\ g.from = n /\ g.actor = a
    BY <2>1 DEF OpenFrame
  <2>. HIDE DEF n, a, i
  <2>5. proxies'[n][a] # 0
    BY <2>2, <2>3 DEF Entries
  <2>. QED  BY <1>k, <2>2, <2>4, <2>5 DEF MetFrame
<1>2. ASSUME NEW s \in Senders, Stage(s) PROVE \A f \in FramesIn(Q') : MetFrame(f)'
  <2>1. PICK g : g = MsgFrame(job[s].at, Place[s], s, job[s].no)
    OBVIOUS
  <2>2. Place[s] \in Nodes /\ job[s].at \in Actors /\ FramesIn(Q') \subseteq FramesIn(Q) \cup {g}
    <3>1. Place[s] \in Nodes /\ job[s].at \in Actors /\ Adds(Q, Q', g)
      BY <1>2, <2>1, StageAdds
    <3>. QED  BY <3>1, FramesMoved
  <2>3. proxies[Place[s]][job[s].at] # 0
    BY <1>2 DEF Stage, MetInv, MetSender, Shape, JobsOK, SenderOK, SendLabels, Entries
  <2>4. g.kind # "grant" /\ g.from = Place[s] /\ g.actor = job[s].at
    BY <2>1 DEF MsgFrame
  <2>. QED  BY <1>k, <2>2, <2>3, <2>4 DEF MetFrame, Remembers
<1>3. ASSUME NEW a \in Actors, NEW n \in Nodes, NEW k \in Nat, Grant(a, n, k), UNCHANGED <<wire, batch>>,
             proxies[n][a] # 0
      PROVE  \A f \in FramesIn(Q') : MetFrame(f)'
  <2>1. PICK g : g = GrantFrame(a, n, k)
    OBVIOUS
  <2>2. FramesIn(Q') \subseteq FramesIn(Q) \cup {g}
    BY <1>3, <2>1, GrantAdds, FramesMoved
  <2>3. g.kind = "grant" /\ g.to = n /\ g.actor = a
    BY <2>1 DEF GrantFrame
  <2>. QED  BY <1>k, <1>3, <2>2, <2>3 DEF MetFrame, Remembers
<1>4. ASSUME NEW t \in Receivers, OpenGrants(t) PROVE \A f \in FramesIn(Q') : MetFrame(f)'
  <2>1. job[t].at \in Actors /\ job[t].from \in Nodes /\ job[t].n \in Nat /\ proxies[job[t].from][job[t].at] # 0
    BY <1>4 DEF OpenGrants, Flow, HandsOK, ReceiverHas, MetInv, MetReceiver
  <2>. QED  BY <1>3, <1>4, <2>1 DEF OpenGrants
<1>5. ASSUME NEW w \in Workers, NEW a \in Actors, Dequeue(w, a), Head(mailbox[a]) \in Nodes
      PROVE  \A f \in FramesIn(Q') : MetFrame(f)'
  <2>1. mailbox[a] \in Seq(Nodes \cup {Local}) /\ mailbox[a] # <<>>
    BY <1>5 DEF Flow, BoxesOK, Dequeue
  <2>2. Head(mailbox[a]) = mailbox[a][1] /\ 1 \in 1..Len(mailbox[a])
    BY <2>1
  <2>3. proxies[Head(mailbox[a])][a] # 0
    BY <1>5, <2>2 DEF MetInv, MetBox
  <2>. QED  BY <1>3, <1>5, <2>3 DEF Dequeue, CreditBack
<1>6. ASSUME Receives PROVE \A f \in FramesIn(Q') : MetFrame(f)'
  <2>1. \E m, n \in Nodes : Leaves(m, n)
    <3>1. CASE \E m, n \in Nodes : Lose(m, n)
      BY <3>1 DEF Lose, Leaves, staged, thread
    <3>. QED  BY <1>6, <3>1, TakesLeaves DEF Receives
  <2>. QED  BY <1>k, <2>1, HeadMet
<1>7. ASSUME Moves(Q, Q') PROVE \A f \in FramesIn(Q') : MetFrame(f)'
  BY <1>k, <1>7, FramesMoved
<1>. QED  BY <1>1, <1>2, <1>4, <1>5, <1>6, <1>7, OthersMove DEF Registers, Grants

Met == MetInv /\ FreshInv /\ AgreeInv
LEMMA MetStep == Shape /\ Flow /\ Met /\ [Next]_vars => Met'
<1>. SUFFICES ASSUME Shape, Flow, Met, [Next]_vars PROVE Met'
  OBVIOUS
<1>1. FreshInv' /\ AgreeInv' /\ Remembers
  BY FreshStep, AgreeStep, RemembersStep DEF Met
<1>2. MetInv'
  <2>1. \A f \in FramesIn(Q') : MetFrame(f)'
    BY <1>1, MetFrames DEF Met
  <2>2. \A m, n \in Nodes : WireIs(m, n)'
    BY MetWires DEF Met
  <2>3. \A a \in Actors : MetBox(a)'
    BY <1>1, MetBoxes DEF Met
  <2>4. \A t \in Receivers : MetReceiver(t)'
    BY <1>1, MetReceivers DEF Met
  <2>5. \A s \in Senders : MetSender(s)'
    BY <1>1, MetSenders DEF Met
  <2>6. FramesIn(Q)' = FramesIn(Q')
    BY DEF FramesIn, At, SlotsIn
  <2>. QED  BY <2>1, <2>2, <2>3, <2>4, <2>5, <2>6 DEF MetInv
<1>. QED  BY <1>1, <1>2 DEF Met
LEMMA InitMet == Init => Met
<1>. SUFFICES ASSUME Init PROVE Met
  OBVIOUS
<1>. USE ConstantsAssumption DEF Threads
<1>1. FramesIn(Q) = {}
  BY EmptyAtFirst DEF FramesIn
<1>2. MetInv
  BY <1>1 DEF Init, MetInv, MetFrame, WireIs, MetBox, MetReceiver, MetSender, SendLabels
<1>3. FreshInv
  BY DEF Init, FreshInv, Fresh
<1>4. AgreeInv
  BY DEF Init, AgreeInv, AddressesAgree
<1>. QED  BY <1>2, <1>3, <1>4 DEF Met
==============================================================================
