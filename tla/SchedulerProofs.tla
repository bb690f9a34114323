---------------------------- MODULE SchedulerProofs ----------------------------
(***************************************************************************)
(* Safety of the scheduler for every set of actors, pools and threads,     *)
(* every program, and any number of tokens, waiter records and spurious    *)
(* returns of park: types, nesting, single activations, sleepers, the      *)
(* dead; and, for the modules on top of this one, where the tokens of the  *)
(* replies are and how a step moves them.                                  *)
(***************************************************************************)
EXTENDS Scheduler, SequenceTheorems, TLAPS

(***************************************************************************)
(* Sequences.                                                              *)
(***************************************************************************)
\* Taking the last element off, and what remains.
LEMMA FrontProperties ==
    ASSUME NEW S, NEW s \in Seq(S)
    PROVE  /\ Front(s) \in Seq(S)
           /\ s # <<>> => /\ Len(Front(s)) = Len(s) - 1
                          /\ \A i \in 1 .. Len(s) - 1 : Front(s)[i] = s[i]
                          /\ Last(s) \in S /\ Last(s) = s[Len(s)]
<1>1. Len(s) \in Nat /\ DOMAIN s = 1 .. Len(s)
  BY LenProperties
<1>2. \A i \in 1 .. Len(s) - 1 : s[i] \in S
  BY <1>1, ElementOfSeq
<1>3. /\ SubSeq(s, 1, Len(s) - 1) \in Seq(S)
      /\ Len(SubSeq(s, 1, Len(s) - 1)) = IF 1 <= Len(s) - 1 THEN Len(s) - 1 ELSE 0
      /\ \A i \in 1 .. Len(s) - 1 : SubSeq(s, 1, Len(s) - 1)[i] = s[i]
  BY <1>1, <1>2, SubSeqProperties, Z3
<1>4. s # <<>> => Len(s) >= 1 /\ Last(s) \in S
  BY <1>1, EmptySeq, ElementOfSeq DEF Last
<1>. QED  BY <1>1, <1>3, <1>4 DEF Front, Last

\* Replacing the last element.
LEMMA ReplaceLast ==
    ASSUME NEW S, NEW s \in Seq(S), s # <<>>, NEW e \in S
    PROVE  /\ Append(Front(s), e) \in Seq(S)
           /\ Len(Append(Front(s), e)) = Len(s)
           /\ \A i \in 1 .. Len(s) - 1 : Append(Front(s), e)[i] = s[i]
           /\ Append(Front(s), e)[Len(s)] = e
<1>1. Len(s) \in Nat \ {0}
  BY EmptySeq
<1>. QED  BY <1>1, FrontProperties, AppendProperties

\* Removing one element.
LEMMA RemoveAtSeq ==
    ASSUME NEW S, NEW s \in Seq(S), NEW k \in DOMAIN s
    PROVE  RemoveAt(s, k) \in Seq(S)
<1>1. Len(s) \in Nat /\ k \in 1 .. Len(s)
  BY LenProperties
<1>2. SubSeq(s, 1, k - 1) \in Seq(S) /\ SubSeq(s, k + 1, Len(s)) \in Seq(S)
  BY <1>1, ElementOfSeq, SubSeqProperties
<1>. QED  BY <1>2, ConcatProperties DEF RemoveAt

\* What a sequence holds after an append, and after its head is taken.
LEMMA ToSetAppend ==
    ASSUME NEW S, NEW s \in Seq(S), NEW e \in S
    PROVE  ToSet(Append(s, e)) = ToSet(s) \cup {e}
BY LenProperties, AppendProperties DEF ToSet

\* A sequence holds its head and what its tail holds.
LEMMA ToSetTail ==
    ASSUME NEW S, NEW s \in Seq(S), s # <<>>
    PROVE  ToSet(s) = ToSet(Tail(s)) \cup {Head(s)}
<1>1. /\ Len(s) \in Nat \ {0} /\ DOMAIN s = 1 .. Len(s)
      /\ Tail(s) \in Seq(S) /\ DOMAIN Tail(s) = 1 .. Len(s) - 1
      /\ \A i \in 1 .. Len(s) - 1 : Tail(s)[i] = s[i + 1]
      /\ Head(s) = s[1]
  BY EmptySeq, LenProperties, HeadTailProperties
<1>2. ToSet(s) \subseteq ToSet(Tail(s)) \cup {Head(s)}
  <2>1. SUFFICES ASSUME NEW i \in 1 .. Len(s)
                 PROVE  s[i] \in ToSet(Tail(s)) \cup {Head(s)}
    BY <1>1 DEF ToSet
  <2>2. CASE i = 1
    BY <1>1, <2>2
  <2>3. CASE i # 1
    <3>1. i - 1 \in DOMAIN Tail(s) /\ Tail(s)[i - 1] = s[i]
      BY <1>1, <2>3
    <3>. QED  BY <3>1 DEF ToSet
  <2>. QED  BY <2>2, <2>3
<1>3. ToSet(Tail(s)) \cup {Head(s)} \subseteq ToSet(s)
  BY <1>1 DEF ToSet
<1>. QED  BY <1>2, <1>3

\* A sequence over S holds elements of S.
LEMMA ToSetSeq ==
    ASSUME NEW S, NEW s \in Seq(S)
    PROVE  ToSet(s) \subseteq S
BY LenProperties, ElementOfSeq DEF ToSet

\* What is left of a sequence when one element is taken out.
LEMMA RemoveAtProperties ==
    ASSUME NEW S, NEW s \in Seq(S), NEW k \in DOMAIN s
    PROVE  /\ RemoveAt(s, k) \in Seq(S) /\ Len(RemoveAt(s, k)) = Len(s) - 1
           /\ \A i \in 1 .. Len(s) - 1 : RemoveAt(s, k)[i] = IF i < k THEN s[i] ELSE s[i + 1]
<1>. DEFINE r == SubSeq(s, 1, k - 1)
            u == SubSeq(s, k + 1, Len(s))
<1>1. Len(s) \in Nat /\ k \in 1 .. Len(s)
  BY LenProperties
<1>2. r \in Seq(S) /\ Len(r) = k - 1 /\ \A i \in 1 .. k - 1 : r[i] = s[i]
  BY <1>1, ElementOfSeq, SubSeqProperties
<1>3. u \in Seq(S) /\ Len(u) = Len(s) - k /\ \A i \in 1 .. Len(s) - k : u[i] = s[k + i]
  BY <1>1, ElementOfSeq, SubSeqProperties
<1>4. RemoveAt(s, k) = r \o u
  BY DEF RemoveAt
<1>. HIDE DEF r, u
<1>. DEFINE v == r \o u
<1>5. /\ v \in Seq(S) /\ Len(v) = Len(r) + Len(u)
      /\ \A i \in 1 .. Len(r) + Len(u) : v[i] = IF i <= Len(r) THEN r[i] ELSE u[i - Len(r)]
  BY <1>2, <1>3, ConcatProperties
<1>. HIDE DEF v
<1>6. ASSUME NEW i \in 1 .. Len(s) - 1
      PROVE  v[i] = IF i < k THEN s[i] ELSE s[i + 1]
  <2>1. i \in 1 .. Len(r) + Len(u)
    BY <1>1, <1>2, <1>3
  <2>2. CASE i < k
    <3>1. i \in 1 .. k - 1 /\ i <= Len(r)
      BY <1>1, <1>2, <2>2
    <3>. QED  BY <1>2, <1>5, <2>1, <2>2, <3>1
  <2>3. CASE ~(i < k)
    <3>1. i - Len(r) \in 1 .. Len(s) - k /\ ~(i <= Len(r)) /\ k + (i - Len(r)) = i + 1
      BY <1>1, <1>2, <2>3
    <3>2. v[i] = u[i - Len(r)]
      BY <1>5, <2>1, <3>1
    <3>3. u[i - Len(r)] = s[k + (i - Len(r))]
      BY <1>3, <3>1
    <3>. QED  BY <2>3, <3>1, <3>2, <3>3
  <2>. QED  BY <2>2, <2>3
<1>7. Len(v) = Len(s) - 1
  BY <1>1, <1>2, <1>3, <1>5
<1>. QED  BY <1>4, <1>5, <1>6, <1>7 DEF v

\* Writing to a record of a table, or past its end, leaves it a table.
LEMMA ExceptAnywhere ==
    ASSUME NEW S, NEW s \in Seq(S), NEW i, NEW e, i \in DOMAIN s => e \in S
    PROVE  /\ [s EXCEPT ![i] = e] \in Seq(S)
           /\ Len([s EXCEPT ![i] = e]) = Len(s)
           /\ DOMAIN [s EXCEPT ![i] = e] = DOMAIN s
           /\ i \in DOMAIN s => [s EXCEPT ![i] = e][i] = e
           /\ \A j \in DOMAIN s : j # i => [s EXCEPT ![i] = e][j] = s[j]
<1>1. Len(s) \in Nat /\ s \in [1 .. Len(s) -> S] /\ DOMAIN s = 1 .. Len(s)
  BY LenProperties
<1>2. CASE i \in DOMAIN s
  BY <1>1, <1>2, ExceptSeq
<1>3. CASE i \notin DOMAIN s
  <2>1. [s EXCEPT ![i] = e] = s
    BY <1>1, <1>3
  <2>. QED  BY <1>1, <1>3, <2>1
<1>. QED  BY <1>2, <1>3

\* n is how many members S has.
Counts(S, n) == IsFiniteSet(S) /\ n = Cardinality(S)

(***************************************************************************)
(* Types, one helper of the handlers at a time.                            *)
(***************************************************************************)
\* An idle thread, if there is one, leaves its list and is unparked.
LEMMA WakePoolType ==
    ASSUME TypeOK, NEW p \in Pools, NEW also \in SUBSET Threads, WakePool(p, also)
    PROVE  idle' \in [Pools -> Seq(Threads)] /\ permit' \subseteq Threads
<1>1. idle[p] \in Seq(Threads) /\ permit \subseteq Threads
  BY DEF TypeOK
<1>2. idle[p] # <<>> => Tail(idle[p]) \in Seq(Threads) /\ Head(idle[p]) \in Threads
  BY <1>1, HeadTailProperties
<1>. QED  BY <1>1, <1>2 DEF WakePool, TypeOK

\* Every thread asleep on one of some pools leaves its list and is unparked.
LEMMA WakeEveryType ==
    ASSUME TypeOK, NEW ps \in SUBSET Pools, NEW also \in SUBSET Threads, WakeEvery(ps, also)
    PROVE  idle' \in [Pools -> Seq(Threads)] /\ permit' \subseteq Threads
<1>1. \A p \in Pools : idle[p] \in Seq(Threads)
  BY DEF TypeOK
<1>2. idle' \in [Pools -> Seq(Threads)]
  BY <1>1, EmptySeq DEF WakeEvery
<1>3. \A p \in Pools : ToSet(idle[p]) \subseteq Threads
  BY <1>1, ToSetSeq
<1>. QED  BY <1>2, <1>3 DEF WakeEvery, TypeOK

\* mark_ready appends an actor to a ready queue.
LEMMA MarkReadyType ==
    ASSUME TypeOK, ConstantsAssumption, NEW a \in Actors, MarkReady(a)
    PROVE  readyQ' \in [Pools -> Seq(Actors)]
<1>1. readyQ[Home[a]] \in Seq(Actors)
  BY DEF TypeOK, ConstantsAssumption
<1>2. Append(readyQ[Home[a]], a) \in Seq(Actors)
  BY <1>1, AppendProperties
<1>. QED  BY <1>2 DEF MarkReady, TypeOK

\* mark_ready, and the wake of the pool that follows it.
LEMMA MarkReadyAndWakeType ==
    ASSUME TypeOK, ConstantsAssumption, NEW a \in Actors,
           NEW also \in SUBSET Threads, MarkReadyAndWake(a, also)
    PROVE  /\ readyQ' \in [Pools -> Seq(Actors)]
           /\ idle' \in [Pools -> Seq(Threads)] /\ permit' \subseteq Threads
<1>1. readyQ' \in [Pools -> Seq(Actors)]
  BY MarkReadyType DEF MarkReadyAndWake
<1>2. Home[a] \in Pools
  BY DEF ConstantsAssumption
<1>3. CASE WakePool(Home[a], also)
  BY <1>1, <1>2, <1>3, WakePoolType
<1>4. CASE permit' = permit \cup also /\ UNCHANGED idle
  BY <1>1, <1>4 DEF TypeOK
<1>. QED  BY <1>3, <1>4 DEF MarkReadyAndWake

\* A reply released leaves the counters natural numbers: none goes below zero.
LEMMA ReleaseType ==
    ASSUME TypeOK, NEW s \in Slots, Release(s)
    PROVE  tracked' \subseteq Slots /\ owed' \in [Actors \cup Pools -> Nat]
<1>1. tracked \subseteq Slots /\ owed \in [Actors \cup Pools -> Nat]
  BY DEF TypeOK
<1>2. tracked' \subseteq Slots
  BY <1>1 DEF Release
<1>3. ASSUME NEW x \in Actors \cup Pools, owed[x] > 0
      PROVE  [owed EXCEPT ![x] = @ - 1] \in [Actors \cup Pools -> Nat]
  <2>1. owed[x] - 1 \in Nat
    BY <1>1, <1>3
  <2>. QED  BY <1>1, <2>1
<1>4. ASSUME NEW x, x \notin Actors \cup Pools
      PROVE  [owed EXCEPT ![x] = @ - 1] = owed
  BY <1>1, <1>4
<1>. QED  BY <1>1, <1>2, <1>3, <1>4 DEF Release

\* A delivery, to an actor, a waiting frame or a pool. Writing to a waiter
\* record needs the record to exist, or the table would not stay a table.
LEMMA DeliverToType ==
    ASSUME TypeOK, WaitersExist, ConstantsAssumption, NEW s \in Slots, DeliverTo(s)
    PROVE  /\ queue' \in [Actors -> Seq(Entry)] /\ tasks' \in [Pools -> Seq(Slots)]
           /\ readyQ' \in [Pools -> Seq(Actors)]
           /\ idle' \in [Pools -> Seq(Threads)] /\ permit' \subseteq Threads
           /\ waiters' \in Seq(WaiterRec)
<1>1. CASE DeliverToActor(s)
  <2>. DEFINE a == target[s]
  <2>1. a \in Actors
    BY <1>1 DEF DeliverToActor
  <2>2. Append(queue[a], Answered(s)) \in Seq(Entry)
    <3>1. queue[a] \in Seq(Entry)
      BY <2>1 DEF TypeOK
    <3>2. Answered(s) \in Entry
      BY DEF Entry
    <3>. QED  BY <3>1, <3>2, AppendProperties
  <2>3. queue' \in [Actors -> Seq(Entry)]
    BY <1>1, <2>1, <2>2 DEF DeliverToActor, Post, TypeOK
  <2>4. MarkReadyAndWake(a, {})
    BY <1>1 DEF DeliverToActor
  <2>5. /\ readyQ' \in [Pools -> Seq(Actors)]
        /\ idle' \in [Pools -> Seq(Threads)] /\ permit' \subseteq Threads
    BY <2>1, <2>4, MarkReadyAndWakeType
  <2>. QED  BY <1>1, <2>3, <2>5 DEF DeliverToActor, TypeOK
<1>2. CASE DeliverToWaiter(s)
  <2>. DEFINE w == target[s]
  <2>1. waiters \in Seq(WaiterRec) /\ permit \subseteq Threads
    BY DEF TypeOK
  <2>2. w \in DOMAIN waiters /\ waiters[w] \in WaiterRec
    BY <1>2, <2>1, LenProperties, ElementOfSeq DEF DeliverToWaiter, WaitersExist
  <2>3. [waiters[w] EXCEPT !.filled = TRUE] \in WaiterRec
    BY <2>2 DEF WaiterRec
  <2>4. [waiters EXCEPT ![w].filled = TRUE] \in Seq(WaiterRec)
    BY <2>1, <2>3, ExceptAnywhere
  <2>5. waiters' \in Seq(WaiterRec)
    BY <1>2, <2>1, <2>4 DEF DeliverToWaiter
  <2>6. ParkerOf(w) \subseteq Threads
    BY <2>2 DEF ParkerOf, WaiterRec
  <2>7. permit' \subseteq Threads
    BY <1>2, <2>1, <2>6 DEF DeliverToWaiter
  <2>. QED  BY <1>2, <2>5, <2>7 DEF DeliverToWaiter, TypeOK
<1>3. CASE DeliverToTask(s)
  <2>. DEFINE p == target[s]
  <2>1. p \in Pools /\ WakePool(p, {})
    BY <1>3 DEF DeliverToTask
  <2>2. Append(tasks[p], s) \in Seq(Slots)
    BY <2>1, AppendProperties DEF TypeOK
  <2>3. idle' \in [Pools -> Seq(Threads)] /\ permit' \subseteq Threads
    BY <2>1, WakePoolType
  <2>. QED  BY <1>3, <2>1, <2>2, <2>3 DEF DeliverToTask, TypeOK
<1>. QED  BY <1>1, <1>2, <1>3 DEF DeliverTo

\* A stack with a frame pushed.
LEMMA PushType ==
    ASSUME TypeOK, NEW t \in Threads, NEW o \in Owners, Push(t, o)
    PROVE  stack' \in [Threads -> Seq(Frame)]
<1>1. Append(stack[t], Running(o)) \in Seq(Frame)
  BY AppendProperties DEF TypeOK, Running, Frame
<1>. QED  BY <1>1 DEF Push, TypeOK

\* A stack with its top frame popped.
LEMMA PopType ==
    ASSUME TypeOK, NEW t \in Threads, Pop(t)
    PROVE  stack' \in [Threads -> Seq(Frame)]
<1>1. Front(stack[t]) \in Seq(Frame)
  BY FrontProperties DEF TypeOK
<1>. QED  BY <1>1 DEF Pop, TypeOK

\* What the frame on top of a thread is.
LEMMA TopType ==
    ASSUME TypeOK, NEW t \in Threads, stack[t] # <<>>
    PROVE  /\ Top(t) \in Frame /\ Me(t) \in Owners /\ Top(t).wid \in Wids \cup {0}
           /\ Len(stack[t]) \in DOMAIN stack[t] /\ Top(t) = stack[t][Len(stack[t])]
<1>1. stack[t] \in Seq(Frame)
  BY DEF TypeOK
<1>2. Top(t) \in Frame /\ Top(t) = stack[t][Len(stack[t])]
  BY <1>1, FrontProperties DEF Top
<1>3. Len(stack[t]) \in DOMAIN stack[t]
  BY <1>1, EmptySeq, LenProperties
<1>. QED  BY <1>2, <1>3 DEF Frame, Me

\* A stack whose top frame has a new waiter record.
LEMMA SetWidType ==
    ASSUME TypeOK, NEW t \in Threads, stack[t] # <<>>, NEW w \in Wids \cup {0},
           SetWid(t, w)
    PROVE  stack' \in [Threads -> Seq(Frame)]
<1>1. Append(Front(stack[t]), [who |-> Top(t).who, wid |-> w]) \in Seq(Frame)
  BY TopType, ReplaceLast DEF TypeOK, Frame, Me
<1>. QED  BY <1>1 DEF SetWid, TypeOK

\* enqueue: refused by the dead, taken, or put off on a full mailbox.
LEMMA EnqueueType ==
    ASSUME TypeOK, ConstantsAssumption, NEW t \in Threads, NEW a \in Actors,
           NEW s \in Slots \cup {0}, Enqueue(t, a, s)
    PROVE  /\ queue' \in [Actors -> Seq(Entry)] /\ userLen' \in [Actors -> Int]
           /\ blocked' \in [Actors -> Seq(Threads)]
           /\ readyQ' \in [Pools -> Seq(Actors)]
           /\ idle' \in [Pools -> Seq(Threads)] /\ permit' \subseteq Threads
           /\ pc' \in [Threads -> Label]
           /\ sending' \in [Threads -> SendRec]
           /\ exit' \in {"no", "returned", "deadlock", "wedged"}
           /\ UNCHANGED <<gate, running, dead>>
<1>. /\ queue \in [Actors -> Seq(Entry)] /\ userLen \in [Actors -> Int]
     /\ blocked \in [Actors -> Seq(Threads)] /\ readyQ \in [Pools -> Seq(Actors)]
     /\ idle \in [Pools -> Seq(Threads)] /\ permit \subseteq Threads
     /\ pc \in [Threads -> Label] /\ sending \in [Threads -> SendRec]
     /\ exit \in {"no", "returned", "deadlock", "wedged"}
     /\ Bound[a] \in Nat /\ userLen[a] \in Int
  BY DEF TypeOK, ConstantsAssumption
<1>a. NotSending \in SendRec /\ [to |-> a, tok |-> s] \in SendRec
  BY DEF NotSending, SendRec
<1>b. "run" \in Label /\ "full" \in Label
  BY DEF Label
<1>1. CASE a \in dead
  BY ZenonT(30), <1>1, <1>a, <1>b DEF Enqueue, Goto
<1>2. CASE a \notin dead /\ userLen[a] < Bound[a]
  <2>1. Append(queue[a], Delivered(s)) \in Seq(Entry)
    <3>1. Delivered(s) \in Entry
      BY DEF Entry
    <3>. QED  BY <3>1, AppendProperties
  <2>3. MarkReadyAndWake(a, {})
    BY <1>2 DEF Enqueue
  <2>4. /\ readyQ' \in [Pools -> Seq(Actors)]
        /\ idle' \in [Pools -> Seq(Threads)] /\ permit' \subseteq Threads
    BY <2>3, MarkReadyAndWakeType
  <2>5. /\ queue' = [queue EXCEPT ![a] = Append(@, Delivered(s))]
        /\ userLen' = [userLen EXCEPT ![a] = @ + 1]
        /\ pc' = [pc EXCEPT ![t] = "run"] /\ sending' = [sending EXCEPT ![t] = NotSending]
        /\ UNCHANGED <<blocked, exit, gate, running, dead>>
    BY <1>2 DEF Enqueue, Goto
  <2>. QED  BY SMTT(30), <1>a, <1>b, <2>1, <2>4, <2>5
<1>3. CASE a \notin dead /\ userLen[a] >= Bound[a]
  <2>1. Append(blocked[a], t) \in Seq(Threads)
    BY AppendProperties
  <2>2. /\ blocked' = [blocked EXCEPT ![a] = Append(@, t)]
        /\ exit' \in {"no", "wedged"}
        /\ pc' = [pc EXCEPT ![t] = "full"]
        /\ sending' = [sending EXCEPT ![t] = [to |-> a, tok |-> s]]
        /\ UNCHANGED <<queue, userLen, readyQ, idle, permit, gate, running, dead>>
    BY <1>3 DEF Enqueue, Goto
  <2>. QED  BY <1>a, <1>b, <2>1, <2>2
<1>. QED  BY <1>1, <1>2, <1>3 DEF Enqueue

\* A token minted, aimed at a place and owed to one.
LEMMA MintType ==
    ASSUME TypeOK, NEW t \in Threads, NEW place \in Places, NEW to \in Actors \cup Pools,
           NEW captured \in SUBSET Slots, Mint(t, place, to, captured)
    PROVE  /\ nextSlot' \in Slots /\ nextSlot' = nextSlot + 1
           /\ target' \in [Slots -> Places]
           /\ tracked' \subseteq Slots /\ owed' \in [Actors \cup Pools -> Nat]
           /\ held' \in [Owners -> SUBSET Slots]
<1>1. nextSlot + 1 \in Slots /\ nextSlot' = nextSlot + 1
  BY DEF Mint
<1>2. owed' \in [Actors \cup Pools -> Nat]
  <2>1. owed[to] + 1 \in Nat
    BY DEF TypeOK
  <2>. QED  BY <2>1 DEF Mint, TypeOK
<1>. QED  BY <1>1, <1>2 DEF Mint, TypeOK

(***************************************************************************)
(* Type correctness: one step per action.                                  *)
(***************************************************************************)
USE ConstantsAssumption

\* A thread that runs or sends has a frame.
LEMMA RunsHasFrame ==
    ASSUME FramesAreNested, NEW t \in Threads, pc[t] \in {"run", "send", "full"}
    PROVE  stack[t] # <<>>
BY DEF FramesAreNested, NestedOn

\* The initial tables are typed.
LEMMA InitType == Init => TypeOK
<1>. SUFFICES ASSUME Init PROVE TypeOK
  OBVIOUS
<1>1. \A S : <<>> \in Seq(S)
  BY EmptySeq
<1>2. Running(Main) \in Frame
  BY DEF Running, Frame, Owners, Threads
<1>3. <<Running(Main)>> \in Seq(Frame)
  BY <1>2
<1>4. stack \in [Threads -> Seq(Frame)]
  BY <1>1, <1>3 DEF Init
<1>5. pc \in [Threads -> Label]
  BY DEF Init, Label
<1>6. bulk \in BulkRec
  BY <1>1 DEF Init, Free, BulkRec, ConstantsAssumption
<1>7. sending \in [Threads -> SendRec]
  BY DEF Init, NotSending, SendRec
<1>. QED  BY <1>1, <1>4, <1>5, <1>6, <1>7 DEF Init, TypeOK, ConstantsAssumption, Slots, Places

\* The types after Send.
LEMMA SendType ==
    ASSUME TypeOK, FramesAreNested, NEW t \in Threads, NEW a \in Actors,
           NEW s \in Slots \cup {0}, Send(t, a, s)
    PROVE  TypeOK'
<1>1. Enqueue(t, a, s)
  BY DEF Send
<1>2. held' \in [Owners -> SUBSET Slots]
  BY DEF Send, TypeOK
<1>. QED  BY <1>1, <1>2, EnqueueType DEF Send, TypeOK, waiterVars, countVars

\* The types after Resend.
LEMMA ResendType ==
    ASSUME TypeOK, FramesAreNested, NEW t \in Threads, Resend(t)
    PROVE  TypeOK'
<1>1. sending[t].to \in Actors /\ sending[t].tok \in Slots \cup {0}
  BY DEF Resend, FramesAreNested, NestedOn, TypeOK, SendRec
<1>2. Enqueue(t, sending[t].to, sending[t].tok)
  BY DEF Resend
<1>. QED  BY <1>1, <1>2, EnqueueType DEF Resend, TypeOK, waiterVars, countVars, tokenVars

\* The types after MintActor.
LEMMA MintActorType ==
    ASSUME TypeOK, FramesAreNested, NEW t \in Threads, NEW gated \in BOOLEAN,
           MintActor(t, gated)
    PROVE  TypeOK'
<1>1. Me(t) \in Actors /\ Mint(t, Me(t), Me(t), {})
  BY DEF MintActor
<1>2. nextSlot' = nextSlot + 1 /\ nextSlot + 1 \in Slots
  BY <1>1 DEF Mint
<1>3. gate' \in [Actors -> Slots \cup {0}]
  BY <1>2 DEF MintActor, TypeOK
<1>4. Me(t) \in Places
  BY <1>1 DEF Places
<1>5. /\ nextSlot' \in Slots /\ target' \in [Slots -> Places]
      /\ tracked' \subseteq Slots /\ owed' \in [Actors \cup Pools -> Nat]
      /\ held' \in [Owners -> SUBSET Slots]
  <2>1. {} \in SUBSET Slots
    OBVIOUS
  <2>. QED  BY <1>1, <1>4, <2>1, MintType
<1>. QED  BY <1>3, <1>5
          DEF MintActor, TypeOK, poolVars, waiterVars, countVars, threadVars

\* The types after MintTask.
LEMMA MintTaskType ==
    ASSUME TypeOK, FramesAreNested, NEW t \in Threads, NEW p \in Pools,
           NEW captured \in SUBSET Slots, MintTask(t, p, captured)
    PROVE  TypeOK'
<1>1. Mint(t, p, p, captured) /\ p \in Places
  BY DEF MintTask, Places
<1>. QED  BY <1>1, MintType
          DEF MintTask, TypeOK, actorVars, poolVars, waiterVars, countVars, threadVars

\* A new wait's record is the first free one, or one more.
LEMMA MintWaiterRecord ==
    ASSUME TypeOK, WaitersExist, FramesAreNested, NEW t \in Threads, MintWaiter(t)
    PROVE  \E w \in Wids, rec \in WaiterRec :
             /\ \/ /\ freeWaiters # <<>> /\ w = Head(freeWaiters) /\ w \in DOMAIN waiters
                   /\ waiters' = [waiters EXCEPT ![w] = rec]
                   /\ freeWaiters' = Tail(freeWaiters)
                \/ /\ freeWaiters = <<>> /\ w = Len(waiters) + 1
                   /\ waiters' = Append(waiters, rec)
                   /\ freeWaiters' = <<>>
             /\ rec = NewWaiter(Serves[t], nextSlot + 1)
             /\ Mint(t, w, Serves[t], {}) /\ SetWid(t, w)
<1>. DEFINE w == IF freeWaiters # <<>> THEN Head(freeWaiters) ELSE Len(waiters) + 1
            rec == NewWaiter(Serves[t], nextSlot + 1)
<1>1. /\ w \in Wids
      /\ waiters' = IF freeWaiters # <<>> THEN [waiters EXCEPT ![w] = rec]
                                          ELSE Append(waiters, rec)
      /\ freeWaiters' = IF freeWaiters = <<>> THEN <<>> ELSE Tail(freeWaiters)
      /\ Mint(t, w, Serves[t], {}) /\ SetWid(t, w)
  BY DEF MintWaiter, FreeAfterMint
<1>2. rec \in WaiterRec
  <2>1. nextSlot + 1 \in Slots
    BY <1>1 DEF Mint
  <2>2. Serves[t] \in Pools
    BY DEF ConstantsAssumption
  <2>. QED  BY <2>1, <2>2 DEF NewWaiter, WaiterRec
<1>3. freeWaiters # <<>> => Head(freeWaiters) \in DOMAIN waiters
  <2>. SUFFICES ASSUME freeWaiters # <<>> PROVE Head(freeWaiters) \in ToSet(freeWaiters)
    BY DEF WaitersExist
  <2>. QED  BY ToSetTail DEF TypeOK
<1>. QED  BY <1>1, <1>2, <1>3

\* The wait minted, on its new record.
LEMMA MintWaiterType ==
    ASSUME TypeOK, WaitersExist, FramesAreNested, NEW t \in Threads, MintWaiter(t)
    PROVE  TypeOK'
<1>1. PICK w \in Wids, rec \in WaiterRec :
             /\ \/ /\ freeWaiters # <<>> /\ w = Head(freeWaiters) /\ w \in DOMAIN waiters
                   /\ waiters' = [waiters EXCEPT ![w] = rec]
                   /\ freeWaiters' = Tail(freeWaiters)
                \/ /\ freeWaiters = <<>> /\ w = Len(waiters) + 1
                   /\ waiters' = Append(waiters, rec)
                   /\ freeWaiters' = <<>>
             /\ rec = NewWaiter(Serves[t], nextSlot + 1)
             /\ Mint(t, w, Serves[t], {}) /\ SetWid(t, w)
  BY MintWaiterRecord
<1>2. waiters' \in Seq(WaiterRec) /\ freeWaiters' \in Seq(Wids)
  <2>1. waiters \in Seq(WaiterRec) /\ freeWaiters \in Seq(Wids)
    BY DEF TypeOK
  <2>2. freeWaiters # <<>> => Tail(freeWaiters) \in Seq(Wids)
    BY <2>1, HeadTailProperties
  <2>3. [waiters EXCEPT ![w] = rec] \in Seq(WaiterRec) /\ Append(waiters, rec) \in Seq(WaiterRec)
    BY <2>1, ExceptAnywhere, AppendProperties
  <2>. QED  BY <1>1, <2>1, <2>2, <2>3
<1>3. stack[t] # <<>>
  BY RunsHasFrame DEF MintWaiter, Does, Runs
<1>4. stack' \in [Threads -> Seq(Frame)]
  BY <1>1, <1>3, SetWidType
<1>5. w \in Places /\ Serves[t] \in Actors \cup Pools /\ {} \in SUBSET Slots
  BY DEF Places, ConstantsAssumption
<1>6. /\ nextSlot' \in Slots /\ target' \in [Slots -> Places]
      /\ tracked' \subseteq Slots /\ owed' \in [Actors \cup Pools -> Nat]
      /\ held' \in [Owners -> SUBSET Slots]
  BY <1>1, <1>5, MintType
<1>. QED  BY <1>2, <1>4, <1>6 DEF MintWaiter, TypeOK, actorVars, poolVars, countVars

\* The types after Await.
LEMMA AwaitType ==
    ASSUME TypeOK, NEW t \in Threads, Await(t)
    PROVE  TypeOK'
<1>1. pc' \in [Threads -> Label]
  BY DEF Await, Goto, TypeOK, Label
<1>. QED  BY <1>1 DEF Await, TypeOK, actorVars, poolVars, waiterVars, countVars, tokenVars

\* The types after Answer.
LEMMA AnswerType ==
    ASSUME TypeOK, WaitersExist, NEW t \in Threads, NEW s \in Slots, Answer(t, s)
    PROVE  TypeOK'
<1>1. held' \in [Owners -> SUBSET Slots]
  BY DEF Answer, TypeOK
<1>2. Release(s) /\ DeliverTo(s)
  BY DEF Answer
<1>3. UNCHANGED <<userLen, gate, running, dead, blocked, retired, freeWaiters>>
  BY <1>2 DEF DeliverTo
<1>. QED  BY <1>1, <1>2, <1>3, ReleaseType, DeliverToType DEF Answer, TypeOK, countVars

\* The types after Watch.
LEMMA WatchType ==
    ASSUME TypeOK, WaitersExist, NEW t \in Threads, NEW a \in Actors, NEW s \in Slots,
           Watch(t, a, s)
    PROVE  TypeOK'
<1>1. held' \in [Owners -> SUBSET Slots]
  BY DEF Watch, TypeOK
<1>2. Release(s)
  BY DEF Watch
<1>3. CASE a \in dead
  <2>1. DeliverTo(s) /\ UNCHANGED watchers
    BY <1>3 DEF Watch
  <2>2. UNCHANGED <<userLen, gate, running, dead, blocked, retired, freeWaiters>>
    BY <2>1 DEF DeliverTo
  <2>3. /\ queue' \in [Actors -> Seq(Entry)] /\ tasks' \in [Pools -> Seq(Slots)]
        /\ readyQ' \in [Pools -> Seq(Actors)]
        /\ idle' \in [Pools -> Seq(Threads)] /\ permit' \subseteq Threads
        /\ waiters' \in Seq(WaiterRec)
    BY <2>1, DeliverToType
  <2>4. tracked' \subseteq Slots /\ owed' \in [Actors \cup Pools -> Nat]
    BY <1>2, ReleaseType
  <2>5. UNCHANGED <<made, idleHooks, active, parkedFrames, mainWaits, externals, bulk,
                    nextSlot, target, stack, pc, sending, exit>>
    BY DEF Watch, countVars
  <2>. QED  BY <1>1, <2>1, <2>2, <2>3, <2>4, <2>5 DEF TypeOK
<1>4. CASE a \notin dead
  <2>1. Append(watchers[a], s) \in Seq(Slots)
    BY AppendProperties DEF TypeOK
  <2>2. tracked' \subseteq Slots /\ owed' \in [Actors \cup Pools -> Nat]
    BY <1>2, ReleaseType
  <2>3. watchers' \in [Actors -> Seq(Slots)]
    BY <1>4, <2>1 DEF Watch, TypeOK
  <2>4. UNCHANGED <<made, idleHooks, countVars, bulk, nextSlot, target, stack, pc, sending,
                    exit, queue, userLen, gate, running, dead, blocked, poolVars,
                    waiterVars, permit>>
    BY <1>4 DEF Watch
  <2>. QED  BY <1>1, <2>2, <2>3, <2>4 DEF TypeOK, countVars, poolVars, waiterVars
<1>. QED  BY <1>3, <1>4

\* The types after OnIdle.
LEMMA OnIdleType ==
    ASSUME TypeOK, NEW t \in Threads, NEW s \in Slots, OnIdle(t, s)
    PROVE  TypeOK'
<1>1. held' \in [Owners -> SUBSET Slots] /\ Release(s) /\ WakeEvery(Pools, {})
  BY DEF OnIdle, TypeOK
<1>2. Append(idleHooks, s) \in Seq(Slots)
  BY AppendProperties DEF TypeOK
<1>. QED  BY <1>1, <1>2, ReleaseType, WakeEveryType
          DEF OnIdle, TypeOK, actorVars, countVars, waiterVars

\* The types after NewPool.
LEMMA NewPoolType ==
    ASSUME TypeOK, NEW t \in Threads, NEW p \in Pools, NewPool(t, p)
    PROVE  TypeOK'
<1>1. pc' \in [Threads -> Label]
  BY DEF NewPool, TypeOK, Label
<1>. QED  BY <1>1 DEF NewPool, TypeOK, actorVars, poolVars, waiterVars, countVars, tokenVars

\* The types after NewActor.
LEMMA NewActorType ==
    ASSUME TypeOK, NEW t \in Threads, NEW a \in Actors, NewActor(t, a)
    PROVE  TypeOK'
BY DEF NewActor, TypeOK, actorVars, poolVars, waiterVars, countVars, tokenVars, threadVars

\* The types after HostOpens.
LEMMA HostOpensType ==
    ASSUME TypeOK, NEW t \in Threads, NEW h \in Hosts, NEW captured \in SUBSET Slots,
           HostOpens(t, h, captured)
    PROVE  TypeOK'
<1>1. h \in Threads /\ h \in Owners
  BY DEF Threads, Owners
<1>2. held' \in [Owners -> SUBSET Slots]
  BY DEF HostOpens, TypeOK
<1>4. externals' \in Nat
  BY DEF HostOpens, TypeOK
<1>5. pc' \in [Threads -> Label]
  BY DEF HostOpens, Goto, TypeOK, Label
<1>3. WakeEvery(Pools, {}) /\ Push(h, h)
  BY DEF HostOpens
<1>. QED  BY <1>1, <1>2, <1>3, <1>4, <1>5, WakeEveryType, PushType
          DEF HostOpens, TypeOK, actorVars, countVars, waiterVars

\* The types after HostCloses.
LEMMA HostClosesType ==
    ASSUME TypeOK, NEW h \in Threads, HostCloses(h)
    PROVE  TypeOK'
<1>1. externals' \in Nat /\ pc' \in [Threads -> Label]
  BY DEF HostCloses, Goto, TypeOK, Label
<1>2. WakeEvery(Pools, {})
  BY DEF HostCloses
<1>. QED  BY <1>1, <1>2, WakeEveryType
          DEF HostCloses, TypeOK, actorVars, waiterVars, tokenVars

\* The types after MainReturns.
LEMMA MainReturnsType ==
    ASSUME TypeOK, MainReturns
    PROVE  TypeOK'
BY DEF MainReturns, TypeOK, actorVars, poolVars, waiterVars, countVars, tokenVars, threadVars

\* The types after ActorReturns.
LEMMA ActorReturnsType ==
    ASSUME TypeOK, FramesAreNested, NEW t \in Threads, ActorReturns(t)
    PROVE  TypeOK'
<1>1. Me(t) \in Actors /\ MarkReady(Me(t)) /\ Pop(t)
  BY DEF ActorReturns, Ends
<1>2. pc' \in [Threads -> Label] /\ active' \in Int
  BY DEF ActorReturns, Ends, Goto, TypeOK, Label
<1>3. running' \subseteq Actors
  BY DEF ActorReturns, TypeOK
<1>. QED  BY <1>1, <1>2, <1>3, MarkReadyType, PopType
          DEF ActorReturns, Ends, TypeOK, waiterVars

\* A pool's live sink is an actor, and not one that has died.
LEMMA LiveSinkIsActor ==
    ASSUME NEW p \in Pools, NEW a \in LiveSink(p)
    PROVE  a \in Actors /\ a = Sink[p] /\ a \notin dead'
BY DEF LiveSink, ConstantsAssumption

\* A report joins the sink's queue.
LEMMA ReportedType ==
    ASSUME TypeOK, NEW b \in Actors
    PROVE  Append(queue[b], Reported) \in Seq(Entry)
<1>1. queue[b] \in Seq(Entry)
  BY DEF TypeOK
<1>2. Reported \in Entry
  BY DEF Entry
<1>. QED  BY <1>1, <1>2, AppendProperties

\* The death of an actor: its record emptied, its watchers listed for delivery.
LEMMA ActorFaultsType ==
    ASSUME TypeOK, FramesAreNested, NEW t \in Threads, ActorFaults(t)
    PROVE  TypeOK'
<1>. DEFINE a == Me(t)
            toSink == IF watchers[a] = <<>> THEN LiveSink(Home[a]) ELSE {}
<1>1. a \in Actors /\ Pop(t) /\ Home[a] \in Pools
  BY DEF ActorFaults, Ends, ConstantsAssumption
<1>2. pc' \in [Threads -> Label] /\ active' \in Int
  BY DEF ActorFaults, Ends, Goto, TypeOK, Label
<1>3. queue' \in [Actors -> Seq(Entry)]
  BY ReportedType, EmptySeq DEF ActorFaults, TypeOK
<1>4. /\ running' \subseteq Actors /\ dead' \subseteq Actors
      /\ gate' \in [Actors -> Slots \cup {0}]
      /\ userLen' \in [Actors -> Int]
  <2>1. /\ running' = running \ {a} /\ dead' = dead \cup {a}
        /\ gate' = [gate EXCEPT ![a] = 0] /\ userLen' = [userLen EXCEPT ![a] = 0]
    BY DEF ActorFaults
  <2>2. running' \subseteq Actors /\ dead' \subseteq Actors
    BY <1>1, <2>1 DEF TypeOK
  <2>3. gate' \in [Actors -> Slots \cup {0}]
    BY <1>1, <2>1 DEF TypeOK
  <2>4. userLen' \in [Actors -> Int]
    BY <1>1, <2>1 DEF TypeOK
  <2>. QED  BY <2>2, <2>3, <2>4
<1>5. /\ blocked' \in [Actors -> Seq(Threads)]
      /\ watchers' \in [Actors -> Seq(Slots)]
      /\ held' \in [Owners -> SUBSET Slots]
  BY <1>1, EmptySeq DEF ActorFaults, TypeOK
<1>6. bulk' \in BulkRec
  BY <1>1 DEF ActorFaults, BulkRec, TypeOK
<1>7. /\ readyQ' \in [Pools -> Seq(Actors)]
      /\ idle' \in [Pools -> Seq(Threads)] /\ permit' \subseteq Threads
  <2>1. ToSet(blocked[a]) \in SUBSET Threads
    BY <1>1, ToSetSeq DEF TypeOK
  <2>2. CASE toSink = {}
    BY <2>1, <2>2 DEF ActorFaults, TypeOK
  <2>3. CASE toSink # {}
    <3>1. Sink[Home[a]] \in Actors
      BY <1>1, <2>3, LiveSinkIsActor
    <3>2. MarkReadyAndWake(Sink[Home[a]], ToSet(blocked[a]))
      BY <2>3 DEF ActorFaults
    <3>. QED  BY <2>1, <3>1, <3>2, MarkReadyAndWakeType
  <2>. QED  BY <2>2, <2>3
<1>8. stack' \in [Threads -> Seq(Frame)]
  BY <1>1, PopType
<1>9. UNCHANGED <<made, waiterVars, idleHooks, parkedFrames, mainWaits, externals,
                  nextSlot, target, tracked, owed, sending, exit, tasks, retired>>
  BY DEF ActorFaults, Ends
<1>. QED  BY <1>2, <1>3, <1>4, <1>5, <1>6, <1>7, <1>8, <1>9 DEF TypeOK, waiterVars

\* The end of a task, which may report a fault or retire the pool.
LEMMA TaskEndsType ==
    ASSUME TypeOK, FramesAreNested, NEW t \in Threads, NEW sinks,
           sinks \subseteq LiveSink(Serves[t]), TaskEnds(t, sinks)
    PROVE  TypeOK'
<1>. DEFINE p == Serves[t]
<1>1. p \in Pools /\ Pop(t)
  BY DEF TaskEnds, Ends, ConstantsAssumption
<1>2. pc' \in [Threads -> Label] /\ active' \in Int
  BY DEF TaskEnds, Ends, Goto, TypeOK, Label
<1>3. queue' \in [Actors -> Seq(Entry)]
  BY ReportedType DEF TaskEnds, TypeOK
<1>4. held' \in [Owners -> SUBSET Slots]
  BY DEF TaskEnds, TypeOK
<1>5. /\ readyQ' \in [Pools -> Seq(Actors)] /\ retired' \subseteq Pools
      /\ idle' \in [Pools -> Seq(Threads)] /\ permit' \subseteq Threads
  <2>0. {} \in SUBSET Threads
    OBVIOUS
  <2>1. CASE sinks = {}
    <3>1. WakeEvery(IF Done(p) THEN {p} ELSE {}, {}) /\ UNCHANGED readyQ
      BY <2>1 DEF TaskEnds
    <3>2. retired' \subseteq Pools
      BY <1>1, <2>1 DEF TaskEnds, TypeOK
    <3>3. (IF Done(p) THEN {p} ELSE {}) \in SUBSET Pools
      BY <1>1
    <3>4. idle' \in [Pools -> Seq(Threads)] /\ permit' \subseteq Threads
      BY <2>0, <3>1, <3>3, WakeEveryType
    <3>. QED  BY <3>1, <3>2, <3>4 DEF TypeOK
  <2>2. CASE sinks # {}
    <3>1. Sink[p] \in Actors
      BY <1>1, <2>2, LiveSinkIsActor
    <3>2. MarkReadyAndWake(Sink[p], {}) /\ UNCHANGED retired
      BY <2>2 DEF TaskEnds
    <3>. QED  BY <2>0, <3>1, <3>2, MarkReadyAndWakeType DEF TypeOK
  <2>. QED  BY <2>1, <2>2
<1>6. stack' \in [Threads -> Seq(Frame)]
  BY <1>1, PopType
<1>7. UNCHANGED <<made, waiterVars, idleHooks, parkedFrames, mainWaits, externals,
                  nextSlot, target, tracked, owed, sending, exit,
                  userLen, gate, running, dead, blocked, watchers, tasks, bulk>>
  BY DEF TaskEnds, Ends
<1>. QED  BY <1>2, <1>3, <1>4, <1>5, <1>6, <1>7 DEF TypeOK, waiterVars

\* Both ways a task ends.
LEMMA TaskType ==
    ASSUME TypeOK, FramesAreNested, NEW t \in Threads, TaskReturns(t) \/ TaskFaults(t)
    PROVE  TypeOK'
BY TaskEndsType DEF TaskReturns, TaskFaults

\* The next token of the list a call delivers.
LEMMA DeliverNextType ==
    ASSUME TypeOK, WaitersExist, DeliverNext
    PROVE  TypeOK'
<1>1. bulk.tokens \in Seq(Slots) /\ bulk.tokens # <<>>
  BY DEF DeliverNext, TypeOK, BulkRec
<1>2. Head(bulk.tokens) \in Slots /\ Tail(bulk.tokens) \in Seq(Slots)
  BY <1>1, HeadTailProperties
<1>3. bulk' \in BulkRec
  BY <1>2 DEF DeliverNext, TypeOK, BulkRec
<1>4. Release(Head(bulk.tokens)) /\ DeliverTo(Head(bulk.tokens))
  BY DEF DeliverNext
<1>5. UNCHANGED <<userLen, gate, running, dead, blocked, retired, freeWaiters>>
  BY <1>4 DEF DeliverTo
<1>6. tracked' \subseteq Slots /\ owed' \in [Actors \cup Pools -> Nat]
  BY <1>2, <1>4, ReleaseType
<1>7. /\ queue' \in [Actors -> Seq(Entry)] /\ tasks' \in [Pools -> Seq(Slots)]
      /\ readyQ' \in [Pools -> Seq(Actors)]
      /\ idle' \in [Pools -> Seq(Threads)] /\ permit' \subseteq Threads
      /\ waiters' \in Seq(WaiterRec)
  BY <1>2, <1>4, DeliverToType
<1>8. UNCHANGED <<made, watchers, idleHooks, active, parkedFrames, mainWaits, externals,
                  nextSlot, target, held, stack, pc, sending, exit>>
  BY DEF DeliverNext, countVars
<1>. QED  BY <1>3, <1>5, <1>6, <1>7, <1>8 DEF TypeOK

\* The end of such a call, which wakes threads known to the tables.
LEMMA EndBulkType ==
    ASSUME TypeOK, EndBulk
    PROVE  TypeOK'
<1>1. bulk' \in BulkRec
  BY EmptySeq DEF EndBulk, Free, BulkRec, ConstantsAssumption
<1>2. bulk.pool \in Pools
  BY DEF TypeOK, BulkRec
<1>3. /\ idle' \in [Pools -> Seq(Threads)] /\ permit' \subseteq Threads
      /\ retired' \subseteq Pools
  <2>. DEFINE woken == {waiters[w].parker :
                          w \in {v \in DOMAIN waiters : waiters[v].waiting > 0}} \ {Nobody}
  <2>1. woken \in SUBSET Threads
    <3>1. \A w \in DOMAIN waiters : waiters[w] \in WaiterRec
      BY LenProperties, ElementOfSeq DEF TypeOK
    <3>. QED  BY <3>1 DEF WaiterRec
  <2>2. CASE WakeEvery(Pools, {}) /\ bulk.what = "finish"
    <3>1. {} \in SUBSET Threads /\ Pools \in SUBSET Pools
      OBVIOUS
    <3>2. retired' \subseteq Pools
      BY <1>2, <2>2 DEF EndBulk, TypeOK
    <3>. QED  BY <2>2, <3>1, <3>2, WakeEveryType
  <2>3. CASE WakeEvery({}, woken) /\ UNCHANGED retired
    <3>1. {} \in SUBSET Pools
      OBVIOUS
    <3>. QED  BY <2>1, <2>3, <3>1, WakeEveryType DEF TypeOK
  <2>4. CASE UNCHANGED <<retired, idle, permit>>
    BY <2>4 DEF TypeOK
  <2>. QED  BY <2>2, <2>3, <2>4 DEF EndBulk
<1>. QED  BY <1>1, <1>3
          DEF EndBulk, TypeOK, actorVars, waiterVars, countVars, tokenVars

\* An entry of an actor's queue.
LEMMA EntryType ==
    ASSUME TypeOK, NEW a \in Actors, NEW k \in DOMAIN queue[a]
    PROVE  /\ queue[a][k] \in Entry
           /\ queue[a][k].kind = "msg" => queue[a][k].id \in Slots \cup {0}
<1>1. queue[a] \in Seq(Entry)
  BY DEF TypeOK
<1>2. queue[a][k] \in Entry
  BY <1>1, LenProperties, ElementOfSeq
<1>. QED  BY <1>2 DEF Entry, Delivered, Answered, Reported

\* The wake of the first blocked sender.
LEMMA WakeSenderType ==
    ASSUME TypeOK, NEW a \in Actors, WakeSender(a)
    PROVE  blocked' \in [Actors -> Seq(Threads)] /\ permit' \subseteq Threads
<1>1. blocked[a] \in Seq(Threads) /\ permit \subseteq Threads
  BY DEF TypeOK
<1>2. blocked[a] # <<>> => Tail(blocked[a]) \in Seq(Threads) /\ Head(blocked[a]) \in Threads
  BY <1>1, HeadTailProperties
<1>. QED  BY <1>1, <1>2 DEF WakeSender, TypeOK

\* What taking a piece of work leaves of the tables.
LEMMA TakeEntryType ==
    ASSUME TypeOK, NEW t \in Threads, NEW own, TakeEntry(t, own)
    PROVE  /\ queue' \in [Actors -> Seq(Entry)] /\ userLen' \in [Actors -> Int]
           /\ gate' \in [Actors -> Slots \cup {0}] /\ running' \subseteq Actors
           /\ blocked' \in [Actors -> Seq(Threads)] /\ permit' \subseteq Threads
           /\ readyQ' \in [Pools -> Seq(Actors)] /\ held' \in [Owners -> SUBSET Slots]
           /\ stack' \in [Threads -> Seq(Frame)]
           /\ UNCHANGED <<dead, watchers, tasks>>
<1>1. PICK a \in Actors : \E k \in DOMAIN queue[a] : TakeEntryOf(t, own, a, k)
  BY DEF TakeEntry
<1>0. PICK k \in DOMAIN queue[a] : TakeEntryOf(t, own, a, k)
  BY <1>1
<1>2. queue' \in [Actors -> Seq(Entry)]
  <2>1. RemoveAt(queue[a], k) \in Seq(Entry)
    BY RemoveAtSeq DEF TypeOK
  <2>. QED  BY <1>0, <2>1 DEF TakeEntryOf, TypeOK
<1>3. readyQ' \in [Pools -> Seq(Actors)]
  <2>. DEFINE q == readyQ[Serves[t]]
  <2>1. q \in Seq(Actors) /\ Serves[t] \in Pools
    BY DEF TypeOK, ConstantsAssumption
  <2>2. \A j \in DOMAIN q : SubSeq(q, j + 1, Len(q)) \in Seq(Actors)
    BY <2>1, LenProperties, ElementOfSeq, SubSeqProperties
  <2>3. PICK j \in DOMAIN q :
          readyQ' = [readyQ EXCEPT ![Serves[t]] = SubSeq(@, j + 1, Len(@))]
    BY <1>0 DEF TakeEntryOf
  <2>. QED  BY <2>2, <2>3 DEF TypeOK
<1>4. gate' \in [Actors -> Slots \cup {0}] /\ running' \subseteq Actors
  BY <1>0 DEF TakeEntryOf, TypeOK, Occupy
<1>5. stack' \in [Threads -> Seq(Frame)]
  <2>1. a \in Owners /\ Push(t, a)
    BY <1>0 DEF TakeEntryOf, Owners
  <2>. QED  BY <2>1, PushType
<1>6. /\ userLen' \in [Actors -> Int]
      /\ blocked' \in [Actors -> Seq(Threads)] /\ permit' \subseteq Threads
      /\ held' \in [Owners -> SUBSET Slots]
  <2>1. CASE queue[a][k].kind = "msg"
    <3>1. WakeSender(a) /\ userLen' = [userLen EXCEPT ![a] = @ - 1]
          /\ held' = [held EXCEPT ![a] = @ \cup ({queue[a][k].id} \ {0})]
      BY <1>0, <2>1 DEF TakeEntryOf
    <3>2. {queue[a][k].id} \ {0} \subseteq Slots
      BY <2>1, EntryType
    <3>3. held' \in [Owners -> SUBSET Slots]
      BY <3>1, <3>2 DEF TypeOK
    <3>4. userLen' \in [Actors -> Int]
      <4>1. userLen \in [Actors -> Int]
        BY DEF TypeOK
      <4>. QED  BY <3>1, <4>1
    <3>. QED  BY <3>1, <3>3, <3>4, WakeSenderType
  <2>2. CASE queue[a][k].kind # "msg"
    BY <1>0, <2>2 DEF TakeEntryOf, TypeOK
  <2>. QED  BY <2>1, <2>2
<1>. QED  BY <1>0, <1>2, <1>3, <1>4, <1>5, <1>6 DEF TakeEntryOf

\* A task taken off the pool.
LEMMA TakeTaskType ==
    ASSUME TypeOK, NEW t \in Threads, TakeTask(t)
    PROVE  /\ tasks' \in [Pools -> Seq(Slots)] /\ stack' \in [Threads -> Seq(Frame)]
           /\ UNCHANGED <<actorVars, readyQ, held, permit>>
<1>1. tasks[Serves[t]] \in Seq(Slots) /\ tasks[Serves[t]] # <<>>
  BY DEF TakeTask, TypeOK, ConstantsAssumption
<1>2. Head(tasks[Serves[t]]) \in Slots /\ Tail(tasks[Serves[t]]) \in Seq(Slots)
  BY <1>1, HeadTailProperties
<1>3. Push(t, Head(tasks[Serves[t]])) /\ Head(tasks[Serves[t]]) \in Owners
  BY <1>2 DEF TakeTask, Owners
<1>4. stack' \in [Threads -> Seq(Frame)]
  BY <1>3, PushType
<1>. QED  BY <1>2, <1>4 DEF TakeTask, TypeOK

\* Either kind of work, counted.
LEMMA TakeWorkType ==
    ASSUME TypeOK, NEW t \in Threads, NEW own, TakeWork(t, own),
           waiters' \in Seq(WaiterRec), parkedFrames' \in Int, mainWaits' \in Int
    PROVE  TypeOK'
<1>1. active' \in Int /\ pc' \in [Threads -> Label]
  BY DEF TakeWork, Goto, TypeOK, Label
<1>2. UNCHANGED <<made, idle, retired, freeWaiters, idleHooks, externals, bulk,
                  nextSlot, target, tracked, owed, sending, exit>>
  BY DEF TakeWork
<1>3. CASE TakeTask(t)
  <2>1. /\ tasks' \in [Pools -> Seq(Slots)] /\ stack' \in [Threads -> Seq(Frame)]
        /\ UNCHANGED <<actorVars, readyQ, held, permit>>
    BY <1>3, TakeTaskType
  <2>. QED  BY <1>1, <1>2, <2>1 DEF TypeOK, actorVars
<1>4. CASE TakeEntry(t, own)
  <2>1. /\ queue' \in [Actors -> Seq(Entry)] /\ userLen' \in [Actors -> Int]
        /\ gate' \in [Actors -> Slots \cup {0}] /\ running' \subseteq Actors
        /\ blocked' \in [Actors -> Seq(Threads)] /\ permit' \subseteq Threads
        /\ readyQ' \in [Pools -> Seq(Actors)] /\ held' \in [Owners -> SUBSET Slots]
        /\ stack' \in [Threads -> Seq(Frame)]
        /\ UNCHANGED <<dead, watchers, tasks>>
    BY <1>4, TakeEntryType
  <2>. QED  BY <1>1, <1>2, <2>1 DEF TypeOK
<1>. QED  BY <1>3, <1>4 DEF TakeWork

\* No work: what was passed over is dropped from the ready queue.
LEMMA NoWorkType ==
    ASSUME TypeOK, NEW p \in Pools, NEW own, NoWork(p, own)
    PROVE  readyQ' \in [Pools -> Seq(Actors)]
BY EmptySeq DEF NoWork, TypeOK

\* The types after NextRetires.
LEMMA NextRetiresType ==
    ASSUME TypeOK, NEW t \in Threads, NextRetires(t)
    PROVE  TypeOK'
<1>1. pc' \in [Threads -> Label]
  BY DEF NextRetires, Goto, TypeOK, Label
<1>. QED  BY <1>1 DEF NextRetires, TypeOK, actorVars, poolVars, waiterVars, countVars, tokenVars

\* The types after NextWork.
LEMMA NextWorkType ==
    ASSUME TypeOK, NEW t \in Threads, NextWork(t)
    PROVE  TypeOK'
<1>1. TakeWork(t, Nobody)
  BY DEF NextWork
<1>2. waiters' \in Seq(WaiterRec) /\ parkedFrames' \in Int /\ mainWaits' \in Int
  BY DEF NextWork, TypeOK
<1>. QED  BY <1>1, <1>2, TakeWorkType

\* The types after NextSleeps.
LEMMA NextSleepsType ==
    ASSUME TypeOK, NEW t \in Threads, NextSleeps(t)
    PROVE  TypeOK'
<1>. DEFINE p == Serves[t]
<1>0. p \in Pools
  BY DEF ConstantsAssumption
<1>1. pc' \in [Threads -> Label]
  BY DEF NextSleeps, Goto, TypeOK, Label
<1>2. readyQ' \in [Pools -> Seq(Actors)]
  BY <1>0, NoWorkType DEF NextSleeps
<1>3. idle' \in [Pools -> Seq(Threads)]
  <2>1. Append(idle[p], t) \in Seq(Threads)
    BY <1>0, AppendProperties DEF TypeOK
  <2>. QED  BY <2>1 DEF NextSleeps, TypeOK
<1>4. bulk' \in BulkRec /\ idleHooks' \in Seq(Slots)
  <2>1. idleHooks \in Seq(Slots) /\ <<>> \in Seq(Slots)
    BY EmptySeq DEF TypeOK
  <2>. QED  BY <1>0, <2>1 DEF NextSleeps, Free, BulkRec, ConstantsAssumption
<1>5. UNCHANGED <<made, actorVars, tasks, retired, waiterVars, countVars,
                  tokenVars, stack, sending, permit, exit>>
  BY DEF NextSleeps
<1>. QED  BY <1>1, <1>2, <1>3, <1>4, <1>5
          DEF TypeOK, actorVars, waiterVars, countVars, tokenVars

\* Writes to a waiter record.
LEMMA WaiterRecWrites ==
    ASSUME NEW r \in WaiterRec, NEW n \in 0 .. 2, NEW t \in Threads
    PROVE  /\ [r EXCEPT !.waiting = n] \in WaiterRec
           /\ [r EXCEPT !.parker = t] \in WaiterRec
           /\ [r EXCEPT !.filled = FALSE, !.parker = Nobody, !.waiting = 0] \in WaiterRec
<1>1. [r EXCEPT !.waiting = n] \in WaiterRec
  BY DEF WaiterRec
<1>2. [r EXCEPT !.parker = t] \in WaiterRec
  BY DEF WaiterRec
<1>3. [r EXCEPT !.filled = FALSE, !.parker = Nobody, !.waiting = 0] \in WaiterRec
  <2>1. 0 \in 0 .. 2 /\ FALSE \in BOOLEAN
    OBVIOUS
  <2>. QED  BY <2>1 DEF WaiterRec
<1>. QED  BY <1>1, <1>2, <1>3

\* A thread inside a wait, and the record it waits on.
LEMMA WaitFrame ==
    ASSUME TypeOK, FramesAreNested, WaitersExist, NEW t \in Threads, WaitLooks(t)
    PROVE  /\ Top(t).wid \in Wids /\ Top(t).wid \in DOMAIN waiters
           /\ waiters[Top(t).wid] \in WaiterRec
           /\ Booked(t) \in Seq(WaiterRec) /\ DOMAIN Booked(t) = DOMAIN waiters
           /\ Booked(t)[Top(t).wid] = [waiters[Top(t).wid] EXCEPT !.waiting = Kind(t)]
           /\ \A v \in DOMAIN waiters : v # Top(t).wid => Booked(t)[v] = waiters[v]
<1>. DEFINE w == Top(t).wid
<1>1. stack[t] # <<>> /\ pc[t] = "look"
  BY DEF WaitLooks, Looks
<1>2. w \in Wids
  BY <1>1, TopType DEF FramesAreNested, NestedOn
<1>3. w \in DOMAIN waiters
  <2>1. Top(t) = stack[t][Len(stack[t])] /\ Len(stack[t]) \in DOMAIN stack[t]
    BY <1>1, TopType
  <2>2. w # 0
    BY <1>2 DEF Wids
  <2>. QED  BY <2>1, <2>2 DEF WaitersExist
<1>4. waiters \in Seq(WaiterRec) /\ waiters[w] \in WaiterRec
  BY <1>3, LenProperties, ElementOfSeq DEF TypeOK
<1>5. [waiters[w] EXCEPT !.waiting = Kind(t)] \in WaiterRec
  <2>1. Kind(t) \in 0 .. 2
    BY DEF Kind
  <2>. QED  BY <1>4, <2>1, WaiterRecWrites
<1>6. Booked(t) = [waiters EXCEPT ![w] = [waiters[w] EXCEPT !.waiting = Kind(t)]]
  BY DEF Booked
<1>. QED  BY <1>2, <1>3, <1>4, <1>5, <1>6, ExceptAnywhere

\* The two counters of waits.
LEMMA CountsType ==
    ASSUME TypeOK, NEW t \in Threads
    PROVE  ParkedNow(t) \in Int /\ MainNow(t) \in Int
BY DEF TypeOK, ParkedNow, MainNow

\* The end of a wait, which frees its record.
LEMMA WaitGotType ==
    ASSUME TypeOK, FramesAreNested, WaitersExist, NEW t \in Threads, WaitGot(t)
    PROVE  TypeOK'
<1>. DEFINE w == Top(t).wid
            rec == [waiters[w] EXCEPT !.filled = FALSE, !.parker = Nobody, !.waiting = 0]
<1>1. WaitLooks(t) /\ stack[t] # <<>>
  BY DEF WaitGot, WaitLooks
<1>2. w \in Wids /\ waiters[w] \in WaiterRec
  BY <1>1, WaitFrame
<1>3. rec \in WaiterRec
  <2>1. 0 \in 0 .. 2
    OBVIOUS
  <2>. QED  BY <1>2, <2>1, WaiterRecWrites
<1>4. waiters' \in Seq(WaiterRec)
  <2>1. waiters' = [waiters EXCEPT ![w] = rec]
    BY DEF WaitGot
  <2>2. waiters \in Seq(WaiterRec)
    BY DEF TypeOK
  <2>. HIDE DEF rec
  <2>. QED  BY <1>3, <2>1, <2>2, ExceptAnywhere
<1>5. freeWaiters' \in Seq(Wids)
  BY <1>2, AppendProperties DEF WaitGot, TypeOK
<1>6. parkedFrames' \in Int /\ mainWaits' \in Int
  BY CountsType DEF WaitGot
<1>7. idle' \in [Pools -> Seq(Threads)] /\ permit' \subseteq Threads
  <2>1. Serves[t] \in Pools /\ {} \in SUBSET Threads /\ WakePool(Serves[t], {})
    BY DEF WaitGot, ConstantsAssumption
  <2>. QED  BY <2>1, WakePoolType
<1>8. stack' \in [Threads -> Seq(Frame)]
  <2>1. SetWid(t, 0) /\ 0 \in Wids \cup {0}
    BY DEF WaitGot
  <2>. QED  BY <1>1, <2>1, SetWidType
<1>9. pc' \in [Threads -> Label]
  BY DEF WaitGot, Goto, TypeOK, Label
<1>10. UNCHANGED <<made, actorVars, tasks, readyQ, retired, idleHooks, active,
                   externals, bulk, tokenVars, sending, exit>>
  BY DEF WaitGot
<1>. QED  BY <1>4, <1>5, <1>6, <1>7, <1>8, <1>9, <1>10 DEF TypeOK, actorVars, tokenVars

\* A wait step that finds work to run meanwhile.
LEMMA WaitWorkType ==
    ASSUME TypeOK, FramesAreNested, WaitersExist, NEW t \in Threads, WaitWork(t)
    PROVE  TypeOK'
<1>1. TakeWork(t, Me(t)) /\ WaitLooks(t)
  BY DEF WaitWork
<1>2. waiters' \in Seq(WaiterRec)
  BY <1>1, WaitFrame DEF WaitWork
<1>3. parkedFrames' \in Int /\ mainWaits' \in Int
  BY CountsType DEF WaitWork
<1>. QED  BY <1>1, <1>2, <1>3, TakeWorkType

\* The three ends of a wait step that finds nothing to run.
LEMMA WaitIdlesCases ==
    ASSUME NEW t \in Threads, WaitIdles(t)
    PROVE  \/ /\ bulk' = [what |-> "again", tokens |-> idleHooks, pool |-> Serves[t]]
              /\ idleHooks' = <<>> /\ waiters' = Booked(t)
              /\ UNCHANGED <<idle, pc, exit>>
           \/ /\ exit' = "deadlock" /\ waiters' = Booked(t)
              /\ UNCHANGED <<idle, pc, bulk, idleHooks>>
           \/ /\ waiters' = [Booked(t) EXCEPT ![Top(t).wid].parker = t]
              /\ idle' = [idle EXCEPT ![Serves[t]] = Append(@, t)]
              /\ pc' = [pc EXCEPT ![t] = "park"]
              /\ UNCHANGED <<bulk, idleHooks, exit>>
BY DEF WaitIdles, Goto

\* A wait step that finds none.
LEMMA WaitIdlesType ==
    ASSUME TypeOK, FramesAreNested, WaitersExist, NEW t \in Threads, WaitIdles(t)
    PROVE  TypeOK'
<1>. DEFINE p == Serves[t]
<1>0. p \in Pools
  BY DEF ConstantsAssumption
<1>1. WaitLooks(t) /\ NoWork(p, Me(t))
  BY DEF WaitIdles
<1>2. readyQ' \in [Pools -> Seq(Actors)]
  BY <1>0, <1>1, NoWorkType
<1>3. parkedFrames' \in Int /\ mainWaits' \in Int
  BY CountsType DEF WaitIdles
<1>4. UNCHANGED <<made, actorVars, tasks, retired, freeWaiters, active,
                  externals, tokenVars, stack, sending, permit>>
  BY DEF WaitIdles
<1>5. /\ bulk' \in BulkRec /\ idleHooks' \in Seq(Slots)
      /\ waiters' \in Seq(WaiterRec) /\ idle' \in [Pools -> Seq(Threads)]
      /\ pc' \in [Threads -> Label]
      /\ exit' \in {"no", "returned", "deadlock", "wedged"}
  <2>1. Booked(t) \in Seq(WaiterRec)
    BY <1>1, WaitFrame
  <2>2. [Booked(t) EXCEPT ![Top(t).wid].parker = t] \in Seq(WaiterRec)
    <3>1. Top(t).wid \in DOMAIN Booked(t)
      BY <1>1, WaitFrame
    <3>2. Booked(t)[Top(t).wid] \in WaiterRec
      BY <2>1, <3>1, LenProperties, ElementOfSeq
    <3>3. [Booked(t)[Top(t).wid] EXCEPT !.parker = t] \in WaiterRec
      <4>1. 0 \in 0 .. 2
        OBVIOUS
      <4>. QED  BY <3>2, <4>1, WaiterRecWrites
    <3>. QED  BY <2>1, <3>3, ExceptAnywhere
  <2>3. idleHooks \in Seq(Slots) /\ <<>> \in Seq(Slots) /\ bulk \in BulkRec
    BY EmptySeq DEF TypeOK
  <2>4. [what |-> "again", tokens |-> idleHooks, pool |-> p] \in BulkRec
    BY <1>0, <2>3 DEF BulkRec
  <2>5. idle \in [Pools -> Seq(Threads)] /\ pc \in [Threads -> Label]
    BY DEF TypeOK
  <2>6. Append(idle[p], t) \in Seq(Threads)
    BY <1>0, <2>5, AppendProperties
  <2>7. "park" \in Label /\ exit \in {"no", "returned", "deadlock", "wedged"}
    BY DEF Label, TypeOK
  <2>8. CASE /\ bulk' = [what |-> "again", tokens |-> idleHooks, pool |-> Serves[t]]
             /\ idleHooks' = <<>> /\ waiters' = Booked(t)
             /\ UNCHANGED <<idle, pc, exit>>
    BY <2>1, <2>3, <2>4, <2>5, <2>7, <2>8
  <2>9. CASE /\ exit' = "deadlock" /\ waiters' = Booked(t)
             /\ UNCHANGED <<idle, pc, bulk, idleHooks>>
    BY <2>1, <2>3, <2>5, <2>9
  <2>10. CASE /\ waiters' = [Booked(t) EXCEPT ![Top(t).wid].parker = t]
              /\ idle' = [idle EXCEPT ![Serves[t]] = Append(@, t)]
              /\ pc' = [pc EXCEPT ![t] = "park"]
              /\ UNCHANGED <<bulk, idleHooks, exit>>
    BY <2>2, <2>3, <2>5, <2>6, <2>7, <2>10
  <2>. QED  BY <2>8, <2>9, <2>10, WaitIdlesCases
<1>. QED  BY <1>2, <1>3, <1>4, <1>5 DEF TypeOK, actorVars, tokenVars

\* The return of park.
LEMMA ParkType ==
    ASSUME TypeOK, NEW t \in Threads, Park(t)
    PROVE  TypeOK'
<1>1. pc' \in [Threads -> Label]
  BY DEF Park, Goto, TypeOK, Label
<1>2. permit' \subseteq Threads
  BY DEF Park, TypeOK
<1>. QED  BY <1>1, <1>2
          DEF Park, TypeOK, actorVars, poolVars, waiterVars, countVars, tokenVars

\* No step spoils a type.
LEMMA StepType ==
    ASSUME TypeOK, FramesAreNested, WaitersExist, [Next]_vars
    PROVE  TypeOK'
<1>1. CASE UNCHANGED vars
  BY <1>1 DEF TypeOK, vars, actorVars, poolVars, waiterVars, countVars, tokenVars, threadVars
<1>2. ASSUME NEW t \in Threads, Program(t)
      PROVE  TypeOK'
  BY <1>2, SendType, MintActorType, MintTaskType, MintWaiterType, AwaitType, AnswerType,
     WatchType, OnIdleType, NewPoolType, NewActorType, HostOpensType, ActorFaultsType,
     TaskType DEF Program
<1>3. ASSUME NEW t \in Threads, Runtime(t)
      PROVE  TypeOK'
  BY <1>3, ResendType, ParkType, ActorReturnsType, TaskType, NextRetiresType, NextWorkType,
     NextSleepsType, WaitGotType, WaitWorkType, WaitIdlesType DEF Runtime
<1>4. CASE DeliverNext \/ EndBulk \/ MainReturns \/ Exited
  BY <1>1, <1>4, DeliverNextType, EndBulkType, MainReturnsType DEF Exited
<1>. QED  BY <1>1, <1>2, <1>3, <1>4, HostClosesType DEF Next

(***************************************************************************)
(* Nesting: what Push, Pop and SetWid do to a stack, and then the steps.   *)
(***************************************************************************)
\* A push leaves the frames below as they were.
LEMMA PushEffect ==
    ASSUME TypeOK, NEW t \in Threads, NEW o \in Owners, Push(t, o)
    PROVE  /\ \A u \in Threads : u # t => stack'[u] = stack[u]
           /\ Len(stack'[t]) = Len(stack[t]) + 1 /\ stack'[t] # <<>>
           /\ DOMAIN stack[t] = 1 .. Len(stack[t])
           /\ DOMAIN stack'[t] = 1 .. Len(stack[t]) + 1
           /\ \A i \in DOMAIN stack[t] : stack'[t][i] = stack[t][i]
           /\ stack'[t][Len(stack[t]) + 1] = Running(o)
           /\ Last(stack'[t]) = Running(o)
<1>1. stack[t] \in Seq(Frame) /\ stack \in [Threads -> Seq(Frame)]
  BY DEF TypeOK
<1>2. Running(o) \in Frame
  BY DEF Running, Frame
<1>3. stack'[t] = Append(stack[t], Running(o)) /\ \A u \in Threads : u # t => stack'[u] = stack[u]
  BY <1>1 DEF Push
<1>4. /\ Append(stack[t], Running(o)) \in Seq(Frame) /\ Append(stack[t], Running(o)) # <<>>
      /\ Len(Append(stack[t], Running(o))) = Len(stack[t]) + 1
      /\ \A i \in 1 .. Len(stack[t]) : Append(stack[t], Running(o))[i] = stack[t][i]
      /\ Append(stack[t], Running(o))[Len(stack[t]) + 1] = Running(o)
  <2>1. \A s \in Seq(Frame), f \in Frame :
          /\ Append(s, f) \in Seq(Frame) /\ Append(s, f) # <<>>
          /\ Len(Append(s, f)) = Len(s) + 1
          /\ \A i \in 1 .. Len(s) : Append(s, f)[i] = s[i]
          /\ Append(s, f)[Len(s) + 1] = f
    BY AppendProperties
  <2>. QED  BY <1>1, <1>2, <2>1
<1>5. DOMAIN stack[t] = 1 .. Len(stack[t]) /\ DOMAIN stack'[t] = 1 .. Len(stack[t]) + 1
  BY <1>1, <1>3, <1>4, LenProperties
<1>. QED  BY <1>3, <1>4, <1>5 DEF Last

\* A pop leaves the frames below as they were.
LEMMA PopEffect ==
    ASSUME TypeOK, NEW t \in Threads, Pop(t), stack[t] # <<>>
    PROVE  /\ \A u \in Threads : u # t => stack'[u] = stack[u]
           /\ Len(stack'[t]) = Len(stack[t]) - 1 /\ Len(stack[t]) \in Nat \ {0}
           /\ DOMAIN stack[t] = 1 .. Len(stack[t])
           /\ DOMAIN stack'[t] = 1 .. Len(stack[t]) - 1
           /\ \A i \in DOMAIN stack'[t] : stack'[t][i] = stack[t][i]
           /\ stack'[t] # <<>> => Last(stack'[t]) = stack[t][Len(stack[t]) - 1]
<1>1. stack[t] \in Seq(Frame) /\ stack \in [Threads -> Seq(Frame)]
  BY DEF TypeOK
<1>2. stack'[t] = Front(stack[t]) /\ \A u \in Threads : u # t => stack'[u] = stack[u]
  BY <1>1 DEF Pop
<1>3. /\ Front(stack[t]) \in Seq(Frame)
      /\ Len(Front(stack[t])) = Len(stack[t]) - 1
      /\ \A i \in 1 .. Len(stack[t]) - 1 : Front(stack[t])[i] = stack[t][i]
  <2>1. /\ Front(stack[t]) \in Seq(Frame)
        /\ stack[t] # <<>> => /\ Len(Front(stack[t])) = Len(stack[t]) - 1
                              /\ \A i \in 1 .. Len(stack[t]) - 1 :
                                   Front(stack[t])[i] = stack[t][i]
                              /\ Last(stack[t]) \in Frame
                              /\ Last(stack[t]) = stack[t][Len(stack[t])]
    BY <1>1, FrontProperties, Zenon
  <2>. QED  BY <2>1
<1>4. Len(stack[t]) \in Nat \ {0}
  BY <1>1, EmptySeq
<1>5. DOMAIN stack[t] = 1 .. Len(stack[t]) /\ DOMAIN stack'[t] = 1 .. Len(stack[t]) - 1
  BY <1>1, <1>2, <1>3, LenProperties
<1>6. stack'[t] # <<>> => Last(stack'[t]) = stack[t][Len(stack[t]) - 1]
  <2>. SUFFICES ASSUME stack'[t] # <<>>
                PROVE  Last(stack'[t]) = stack[t][Len(stack[t]) - 1]
    OBVIOUS
  <2>1. Len(stack'[t]) \in Nat \ {0}
    BY <1>2, <1>3, EmptySeq
  <2>. QED  BY <1>2, <1>3, <1>4, <2>1 DEF Last
<1>. QED  BY <1>2, <1>3, <1>4, <1>5, <1>6

\* Changing the record of the top frame leaves its owner and the frames below.
LEMMA SetWidEffect ==
    ASSUME TypeOK, NEW t \in Threads, stack[t] # <<>>, NEW w \in Wids \cup {0}, SetWid(t, w)
    PROVE  /\ \A u \in Threads : u # t => stack'[u] = stack[u]
           /\ Len(stack'[t]) = Len(stack[t]) /\ stack'[t] # <<>>
           /\ Len(stack[t]) \in Nat \ {0}
           /\ DOMAIN stack[t] = 1 .. Len(stack[t]) /\ DOMAIN stack'[t] = DOMAIN stack[t]
           /\ \A i \in DOMAIN stack[t] : i # Len(stack[t]) => stack'[t][i] = stack[t][i]
           /\ stack'[t][Len(stack[t])] = [who |-> Me(t), wid |-> w]
           /\ Last(stack'[t]) = [who |-> Me(t), wid |-> w]
<1>. DEFINE e == [who |-> Me(t), wid |-> w]
<1>1. stack[t] \in Seq(Frame) /\ stack \in [Threads -> Seq(Frame)]
  BY DEF TypeOK
<1>2. e \in Frame
  BY TopType DEF Frame
<1>3. stack'[t] = Append(Front(stack[t]), e) /\ \A u \in Threads : u # t => stack'[u] = stack[u]
  BY <1>1 DEF SetWid, Me
<1>. HIDE DEF e
<1>4. /\ Append(Front(stack[t]), e) \in Seq(Frame)
      /\ Len(Append(Front(stack[t]), e)) = Len(stack[t])
      /\ \A i \in 1 .. Len(stack[t]) - 1 : Append(Front(stack[t]), e)[i] = stack[t][i]
      /\ Append(Front(stack[t]), e)[Len(stack[t])] = e
  BY <1>1, <1>2, ReplaceLast
<1>5. Len(stack[t]) \in Nat \ {0}
  BY <1>1, EmptySeq
<1>6. DOMAIN stack[t] = 1 .. Len(stack[t]) /\ DOMAIN stack'[t] = 1 .. Len(stack[t])
  BY <1>1, <1>3, <1>4, LenProperties
<1>7. stack'[t] # <<>>
  BY <1>3, <1>4, <1>5, EmptySeq
<1>8. stack'[t][Len(stack[t])] = e /\ Last(stack'[t]) = e
  BY <1>3, <1>4 DEF Last
<1>. QED  BY <1>3, <1>4, <1>5, <1>6, <1>7, <1>8 DEF e

\* A step that changes no thread.
LEMMA NestedSame ==
    ASSUME FramesAreNested, UNCHANGED <<stack, pc, sending>>, made \subseteq made'
    PROVE  FramesAreNested'
BY DEF FramesAreNested, NestedOn, Top

\* A step that changes one thread.
LEMMA NestedStep ==
    ASSUME FramesAreNested, NEW t \in Threads, made \subseteq made',
           \A u \in Threads : u # t => /\ stack'[u] = stack[u] /\ pc'[u] = pc[u]
                                       /\ sending'[u] = sending[u],
           t \in Workers => pc[t] # "unborn" \/ pc'[t] = "unborn",
           NestedOn(t)'
    PROVE  FramesAreNested'
<1>1. \A u \in Threads : NestedOn(u)'
  BY DEF FramesAreNested, NestedOn, Top
<1>2. \A u \in Workers : u \in Threads
  BY DEF Threads
<1>. QED  BY <1>1, <1>2 DEF FramesAreNested

\* Goto changes one label.
LEMMA GotoEffect ==
    ASSUME TypeOK, NEW t \in Threads, NEW l, Goto(t, l)
    PROVE  pc'[t] = l /\ \A u \in Threads : u # t => pc'[u] = pc[u]
BY DEF Goto, TypeOK

\* A sender keeps its frame, and parked it knows the actor it sends to.
LEMMA NestedEnqueue ==
    ASSUME TypeOK, FramesAreNested, NEW t \in Threads, NEW a \in Actors,
           NEW s \in Slots \cup {0}, Enqueue(t, a, s), UNCHANGED <<made, stack>>,
           pc[t] \in {"run", "send"}
    PROVE  FramesAreNested'
<1>1. \/ pc' = [pc EXCEPT ![t] = "run"] /\ sending' = [sending EXCEPT ![t] = NotSending]
      \/ /\ pc' = [pc EXCEPT ![t] = "full"]
         /\ sending' = [sending EXCEPT ![t] = [to |-> a, tok |-> s]]
  BY DEF Enqueue, Goto
<1>2. stack[t] # <<>> /\ \A i \in DOMAIN stack[t] : i < Len(stack[t]) => stack[t][i].wid # 0
  BY DEF FramesAreNested, NestedOn
<1>3. /\ pc'[t] = "run" \/ (pc'[t] = "full" /\ sending'[t].to = a)
      /\ \A u \in Threads : u # t => pc'[u] = pc[u] /\ sending'[u] = sending[u]
  <2>1. pc \in [Threads -> Label] /\ sending \in [Threads -> SendRec]
    BY DEF TypeOK
  <2>. QED  BY <1>1, <2>1
<1>4. NestedOn(t)'
  BY <1>2, <1>3 DEF NestedOn
<1>. QED  BY <1>3, <1>4, NestedStep

\* A record given to the top frame, which runs on.
LEMMA NestedMintWaiter ==
    ASSUME TypeOK, FramesAreNested, WaitersExist, NEW t \in Threads, MintWaiter(t)
    PROVE  FramesAreNested'
<1>1. PICK w \in Wids : SetWid(t, w)
  BY MintWaiterRecord
<1>2. pc[t] = "run" /\ stack[t] # <<>> /\ UNCHANGED <<made, pc, sending>>
  BY RunsHasFrame DEF MintWaiter, Does, Runs
<1>3. /\ \A u \in Threads : u # t => stack'[u] = stack[u]
      /\ Len(stack'[t]) = Len(stack[t]) /\ stack'[t] # <<>>
      /\ DOMAIN stack'[t] = DOMAIN stack[t]
      /\ \A i \in DOMAIN stack[t] : i # Len(stack[t]) => stack'[t][i] = stack[t][i]
  BY <1>1, <1>2, SetWidEffect
<1>4. \A i \in DOMAIN stack[t] : i \in Int
  BY <1>2, TopType, LenProperties DEF TypeOK
<1>5. NestedOn(t)'
  BY <1>2, <1>3, <1>4 DEF NestedOn, FramesAreNested
<1>. QED  BY <1>2, <1>3, <1>5, NestedStep

\* A frame with a record looks for work.
LEMMA NestedAwait ==
    ASSUME TypeOK, FramesAreNested, NEW t \in Threads, Await(t)
    PROVE  FramesAreNested'
<1>1. /\ pc'[t] = "look" /\ \A u \in Threads : u # t => pc'[u] = pc[u]
      /\ UNCHANGED <<stack, sending, made>> /\ Top(t).wid # 0 /\ pc[t] = "run"
  BY GotoEffect DEF Await
<1>2. NestedOn(t)'
  BY <1>1 DEF NestedOn, FramesAreNested, Top
<1>. QED  BY <1>1, <1>2, NestedStep

\* The threads of a new pool are born with no frame.
LEMMA NestedNewPool ==
    ASSUME TypeOK, FramesAreNested, NEW t \in Threads, NEW p \in Pools, NewPool(t, p)
    PROVE  FramesAreNested'
<1>1. /\ p \notin made /\ made' = made \cup {p} /\ UNCHANGED <<stack, sending>>
      /\ \A u \in Threads :
           pc'[u] = IF u \in Workers /\ Serves[u] = p THEN "look" ELSE pc[u]
  BY DEF NewPool
<1>2. \A u \in Threads : NestedOn(u)'
  BY <1>1 DEF NestedOn, FramesAreNested, Top
<1>3. \A u \in Workers : u \in Threads
  BY DEF Threads
<1>. QED  BY <1>1, <1>2, <1>3 DEF FramesAreNested

\* A host thread is born with its one frame.
LEMMA NestedHostOpens ==
    ASSUME TypeOK, FramesAreNested, NEW t \in Threads, NEW h \in Hosts,
           NEW captured \in SUBSET Slots, HostOpens(t, h, captured)
    PROVE  FramesAreNested'
<1>1. h \in Threads /\ h \in Owners /\ h \notin Workers
  BY NamesAreDistinct DEF Threads, Owners
<1>2. Push(h, h) /\ Goto(h, "run") /\ pc[h] = "unborn" /\ UNCHANGED <<made, sending>>
  BY DEF HostOpens
<1>3. stack[h] = <<>>
  BY <1>1, <1>2 DEF FramesAreNested, NestedOn
<1>4. /\ \A u \in Threads : u # h => stack'[u] = stack[u]
      /\ stack'[h] # <<>> /\ Len(stack'[h]) = Len(stack[h]) + 1
      /\ DOMAIN stack'[h] = 1 .. Len(stack[h]) + 1
  BY <1>1, <1>2, PushEffect
<1>5. pc'[h] = "run" /\ \A u \in Threads : u # h => pc'[u] = pc[u]
  BY <1>1, <1>2, GotoEffect
<1>6. Len(stack[h]) = 0
  BY <1>3
<1>7. NestedOn(h)'
  BY <1>4, <1>5, <1>6 DEF NestedOn
<1>. QED  BY <1>1, <1>2, <1>4, <1>5, <1>7, NestedStep

\* A host thread ends.
LEMMA NestedHostCloses ==
    ASSUME TypeOK, FramesAreNested, NEW h \in Threads, HostCloses(h)
    PROVE  FramesAreNested'
<1>1. pc[h] = "run" /\ pc'[h] = "done" /\ UNCHANGED <<made, stack, sending>>
      /\ \A u \in Threads : u # h => pc'[u] = pc[u]
  BY GotoEffect DEF HostCloses, Runs
<1>2. NestedOn(h)'
  BY <1>1 DEF NestedOn, FramesAreNested
<1>. QED  BY <1>1, <1>2, NestedStep

\* A frame popped: the one under it waits.
LEMMA NestedEnds ==
    ASSUME TypeOK, FramesAreNested, NEW t \in Threads, Ends(t)
    PROVE  FramesAreNested'
<1>1. Pop(t) /\ Goto(t, "look") /\ pc[t] = "run" /\ stack[t] # <<>>
      /\ UNCHANGED <<made, sending>>
  BY RunsHasFrame DEF Ends, Runs
<1>2. /\ \A u \in Threads : u # t => stack'[u] = stack[u] /\ pc'[u] = pc[u]
      /\ pc'[t] = "look"
      /\ Len(stack'[t]) = Len(stack[t]) - 1 /\ Len(stack[t]) \in Nat \ {0}
      /\ DOMAIN stack[t] = 1 .. Len(stack[t])
      /\ DOMAIN stack'[t] = 1 .. Len(stack[t]) - 1
      /\ \A i \in DOMAIN stack'[t] : stack'[t][i] = stack[t][i]
      /\ stack'[t] # <<>> => Last(stack'[t]) = stack[t][Len(stack[t]) - 1]
  BY <1>1, PopEffect, GotoEffect
<1>3. \A i \in DOMAIN stack[t] : i < Len(stack[t]) => stack[t][i].wid # 0
  BY DEF FramesAreNested, NestedOn
<1>4. stack'[t] # <<>> => Len(stack[t]) - 1 \in DOMAIN stack[t]
  <2>1. stack'[t] \in Seq(Frame)
    BY <1>1, PopType
  <2>. QED  BY <1>2, <2>1, EmptySeq
<1>5. NestedOn(t)'
  <2>1. \A i \in DOMAIN stack'[t] : i < Len(stack'[t]) => stack'[t][i].wid # 0
    BY <1>2, <1>3
  <2>2. stack'[t] # <<>> => Last(stack'[t]).wid # 0
    <3>1. Len(stack[t]) - 1 < Len(stack[t])
      BY <1>2
    <3>. QED  BY SMTT(30), <1>2, <1>3, <1>4, <3>1
  <2>. QED  BY <1>2, <2>1, <2>2 DEF NestedOn, Top
<1>. QED  BY <1>1, <1>2, <1>5, NestedStep

\* A frame pushed on a thread whose top frame, if any, waits.
LEMMA NestedTakes ==
    ASSUME TypeOK, FramesAreNested, NEW t \in Threads, NEW own, TakeWork(t, own),
           pc[t] = "look"
    PROVE  FramesAreNested'
<1>1. PICK o \in Owners : Push(t, o)
  <2>1. CASE TakeTask(t)
    <3>1. tasks[Serves[t]] \in Seq(Slots) /\ tasks[Serves[t]] # <<>>
      BY <2>1 DEF TakeTask, TypeOK, ConstantsAssumption
    <3>2. Head(tasks[Serves[t]]) \in Slots
      BY <3>1, HeadTailProperties
    <3>. QED  BY <2>1, <3>2 DEF TakeTask, Owners
  <2>2. CASE TakeEntry(t, own)
    BY <2>2 DEF TakeEntry, TakeEntryOf, Owners
  <2>. QED  BY <2>1, <2>2 DEF TakeWork
<1>2. Goto(t, "run") /\ UNCHANGED <<sending, made>>
  BY DEF TakeWork
<1>3. /\ \A u \in Threads : u # t => stack'[u] = stack[u] /\ pc'[u] = pc[u]
      /\ pc'[t] = "run" /\ stack'[t] # <<>>
      /\ Len(stack'[t]) = Len(stack[t]) + 1
      /\ DOMAIN stack[t] = 1 .. Len(stack[t])
      /\ DOMAIN stack'[t] = 1 .. Len(stack[t]) + 1
      /\ \A i \in DOMAIN stack[t] : stack'[t][i] = stack[t][i]
  BY <1>1, <1>2, PushEffect, GotoEffect
<1>4. \A i \in DOMAIN stack[t] : stack[t][i].wid # 0
  <2>1. stack[t] # <<>> => stack[t][Len(stack[t])].wid # 0
    BY TopType DEF FramesAreNested, NestedOn
  <2>2. Len(stack[t]) \in Nat /\ (stack[t] = <<>> => DOMAIN stack[t] = {})
    BY LenProperties, EmptySeq DEF TypeOK
  <2>. QED  BY <1>3, <2>1, <2>2 DEF FramesAreNested, NestedOn
<1>5. Len(stack[t]) \in Nat
  BY LenProperties DEF TypeOK
<1>6. NestedOn(t)'
  BY <1>3, <1>4, <1>5 DEF NestedOn
<1>. QED  BY <1>2, <1>3, <1>6, NestedStep

\* A thread with no frame goes to sleep, or returns.
LEMMA NestedNext ==
    ASSUME TypeOK, FramesAreNested, NEW t \in Threads, NextRetires(t) \/ NextSleeps(t)
    PROVE  FramesAreNested'
<1>1. /\ pc[t] = "look" /\ stack[t] = <<>> /\ UNCHANGED <<made, stack, sending>>
      /\ pc'[t] \in {"park", "done"} /\ \A u \in Threads : u # t => pc'[u] = pc[u]
  BY GotoEffect DEF NextRetires, NextSleeps, Looks
<1>2. NestedOn(t)'
  BY <1>1 DEF NestedOn, FramesAreNested
<1>. QED  BY <1>1, <1>2, NestedStep

\* The top frame no longer waits and runs.
LEMMA NestedWaitGot ==
    ASSUME TypeOK, FramesAreNested, NEW t \in Threads, WaitGot(t)
    PROVE  FramesAreNested'
<1>1. /\ SetWid(t, 0) /\ Goto(t, "run") /\ pc[t] = "look" /\ stack[t] # <<>>
      /\ UNCHANGED <<made, sending>> /\ 0 \in Wids \cup {0}
  BY DEF WaitGot, WaitLooks, Looks
<1>2. /\ \A u \in Threads : u # t => stack'[u] = stack[u]
      /\ stack'[t] # <<>> /\ Len(stack'[t]) = Len(stack[t])
      /\ DOMAIN stack'[t] = DOMAIN stack[t]
      /\ \A i \in DOMAIN stack[t] : i # Len(stack[t]) => stack'[t][i] = stack[t][i]
  BY <1>1, SetWidEffect
<1>3. pc'[t] = "run" /\ \A u \in Threads : u # t => pc'[u] = pc[u]
  BY <1>1, GotoEffect
<1>4. \A i \in DOMAIN stack[t] : i \in Int
  BY LenProperties DEF TypeOK
<1>5. NestedOn(t)'
  BY <1>2, <1>3, <1>4 DEF NestedOn, FramesAreNested
<1>. QED  BY <1>1, <1>2, <1>3, <1>5, NestedStep

\* The top frame waits on, asleep or not.
LEMMA NestedWaitIdles ==
    ASSUME TypeOK, FramesAreNested, NEW t \in Threads, WaitIdles(t)
    PROVE  FramesAreNested'
<1>1. /\ pc[t] = "look" /\ stack[t] # <<>> /\ UNCHANGED <<made, stack, sending>>
      /\ pc' = pc \/ pc' = [pc EXCEPT ![t] = "park"]
  BY WaitIdlesCases DEF WaitIdles, WaitLooks, Looks
<1>2. pc'[t] \in {"look", "park"} /\ \A u \in Threads : u # t => pc'[u] = pc[u]
  BY <1>1 DEF TypeOK
<1>3. NestedOn(t)'
  BY <1>1, <1>2 DEF NestedOn, FramesAreNested, Top
<1>. QED  BY <1>1, <1>2, <1>3, NestedStep

\* A parked thread looks again, or sends again.
LEMMA NestedPark ==
    ASSUME TypeOK, FramesAreNested, NEW t \in Threads, Park(t)
    PROVE  FramesAreNested'
<1>1. /\ UNCHANGED <<made, stack, sending>> /\ pc[t] \in {"park", "full"}
      /\ pc'[t] = (IF pc[t] = "park" THEN "look" ELSE "send")
      /\ \A u \in Threads : u # t => pc'[u] = pc[u]
  BY GotoEffect DEF Park
<1>2. NestedOn(t)'
  BY <1>1 DEF NestedOn, FramesAreNested, Top
<1>. QED  BY <1>1, <1>2, NestedStep

(***************************************************************************)
(* Waiter records are only ever added.                                     *)
(***************************************************************************)
\* A step that makes no record and frees none, and aims no reply at one.
LEMMA ExistSame ==
    ASSUME WaitersExist, DOMAIN waiters \subseteq DOMAIN waiters', UNCHANGED freeWaiters,
           \A s \in Slots : target'[s] = target[s] \/ target'[s] \notin Wids,
           \A t \in Threads : \A i \in DOMAIN stack'[t] :
             \/ stack'[t][i].wid = 0
             \/ \E j \in DOMAIN stack[t] : stack'[t][i].wid = stack[t][j].wid
    PROVE  WaitersExist'
<1>1. \A s \in Slots : target'[s] \in Wids => target'[s] \in DOMAIN waiters'
  BY DEF WaitersExist
<1>2. \A t \in Threads : \A i \in DOMAIN stack'[t] :
        stack'[t][i].wid # 0 => stack'[t][i].wid \in DOMAIN waiters'
  BY DEF WaitersExist
<1>3. ToSet(freeWaiters') \subseteq DOMAIN waiters'
  BY DEF WaitersExist
<1>. QED  BY <1>1, <1>2, <1>3 DEF WaitersExist

\* The same, of a step that changes no stack.
LEMMA ExistStill ==
    ASSUME WaitersExist, DOMAIN waiters \subseteq DOMAIN waiters',
           UNCHANGED <<freeWaiters, target, stack>>
    PROVE  WaitersExist'
BY ExistSame

\* A reply minted for an actor or a task.
LEMMA ExistMint ==
    ASSUME TypeOK, WaitersExist, NEW t \in Threads, NEW x \in Actors \cup Pools,
           NEW captured, Mint(t, x, x, captured), UNCHANGED <<waiters, freeWaiters, stack>>
    PROVE  WaitersExist'
<1>1. x \notin Wids
  BY NamesAreDistinct DEF Wids
<1>2. \A s \in Slots : target'[s] = target[s] \/ target'[s] \notin Wids
  BY <1>1 DEF Mint, TypeOK
<1>. QED  BY <1>2, ExistSame

\* A reply minted for a wait, on a record reused or made.
LEMMA ExistMintWaiter ==
    ASSUME TypeOK, WaitersExist, FramesAreNested, NEW t \in Threads, MintWaiter(t)
    PROVE  WaitersExist'
<1>1. PICK w \in Wids, rec \in WaiterRec :
             /\ \/ /\ freeWaiters # <<>> /\ w = Head(freeWaiters) /\ w \in DOMAIN waiters
                   /\ waiters' = [waiters EXCEPT ![w] = rec]
                   /\ freeWaiters' = Tail(freeWaiters)
                \/ /\ freeWaiters = <<>> /\ w = Len(waiters) + 1
                   /\ waiters' = Append(waiters, rec)
                   /\ freeWaiters' = <<>>
             /\ rec = NewWaiter(Serves[t], nextSlot + 1)
             /\ Mint(t, w, Serves[t], {}) /\ SetWid(t, w)
  BY MintWaiterRecord
<1>2. waiters \in Seq(WaiterRec) /\ freeWaiters \in Seq(Wids)
  BY DEF TypeOK
<1>3. w \in DOMAIN waiters' /\ DOMAIN waiters \subseteq DOMAIN waiters'
  <2>1. CASE waiters' = [waiters EXCEPT ![w] = rec] /\ w \in DOMAIN waiters
    BY <2>1
  <2>2. CASE w = Len(waiters) + 1 /\ waiters' = Append(waiters, rec)
    <3>1. /\ Append(waiters, rec) \in Seq(WaiterRec)
          /\ Len(Append(waiters, rec)) = Len(waiters) + 1
      BY <1>2, AppendProperties
    <3>2. /\ DOMAIN waiters = 1 .. Len(waiters) /\ Len(waiters) \in Nat
          /\ DOMAIN Append(waiters, rec) = 1 .. Len(waiters) + 1
      BY <1>2, <3>1, LenProperties
    <3>. QED  BY <2>2, <3>2
  <2>. QED  BY <1>1, <2>1, <2>2
<1>4. ToSet(freeWaiters') \subseteq DOMAIN waiters'
  <2>1. CASE freeWaiters # <<>> /\ freeWaiters' = Tail(freeWaiters)
    <3>1. ToSet(Tail(freeWaiters)) \subseteq ToSet(freeWaiters)
      BY <1>2, <2>1, ToSetTail
    <3>. QED  BY <1>3, <2>1, <3>1 DEF WaitersExist
  <2>2. CASE freeWaiters' = <<>>
    BY <2>2 DEF ToSet
  <2>. QED  BY <1>1, <2>1, <2>2
<1>5. \A s \in Slots : target'[s] \in Wids => target'[s] \in DOMAIN waiters'
  <2>1. \A s \in Slots : target'[s] = target[s] \/ target'[s] = w
    BY <1>1 DEF Mint, TypeOK
  <2>. QED  BY <1>3, <2>1 DEF WaitersExist
<1>6. \A u \in Threads : \A i \in DOMAIN stack'[u] :
        stack'[u][i].wid # 0 => stack'[u][i].wid \in DOMAIN waiters'
  <2>1. stack[t] # <<>> /\ SetWid(t, w)
    BY <1>1, RunsHasFrame DEF MintWaiter, Does, Runs
  <2>2. /\ \A u \in Threads : u # t => stack'[u] = stack[u]
        /\ DOMAIN stack'[t] = DOMAIN stack[t]
        /\ \A i \in DOMAIN stack[t] : i # Len(stack[t]) => stack'[t][i] = stack[t][i]
        /\ stack'[t][Len(stack[t])] = [who |-> Me(t), wid |-> w]
    BY <2>1, SetWidEffect
  <2>3. \A i \in DOMAIN stack'[t] : stack'[t][i].wid = w \/ stack'[t][i] = stack[t][i]
    BY <2>2
  <2>. QED  BY SMTT(30), <1>3, <2>2, <2>3 DEF WaitersExist
<1>. QED  BY <1>4, <1>5, <1>6 DEF WaitersExist

\* Delivering a token fills a record or leaves them all alone.
LEMMA DeliverToWaiters ==
    ASSUME NEW s \in Slots, DeliverTo(s)
    PROVE  DOMAIN waiters' = DOMAIN waiters /\ UNCHANGED freeWaiters
BY DEF DeliverTo, DeliverToActor, DeliverToTask, DeliverToWaiter

\* The frame pushed does not wait.
LEMMA ExistPush ==
    ASSUME TypeOK, WaitersExist, NEW t \in Threads, NEW o \in Owners, Push(t, o),
           DOMAIN waiters' = DOMAIN waiters, UNCHANGED <<freeWaiters, target>>
    PROVE  WaitersExist'
<1>1. /\ \A u \in Threads : u # t => stack'[u] = stack[u]
      /\ \A i \in DOMAIN stack'[t] : i \in DOMAIN stack[t] \/ i = Len(stack[t]) + 1
      /\ \A i \in DOMAIN stack[t] : stack'[t][i] = stack[t][i]
      /\ stack'[t][Len(stack[t]) + 1] = Running(o)
  <2>1. Len(stack[t]) \in Nat
    BY LenProperties DEF TypeOK
  <2>. QED  BY <2>1, PushEffect
<1>2. Running(o).wid = 0
  BY DEF Running
<1>. QED  BY <1>1, <1>2, ExistSame

\* A frame popped needs its record no more.
LEMMA ExistEnds ==
    ASSUME TypeOK, WaitersExist, FramesAreNested, NEW t \in Threads, Ends(t)
    PROVE  WaitersExist'
<1>1. Pop(t) /\ stack[t] # <<>> /\ UNCHANGED <<waiters, freeWaiters, target>>
  BY RunsHasFrame DEF Ends, Runs, waiterVars
<1>2. /\ \A u \in Threads : u # t => stack'[u] = stack[u]
      /\ \A i \in DOMAIN stack'[t] : i \in DOMAIN stack[t] /\ stack'[t][i] = stack[t][i]
  BY <1>1, PopEffect
<1>. QED  BY <1>1, <1>2, ExistSame

\* The owner of a piece of work that is taken.
LEMMA TakenOwner ==
    ASSUME TypeOK, NEW t \in Threads, NEW own, TakeWork(t, own)
    PROVE  \E o \in Owners : Push(t, o)
<1>1. CASE TakeTask(t)
  <2>1. tasks[Serves[t]] \in Seq(Slots) /\ tasks[Serves[t]] # <<>>
    BY <1>1 DEF TakeTask, TypeOK, ConstantsAssumption
  <2>2. Head(tasks[Serves[t]]) \in Slots
    BY <2>1, HeadTailProperties
  <2>. QED  BY <1>1, <2>2 DEF TakeTask, Owners
<1>2. CASE TakeEntry(t, own)
  BY <1>2 DEF TakeEntry, TakeEntryOf, Owners
<1>. QED  BY <1>1, <1>2 DEF TakeWork

\* The record of a wait that ends is put on the free list.
LEMMA ExistWaitGot ==
    ASSUME TypeOK, FramesAreNested, WaitersExist, NEW t \in Threads, WaitGot(t)
    PROVE  WaitersExist'
<1>. DEFINE w == Top(t).wid
<1>1. w \in DOMAIN waiters /\ w \in Wids /\ stack[t] # <<>>
  BY WaitFrame DEF WaitGot, WaitLooks
<1>2. /\ DOMAIN waiters' = DOMAIN waiters /\ UNCHANGED target
      /\ freeWaiters' = Append(freeWaiters, w)
      /\ SetWid(t, 0) /\ 0 \in Wids \cup {0}
  BY DEF WaitGot, tokenVars
<1>3. ToSet(freeWaiters') \subseteq DOMAIN waiters'
  <2>1. ToSet(Append(freeWaiters, w)) = ToSet(freeWaiters) \cup {w}
    BY <1>1, ToSetAppend DEF TypeOK
  <2>. QED  BY <1>1, <1>2, <2>1 DEF WaitersExist
<1>4. /\ \A u \in Threads : u # t => stack'[u] = stack[u]
      /\ DOMAIN stack'[t] = DOMAIN stack[t]
      /\ \A i \in DOMAIN stack[t] : i # Len(stack[t]) => stack'[t][i] = stack[t][i]
      /\ stack'[t][Len(stack[t])] = [who |-> Me(t), wid |-> 0]
  BY <1>1, <1>2, SetWidEffect
<1>5. \A u \in Threads : \A i \in DOMAIN stack'[u] :
        stack'[u][i].wid # 0 => stack'[u][i].wid \in DOMAIN waiters'
  <2>1. \A i \in DOMAIN stack'[t] : stack'[t][i].wid = 0 \/ stack'[t][i] = stack[t][i]
    BY <1>4
  <2>. QED  BY <1>2, <1>4, <2>1 DEF WaitersExist
<1>. QED  BY <1>2, <1>3, <1>5 DEF WaitersExist

\* No step unmakes a record that a token, a frame or the free list names.
LEMMA ExistStep ==
    ASSUME TypeOK, FramesAreNested, WaitersExist, [Next]_vars
    PROVE  WaitersExist'
<1>1. CASE UNCHANGED <<waiters, freeWaiters, target, stack>>
  BY <1>1, ExistStill
<1>2. ASSUME NEW t \in Threads, Program(t)
      PROVE  WaitersExist'
  <2>1. ASSUME NEW gated \in BOOLEAN, MintActor(t, gated)
        PROVE  WaitersExist'
    BY <2>1, ExistMint DEF MintActor, waiterVars, threadVars
  <2>2. ASSUME NEW p \in Pools, NEW c \in SUBSET Slots, MintTask(t, p, c)
        PROVE  WaitersExist'
    BY <2>2, ExistMint DEF MintTask, waiterVars, threadVars
  <2>3. ASSUME NEW s \in Slots, Answer(t, s)
        PROVE  WaitersExist'
    BY <2>3, DeliverToWaiters, ExistStill DEF Answer
  <2>4. ASSUME NEW a \in Actors, NEW s \in Slots, Watch(t, a, s)
        PROVE  WaitersExist'
    BY <2>4, DeliverToWaiters, ExistStill DEF Watch, waiterVars
  <2>5. ASSUME NEW h \in Hosts, NEW c \in SUBSET Slots, HostOpens(t, h, c)
        PROVE  WaitersExist'
    <3>1. h \in Threads /\ h \in Owners
      BY DEF Threads, Owners
    <3>. QED  BY <2>5, <3>1, ExistPush DEF HostOpens, waiterVars
  <2>6. CASE ActorFaults(t) \/ TaskFaults(t)
    BY <2>6, ExistEnds DEF ActorFaults, TaskFaults, TaskEnds
  <2>7. CASE \/ \E a \in Actors, s \in Slots \cup {0} : Send(t, a, s)
             \/ Await(t) \/ \E s \in Slots : OnIdle(t, s)
             \/ \E p \in Pools : NewPool(t, p)
             \/ \E a \in Actors : NewActor(t, a)
    <3>1. UNCHANGED <<waiters, freeWaiters, target, stack>>
      BY <2>7 DEF Send, Await, OnIdle, NewPool, NewActor, waiterVars, tokenVars, threadVars
    <3>. QED  BY <3>1, ExistStill
  <2>. QED  BY <1>2, <2>1, <2>2, <2>3, <2>4, <2>5, <2>6, <2>7, ExistMintWaiter DEF Program
<1>3. ASSUME NEW t \in Threads, Runtime(t)
      PROVE  WaitersExist'
  <2>1. CASE ActorReturns(t) \/ TaskReturns(t)
    BY <2>1, ExistEnds DEF ActorReturns, TaskReturns, TaskEnds
  <2>2. CASE NextWork(t)
    <3>1. TakeWork(t, Nobody) /\ UNCHANGED <<waiters, freeWaiters, target>>
      BY <2>2 DEF NextWork, TakeWork
    <3>. QED  BY <3>1, TakenOwner, ExistPush
  <2>3. CASE WaitWork(t)
    <3>1. TakeWork(t, Me(t)) /\ UNCHANGED <<freeWaiters, target>> /\ WaitLooks(t)
          /\ waiters' = Booked(t)
      BY <2>3 DEF WaitWork, TakeWork
    <3>2. DOMAIN waiters' = DOMAIN waiters
      BY <3>1, WaitFrame
    <3>. QED  BY <3>1, <3>2, TakenOwner, ExistPush
  <2>4. CASE WaitIdles(t)
    <3>1. WaitLooks(t) /\ UNCHANGED <<freeWaiters, target, stack>>
      BY <2>4 DEF WaitIdles, tokenVars
    <3>2. DOMAIN waiters' = DOMAIN waiters
      BY <2>4, <3>1, WaitFrame, WaitIdlesCases
    <3>. QED  BY <3>1, <3>2, ExistStill
  <2>5. CASE Resend(t) \/ Park(t) \/ NextRetires(t) \/ NextSleeps(t)
    <3>1. UNCHANGED <<waiters, freeWaiters, target, stack>>
      BY <2>5 DEF Resend, Park, NextRetires, NextSleeps, waiterVars, tokenVars
    <3>. QED  BY <3>1, ExistStill
  <2>. QED  BY <1>3, <2>1, <2>2, <2>3, <2>4, <2>5, ExistWaitGot DEF Runtime
<1>4. CASE DeliverNext
  <2>1. Head(bulk.tokens) \in Slots
    BY <1>4, HeadTailProperties DEF DeliverNext, TypeOK, BulkRec
  <2>. QED  BY <1>4, <2>1, DeliverToWaiters, ExistStill DEF DeliverNext
<1>5. CASE EndBulk \/ MainReturns \/ \E t \in Threads : HostCloses(t)
  <2>1. UNCHANGED <<waiters, freeWaiters, target, stack>>
    BY <1>5 DEF EndBulk, MainReturns, HostCloses, waiterVars, tokenVars, threadVars
  <2>. QED  BY <2>1, ExistStill
<1>6. CASE UNCHANGED vars
  BY <1>1, <1>6 DEF vars, waiterVars, tokenVars, threadVars
<1>. QED  BY <1>2, <1>3, <1>4, <1>5, <1>6 DEF Next, Exited

(***************************************************************************)
(* The types hold in every state.                                          *)
(***************************************************************************)
\* The steps of program code keep the frames nested.
LEMMA NestedProgram ==
    ASSUME TypeOK, FramesAreNested, WaitersExist, NEW t \in Threads, Program(t)
    PROVE  FramesAreNested'
<1>1. ASSUME NEW a \in Actors, NEW s \in Slots \cup {0}, Send(t, a, s)
      PROVE  FramesAreNested'
  BY <1>1, NestedEnqueue DEF Send, Does, Runs
<1>2. CASE \/ \E gated \in BOOLEAN : MintActor(t, gated)
           \/ \E p \in Pools, c \in SUBSET Slots : MintTask(t, p, c)
           \/ \E s \in Slots : Answer(t, s) \/ OnIdle(t, s)
           \/ \E a \in Actors, s \in Slots : Watch(t, a, s)
           \/ \E a \in Actors : NewActor(t, a)
  <2>1. UNCHANGED <<stack, pc, sending>> /\ made \subseteq made'
    BY <1>2 DEF MintActor, MintTask, Answer, OnIdle, Watch, NewActor, threadVars
  <2>. QED  BY <2>1, NestedSame
<1>3. CASE ActorFaults(t) \/ TaskFaults(t)
  BY <1>3, NestedEnds DEF ActorFaults, TaskFaults, TaskEnds
<1>. QED  BY <1>1, <1>2, <1>3, NestedMintWaiter, NestedAwait, NestedNewPool, NestedHostOpens
          DEF Program

\* So do the steps of the runtime.
LEMMA NestedRuntime ==
    ASSUME TypeOK, FramesAreNested, NEW t \in Threads, Runtime(t)
    PROVE  FramesAreNested'
<1>1. CASE Resend(t)
  <2>1. sending[t].to \in Actors
    BY <1>1 DEF Resend, FramesAreNested, NestedOn
  <2>2. sending[t].tok \in Slots \cup {0}
    BY DEF TypeOK, SendRec
  <2>. QED  BY <1>1, <2>1, <2>2, NestedEnqueue DEF Resend
<1>2. CASE ActorReturns(t) \/ TaskReturns(t)
  BY <1>2, NestedEnds DEF ActorReturns, TaskReturns, TaskEnds
<1>3. CASE NextWork(t) \/ WaitWork(t)
  BY <1>3, NestedTakes DEF NextWork, WaitWork, WaitLooks, Looks
<1>. QED  BY <1>1, <1>2, <1>3, NestedPark, NestedNext, NestedWaitGot, NestedWaitIdles
          DEF Runtime

\* No step spoils the nesting.
LEMMA NestedStepAll ==
    ASSUME TypeOK, FramesAreNested, WaitersExist, [Next]_vars
    PROVE  FramesAreNested'
<1>1. CASE UNCHANGED vars \/ DeliverNext \/ EndBulk \/ MainReturns \/ Exited
  <2>1. UNCHANGED <<stack, pc, sending, made>>
    BY <1>1 DEF vars, DeliverNext, EndBulk, MainReturns, Exited, threadVars
  <2>. QED  BY <2>1, NestedSame
<1>. QED  BY <1>1, NestedProgram, NestedRuntime, NestedHostCloses DEF Next

\* The inductive invariant the types rest on: a frame that waits has a record
\* (or WaitGot would read a record that does not exist), which needs the frames
\* nested and the records never unmade.
Typed == TypeOK /\ FramesAreNested /\ WaitersExist

\* The invariant holds initially: one frame, main's, and no record.
LEMMA InitTyped == Init => Typed
<1>. SUFFICES ASSUME Init PROVE FramesAreNested /\ WaitersExist
  BY InitType DEF Typed
<1>1. /\ \A t \in Threads : /\ t # Main => stack[t] = <<>> /\ pc[t] \in {"look", "unborn"}
                            /\ t = Main => stack[t] = <<Running(Main)>> /\ pc[t] = "run"
      /\ \A t \in Workers : Serves[t] \notin made => pc[t] = "unborn"
  BY NamesAreDistinct DEF Init, Threads
<1>2. FramesAreNested
  <2>1. ASSUME NEW t \in Threads PROVE NestedOn(t)
    <3>1. CASE t = Main
      <4>1. stack[t] = <<Running(Main)>> /\ pc[t] = "run"
        BY <1>1, <3>1
      <4>2. Len(stack[t]) = 1 /\ stack[t] # <<>> /\ DOMAIN stack[t] = {1}
        BY <4>1
      <4>. QED  BY <4>1, <4>2 DEF NestedOn
    <3>2. CASE t # Main
      <4>1. stack[t] = <<>> /\ pc[t] \in {"look", "unborn"}
        BY <1>1, <3>2
      <4>2. DOMAIN stack[t] = {}
        BY <4>1
      <4>. QED  BY <4>1, <4>2 DEF NestedOn
    <3>. QED  BY <3>1, <3>2
  <2>. QED  BY <1>1, <2>1 DEF FramesAreNested
<1>3. WaitersExist
  <2>1. \A s \in Slots : target[s] \notin Wids
    BY NamesAreDistinct DEF Init, Wids, ConstantsAssumption
  <2>2. \A t \in Threads : \A i \in DOMAIN stack[t] : stack[t][i].wid = 0
    BY <1>1 DEF Running
  <2>3. ToSet(freeWaiters) = {}
    BY DEF Init, ToSet
  <2>. QED  BY <2>1, <2>2, <2>3 DEF WaitersExist
<1>. QED  BY <1>2, <1>3

\* Every table, stack and token holds what it should in every reachable state,
\* for any number of actors, pools, threads and tokens and any program.
THEOREM TypesAreKept == Spec => []Typed
<1>1. Typed /\ [Next]_vars => Typed'
  BY StepType, NestedStepAll, ExistStep DEF Typed
<1>. QED  BY InitTyped, <1>1, PTL DEF Spec

\* The type invariant of the scheduler holds.
THEOREM TypeCorrect == Spec => []TypeOK
<1>1. Typed => TypeOK
  BY DEF Typed
<1>. QED  BY <1>1, TypesAreKept, PTL

(***************************************************************************)
(* An actor is activated once at a time.                                   *)
(***************************************************************************)
\* A step that begins no activation and ends none.
LEMMA OneKept ==
    ASSUME OneActivation, UNCHANGED <<running, dead>>,
           \A t \in Threads : \A i \in DOMAIN stack'[t] :
               \/ stack'[t][i].who \notin Actors
               \/ i \in DOMAIN stack[t] /\ stack'[t][i].who = stack[t][i].who
    PROVE  OneActivation'
BY DEF OneActivation

\* A step that touches no stack.
LEMMA OneStill ==
    ASSUME OneActivation, UNCHANGED <<running, dead, stack>>
    PROVE  OneActivation'
BY DEF OneActivation

\* A frame whose record changes is the frame of the same owner.
LEMMA OneSetWid ==
    ASSUME TypeOK, OneActivation, NEW t \in Threads, stack[t] # <<>>, NEW w \in Wids \cup {0},
           SetWid(t, w), UNCHANGED <<running, dead>>
    PROVE  OneActivation'
<1>1. /\ \A u \in Threads : u # t => stack'[u] = stack[u]
      /\ DOMAIN stack'[t] = DOMAIN stack[t]
      /\ \A i \in DOMAIN stack[t] : i # Len(stack[t]) => stack'[t][i] = stack[t][i]
      /\ stack'[t][Len(stack[t])] = [who |-> Me(t), wid |-> w]
  BY SetWidEffect
<1>2. Me(t) = stack[t][Len(stack[t])].who
  BY TopType DEF Me
<1>3. \A i \in DOMAIN stack[t] : stack'[t][i].who = stack[t][i].who
  <2>1. stack'[t][Len(stack[t])].who = Me(t)
    BY <1>1
  <2>. QED  BY <1>1, <1>2, <2>1
<1>. QED  BY <1>1, <1>3, OneKept

\* The frame pushed is a host thread's or a task's.
LEMMA OnePush ==
    ASSUME TypeOK, OneActivation, NEW t \in Threads, NEW o \in Owners \ Actors, Push(t, o),
           UNCHANGED <<running, dead>>
    PROVE  OneActivation'
<1>1. /\ \A u \in Threads : u # t => stack'[u] = stack[u]
      /\ DOMAIN stack[t] = 1 .. Len(stack[t]) /\ DOMAIN stack'[t] = 1 .. Len(stack[t]) + 1
      /\ \A i \in DOMAIN stack[t] : stack'[t][i] = stack[t][i]
      /\ stack'[t][Len(stack[t]) + 1] = Running(o)
  BY PushEffect
<1>2. Len(stack[t]) \in Nat /\ Running(o).who \notin Actors
  BY LenProperties DEF TypeOK, Running
<1>3. \A i \in DOMAIN stack'[t] : i \in DOMAIN stack[t] \/ i = Len(stack[t]) + 1
  BY <1>1, <1>2
<1>. QED  BY <1>1, <1>2, <1>3, OneKept

\* An activation begins, of an actor that has none.
LEMMA OneBegins ==
    ASSUME TypeOK, OneActivation, NEW t \in Threads, NEW a \in Actors \ (running \cup dead),
           Push(t, a), running' = running \cup {a}, dead' = dead
    PROVE  OneActivation'
<1>1. /\ \A u \in Threads : u # t => stack'[u] = stack[u]
      /\ DOMAIN stack[t] = 1 .. Len(stack[t]) /\ DOMAIN stack'[t] = 1 .. Len(stack[t]) + 1
      /\ \A i \in DOMAIN stack[t] : stack'[t][i] = stack[t][i]
      /\ stack'[t][Len(stack[t]) + 1] = Running(a)
  <2>1. a \in Owners
    BY DEF Owners
  <2>. QED  BY <2>1, PushEffect
<1>2. Len(stack[t]) \in Nat /\ Running(a).who = a
  BY LenProperties DEF TypeOK, Running
<1>3. \A u \in Threads : \A i \in DOMAIN stack[u] : stack[u][i].who # a
  BY DEF OneActivation
<1>4. ASSUME NEW u \in Threads, NEW i \in DOMAIN stack'[u]
      PROVE  \/ i \in DOMAIN stack[u] /\ stack'[u][i].who = stack[u][i].who
             \/ u = t /\ i = Len(stack[t]) + 1 /\ stack'[u][i].who = a
  <2>1. CASE u # t
    BY <1>1, <1>4, <2>1
  <2>2. CASE u = t /\ i \in DOMAIN stack[t]
    BY <1>1, <2>2
  <2>3. CASE u = t /\ i \notin DOMAIN stack[t]
    <3>1. i = Len(stack[t]) + 1
      BY <1>1, <1>2, <1>4, <2>3
    <3>. QED  BY <1>1, <1>2, <2>3, <3>1
  <2>. QED  BY <2>1, <2>2, <2>3
<1>5. ASSUME NEW u \in Threads, NEW i \in DOMAIN stack'[u], stack'[u][i].who \in Actors
      PROVE  stack'[u][i].who \in running' \ dead'
  <2>1. CASE stack'[u][i].who = a
    BY <2>1
  <2>2. CASE i \in DOMAIN stack[u] /\ stack'[u][i].who = stack[u][i].who
    BY <1>5, <2>2 DEF OneActivation
  <2>. QED  BY <1>4, <2>1, <2>2
<1>6. ASSUME NEW u \in Threads, NEW v \in Threads, NEW i \in DOMAIN stack'[u],
             NEW j \in DOMAIN stack'[v], stack'[u][i].who \in Actors,
             stack'[u][i].who = stack'[v][j].who
      PROVE  u = v /\ i = j
  <2>1. CASE stack'[u][i].who = a
    <3>1. u = t /\ i = Len(stack[t]) + 1
      BY <1>3, <1>4, <2>1
    <3>2. v = t /\ j = Len(stack[t]) + 1
      BY <1>3, <1>4, <1>6, <2>1
    <3>. QED  BY <3>1, <3>2
  <2>2. CASE stack'[u][i].who # a
    <3>1. i \in DOMAIN stack[u] /\ stack'[u][i].who = stack[u][i].who
      BY <1>4, <2>2
    <3>2. j \in DOMAIN stack[v] /\ stack'[v][j].who = stack[v][j].who
      BY <1>4, <1>6, <2>2
    <3>3. stack[u][i].who \in Actors /\ stack[u][i].who = stack[v][j].who
      BY <1>6, <3>1, <3>2
    <3>. QED  BY <3>1, <3>2, <3>3 DEF OneActivation
  <2>. QED  BY <2>1, <2>2
<1>. QED  BY <1>5, <1>6 DEF OneActivation

\* An activation ends: it is the only one of its actor.
LEMMA OneEnds ==
    ASSUME TypeOK, FramesAreNested, OneActivation, NEW t \in Threads, Ends(t),
           \/ UNCHANGED <<running, dead>>
           \/ running' = running \ {Me(t)} /\ dead' \in {dead, dead \cup {Me(t)}}
    PROVE  OneActivation'
<1>1. Pop(t) /\ stack[t] # <<>>
  BY RunsHasFrame DEF Ends, Runs
<1>2. /\ \A u \in Threads : u # t => stack'[u] = stack[u]
      /\ Len(stack[t]) \in Nat \ {0}
      /\ DOMAIN stack[t] = 1 .. Len(stack[t]) /\ DOMAIN stack'[t] = 1 .. Len(stack[t]) - 1
      /\ \A i \in DOMAIN stack'[t] : stack'[t][i] = stack[t][i]
  BY <1>1, PopEffect
<1>3. Me(t) = stack[t][Len(stack[t])].who
  BY <1>1, TopType DEF Me
<1>4. \A u \in Threads : \A i \in DOMAIN stack'[u] :
        /\ i \in DOMAIN stack[u] /\ stack'[u][i] = stack[u][i]
        /\ ~(u = t /\ i = Len(stack[t]))
  BY <1>2
<1>5. \A u \in Threads : \A i \in DOMAIN stack'[u] :
        stack'[u][i].who \in Actors => stack'[u][i].who # Me(t)
  <2>1. Len(stack[t]) \in DOMAIN stack[t]
    BY <1>2
  <2>. QED  BY SMTT(30), <1>3, <1>4, <2>1 DEF OneActivation
<1>6. \A u \in Threads : \A i \in DOMAIN stack'[u] :
        stack'[u][i].who \in Actors => stack'[u][i].who \in running' \ dead'
  BY <1>4, <1>5 DEF OneActivation
<1>. QED  BY <1>4, <1>6 DEF OneActivation

\* Work is taken for a task, or for an actor that has no activation.
LEMMA OneTakes ==
    ASSUME TypeOK, OneActivation, NEW t \in Threads, NEW own, TakeWork(t, own)
    PROVE  OneActivation'
<1>1. CASE TakeTask(t)
  <2>1. tasks[Serves[t]] \in Seq(Slots) /\ tasks[Serves[t]] # <<>>
    BY <1>1 DEF TakeTask, TypeOK, ConstantsAssumption
  <2>2. Head(tasks[Serves[t]]) \in Slots
    BY <2>1, HeadTailProperties
  <2>3. Head(tasks[Serves[t]]) \in Owners \ Actors
    BY <2>2, NamesAreDistinct DEF Owners, Slots, ConstantsAssumption
  <2>. QED  BY <1>1, <2>3, OnePush DEF TakeTask, actorVars
<1>2. ASSUME NEW a \in Actors, NEW k \in DOMAIN queue[a], TakeEntryOf(t, own, a, k)
      PROVE  OneActivation'
  <2>1. a \notin running \cup dead
    <3>1. PICK j \in DOMAIN readyQ[Serves[t]] :
            First(j, Hits(Serves[t], own)) /\ readyQ[Serves[t]][j] = a
      BY <1>2 DEF TakeEntryOf
    <3>. QED  BY <3>1 DEF First, Hits, Takeable
  <2>. QED  BY <1>2, <2>1, OneBegins DEF TakeEntryOf, Occupy
<1>. QED  BY <1>1, <1>2 DEF TakeWork, TakeEntry

\* The steps of program code activate nobody.
LEMMA OneProgram ==
    ASSUME TypeOK, FramesAreNested, WaitersExist, OneActivation, NEW t \in Threads, Program(t)
    PROVE  OneActivation'
<1>1. CASE \/ \E a \in Actors, s \in Slots \cup {0} : Send(t, a, s)
           \/ \E gated \in BOOLEAN : MintActor(t, gated)
           \/ \E p \in Pools, c \in SUBSET Slots : MintTask(t, p, c)
           \/ Await(t)
           \/ \E s \in Slots : Answer(t, s) \/ OnIdle(t, s)
           \/ \E a \in Actors, s \in Slots : Watch(t, a, s)
           \/ \E p \in Pools : NewPool(t, p)
           \/ \E a \in Actors : NewActor(t, a)
  <2>1. UNCHANGED <<running, dead, stack>>
    BY <1>1 DEF Send, Enqueue, MintActor, MintTask, Await, Answer, OnIdle, Watch, NewPool,
                NewActor, DeliverTo, threadVars, actorVars
  <2>. QED  BY <2>1, OneStill
<1>2. CASE MintWaiter(t)
  <2>1. PICK w \in Wids : SetWid(t, w)
    BY <1>2, MintWaiterRecord
  <2>2. stack[t] # <<>> /\ UNCHANGED <<running, dead>>
    BY <1>2, RunsHasFrame DEF MintWaiter, Does, Runs, actorVars
  <2>. QED  BY <2>1, <2>2, OneSetWid
<1>3. ASSUME NEW h \in Hosts, NEW c \in SUBSET Slots, HostOpens(t, h, c)
      PROVE  OneActivation'
  <2>1. h \in Threads /\ h \in Owners \ Actors
    BY NamesAreDistinct DEF Threads, Owners
  <2>. QED  BY <1>3, <2>1, OnePush DEF HostOpens, actorVars
<1>4. CASE ActorFaults(t)
  BY <1>4, OneEnds DEF ActorFaults
<1>5. CASE TaskFaults(t)
  BY <1>5, OneEnds DEF TaskFaults, TaskEnds
<1>. QED  BY <1>1, <1>2, <1>3, <1>4, <1>5 DEF Program

\* The runtime activates whoever take_work found at rest.
LEMMA OneRuntime ==
    ASSUME TypeOK, FramesAreNested, WaitersExist, OneActivation, NEW t \in Threads, Runtime(t)
    PROVE  OneActivation'
<1>1. CASE Resend(t) \/ Park(t) \/ NextRetires(t) \/ NextSleeps(t) \/ WaitIdles(t)
  <2>1. UNCHANGED <<running, dead, stack>>
    BY <1>1 DEF Resend, Enqueue, Park, NextRetires, NextSleeps, WaitIdles, actorVars
  <2>. QED  BY <2>1, OneStill
<1>2. CASE ActorReturns(t)
  BY <1>2, OneEnds DEF ActorReturns
<1>3. CASE TaskReturns(t)
  BY <1>3, OneEnds DEF TaskReturns, TaskEnds
<1>4. CASE NextWork(t) \/ WaitWork(t)
  BY <1>4, OneTakes DEF NextWork, WaitWork
<1>5. CASE WaitGot(t)
  <2>1. SetWid(t, 0) /\ stack[t] # <<>> /\ UNCHANGED <<running, dead>> /\ 0 \in Wids \cup {0}
    BY <1>5 DEF WaitGot, WaitLooks, actorVars
  <2>. QED  BY <2>1, OneSetWid
<1>. QED  BY <1>1, <1>2, <1>3, <1>4, <1>5 DEF Runtime

\* No step activates an actor twice.
LEMMA OneStep ==
    ASSUME TypeOK, FramesAreNested, WaitersExist, OneActivation, [Next]_vars
    PROVE  OneActivation'
<1>1. CASE \/ UNCHANGED vars \/ DeliverNext \/ EndBulk \/ MainReturns \/ Exited
           \/ \E t \in Threads : HostCloses(t)
  <2>1. UNCHANGED <<running, dead, stack>>
    BY <1>1 DEF vars, DeliverNext, DeliverTo, EndBulk, MainReturns, Exited, HostCloses,
                actorVars, threadVars
  <2>. QED  BY <2>1, OneStill
<1>. QED  BY <1>1, OneProgram, OneRuntime DEF Next

\* Initially nobody is activated.
LEMMA InitOne == Init => OneActivation
<1>. SUFFICES ASSUME Init PROVE OneActivation
  OBVIOUS
<1>1. Main \notin Actors
  BY NamesAreDistinct DEF Threads
<1>2. \A t \in Threads : \A i \in DOMAIN stack[t] : stack[t][i].who = Main
  BY DEF Init, Running
<1>. QED  BY <1>1, <1>2 DEF OneActivation

\* An actor never runs twice at once, and never after its death: its activation
\* is one frame of one stack, whatever the nesting of serves inside waits.
THEOREM ActivationsAreSingle == Spec => []OneActivation
<1>1. Typed /\ OneActivation /\ [Next]_vars => OneActivation'
  BY OneStep DEF Typed
<1>. QED  BY InitOne, <1>1, TypesAreKept, PTL DEF Spec

(***************************************************************************)
(* Whoever sleeps is on the list that wakes it.                            *)
(***************************************************************************)
\* Whoever leaves the idle list of a pool, or the senders' list of an actor, is
\* unparked by the step that takes it off.
IdleAreWoken == /\ permit \subseteq permit'
                /\ \A p \in Pools : ToSet(idle[p]) \subseteq ToSet(idle'[p]) \cup permit'
SendersAreWoken == \A a \in Actors : ToSet(blocked[a]) \subseteq ToSet(blocked'[a]) \cup permit'

\* A step that leaves the idle lists alone.
LEMMA WokenSame ==
    ASSUME permit \subseteq permit', UNCHANGED idle
    PROVE  IdleAreWoken
BY DEF IdleAreWoken

\* wake_pool unparks the thread it takes off the list.
LEMMA WokenByPool ==
    ASSUME TypeOK, NEW p \in Pools, NEW also, WakePool(p, also)
    PROVE  IdleAreWoken /\ also \subseteq permit'
<1>1. permit \subseteq permit' /\ also \subseteq permit'
  BY DEF WakePool
<1>2. ASSUME NEW q \in Pools, q # p
      PROVE  idle'[q] = idle[q]
  BY <1>2 DEF WakePool, TypeOK
<1>3. ToSet(idle[p]) \subseteq ToSet(idle'[p]) \cup permit'
  <2>1. CASE idle[p] = <<>>
    BY <2>1 DEF WakePool, TypeOK
  <2>2. CASE idle[p] # <<>>
    <3>1. idle[p] \in Seq(Threads) /\ idle'[p] = Tail(idle[p]) /\ Head(idle[p]) \in permit'
      BY <2>2 DEF WakePool, TypeOK
    <3>. QED  BY <2>2, <3>1, ToSetTail
  <2>. QED  BY <2>1, <2>2
<1>. QED  BY <1>1, <1>2, <1>3 DEF IdleAreWoken

\* Waking every thread of some pools unparks all it takes off.
LEMMA WokenByEvery ==
    ASSUME TypeOK, NEW ps, NEW also, WakeEvery(ps, also)
    PROVE  IdleAreWoken /\ also \subseteq permit'
<1>1. permit \subseteq permit' /\ also \subseteq permit'
  BY DEF WakeEvery
<1>2. ASSUME NEW p \in Pools
      PROVE  ToSet(idle[p]) \subseteq ToSet(idle'[p]) \cup permit'
  <2>1. CASE p \in ps
    BY <2>1 DEF WakeEvery
  <2>2. CASE p \notin ps
    BY <2>2 DEF WakeEvery
  <2>. QED  BY <2>1, <2>2
<1>. QED  BY <1>1, <1>2 DEF IdleAreWoken

\* mark_ready wakes at most one thread of the actor's pool.
LEMMA WokenByReady ==
    ASSUME TypeOK, NEW a \in Actors, NEW also, MarkReadyAndWake(a, also)
    PROVE  IdleAreWoken /\ also \subseteq permit'
<1>1. Home[a] \in Pools
  BY DEF ConstantsAssumption
<1>2. CASE WakePool(Home[a], also)
  BY <1>1, <1>2, WokenByPool
<1>3. CASE permit' = permit \cup also /\ UNCHANGED idle
  BY <1>3, WokenSame
<1>. QED  BY <1>2, <1>3 DEF MarkReadyAndWake

\* A delivery takes off a list only whom it wakes.
LEMMA WokenByDelivery ==
    ASSUME TypeOK, NEW s \in Slots, DeliverTo(s)
    PROVE  IdleAreWoken /\ SendersAreWoken
<1>1. SendersAreWoken
  BY DEF DeliverTo, SendersAreWoken
<1>2. CASE DeliverToActor(s)
  <2>1. target[s] \in Actors /\ MarkReadyAndWake(target[s], {})
    BY <1>2 DEF DeliverToActor
  <2>. QED  BY <1>1, <2>1, WokenByReady
<1>3. CASE DeliverToWaiter(s)
  <2>1. permit \subseteq permit' /\ UNCHANGED idle
    BY <1>3 DEF DeliverToWaiter
  <2>. QED  BY <1>1, <2>1, WokenSame
<1>4. CASE DeliverToTask(s)
  <2>1. target[s] \in Pools /\ WakePool(target[s], {})
    BY <1>4 DEF DeliverToTask
  <2>. QED  BY <1>1, <2>1, WokenByPool
<1>. QED  BY <1>2, <1>3, <1>4 DEF DeliverTo

\* A thread that goes to sleep joins the list.
LEMMA WokenAppend ==
    ASSUME TypeOK, NEW p \in Pools, NEW t \in Threads, idle' = [idle EXCEPT ![p] = Append(@, t)],
           UNCHANGED permit
    PROVE  IdleAreWoken /\ t \in ToSet(idle'[p])
<1>1. idle[p] \in Seq(Threads) /\ idle'[p] = Append(idle[p], t)
  BY DEF TypeOK
<1>2. ToSet(idle'[p]) = ToSet(idle[p]) \cup {t}
  BY <1>1, ToSetAppend
<1>3. \A q \in Pools : q # p => idle'[q] = idle[q]
  BY DEF TypeOK
<1>. QED  BY <1>2, <1>3 DEF IdleAreWoken

\* The two invariants together.
Listed == SleepersAreListed /\ BlockedAreListed

\* A step after which a thread sleeps only where it slept before, or on a list
\* it has just joined.
LEMMA ListedStep ==
    ASSUME TypeOK, FramesAreNested, Listed, IdleAreWoken, SendersAreWoken,
           \A t \in Threads :
               \/ pc'[t] = pc[t] /\ sending'[t] = sending[t]
               \/ pc'[t] \notin {"park", "full"}
               \/ pc'[t] = "park" /\ t \in ToSet(idle'[Serves[t]])
               \/ pc'[t] = "full" /\ t \in ToSet(blocked'[sending'[t].to])
    PROVE  Listed'
<1>1. ASSUME NEW t \in Threads, pc'[t] = "park", t \notin permit'
      PROVE  t \in ToSet(idle'[Serves[t]])
  <2>1. Serves[t] \in Pools
    BY DEF ConstantsAssumption
  <2>2. CASE pc[t] = "park"
    <3>1. t \in ToSet(idle[Serves[t]])
      BY <1>1, <2>2 DEF Listed, SleepersAreListed, IdleAreWoken
    <3>. QED  BY <1>1, <2>1, <3>1 DEF IdleAreWoken
  <2>. QED  BY <1>1, <2>2
<1>2. ASSUME NEW t \in Threads, pc'[t] = "full", t \notin permit'
      PROVE  t \in ToSet(blocked'[sending'[t].to])
  <2>1. CASE pc[t] = "full" /\ sending'[t] = sending[t]
    <3>1. t \in ToSet(blocked[sending[t].to])
      BY <1>2, <2>1 DEF Listed, BlockedAreListed, IdleAreWoken
    <3>2. sending[t].to \in Actors
      BY <2>1 DEF FramesAreNested, NestedOn
    <3>. QED  BY <1>2, <2>1, <3>1, <3>2 DEF SendersAreWoken
  <2>. QED  BY <1>2, <2>1
<1>. QED  BY <1>1, <1>2 DEF Listed, SleepersAreListed, BlockedAreListed

\* Sending: the sender joins the list, or the actor's pool is woken.
LEMMA ListedEnqueue ==
    ASSUME TypeOK, FramesAreNested, Listed, NEW t \in Threads, NEW a \in Actors,
           NEW s \in Slots \cup {0}, Enqueue(t, a, s)
    PROVE  Listed'
<1>1. IdleAreWoken
  <2>1. CASE UNCHANGED <<idle, permit>>
    BY <2>1, WokenSame
  <2>. QED  BY <2>1, WokenByReady DEF Enqueue
<1>2. SendersAreWoken
  <2>1. CASE UNCHANGED blocked
    BY <2>1 DEF SendersAreWoken
  <2>2. CASE blocked' = [blocked EXCEPT ![a] = Append(@, t)]
    <3>1. blocked[a] \in Seq(Threads) /\ blocked'[a] = Append(blocked[a], t)
      BY <2>2 DEF TypeOK
    <3>2. ToSet(blocked'[a]) = ToSet(blocked[a]) \cup {t}
      BY <3>1, ToSetAppend
    <3>3. \A b \in Actors : b # a => blocked'[b] = blocked[b]
      BY <2>2 DEF TypeOK
    <3>. QED  BY <2>2, <3>2, <3>3 DEF SendersAreWoken
  <2>. QED  BY <2>1, <2>2 DEF Enqueue, Goto
<1>3. pc \in [Threads -> Label] /\ sending \in [Threads -> SendRec]
  BY DEF TypeOK
<1>4. \A u \in Threads : u # t => pc'[u] = pc[u] /\ sending'[u] = sending[u]
  BY <1>3 DEF Enqueue, Goto
<1>5. pc'[t] = "run" \/ (pc'[t] = "full" /\ t \in ToSet(blocked'[sending'[t].to]))
  <2>1. CASE pc' = [pc EXCEPT ![t] = "run"]
    BY <1>3, <2>1
  <2>2. CASE /\ blocked' = [blocked EXCEPT ![a] = Append(@, t)]
             /\ pc' = [pc EXCEPT ![t] = "full"]
             /\ sending' = [sending EXCEPT ![t] = [to |-> a, tok |-> s]]
    <3>1. blocked[a] \in Seq(Threads) /\ blocked'[a] = Append(blocked[a], t)
      BY <2>2 DEF TypeOK
    <3>2. t \in ToSet(blocked'[a])
      BY <3>1, ToSetAppend
    <3>. QED  BY <1>3, <2>2, <3>2
  <2>. QED  BY <2>1, <2>2 DEF Enqueue, Goto
<1>. QED  BY <1>1, <1>2, <1>4, <1>5, ListedStep

\* A piece of work taken by t, which then runs it.
LEMMA ListedTakes ==
    ASSUME TypeOK, FramesAreNested, Listed, NEW t \in Threads, NEW own, TakeWork(t, own)
    PROVE  Listed'
<1>1. UNCHANGED <<idle, sending>> /\ pc'[t] = "run" /\ \A u \in Threads : u # t => pc'[u] = pc[u]
  BY GotoEffect DEF TakeWork
<1>2. permit \subseteq permit' /\ SendersAreWoken
  <2>1. CASE UNCHANGED <<blocked, permit>>
    BY <2>1 DEF SendersAreWoken
  <2>2. ASSUME NEW a \in Actors, WakeSender(a)
        PROVE  permit \subseteq permit' /\ SendersAreWoken
    <3>1. ASSUME NEW b \in Actors, b # a
          PROVE  blocked'[b] = blocked[b]
      BY <2>2, <3>1 DEF WakeSender, TypeOK
    <3>2. ToSet(blocked[a]) \subseteq ToSet(blocked'[a]) \cup permit'
      <4>1. CASE blocked[a] = <<>>
        BY <2>2, <4>1 DEF WakeSender, TypeOK
      <4>2. CASE blocked[a] # <<>>
        <5>1. /\ blocked[a] \in Seq(Threads) /\ blocked'[a] = Tail(blocked[a])
              /\ Head(blocked[a]) \in permit'
          BY <2>2, <4>2 DEF WakeSender, TypeOK
        <5>. QED  BY <4>2, <5>1, ToSetTail
      <4>. QED  BY <4>1, <4>2
    <3>3. permit \subseteq permit'
      BY <2>2 DEF WakeSender
    <3>. QED  BY <3>1, <3>2, <3>3 DEF SendersAreWoken
  <2>3. CASE TakeTask(t)
    BY <2>1, <2>3 DEF TakeTask, actorVars
  <2>4. ASSUME NEW a \in Actors, NEW k \in DOMAIN queue[a], TakeEntryOf(t, own, a, k)
        PROVE  UNCHANGED <<blocked, permit>> \/ WakeSender(a)
    BY <2>4 DEF TakeEntryOf
  <2>. QED  BY <2>1, <2>2, <2>3, <2>4 DEF TakeWork, TakeEntry
<1>3. IdleAreWoken
  BY <1>1, <1>2, WokenSame
<1>. QED  BY <1>1, <1>2, <1>3, ListedStep

\* An activation or a task ends: the dead actor's senders are woken.
LEMMA ListedEnds ==
    ASSUME TypeOK, FramesAreNested, Listed, NEW t \in Threads,
           ActorReturns(t) \/ ActorFaults(t) \/ TaskReturns(t) \/ TaskFaults(t)
    PROVE  Listed'
<1>1. Ends(t)
  BY DEF ActorReturns, ActorFaults, TaskReturns, TaskFaults, TaskEnds
<1>2. UNCHANGED sending /\ pc'[t] = "look" /\ \A u \in Threads : u # t => pc'[u] = pc[u]
  BY <1>1, GotoEffect DEF Ends
<1>3. IdleAreWoken /\ SendersAreWoken
  <2>1. CASE ActorReturns(t)
    BY <2>1, WokenSame DEF ActorReturns, SendersAreWoken
  <2>2. ASSUME NEW sinks \in {{}, LiveSink(Serves[t])}, TaskEnds(t, sinks)
        PROVE  IdleAreWoken /\ SendersAreWoken
    <3>1. SendersAreWoken
      BY <2>2 DEF TaskEnds, SendersAreWoken
    <3>2. CASE sinks # {}
      <4>1. Sink[Serves[t]] \in Actors
        BY <2>2, <3>2 DEF LiveSink, ConstantsAssumption
      <4>. QED  BY <2>2, <3>1, <3>2, <4>1, WokenByReady DEF TaskEnds
    <3>3. CASE sinks = {}
      BY <2>2, <3>1, <3>3, WokenByEvery DEF TaskEnds
    <3>. QED  BY <3>2, <3>3
  <2>3. CASE ActorFaults(t)
    <3>. DEFINE a == Me(t)
                toSink == IF watchers[a] = <<>> THEN LiveSink(Home[a]) ELSE {}
    <3>1. a \in Actors /\ Home[a] \in Pools /\ blocked' = [blocked EXCEPT ![a] = <<>>]
      BY <2>3 DEF ActorFaults, ConstantsAssumption
    <3>2. IdleAreWoken /\ ToSet(blocked[a]) \subseteq permit'
      <4>1. CASE toSink = {}
        <5>1. permit' = permit \cup ToSet(blocked[a]) /\ UNCHANGED idle
          BY <2>3, <4>1 DEF ActorFaults
        <5>. QED  BY <5>1, WokenSame
      <4>2. CASE toSink # {}
        <5>1. Sink[Home[a]] \in Actors
          BY <3>1, <4>2 DEF LiveSink, ConstantsAssumption
        <5>2. MarkReadyAndWake(Sink[Home[a]], ToSet(blocked[a]))
          BY <2>3, <4>2 DEF ActorFaults
        <5>. QED  BY <5>1, <5>2, WokenByReady
      <4>. QED  BY <4>1, <4>2
    <3>3. \A b \in Actors : b # a => blocked'[b] = blocked[b]
      BY <3>1 DEF TypeOK
    <3>. QED  BY <3>1, <3>2, <3>3 DEF SendersAreWoken
  <2>. QED  BY <2>1, <2>2, <2>3 DEF TaskReturns, TaskFaults
<1>. QED  BY <1>2, <1>3, ListedStep

\* Every other step of a thread, by what it does to the idle lists.
LEMMA ListedProgram ==
    ASSUME TypeOK, FramesAreNested, Listed, NEW t \in Threads, Program(t)
    PROVE  Listed'
<1>1. ASSUME NEW a \in Actors, NEW s \in Slots \cup {0}, Send(t, a, s)
      PROVE  Listed'
  BY <1>1, ListedEnqueue DEF Send
<1>2. CASE \/ \E gated \in BOOLEAN : MintActor(t, gated)
           \/ \E p \in Pools, c \in SUBSET Slots : MintTask(t, p, c)
           \/ MintWaiter(t)
           \/ \E a \in Actors : NewActor(t, a)
  <2>1. UNCHANGED <<idle, blocked, permit, pc, sending>>
    BY <1>2 DEF MintActor, MintTask, MintWaiter, NewActor, threadVars, poolVars, actorVars
  <2>. QED  BY <2>1, WokenSame, ListedStep DEF SendersAreWoken
<1>3. CASE Await(t)
  <2>1. UNCHANGED <<idle, blocked, permit, sending>> /\ pc'[t] = "look"
        /\ \A u \in Threads : u # t => pc'[u] = pc[u]
    BY <1>3, GotoEffect DEF Await, poolVars, actorVars
  <2>. QED  BY <2>1, WokenSame, ListedStep DEF SendersAreWoken
<1>4. ASSUME NEW s \in Slots, Answer(t, s)
      PROVE  Listed'
  BY <1>4, WokenByDelivery, ListedStep DEF Answer
<1>5. ASSUME NEW a \in Actors, NEW s \in Slots, Watch(t, a, s)
      PROVE  Listed'
  <2>1. CASE DeliverTo(s)
    BY <1>5, <2>1, WokenByDelivery, ListedStep DEF Watch
  <2>2. CASE UNCHANGED <<blocked, poolVars, permit>>
    <3>1. UNCHANGED <<idle, blocked, permit, pc, sending>>
      BY <1>5, <2>2 DEF Watch, poolVars
    <3>. QED  BY <3>1, WokenSame, ListedStep DEF SendersAreWoken
  <2>. QED  BY <1>5, <2>1, <2>2 DEF Watch
<1>6. ASSUME NEW s \in Slots, OnIdle(t, s)
      PROVE  Listed'
  <2>1. WakeEvery(Pools, {}) /\ UNCHANGED <<blocked, pc, sending>>
    BY <1>6 DEF OnIdle, actorVars
  <2>. QED  BY <2>1, WokenByEvery, ListedStep DEF SendersAreWoken
<1>7. ASSUME NEW p \in Pools, NewPool(t, p)
      PROVE  Listed'
  <2>1. /\ UNCHANGED <<idle, blocked, permit, sending>>
        /\ \A u \in Threads : pc'[u] \in {"look", pc[u]}
    BY <1>7 DEF NewPool, poolVars, actorVars
  <2>. QED  BY <2>1, WokenSame, ListedStep DEF SendersAreWoken
<1>8. ASSUME NEW h \in Hosts, NEW c \in SUBSET Slots, HostOpens(t, h, c)
      PROVE  Listed'
  <2>1. h \in Threads
    BY DEF Threads
  <2>2. /\ WakeEvery(Pools, {}) /\ UNCHANGED <<blocked, sending>>
        /\ pc'[h] = "run" /\ \A u \in Threads : u # h => pc'[u] = pc[u]
    BY <1>8, <2>1, GotoEffect DEF HostOpens, actorVars
  <2>. QED  BY <2>2, WokenByEvery, ListedStep DEF SendersAreWoken
<1>. QED  BY <1>1, <1>2, <1>3, <1>4, <1>5, <1>6, <1>7, <1>8, ListedEnds DEF Program

\* The steps of the runtime, of which four put a thread to sleep.
LEMMA ListedRuntime ==
    ASSUME TypeOK, FramesAreNested, WaitersExist, Listed, NEW t \in Threads, Runtime(t)
    PROVE  Listed'
<1>1. CASE Resend(t)
  <2>1. sending[t].to \in Actors
    BY <1>1 DEF Resend, FramesAreNested, NestedOn
  <2>2. sending[t].tok \in Slots \cup {0}
    BY DEF TypeOK, SendRec
  <2>. QED  BY <1>1, <2>1, <2>2, ListedEnqueue DEF Resend
<1>2. CASE Park(t)
  <2>1. /\ UNCHANGED <<idle, blocked, sending>> /\ permit' = permit \ {t}
        /\ pc'[t] \in {"look", "send"} /\ \A u \in Threads : u # t => pc'[u] = pc[u]
    BY <1>2, GotoEffect DEF Park, poolVars, actorVars
  <2>. QED  BY <2>1 DEF Listed, SleepersAreListed, BlockedAreListed
<1>3. CASE NextRetires(t)
  <2>1. UNCHANGED <<idle, blocked, permit, sending>> /\ pc'[t] = "done"
        /\ \A u \in Threads : u # t => pc'[u] = pc[u]
    BY <1>3, GotoEffect DEF NextRetires, poolVars, actorVars
  <2>. QED  BY <2>1, WokenSame, ListedStep DEF SendersAreWoken
<1>4. CASE NextWork(t) \/ WaitWork(t)
  BY <1>4, ListedTakes DEF NextWork, WaitWork
<1>5. ASSUME idle' = [idle EXCEPT ![Serves[t]] = Append(@, t)], pc' = [pc EXCEPT ![t] = "park"],
             UNCHANGED <<blocked, permit, sending>>
      PROVE  Listed'
  <2>1. Serves[t] \in Pools
    BY DEF ConstantsAssumption
  <2>2. IdleAreWoken /\ t \in ToSet(idle'[Serves[t]])
    BY <1>5, <2>1, WokenAppend
  <2>3. pc'[t] = "park" /\ \A u \in Threads : u # t => pc'[u] = pc[u]
    BY <1>5, GotoEffect DEF Goto
  <2>. QED  BY <1>5, <2>2, <2>3, ListedStep DEF SendersAreWoken
<1>6. CASE NextSleeps(t)
  BY <1>5, <1>6 DEF NextSleeps, Goto, actorVars
<1>7. CASE WaitIdles(t)
  <2>1. UNCHANGED <<blocked, permit, sending>>
    BY <1>7 DEF WaitIdles, actorVars
  <2>2. CASE UNCHANGED <<idle, pc>>
    BY <2>1, <2>2, WokenSame, ListedStep DEF SendersAreWoken
  <2>. QED  BY <1>5, <1>7, <2>1, <2>2, WaitIdlesCases
<1>8. CASE WaitGot(t)
  <2>1. Serves[t] \in Pools
    BY DEF ConstantsAssumption
  <2>2. /\ WakePool(Serves[t], {}) /\ UNCHANGED <<blocked, sending>>
        /\ pc'[t] = "run" /\ \A u \in Threads : u # t => pc'[u] = pc[u]
    BY <1>8, GotoEffect DEF WaitGot, actorVars
  <2>. QED  BY <2>1, <2>2, WokenByPool, ListedStep DEF SendersAreWoken
<1>. QED  BY <1>1, <1>2, <1>3, <1>4, <1>6, <1>7, <1>8, ListedEnds DEF Runtime

\* No step leaves a sleeper off its list.
LEMMA ListedAll ==
    ASSUME TypeOK, FramesAreNested, WaitersExist, Listed, [Next]_vars
    PROVE  Listed'
<1>1. CASE UNCHANGED <<idle, blocked, permit, pc, sending>>
  BY <1>1, WokenSame, ListedStep DEF SendersAreWoken
<1>2. CASE UNCHANGED vars \/ MainReturns \/ Exited
  BY <1>1, <1>2 DEF vars, MainReturns, Exited, threadVars, poolVars, actorVars
<1>3. CASE DeliverNext
  <2>1. Head(bulk.tokens) \in Slots
    BY <1>3, HeadTailProperties DEF DeliverNext, TypeOK, BulkRec
  <2>. QED  BY <1>3, <2>1, WokenByDelivery, ListedStep DEF DeliverNext
<1>4. CASE EndBulk
  <2>1. UNCHANGED <<blocked, pc, sending>>
    BY <1>4 DEF EndBulk, actorVars
  <2>2. IdleAreWoken
    BY <1>4, WokenByEvery, WokenSame DEF EndBulk
  <2>. QED  BY <2>1, <2>2, ListedStep DEF SendersAreWoken
<1>5. ASSUME NEW h \in Threads, HostCloses(h)
      PROVE  Listed'
  <2>1. /\ WakeEvery(Pools, {}) /\ UNCHANGED <<blocked, sending>>
        /\ pc'[h] = "done" /\ \A u \in Threads : u # h => pc'[u] = pc[u]
    BY <1>5, GotoEffect DEF HostCloses, actorVars
  <2>. QED  BY <2>1, WokenByEvery, ListedStep DEF SendersAreWoken
<1>. QED  BY <1>2, <1>3, <1>4, <1>5, ListedProgram, ListedRuntime DEF Next

\* Initially nobody sleeps.
LEMMA InitListed == Init => Listed
BY DEF Init, Listed, SleepersAreListed, BlockedAreListed

\* No wakeup is lost between a thread's look at the tables and its park: a
\* thread asleep for want of work is on its pool's idle list, or has a permit.
THEOREM SleepersAreReachable == Spec => []SleepersAreListed
<1>1. Typed /\ Listed /\ [Next]_vars => Listed'
  BY ListedAll DEF Typed
<1>2. Listed => SleepersAreListed
  BY DEF Listed
<1>. QED  BY InitListed, <1>1, <1>2, TypesAreKept, PTL DEF Spec

\* Nor for a sender: asleep on a full mailbox it is on the actor's blocked list,
\* or has a permit, and so the next dequeue or the actor's death can wake it.
THEOREM SendersAreReachable == Spec => []BlockedAreListed
<1>1. Typed /\ Listed /\ [Next]_vars => Listed'
  BY ListedAll DEF Typed
<1>2. Listed => BlockedAreListed
  BY DEF Listed
<1>. QED  BY InitListed, <1>1, <1>2, TypesAreKept, PTL DEF Spec

(***************************************************************************)
(* Nothing is left at a dead actor.                                        *)
(***************************************************************************)
\* A step that kills nobody and writes to no dead actor's record.
LEMMA LeftSame ==
    ASSUME TheDeadAreLeft, UNCHANGED dead,
           \A a \in dead : /\ queue'[a] = queue[a] /\ blocked'[a] = blocked[a]
                           /\ watchers'[a] = watchers[a] /\ gate'[a] = gate[a]
    PROVE  TheDeadAreLeft'
BY DEF TheDeadAreLeft

\* A step that writes only to the record of one actor, which lives.
LEMMA LeftOne ==
    ASSUME TypeOK, TheDeadAreLeft, UNCHANGED dead, NEW b \in Actors \ dead,
           NEW q, NEW l, NEW w, NEW g,
           queue' \in {queue, [queue EXCEPT ![b] = q]},
           blocked' \in {blocked, [blocked EXCEPT ![b] = l]},
           watchers' \in {watchers, [watchers EXCEPT ![b] = w]},
           gate' \in {gate, [gate EXCEPT ![b] = g]}
    PROVE  TheDeadAreLeft'
<1>1. ASSUME NEW a \in dead
      PROVE  /\ queue'[a] = queue[a] /\ blocked'[a] = blocked[a]
             /\ watchers'[a] = watchers[a] /\ gate'[a] = gate[a]
  <2>1. a \in Actors /\ a # b
    BY DEF TypeOK
  <2>2. queue'[a] = queue[a] /\ blocked'[a] = blocked[a]
    BY <2>1 DEF TypeOK
  <2>3. watchers'[a] = watchers[a] /\ gate'[a] = gate[a]
    BY <2>1 DEF TypeOK
  <2>. QED  BY <2>2, <2>3
<1>. QED  BY <1>1, LeftSame

\* enqueue refuses the dead.
LEMMA LeftEnqueue ==
    ASSUME TypeOK, TheDeadAreLeft, NEW t \in Threads, NEW a \in Actors,
           NEW s \in Slots \cup {0}, Enqueue(t, a, s), UNCHANGED watchers
    PROVE  TheDeadAreLeft'
<1>1. UNCHANGED <<dead, gate>>
  BY DEF Enqueue
<1>2. CASE UNCHANGED <<queue, blocked>>
  BY <1>1, <1>2, LeftSame
<1>3. CASE /\ a \notin dead /\ queue' = [queue EXCEPT ![a] = Append(@, Delivered(s))]
           /\ UNCHANGED blocked
  BY <1>1, <1>3, LeftOne
<1>4. CASE /\ a \notin dead /\ blocked' = [blocked EXCEPT ![a] = Append(@, t)]
           /\ UNCHANGED queue
  BY <1>1, <1>4, LeftOne
<1>. QED  BY <1>2, <1>3, <1>4 DEF Enqueue

\* deliver_to drops what is aimed at the dead.
LEMMA LeftDelivery ==
    ASSUME TypeOK, TheDeadAreLeft, NEW s \in Slots, DeliverTo(s), UNCHANGED watchers
    PROVE  TheDeadAreLeft'
<1>1. UNCHANGED <<dead, gate, blocked>>
  BY DEF DeliverTo
<1>2. CASE UNCHANGED queue
  BY <1>1, <1>2, LeftSame
<1>3. CASE DeliverToActor(s) /\ ~UNCHANGED queue
  <2>1. /\ target[s] \in Actors \ dead
        /\ queue' = [queue EXCEPT ![target[s]] = Append(@, Answered(s))]
    BY <1>3 DEF DeliverToActor, Post
  <2>. QED  BY <1>1, <2>1, LeftOne
<1>. QED  BY <1>2, <1>3 DEF DeliverTo, DeliverToWaiter, DeliverToTask

\* The death itself: the record is emptied, and a fault goes to a live sink.
LEMMA LeftFaults ==
    ASSUME TypeOK, TheDeadAreLeft, NEW t \in Threads, ActorFaults(t)
    PROVE  TheDeadAreLeft'
<1>. DEFINE a == Me(t)
            toSink == IF watchers[a] = <<>> THEN LiveSink(Home[a]) ELSE {}
<1>1. /\ a \in Actors /\ dead' = dead \cup {a} /\ dead \subseteq Actors
      /\ gate' = [gate EXCEPT ![a] = 0] /\ blocked' = [blocked EXCEPT ![a] = <<>>]
      /\ watchers' = [watchers EXCEPT ![a] = <<>>]
  BY DEF ActorFaults, TypeOK
<1>2. \A b \in dead' : b \notin toSink
  BY DEF LiveSink
<1>3. queue' = [b \in Actors |-> IF b = a THEN <<>>
                                 ELSE IF b \in toSink THEN Append(queue[b], Reported)
                                 ELSE queue[b]]
  BY DEF ActorFaults
<1>. HIDE DEF toSink
<1>4. ASSUME NEW b \in dead'
      PROVE  queue'[b] = <<>> /\ blocked'[b] = <<>> /\ watchers'[b] = <<>> /\ gate'[b] = 0
  <2>1. b \in Actors /\ b \notin toSink
    BY <1>1, <1>2
  <2>2. CASE b = a
    BY <1>1, <1>3, <2>1, <2>2 DEF TypeOK
  <2>3. CASE b # a
    <3>1. /\ blocked[b] = <<>> /\ queue[b] = <<>> /\ watchers[b] = <<>> /\ gate[b] = 0
      BY <1>1, <2>3 DEF TheDeadAreLeft
    <3>2. queue'[b] = <<>>
      BY <1>3, <2>1, <2>3, <3>1
    <3>. QED  BY <1>1, <2>1, <2>3, <3>1, <3>2 DEF TypeOK
  <2>. QED  BY <2>2, <2>3
<1>. QED  BY <1>4 DEF TheDeadAreLeft

\* A task's fault is reported to a live sink only.
LEMMA LeftTasks ==
    ASSUME TypeOK, TheDeadAreLeft, NEW t \in Threads, TaskReturns(t) \/ TaskFaults(t)
    PROVE  TheDeadAreLeft'
<1>1. PICK sinks \in {{}, LiveSink(Serves[t])} : TaskEnds(t, sinks)
  BY DEF TaskReturns, TaskFaults
<1>2. UNCHANGED <<dead, gate, blocked, watchers>>
  BY <1>1 DEF TaskEnds
<1>3. \A a \in dead : queue'[a] = queue[a]
  <2>1. \A a \in dead : a \in Actors /\ a \notin sinks
    BY <1>1, <1>2 DEF LiveSink, TypeOK
  <2>2. queue' = [b \in Actors |-> IF b \in sinks THEN Append(queue[b], Reported)
                                                  ELSE queue[b]]
    BY <1>1 DEF TaskEnds
  <2>. QED  BY <2>1, <2>2
<1>. QED  BY <1>2, <1>3, LeftSame

\* Work is taken from the living.
LEMMA LeftTakes ==
    ASSUME TypeOK, TheDeadAreLeft, NEW t \in Threads, NEW own, TakeWork(t, own)
    PROVE  TheDeadAreLeft'
<1>1. CASE TakeTask(t)
  BY <1>1, LeftSame DEF TakeTask, actorVars
<1>2. ASSUME NEW a \in Actors, NEW k \in DOMAIN queue[a], TakeEntryOf(t, own, a, k)
      PROVE  TheDeadAreLeft'
  <2>1. a \notin dead
    <3>1. PICK j \in DOMAIN readyQ[Serves[t]] :
            First(j, Hits(Serves[t], own)) /\ readyQ[Serves[t]][j] = a
      BY <1>2 DEF TakeEntryOf
    <3>. QED  BY <3>1 DEF First, Hits, Takeable
  <2>2. UNCHANGED <<dead, watchers>> /\ queue' = [queue EXCEPT ![a] = RemoveAt(@, k)]
        /\ gate' \in {gate, [gate EXCEPT ![a] = 0]} /\ (UNCHANGED blocked \/ WakeSender(a))
    BY <1>2 DEF TakeEntryOf
  <2>3. ASSUME NEW b \in dead
        PROVE  queue'[b] = queue[b] /\ gate'[b] = gate[b] /\ blocked'[b] = blocked[b]
    <3>1. b \in Actors /\ b # a
      BY <2>1 DEF TypeOK
    <3>2. queue'[b] = queue[b] /\ gate'[b] = gate[b]
      BY <2>2, <3>1 DEF TypeOK
    <3>3. blocked'[b] = blocked[b]
      BY <2>2, <3>1 DEF WakeSender, TypeOK
    <3>. QED  BY <3>2, <3>3
  <2>. QED  BY <2>2, <2>3, LeftSame
<1>. QED  BY <1>1, <1>2 DEF TakeWork, TakeEntry

\* The steps of program code; only a live activation closes its gate.
LEMMA LeftProgram ==
    ASSUME TypeOK, FramesAreNested, OneActivation, TheDeadAreLeft, NEW t \in Threads, Program(t)
    PROVE  TheDeadAreLeft'
<1>1. ASSUME NEW a \in Actors, NEW s \in Slots \cup {0}, Send(t, a, s)
      PROVE  TheDeadAreLeft'
  BY <1>1, LeftEnqueue DEF Send
<1>2. ASSUME NEW gated \in BOOLEAN, MintActor(t, gated)
      PROVE  TheDeadAreLeft'
  <2>1. /\ Me(t) \in Actors /\ pc[t] = "run" /\ UNCHANGED <<dead, queue, blocked, watchers>>
        /\ gate' \in {gate, [gate EXCEPT ![Me(t)] = nextSlot + 1]}
    BY <1>2 DEF MintActor, Runs
  <2>2. stack[t] # <<>>
    BY <2>1, RunsHasFrame
  <2>3. Me(t) \notin dead
    <3>1. Len(stack[t]) \in DOMAIN stack[t]
      BY <2>2, EmptySeq, LenProperties DEF TypeOK
    <3>2. Me(t) = stack[t][Len(stack[t])].who
      BY <2>2, TopType DEF Me
    <3>. QED  BY <2>1, <3>1, <3>2 DEF OneActivation
  <2>. QED  BY <2>1, <2>3, LeftOne
<1>3. CASE \/ \E p \in Pools, c \in SUBSET Slots : MintTask(t, p, c)
           \/ MintWaiter(t) \/ Await(t)
           \/ \E s \in Slots : OnIdle(t, s)
           \/ \E p \in Pools : NewPool(t, p)
           \/ \E a \in Actors : NewActor(t, a)
           \/ \E h \in Hosts, c \in SUBSET Slots : HostOpens(t, h, c)
  <2>1. UNCHANGED <<dead, queue, blocked, watchers, gate>>
    BY <1>3 DEF MintTask, MintWaiter, Await, OnIdle, NewPool, NewActor, HostOpens, actorVars
  <2>. QED  BY <2>1, LeftSame
<1>4. ASSUME NEW s \in Slots, Answer(t, s)
      PROVE  TheDeadAreLeft'
  BY <1>4, LeftDelivery DEF Answer
<1>5. ASSUME NEW a \in Actors, NEW s \in Slots, Watch(t, a, s)
      PROVE  TheDeadAreLeft'
  <2>1. CASE DeliverTo(s) /\ UNCHANGED watchers
    BY <2>1, LeftDelivery
  <2>2. CASE /\ a \notin dead /\ watchers' = [watchers EXCEPT ![a] = Append(@, s)]
             /\ UNCHANGED <<queue, gate, dead, blocked>>
    BY <2>2, LeftOne
  <2>. QED  BY <1>5, <2>1, <2>2 DEF Watch
<1>. QED  BY <1>1, <1>2, <1>3, <1>4, <1>5, LeftFaults, LeftTasks DEF Program

\* No step leaves anything at a dead actor.
LEMMA LeftStep ==
    ASSUME TypeOK, FramesAreNested, OneActivation, TheDeadAreLeft, [Next]_vars
    PROVE  TheDeadAreLeft'
<1>1. CASE \/ UNCHANGED vars \/ EndBulk \/ MainReturns \/ Exited
           \/ \E t \in Threads : \/ HostCloses(t) \/ Park(t) \/ ActorReturns(t)
                                 \/ NextRetires(t) \/ NextSleeps(t)
                                 \/ WaitGot(t) \/ WaitIdles(t)
  <2>1. UNCHANGED <<dead, queue, blocked, watchers, gate>>
    BY <1>1 DEF vars, EndBulk, MainReturns, Exited, HostCloses, Park, ActorReturns, NextRetires,
                NextSleeps, WaitGot, WaitIdles, actorVars
  <2>. QED  BY <2>1, LeftSame
<1>2. CASE DeliverNext
  <2>1. Head(bulk.tokens) \in Slots
    BY <1>2, HeadTailProperties DEF DeliverNext, TypeOK, BulkRec
  <2>. QED  BY <1>2, <2>1, LeftDelivery DEF DeliverNext
<1>3. ASSUME NEW t \in Threads, Resend(t)
      PROVE  TheDeadAreLeft'
  <2>1. sending[t].to \in Actors
    BY <1>3 DEF Resend, FramesAreNested, NestedOn
  <2>2. sending[t].tok \in Slots \cup {0}
    BY DEF TypeOK, SendRec
  <2>. QED  BY <1>3, <2>1, <2>2, LeftEnqueue DEF Resend
<1>4. ASSUME NEW t \in Threads, NextWork(t) \/ WaitWork(t)
      PROVE  TheDeadAreLeft'
  BY <1>4, LeftTakes DEF NextWork, WaitWork
<1>. QED  BY <1>1, <1>2, <1>3, <1>4, LeftProgram, LeftTasks DEF Next, Runtime

\* Initially nobody is dead.
LEMMA InitLeft == Init => TheDeadAreLeft
BY DEF Init, TheDeadAreLeft

\* A death leaves nothing behind to wait on: no message, no parked sender, no
\* watcher, no gate, and none arrives afterwards.  It rests on OneActivation: a
\* gate is set by an activation, and the dead have none.
THEOREM DeadActorsAreLeft == Spec => []TheDeadAreLeft
<1>1. Typed /\ OneActivation /\ TheDeadAreLeft /\ [Next]_vars => TheDeadAreLeft'
  BY LeftStep DEF Typed
<1>. QED  BY InitLeft, <1>1, TypesAreKept, ActivationsAreSingle, PTL DEF Spec

(***************************************************************************)
(* Where the tokens are.                                                   *)
(***************************************************************************)
\* Whatever may have the token of an open reply, and the tokens it has.
Nowhere == <<"none", Nobody>>
Spots == ({"held"} \X Owners) \cup ({"queue", "watch"} \X Actors) \cup ({"send"} \X Threads)
           \cup ({"idle", "bulk"} \X {Nobody})
At(c) == CASE c[1] = "held"  -> held[c[2]]
           [] c[1] = "queue" -> {s \in Slots : Delivered(s) \in ToSet(queue[c[2]])}
           [] c[1] = "watch" -> ToSet(watchers[c[2]])
           [] c[1] = "send"  -> {sending[c[2]].tok} \ {0}
           [] c[1] = "idle"  -> ToSet(idleHooks)
           [] OTHER          -> ToSet(bulk.tokens)
Opens == UNION {At(c) : c \in Spots}

\* A token is in one place, and a list has it once.
Singly == \A c, d \in Spots : c # d => At(c) \cap At(d) = {}
Once(q, K) == \A i, j \in DOMAIN q : q[i] = q[j] /\ q[i] \in K => i = j
Carrying == {Delivered(s) : s \in Slots}
NoRepeats ==
    /\ \A a \in Actors : Once(queue[a], Carrying) /\ Once(watchers[a], Slots)
    /\ Once(idleHooks, Slots) /\ Once(bulk.tokens, Slots)

\* Every token about has been minted, and what has yet to begin holds none.
NamesMinted(st) == \A t \in Threads : \A i \in DOMAIN st[t] :
    st[t][i].who \in Slots => st[t][i].who <= nextSlot
UnbornHoldNone ==
    /\ \A s \in Slots : s > nextSlot => held[s] = {}
    /\ \A h \in Hosts : pc[h] = "unborn" => held[h] = {}
OnlySendersSend == \A t \in Threads : pc[t] \notin {"send", "full"} => sending[t].tok = 0
Minted ==
    /\ \A s \in Opens : s <= nextSlot
    /\ \A p \in Pools : \A s \in ToSet(tasks[p]) : s <= nextSlot
    /\ NamesMinted(stack) /\ UnbornHoldNone /\ OnlySendersSend

\* What each kind of place has, before a step and after.
LEMMA HeldSpots ==
    \A o \in Owners : /\ <<"held", o>> \in Spots /\ At(<<"held", o>>) = held[o]
                      /\ At(<<"held", o>>)' = held'[o]
BY DEF Spots, At

\* A mailbox has the tokens of the messages in it.
LEMMA QueueSpots ==
    \A a \in Actors :
      /\ <<"queue", a>> \in Spots
      /\ At(<<"queue", a>>) = {s \in Slots : Delivered(s) \in ToSet(queue[a])}
      /\ At(<<"queue", a>>)' = {s \in Slots : Delivered(s) \in ToSet(queue'[a])}
BY DEF Spots, At

\* An actor has those of who watches it.
LEMMA WatchSpots ==
    \A a \in Actors :
      /\ <<"watch", a>> \in Spots
      /\ At(<<"watch", a>>) = ToSet(watchers[a]) /\ At(<<"watch", a>>)' = ToSet(watchers'[a])
BY DEF Spots, At

\* A sender has the one its message carries.
LEMMA SendSpots ==
    \A t \in Threads :
      /\ <<"send", t>> \in Spots /\ At(<<"send", t>>) = {sending[t].tok} \ {0}
      /\ At(<<"send", t>>)' = {sending'[t].tok} \ {0}
BY DEF Spots, At

\* The idle hooks and the list being delivered have theirs.
LEMMA ListSpots ==
    /\ <<"idle", Nobody>> \in Spots /\ <<"bulk", Nobody>> \in Spots
    /\ At(<<"idle", Nobody>>) = ToSet(idleHooks) /\ At(<<"idle", Nobody>>)' = ToSet(idleHooks')
    /\ At(<<"bulk", Nobody>>) = ToSet(bulk.tokens) /\ At(<<"bulk", Nobody>>)' = ToSet(bulk'.tokens)
BY DEF Spots, At

\* There is no other place.
LEMMA SpotKinds ==
    \A c \in Spots : \/ \E o \in Owners : c = <<"held", o>>
                     \/ \E a \in Actors : c = <<"queue", a>>
                     \/ \E a \in Actors : c = <<"watch", a>>
                     \/ \E t \in Threads : c = <<"send", t>>
                     \/ c = <<"idle", Nobody>> \/ c = <<"bulk", Nobody>>
BY DEF Spots

\* No place is nowhere.
LEMMA NowhereIsNot == Nowhere \notin Spots
BY DEF Nowhere, Spots

\* A place outside T has what it had, if its variable is what it was.
LEMMA SpotsSame ==
    ASSUME NEW T,
           \A o \in Owners : <<"held", o>> \notin T => held'[o] = held[o],
           \A a \in Actors : <<"queue", a>> \notin T =>
             \A s \in Slots : Delivered(s) \in ToSet(queue'[a]) <=> Delivered(s) \in ToSet(queue[a]),
           \A a \in Actors : <<"watch", a>> \notin T => watchers'[a] = watchers[a],
           \A t \in Threads : <<"send", t>> \notin T => sending'[t].tok = sending[t].tok,
           <<"idle", Nobody>> \notin T => idleHooks' = idleHooks,
           <<"bulk", Nobody>> \notin T => bulk'.tokens = bulk.tokens
    PROVE  \A c \in Spots \ T : At(c)' = At(c)
<1>1. ASSUME NEW o \in Owners, <<"held", o>> \notin T
      PROVE  At(<<"held", o>>)' = At(<<"held", o>>)
  BY <1>1, HeldSpots
<1>2. ASSUME NEW a \in Actors, <<"queue", a>> \notin T
      PROVE  At(<<"queue", a>>)' = At(<<"queue", a>>)
  <2>1. \A s \in Slots : Delivered(s) \in ToSet(queue'[a]) <=> Delivered(s) \in ToSet(queue[a])
    BY <1>2
  <2>2. /\ At(<<"queue", a>>) = {s \in Slots : Delivered(s) \in ToSet(queue[a])}
        /\ At(<<"queue", a>>)' = {s \in Slots : Delivered(s) \in ToSet(queue'[a])}
    BY QueueSpots
  <2>. QED  BY <2>1, <2>2
<1>3. ASSUME NEW a \in Actors, <<"watch", a>> \notin T
      PROVE  At(<<"watch", a>>)' = At(<<"watch", a>>)
  BY <1>3, WatchSpots
<1>4. ASSUME NEW t \in Threads, <<"send", t>> \notin T
      PROVE  At(<<"send", t>>)' = At(<<"send", t>>)
  <2>1. sending'[t].tok = sending[t].tok
    BY <1>4
  <2>2. /\ At(<<"send", t>>) = {sending[t].tok} \ {0}
        /\ At(<<"send", t>>)' = {sending'[t].tok} \ {0}
    BY SendSpots
  <2>. QED  BY <2>1, <2>2
<1>5. <<"idle", Nobody>> \notin T => At(<<"idle", Nobody>>)' = At(<<"idle", Nobody>>)
  BY ListSpots
<1>6. <<"bulk", Nobody>> \notin T => At(<<"bulk", Nobody>>)' = At(<<"bulk", Nobody>>)
  BY ListSpots
<1>. QED  BY <1>1, <1>2, <1>3, <1>4, <1>5, <1>6, SpotKinds

\* Every token is one.
LEMMA OpensType ==
    ASSUME TypeOK
    PROVE  Opens \subseteq Slots
<1>1. SUFFICES \A c \in Spots : At(c) \subseteq Slots
  BY DEF Opens
<1>2. /\ held \in [Owners -> SUBSET Slots] /\ sending \in [Threads -> SendRec]
      /\ \A a \in Actors : ToSet(watchers[a]) \subseteq Slots
      /\ ToSet(idleHooks) \subseteq Slots /\ ToSet(bulk.tokens) \subseteq Slots
  BY ToSetSeq DEF TypeOK, BulkRec
<1>3. ASSUME NEW o \in Owners PROVE At(<<"held", o>>) \subseteq Slots
  <2>1. At(<<"held", o>>) = held[o] /\ held[o] \subseteq Slots
    BY <1>2, HeldSpots
  <2>. QED  BY <2>1
<1>4. \A a \in Actors : At(<<"queue", a>>) \subseteq Slots
  BY QueueSpots
<1>5. \A a \in Actors : At(<<"watch", a>>) \subseteq Slots
  BY <1>2, WatchSpots
<1>6. ASSUME NEW t \in Threads PROVE At(<<"send", t>>) \subseteq Slots
  <2>1. sending[t].tok \in Slots \cup {0}
    BY <1>2 DEF SendRec
  <2>. QED  BY <2>1, SendSpots
<1>7. At(<<"idle", Nobody>>) \subseteq Slots /\ At(<<"bulk", Nobody>>) \subseteq Slots
  BY <1>2, ListSpots
<1>. QED  BY <1>3, <1>4, <1>5, <1>6, <1>7, SpotKinds

\* Somebody has the token of a reply just where one of the places has it.
OpenIsSomewhere == \A s \in Slots : Open(s) <=> s \in Opens

\* It holds in every state.
LEMMA OpensAreSomewhere == OpenIsSomewhere
<1>. SUFFICES ASSUME NEW s \in Slots PROVE Open(s) <=> s \in Opens
  BY DEF OpenIsSomewhere
<1>1. \A o \in Owners : s \in held[o] <=> s \in At(<<"held", o>>)
  BY HeldSpots
<1>2. \A a \in Actors : Delivered(s) \in ToSet(queue[a]) <=> s \in At(<<"queue", a>>)
  BY QueueSpots
<1>3. \A a \in Actors : s \in ToSet(watchers[a]) <=> s \in At(<<"watch", a>>)
  BY WatchSpots
<1>4. \A t \in Threads : sending[t].tok = s <=> s \in At(<<"send", t>>)
  <2>1. s # 0
    BY DEF Slots
  <2>. QED  BY <2>1, SendSpots
<1>5. /\ s \in ToSet(idleHooks) <=> s \in At(<<"idle", Nobody>>)
      /\ s \in ToSet(bulk.tokens) <=> s \in At(<<"bulk", Nobody>>)
  BY ListSpots
<1>6. s \in Opens <=> \/ \E o \in Owners : s \in At(<<"held", o>>)
                      \/ \E a \in Actors : s \in At(<<"queue", a>>)
                      \/ \E a \in Actors : s \in At(<<"watch", a>>)
                      \/ \E t \in Threads : s \in At(<<"send", t>>)
                      \/ s \in At(<<"idle", Nobody>>) \/ s \in At(<<"bulk", Nobody>>)
  <2>1. s \in Opens <=> \E c \in Spots : s \in At(c)
    BY DEF Opens
  <2>2. /\ \A o \in Owners : <<"held", o>> \in Spots
        /\ \A a \in Actors : <<"queue", a>> \in Spots /\ <<"watch", a>> \in Spots
        /\ \A t \in Threads : <<"send", t>> \in Spots
        /\ <<"idle", Nobody>> \in Spots /\ <<"bulk", Nobody>> \in Spots
    BY DEF Spots
  <2>. QED  BY <2>1, <2>2, SpotKinds
<1>. QED  BY <1>1, <1>2, <1>3, <1>4, <1>5, <1>6 DEF Open, InMessage

(***************************************************************************)
(* Lists without repetition.                                               *)
(***************************************************************************)
\* A list that has what is in K once does after something new joins it.
LEMMA OnceAppend ==
    ASSUME NEW S, NEW q \in Seq(S), NEW e \in S, NEW K, Once(q, K), e \in K => e \notin ToSet(q)
    PROVE  Once(Append(q, e), K)
<1>1. /\ Len(q) \in Nat /\ DOMAIN q = 1 .. Len(q) /\ DOMAIN Append(q, e) = 1 .. Len(q) + 1
      /\ \A i \in 1 .. Len(q) : Append(q, e)[i] = q[i]
      /\ Append(q, e)[Len(q) + 1] = e
  BY LenProperties, AppendProperties
<1>2. \A i \in 1 .. Len(q) + 1 : i \in 1 .. Len(q) \/ i = Len(q) + 1
  BY <1>1
<1>3. \A i \in 1 .. Len(q) : q[i] \in ToSet(q)
  BY <1>1 DEF ToSet
<1>. QED  BY <1>1, <1>2, <1>3 DEF Once

\* So does what follows the head, which is not in it again.
LEMMA OnceTail ==
    ASSUME NEW S, NEW q \in Seq(S), q # <<>>, NEW K, Once(q, K)
    PROVE  Once(Tail(q), K) /\ (Head(q) \in K => Head(q) \notin ToSet(Tail(q)))
<1>1. /\ Len(q) \in Nat /\ DOMAIN q = 1 .. Len(q) /\ Head(q) = q[1]
      /\ DOMAIN Tail(q) = 1 .. Len(q) - 1 /\ \A i \in 1 .. Len(q) - 1 : Tail(q)[i] = q[i + 1]
  BY EmptySeq, HeadTailProperties, LenProperties
<1>2. \A i \in 1 .. Len(q) - 1 : i + 1 \in DOMAIN q /\ 1 \in DOMAIN q /\ i + 1 # 1
  BY <1>1
<1>3. \A i, j \in 1 .. Len(q) - 1 : i + 1 = j + 1 => i = j
  BY <1>1
<1>4. Once(Tail(q), K)
  BY <1>1, <1>2, <1>3 DEF Once
<1>5. Head(q) \in K => Head(q) \notin ToSet(Tail(q))
  <2>. SUFFICES ASSUME q[1] \in K, NEW i \in 1 .. Len(q) - 1, q[1] = Tail(q)[i] PROVE FALSE
    BY <1>1 DEF ToSet
  <2>. QED  BY <1>1, <1>2 DEF Once
<1>. QED  BY <1>4, <1>5

\* So does what is left when an element is taken out.
LEMMA OnceRemove ==
    ASSUME NEW S, NEW q \in Seq(S), NEW k \in DOMAIN q, NEW K, Once(q, K)
    PROVE  /\ Once(RemoveAt(q, k), K)
           /\ ToSet(RemoveAt(q, k)) \cup {q[k]} = ToSet(q)
           /\ q[k] \in K => q[k] \notin ToSet(RemoveAt(q, k))
<1>. PICK r : r = RemoveAt(q, k)
  OBVIOUS
<1>1. /\ r \in Seq(S) /\ Len(r) = Len(q) - 1
      /\ \A i \in 1 .. Len(q) - 1 : r[i] = IF i < k THEN q[i] ELSE q[i + 1]
  BY RemoveAtProperties
<1>2. Len(q) \in Nat /\ DOMAIN q = 1 .. Len(q) /\ DOMAIN r = 1 .. Len(q) - 1 /\ k \in Nat
  BY <1>1, LenProperties
<1>. DEFINE at(i) == IF i < k THEN i ELSE i + 1
<1>3. \A i \in DOMAIN r : at(i) \in DOMAIN q /\ at(i) # k /\ r[i] = q[at(i)]
  BY <1>1, <1>2
<1>4. \A i, j \in DOMAIN r : at(i) = at(j) => i = j
  BY <1>2
<1>5. \A i \in DOMAIN q : i # k => \E j \in DOMAIN r : at(j) = i
  <2>. SUFFICES ASSUME NEW i \in DOMAIN q, i # k PROVE \E j \in DOMAIN r : at(j) = i
    OBVIOUS
  <2>1. CASE i < k
    <3>1. i \in DOMAIN r /\ at(i) = i
      BY <1>2, <2>1
    <3>. QED  BY <3>1
  <2>2. CASE ~(i < k)
    <3>1. i - 1 \in DOMAIN r /\ at(i - 1) = i
      BY <1>2, <2>2
    <3>. QED  BY <3>1
  <2>. QED  BY <2>1, <2>2
<1>. HIDE DEF at
<1>6. Once(r, K)
  BY <1>3, <1>4 DEF Once
<1>7. ToSet(r) \cup {q[k]} = ToSet(q)
  BY <1>3, <1>5 DEF ToSet
<1>8. q[k] \in K => q[k] \notin ToSet(r)
  BY <1>3 DEF ToSet, Once
<1>. QED  BY <1>6, <1>7, <1>8

\* What is posted without a token changes the tokens of no queue.
QuietPosts == \A a \in Actors : \/ queue'[a] = queue[a]
                             \/ \E e \in Entry : e.kind # "msg" /\ queue'[a] = Append(queue[a], e)
LEMMA QuietQueues ==
    ASSUME TypeOK, QuietPosts
    PROVE  /\ \A a \in Actors : \A s \in Slots :
                Delivered(s) \in ToSet(queue'[a]) <=> Delivered(s) \in ToSet(queue[a])
           /\ \A a \in Actors : Once(queue[a], Carrying) => Once(queue'[a], Carrying)
<1>. SUFFICES ASSUME NEW a \in Actors
              PROVE  /\ \A s \in Slots :
                          Delivered(s) \in ToSet(queue'[a]) <=> Delivered(s) \in ToSet(queue[a])
                     /\ Once(queue[a], Carrying) => Once(queue'[a], Carrying)
  OBVIOUS
<1>1. CASE queue'[a] = queue[a]
  BY <1>1
<1>2. ASSUME NEW e \in Entry, e.kind # "msg", queue'[a] = Append(queue[a], e)
      PROVE  /\ \A s \in Slots :
                  Delivered(s) \in ToSet(queue'[a]) <=> Delivered(s) \in ToSet(queue[a])
             /\ Once(queue[a], Carrying) => Once(queue'[a], Carrying)
  <2>1. queue[a] \in Seq(Entry)
    BY DEF TypeOK
  <2>2. e \notin Carrying /\ \A s : Delivered(s) # e
    BY <1>2 DEF Carrying, Delivered
  <2>. QED  BY <1>2, <2>1, <2>2, ToSetAppend, OnceAppend
<1>. QED  BY <1>1, <1>2 DEF QuietPosts

\* The thread that runs has its own code's tokens.
LEMMA MeOwns ==
    ASSUME TypeOK, FramesAreNested, NEW t \in Threads, pc[t] = "run"
    PROVE  Me(t) \in Owners
<1>1. stack[t] # <<>>
  BY RunsHasFrame
<1>. QED  BY <1>1, TopType DEF Frame, Me

(***************************************************************************)
(* Tokens on the move.                                                     *)
(***************************************************************************)
\* The tokens S leave one place, for another or for none; nobody else gets any.
Passed(from, S, to) ==
    /\ from \in Spots /\ S \subseteq At(from) /\ from # to
    /\ \A c \in Spots \ {to} : At(c)' \subseteq At(c)
    /\ At(from)' \cap S = {}
    /\ to \in Spots => At(to)' \subseteq At(to) \cup S

\* ... and none is lost on the way.
Moved(from, S, to) ==
    /\ Passed(from, S, to)
    /\ \A c \in Spots : At(c) \subseteq At(c)' \cup (IF c = from THEN S ELSE {})
    /\ to \in Spots => S \subseteq At(to)'

\* Tokens that leave one place and join another are moved.
LEMMA MovedBy ==
    ASSUME NEW from \in Spots, NEW S, S \subseteq At(from), NEW to, from # to,
           \A c \in Spots \ {from, to} : At(c)' = At(c),
           At(from)' = At(from) \ S, to \in Spots => At(to)' = At(to) \cup S
    PROVE  Moved(from, S, to)
BY DEF Moved, Passed

\* A token passed on stays in one place at a time; one given up is nowhere.
LEMMA PassedTokens ==
    ASSUME Singly, NEW from, NEW S, NEW to, Passed(from, S, to)
    PROVE  /\ Singly' /\ Opens' \subseteq Opens
           /\ to \notin Spots => Opens' \cap S = {}
<1>1. Opens' \subseteq Opens
  BY DEF Passed, Opens, Spots
<1>2. Singly'
  <2>1. SUFFICES ASSUME NEW c \in Spots, NEW d \in Spots, c # d, NEW s \in At(c)', s \in At(d)'
                 PROVE  FALSE
    BY DEF Singly, Spots
  <2>2. CASE c # to /\ d # to
    BY <2>1, <2>2 DEF Passed, Singly
  <2>3. CASE c = to /\ d # to
    BY <2>1, <2>3 DEF Passed, Singly
  <2>4. CASE c # to /\ d = to
    BY <2>1, <2>4 DEF Passed, Singly
  <2>. QED  BY <2>1, <2>2, <2>3, <2>4
<1>3. ASSUME to \notin Spots, NEW s \in S, NEW c \in Spots, s \in At(c)'
      PROVE  FALSE
  BY <1>3 DEF Passed, Singly
<1>4. to \notin Spots => Opens' \cap S = {}
  BY <1>3 DEF Opens, Spots
<1>. QED  BY <1>1, <1>2, <1>4

\* A send puts the token in the mailbox, keeps it for another try, or drops it
\* where the dead would have had it.
LEMMA EnqueueTokens ==
    ASSUME TypeOK, NoRepeats, NEW t \in Threads, NEW a \in Actors, NEW s \in Slots \cup {0},
           Delivered(s) \in ToSet(queue[a]) => s = 0, Enqueue(t, a, s)
    PROVE  /\ \A u \in Threads : u # t => sending'[u] = sending[u]
           /\ \A b \in Actors : Once(queue'[b], Carrying)
           /\ \/ a \in dead /\ queue' = queue /\ sending'[t].tok = 0
              \/ queue' = queue /\ sending'[t].tok = s
              \/ /\ \A b \in Actors : b # a => queue'[b] = queue[b]
                 /\ ToSet(queue'[a]) = ToSet(queue[a]) \cup {Delivered(s)}
                 /\ sending'[t].tok = 0
<1>1. /\ sending \in [Threads -> SendRec] /\ queue \in [Actors -> Seq(Entry)]
      /\ Delivered(s) \in Entry /\ \A b \in Actors : Once(queue[b], Carrying)
  BY DEF TypeOK, Entry, NoRepeats
<1>2. \/ sending' = [sending EXCEPT ![t] = NotSending]
      \/ sending' = [sending EXCEPT ![t] = [to |-> a, tok |-> s]]
  BY DEF Enqueue
<1>3. \A u \in Threads : u # t => sending'[u] = sending[u]
  BY <1>1, <1>2
<1>4. CASE a \in dead
  BY <1>1, <1>3, <1>4 DEF Enqueue, NotSending
<1>5. CASE a \notin dead /\ ~(userLen[a] < Bound[a])
  <2>1. userLen[a] \in Int /\ Bound[a] \in Nat
    BY ConstantsAssumption DEF TypeOK, ConstantsAssumption
  <2>. QED  BY <1>1, <1>3, <1>5, <2>1 DEF Enqueue
<1>6. CASE a \notin dead /\ userLen[a] < Bound[a]
  <2>1. userLen[a] \in Int /\ Bound[a] \in Nat
    BY ConstantsAssumption DEF TypeOK, ConstantsAssumption
  <2>2. /\ queue' = [queue EXCEPT ![a] = Append(queue[a], Delivered(s))]
        /\ sending' = [sending EXCEPT ![t] = NotSending]
    BY <1>6, <2>1 DEF Enqueue
  <2>3. sending'[t].tok = 0
    BY <1>1, <2>2 DEF NotSending
  <2>4. /\ queue'[a] = Append(queue[a], Delivered(s)) /\ queue[a] \in Seq(Entry)
        /\ \A b \in Actors : b # a => queue'[b] = queue[b]
    BY <1>1, <2>2
  <2>5. ToSet(queue'[a]) = ToSet(queue[a]) \cup {Delivered(s)}
    BY <1>1, <2>4, ToSetAppend
  <2>6. Delivered(s) \in Carrying => Delivered(s) \notin ToSet(queue[a])
    <3>1. 0 \notin Slots
      BY DEF Slots
    <3>2. \A r : Delivered(r) = Delivered(s) => r = s
      BY DEF Delivered
    <3>. QED  BY <3>1, <3>2 DEF Carrying
  <2>7. Once(queue'[a], Carrying)
    BY <1>1, <2>4, <2>6, OnceAppend
  <2>. QED  BY <1>1, <1>3, <2>3, <2>4, <2>5, <2>7
<1>. QED  BY <1>4, <1>5, <1>6

\* The records keep the wait they were made for; only the reply to it fills one,
\* and only a filled one is freed.
RecordsStay(got) ==
    /\ \A w \in DOMAIN waiters :
         /\ waiters'[w].slot = waiters[w].slot /\ waiters'[w].pool = waiters[w].pool
         /\ waiters'[w].filled => waiters[w].filled \/ waiters[w].slot \in got
    /\ \A w \in ToSet(freeWaiters') : w \in ToSet(freeWaiters) \/ waiters[w].filled

\* What a step does with the tokens: some change hands, one is answered, or
\* they go where the dead are.
TokenMove ==
    \E from, S, to :
      /\ Moved(from, S, to) /\ S \subseteq Slots
      /\ \/ RecordsStay({}) /\ to \in Spots
         \/ RecordsStay({}) /\ \A s \in S : Dropped(s)
         \/ to = Nowhere /\ \E s \in Slots : S = {s} /\ DeliverTo(s)

\* A step that moves none.
LEMMA NoneMoves ==
    ASSUME RecordsStay({}), \A c \in Spots : At(c)' = At(c)
    PROVE  TokenMove
<1>1. <<"idle", Nobody>> \in Spots /\ <<"idle", Nobody>> # Nowhere
  BY ListSpots, NowhereIsNot
<1>2. Moved(<<"idle", Nobody>>, {}, Nowhere)
  BY <1>1, NowhereIsNot, MovedBy
<1>. QED  BY <1>2 DEF TokenMove

\* The tokens S leave t's hand, or the message that t was sending.
LeavesHand(t, from, S) == \/ from = <<"send", t>> /\ At(from) = S
                          \/ /\ sending[t].tok = 0 /\ At(from)' = At(from) \ S
                             /\ \E o \in Owners : from = <<"held", o>>

\* A send's token leaves the code's hands, or the last try's, for the mailbox or
\* the next try.
LEMMA EnqueueMoves ==
    ASSUME TypeOK, Singly, NoRepeats, NEW t \in Threads, NEW a \in Actors,
           NEW s \in Slots \cup {0}, Enqueue(t, a, s),
           UNCHANGED <<waiterVars, watchers, idleHooks, bulk>>,
           NEW from \in Spots, NEW S, S = {s} \ {0}, S \subseteq At(from),
           \A o \in Owners : <<"held", o>> # from => held'[o] = held[o],
           LeavesHand(t, from, S), a \in dead => \A r \in S : Dropped(r)
    PROVE  NoRepeats' /\ TokenMove
<1>. USE DEF LeavesHand
<1>1. /\ S \subseteq Slots /\ 0 \notin Slots /\ (s = 0 => S = {}) /\ (s # 0 => S = {s})
      /\ \A r : Delivered(r) = Delivered(s) => r = s
      /\ \A b \in Actors : from # <<"queue", b>> /\ from # <<"watch", b>>
      /\ \A u \in Threads : u # t => from # <<"send", u>>
      /\ from # <<"idle", Nobody>> /\ from # <<"bulk", Nobody>> /\ from # Nowhere
  BY DEF Slots, Delivered, Nowhere
<1>2. Delivered(s) \in ToSet(queue[a]) => s = 0
  <2>. SUFFICES ASSUME s \in S, s \in Slots PROVE s \notin At(<<"queue", a>>)
    BY <1>1, QueueSpots
  <2>1. <<"queue", a>> # from /\ <<"queue", a>> \in Spots
    BY <1>1, QueueSpots
  <2>. QED  BY <2>1 DEF Singly
<1>3. /\ \A u \in Threads : u # t => sending'[u] = sending[u]
      /\ \A b \in Actors : Once(queue'[b], Carrying)
      /\ \/ a \in dead /\ queue' = queue /\ sending'[t].tok = 0
         \/ queue' = queue /\ sending'[t].tok = s
         \/ /\ \A b \in Actors : b # a => queue'[b] = queue[b]
            /\ ToSet(queue'[a]) = ToSet(queue[a]) \cup {Delivered(s)}
            /\ sending'[t].tok = 0
  BY <1>2, EnqueueTokens
<1>4. NoRepeats'
  BY <1>3 DEF NoRepeats
<1>5. RecordsStay({})
  BY DEF RecordsStay, waiterVars
<1>6. sending'[t].tok = 0 => At(from)' = At(from) \ S
  BY <1>1, HeldSpots, SendSpots
<1>7. CASE a \in dead /\ queue' = queue /\ sending'[t].tok = 0
  <2>1. \A c \in Spots \ {from, Nowhere} : At(c)' = At(c)
    BY <1>1, <1>3, <1>7, SpotsSame
  <2>2. Moved(from, S, Nowhere)
    BY <1>1, <1>6, <1>7, <2>1, NowhereIsNot, MovedBy
  <2>. QED  BY <1>1, <1>4, <1>5, <1>7, <2>2 DEF TokenMove
<1>8. CASE queue' = queue /\ sending'[t].tok = s
  <2>1. CASE from = <<"send", t>>
    <3>1. sending'[t].tok = sending[t].tok
      <4>1. At(from) = {sending[t].tok} \ {0}
        BY <2>1, SendSpots
      <4>2. {sending[t].tok} \ {0} = {s} \ {0}
        BY <2>1, <4>1, SendSpots, <1>1
      <4>. QED  BY <1>8, <4>2
    <3>2. \A c \in Spots \ {} : At(c)' = At(c)
      BY <1>3, <1>8, <2>1, <3>1, SpotsSame
    <3>. QED  BY <1>4, <1>5, <3>2, NoneMoves
  <2>2. CASE from # <<"send", t>>
    <3>. PICK to : to = <<"send", t>>
      OBVIOUS
    <3>1. to \in Spots /\ to # from /\ At(to)' = At(to) \cup S /\ At(from)' = At(from) \ S
      BY <1>1, <1>8, <2>2, SendSpots, HeldSpots
    <3>2. \A c \in Spots \ {from, to} : At(c)' = At(c)
      BY <1>1, <1>3, <1>8, SpotsSame
    <3>3. Moved(from, S, to)
      BY <3>1, <3>2, MovedBy
    <3>. QED  BY <1>1, <1>4, <1>5, <3>1, <3>3 DEF TokenMove
  <2>. QED  BY <2>1, <2>2
<1>9. CASE /\ \A b \in Actors : b # a => queue'[b] = queue[b]
           /\ ToSet(queue'[a]) = ToSet(queue[a]) \cup {Delivered(s)}
           /\ sending'[t].tok = 0
  <2>. PICK to : to = <<"queue", a>>
    OBVIOUS
  <2>1. to \in Spots /\ to # from /\ At(to)' = At(to) \cup S
    <3>1. /\ At(to) = {r \in Slots : Delivered(r) \in ToSet(queue[a])}
          /\ At(to)' = {r \in Slots : Delivered(r) \in ToSet(queue'[a])} /\ to \in Spots
      BY QueueSpots
    <3>2. \A r \in Slots : Delivered(r) = Delivered(s) <=> r \in S
      BY <1>1
    <3>. QED  BY <1>1, <1>9, <3>1, <3>2
  <2>2. \A c \in Spots \ {from, to} : At(c)' = At(c)
    BY <1>1, <1>3, <1>9, SpotsSame
  <2>3. Moved(from, S, to)
    BY <1>6, <1>9, <2>1, <2>2, MovedBy
  <2>. QED  BY <1>1, <1>4, <1>5, <2>1, <2>3 DEF TokenMove
<1>. QED  BY <1>3, <1>7, <1>8, <1>9

\* A send moves the token of its message.
LEMMA SendMoves ==
    ASSUME TypeOK, FramesAreNested, Singly, NoRepeats, Minted, NEW t \in Threads,
           NEW a \in Actors, NEW s \in Slots \cup {0}, Send(t, a, s)
    PROVE  NoRepeats' /\ TokenMove
<1>. PICK o : o = Me(t)
  OBVIOUS
<1>1. pc[t] = "run" /\ o \in Owners
  <2>1. pc[t] = "run"
    BY DEF Send, Does, Runs
  <2>. QED  BY <2>1, MeOwns
<1>2. /\ s = 0 \/ s \in held[o]
      /\ held' = [held EXCEPT ![o] = @ \ {s}] /\ held \in [Owners -> SUBSET Slots]
      /\ Enqueue(t, a, s) /\ UNCHANGED <<waiterVars, watchers, idleHooks, bulk>>
  BY DEF Send, TypeOK
<1>3. sending[t].tok = 0
  BY <1>1 DEF Minted, OnlySendersSend
<1>. PICK from : from = <<"held", o>>
  OBVIOUS
<1>. PICK S : S = {s} \ {0}
  OBVIOUS
<1>4. S \subseteq held[o] /\ held'[o] = held[o] \ S
  <2>1. 0 \notin Slots /\ held[o] \subseteq Slots
    BY <1>1, <1>2 DEF Slots
  <2>. QED  BY <1>1, <1>2, <2>1
<1>5. from \in Spots /\ At(from) = held[o] /\ At(from)' = held'[o]
  BY <1>1, HeldSpots
<1>6. \A x \in Owners : <<"held", x>> # from => held'[x] = held[x]
  BY <1>1, <1>2
<1>7. a \in dead => \A r \in S : Dropped(r)
  BY DEF Dropped
<1>8. S = {s} \ {0} /\ S \subseteq At(from)
  BY <1>4, <1>5
<1>9. LeavesHand(t, from, S)
  BY <1>1, <1>3, <1>4, <1>5 DEF LeavesHand
<1>10. Enqueue(t, a, s) /\ UNCHANGED <<waiterVars, watchers, idleHooks, bulk>>
  BY <1>2
<1>. QED  BY <1>5, <1>6, <1>7, <1>8, <1>9, <1>10, EnqueueMoves

\* So does a send tried again.
LEMMA ResendMoves ==
    ASSUME TypeOK, FramesAreNested, Singly, NoRepeats, NEW t \in Threads, Resend(t)
    PROVE  NoRepeats' /\ TokenMove
<1>. PICK s : s = sending[t].tok
  OBVIOUS
<1>. PICK a : a = sending[t].to
  OBVIOUS
<1>1. /\ a \in Actors /\ s \in Slots \cup {0} /\ Enqueue(t, a, s)
      /\ UNCHANGED <<held, waiterVars, watchers, idleHooks, bulk>>
  <2>1. sending[t] \in SendRec
    BY DEF TypeOK
  <2>. QED  BY <2>1 DEF Resend, FramesAreNested, NestedOn, SendRec, tokenVars
<1>. PICK from : from = <<"send", t>>
  OBVIOUS
<1>. PICK S : S = {s} \ {0}
  OBVIOUS
<1>2. from \in Spots /\ At(from) = S
  BY SendSpots
<1>3. a \in dead => \A r \in S : Dropped(r)
  BY DEF Dropped
<1>4. S = {s} \ {0} /\ S \subseteq At(from) /\ LeavesHand(t, from, S)
  BY <1>2 DEF LeavesHand
<1>5. \A o \in Owners : <<"held", o>> # from => held'[o] = held[o]
  BY <1>1
<1>. QED  BY <1>1, <1>2, <1>3, <1>4, <1>5, EnqueueMoves

\* An answer delivered puts no token anywhere.
LEMMA DeliveryIsQuiet ==
    ASSUME TypeOK, NEW s \in Slots, DeliverTo(s)
    PROVE  QuietPosts
<1>1. queue \in [Actors -> Seq(Entry)] /\ Answered(s) \in Entry /\ Answered(s).kind # "msg"
  BY DEF TypeOK, Entry, Answered
<1>2. CASE DeliverToActor(s)
  BY <1>1, <1>2 DEF DeliverToActor, Post, QuietPosts
<1>3. CASE UNCHANGED queue
  BY <1>3 DEF QuietPosts
<1>. QED  BY <1>2, <1>3 DEF DeliverTo, DeliverToWaiter, DeliverToTask

\* Code that answers, watches or sets an idle hook hands its token in.
LEMMA HandedIn ==
    ASSUME TypeOK, FramesAreNested, Singly, NoRepeats, NEW t \in Threads, pc[t] = "run",
           NEW s \in Slots, s \in held[Me(t)], held' = [held EXCEPT ![Me(t)] = @ \ {s}],
           QuietPosts, UNCHANGED <<sending, bulk>>,
           \/ UNCHANGED <<watchers, idleHooks>> /\ DeliverTo(s)
           \/ /\ UNCHANGED <<idleHooks, waiterVars>>
              /\ \E a \in Actors : watchers' = [watchers EXCEPT ![a] = Append(@, s)]
           \/ UNCHANGED <<watchers, waiterVars>> /\ idleHooks' = Append(idleHooks, s)
    PROVE  NoRepeats' /\ TokenMove
<1>. PICK o \in Owners : o = Me(t)
  BY MeOwns
<1>. PICK from : from = <<"held", o>>
  OBVIOUS
<1>1. /\ from \in Spots /\ At(from) = held[o] /\ At(from)' = At(from) \ {s} /\ {s} \subseteq At(from)
      /\ \A x \in Owners : <<"held", x>> # from => held'[x] = held[x]
  <2>1. /\ held'[o] = held[o] \ {s} /\ \A x \in Owners : x # o => held'[x] = held[x]
        /\ s \in held[o]
    BY DEF TypeOK
  <2>2. from \in Spots /\ At(from) = held[o] /\ At(from)' = held'[o]
    BY HeldSpots
  <2>. QED  BY <2>1, <2>2
<1>2. /\ \A b \in Actors : from # <<"queue", b>> /\ from # <<"watch", b>>
      /\ \A u \in Threads : from # <<"send", u>>
      /\ from # <<"idle", Nobody>> /\ from # <<"bulk", Nobody>> /\ from # Nowhere
  BY DEF Nowhere
<1>3. /\ \A b \in Actors : \A r \in Slots :
           Delivered(r) \in ToSet(queue'[b]) <=> Delivered(r) \in ToSet(queue[b])
      /\ \A b \in Actors : Once(queue'[b], Carrying)
  BY QuietQueues DEF NoRepeats
<1>4. CASE UNCHANGED <<watchers, idleHooks>> /\ DeliverTo(s)
  <2>1. NoRepeats'
    BY <1>3, <1>4 DEF NoRepeats
  <2>2. \A c \in Spots \ {from, Nowhere} : At(c)' = At(c)
    BY <1>1, <1>3, <1>4, SpotsSame
  <2>3. Moved(from, {s}, Nowhere)
    BY <1>1, <1>2, <2>2, NowhereIsNot, MovedBy
  <2>. QED  BY <1>4, <2>1, <2>3 DEF TokenMove
<1>5. ASSUME NEW a \in Actors, watchers' = [watchers EXCEPT ![a] = Append(watchers[a], s)],
             UNCHANGED <<idleHooks, waiterVars>>
      PROVE  NoRepeats' /\ TokenMove
  <2>. PICK to : to = <<"watch", a>>
    OBVIOUS
  <2>1. /\ watchers'[a] = Append(watchers[a], s) /\ watchers[a] \in Seq(Slots)
        /\ \A b \in Actors : b # a => watchers'[b] = watchers[b]
    BY <1>5 DEF TypeOK
  <2>2. /\ to \in Spots /\ to # from /\ At(to) = ToSet(watchers[a])
        /\ At(to)' = ToSet(watchers'[a])
    BY <1>2, WatchSpots
  <2>3. At(to)' = At(to) \cup {s}
    BY <2>1, <2>2, ToSetAppend
  <2>4. s \notin ToSet(watchers[a])
    BY <1>1, <2>2 DEF Singly
  <2>5. Once(watchers'[a], Slots)
    BY <2>1, <2>4, OnceAppend DEF NoRepeats
  <2>6. NoRepeats'
    BY <1>3, <1>5, <2>1, <2>5 DEF NoRepeats
  <2>7. \A c \in Spots \ {from, to} : At(c)' = At(c)
    BY <1>1, <1>3, <1>5, <2>1, SpotsSame
  <2>8. Moved(from, {s}, to)
    BY <1>1, <2>2, <2>3, <2>7, MovedBy
  <2>9. RecordsStay({})
    BY <1>5 DEF RecordsStay, waiterVars
  <2>. QED  BY <2>2, <2>6, <2>8, <2>9 DEF TokenMove
<1>6. CASE UNCHANGED <<watchers, waiterVars>> /\ idleHooks' = Append(idleHooks, s)
  <2>. PICK to : to = <<"idle", Nobody>>
    OBVIOUS
  <2>1. idleHooks \in Seq(Slots)
    BY DEF TypeOK
  <2>2. /\ to \in Spots /\ to # from /\ At(to) = ToSet(idleHooks)
        /\ At(to)' = ToSet(idleHooks')
    BY <1>2, ListSpots
  <2>3. At(to)' = At(to) \cup {s}
    BY <1>6, <2>1, <2>2, ToSetAppend
  <2>4. s \notin ToSet(idleHooks)
    BY <1>1, <2>2 DEF Singly
  <2>5. Once(idleHooks', Slots)
    BY <1>6, <2>1, <2>4, OnceAppend DEF NoRepeats
  <2>6. NoRepeats'
    BY <1>3, <1>6, <2>5 DEF NoRepeats
  <2>7. \A c \in Spots \ {from, to} : At(c)' = At(c)
    BY <1>1, <1>3, <1>6, SpotsSame
  <2>8. Moved(from, {s}, to)
    BY <1>1, <2>2, <2>3, <2>7, MovedBy
  <2>9. RecordsStay({})
    BY <1>6 DEF RecordsStay, waiterVars
  <2>. QED  BY <2>2, <2>6, <2>8, <2>9 DEF TokenMove
<1>. QED  BY <1>4, <1>5, <1>6

\* An answer, a watch and an idle hook move the token they are given.
LEMMA AnswerMoves ==
    ASSUME TypeOK, FramesAreNested, Singly, NoRepeats, NEW t \in Threads, NEW s \in Slots,
           \/ Answer(t, s) \/ OnIdle(t, s) \/ \E a \in Actors : Watch(t, a, s)
    PROVE  NoRepeats' /\ TokenMove
<1>1. /\ pc[t] = "run" /\ s \in held[Me(t)] /\ held' = [held EXCEPT ![Me(t)] = @ \ {s}]
      /\ UNCHANGED <<sending, bulk>>
  BY DEF Answer, OnIdle, Watch, Does, Runs
<1>2. QuietPosts
  BY DeliveryIsQuiet DEF Answer, OnIdle, Watch, QuietPosts, actorVars
<1>. QED  BY <1>1, <1>2, HandedIn DEF Answer, OnIdle, Watch, actorVars, waiterVars

(***************************************************************************)
(* What comes by tokens, answers and tasks.                                *)
(***************************************************************************)
\* Nothing joins a queue but a message and a report.
NoneArrives == /\ \A p \in Pools : ToSet(tasks'[p]) \subseteq ToSet(tasks[p])
               /\ \A a \in Actors : \A s \in Slots :
                    Answered(s) \in ToSet(queue'[a]) => Answered(s) \in ToSet(queue[a])

\* What is put at the end of a mailbox, or taken out of one, is no answer that
\* was not there.
LEMMA NoAnswerArrives ==
    ASSUME TypeOK, NEW a \in Actors, NEW s \in Slots, Answered(s) \in ToSet(queue'[a]),
           \/ queue'[a] = queue[a] \/ queue'[a] = <<>>
           \/ \E e \in Entry : e.kind # "ans" /\ queue'[a] = Append(queue[a], e)
           \/ \E k \in DOMAIN queue[a] : queue'[a] = RemoveAt(queue[a], k)
    PROVE  Answered(s) \in ToSet(queue[a])
<1>0. queue[a] \in Seq(Entry) /\ Once(queue[a], {}) /\ ToSet(<<>>) = {}
  BY DEF TypeOK, Once, ToSet
<1>1. ASSUME NEW e \in Entry, e.kind # "ans", queue'[a] = Append(queue[a], e)
      PROVE  Answered(s) \in ToSet(queue[a])
  <2>1. ToSet(queue'[a]) = ToSet(queue[a]) \cup {e}
    BY <1>0, <1>1, ToSetAppend
  <2>. QED  BY <1>1, <2>1 DEF Answered
<1>2. ASSUME NEW k \in DOMAIN queue[a], queue'[a] = RemoveAt(queue[a], k)
      PROVE  Answered(s) \in ToSet(queue[a])
  BY <1>0, <1>2, OnceRemove
<1>. QED  BY <1>0, <1>1, <1>2

\* A send brings no answer, and the end of a task none.
LEMMA MessagesArrive ==
    ASSUME TypeOK, UNCHANGED tasks, NEW t \in Threads,
           \/ \E a \in Actors, s \in Slots \cup {0} : Enqueue(t, a, s)
           \/ \E S : TaskEnds(t, S)
           \/ ActorFaults(t)
    PROVE  NoneArrives
<1>0. queue \in [Actors -> Seq(Entry)] /\ Reported \in Entry /\ Reported.kind # "ans"
  BY DEF TypeOK, Entry, Reported
<1>1. SUFFICES ASSUME NEW a \in Actors
               PROVE  \/ queue'[a] = queue[a] \/ queue'[a] = <<>>
                      \/ \E e \in Entry : e.kind # "ans" /\ queue'[a] = Append(queue[a], e)
  BY NoAnswerArrives DEF NoneArrives
<1>2. ASSUME NEW b \in Actors, NEW r \in Slots \cup {0}, Enqueue(t, b, r)
      PROVE  \/ queue'[a] = queue[a]
             \/ \E e \in Entry : e.kind # "ans" /\ queue'[a] = Append(queue[a], e)
  <2>1. queue' = queue \/ queue' = [queue EXCEPT ![b] = Append(@, Delivered(r))]
    BY <1>2 DEF Enqueue
  <2>2. queue'[a] = queue[a] \/ queue'[a] = Append(queue[a], Delivered(r))
    BY <1>0, <2>1
  <2>3. Delivered(r) \in Entry /\ Delivered(r).kind # "ans"
    BY DEF Entry, Delivered
  <2>. QED  BY <2>2, <2>3
<1>3. ASSUME NEW S, TaskEnds(t, S)
      PROVE  queue'[a] = queue[a] \/ queue'[a] = Append(queue[a], Reported)
  BY <1>3 DEF TaskEnds
<1>4. ASSUME ActorFaults(t)
      PROVE  queue'[a] \in {queue[a], <<>>, Append(queue[a], Reported)}
  BY <1>4 DEF ActorFaults
<1>. QED  BY <1>0, <1>2, <1>3, <1>4

\* A task queued, and an answer in a mailbox, was there or its token is spent
\* by this step.
LEMMA ArrivalsStep ==
    ASSUME TypeOK, FramesAreNested, WaitersExist, [Next]_vars
    PROVE  /\ \A p \in Pools : \A s \in ToSet(tasks'[p]) : s \in ToSet(tasks[p]) \/ s \in Opens
           /\ \A a \in Actors : \A s \in Slots :
                Answered(s) \in ToSet(queue'[a]) => Answered(s) \in ToSet(queue[a]) \/ s \in Opens
<1>0. queue \in [Actors -> Seq(Entry)] /\ tasks \in [Pools -> Seq(Slots)]
  BY DEF TypeOK
<1>. SUFFICES NoneArrives \/ \E r \in Slots : r \in Opens /\ DeliverTo(r)
  <2>1. ASSUME NEW r \in Slots, r \in Opens, DeliverTo(r), NEW p \in Pools
        PROVE  \A s \in ToSet(tasks'[p]) : s \in ToSet(tasks[p]) \/ s \in Opens
    <3>1. tasks'[p] = tasks[p] \/ tasks'[p] = Append(tasks[p], r)
      BY <1>0, <2>1 DEF DeliverTo, DeliverToActor, DeliverToTask, DeliverToWaiter
    <3>2. ToSet(Append(tasks[p], r)) = ToSet(tasks[p]) \cup {r}
      BY <1>0, ToSetAppend
    <3>. QED  BY <2>1, <3>1, <3>2
  <2>2. ASSUME NEW r \in Slots, r \in Opens, DeliverTo(r), NEW a \in Actors, NEW s \in Slots,
               Answered(s) \in ToSet(queue'[a])
        PROVE  Answered(s) \in ToSet(queue[a]) \/ s \in Opens
    <3>1. queue'[a] = queue[a] \/ queue'[a] = Append(queue[a], Answered(r))
      BY <1>0, <2>2 DEF DeliverTo, DeliverToActor, DeliverToTask, DeliverToWaiter, Post
    <3>2. Answered(r) \in Entry /\ (Answered(s) = Answered(r) => s = r)
      BY DEF Entry, Answered
    <3>3. ToSet(Append(queue[a], Answered(r))) = ToSet(queue[a]) \cup {Answered(r)}
      BY <1>0, <3>2, ToSetAppend
    <3>. QED  BY <2>2, <3>1, <3>2, <3>3
  <2>. QED  BY <2>1, <2>2 DEF NoneArrives
<1>1. ASSUME UNCHANGED <<queue, tasks>> PROVE NoneArrives
  BY <1>1 DEF NoneArrives
<1>2. ASSUME NEW t \in Threads, NEW r \in Slots, r \in held[Me(t)], pc[t] = "run",
             DeliverTo(r) \/ UNCHANGED <<queue, tasks>>
      PROVE  NoneArrives \/ \E s \in Slots : s \in Opens /\ DeliverTo(s)
  <2>. PICK o \in Owners : o = Me(t)
    BY <1>2, MeOwns
  <2>1. r \in Opens
    BY <1>2, HeldSpots DEF Opens
  <2>. QED  BY <1>1, <1>2, <2>1
<1>3. ASSUME NEW t \in Threads, Program(t)
      PROVE  NoneArrives \/ \E r \in Slots : r \in Opens /\ DeliverTo(r)
  <2>1. ASSUME NEW r \in Slots, Answer(t, r) \/ \E a \in Actors : Watch(t, a, r)
        PROVE  NoneArrives \/ \E s \in Slots : s \in Opens /\ DeliverTo(s)
    BY <1>2, <2>1 DEF Answer, Watch, Does, Runs, poolVars
  <2>2. CASE \/ \E a \in Actors, r \in Slots \cup {0} : Send(t, a, r)
             \/ ActorFaults(t) \/ TaskFaults(t)
    BY <2>2, MessagesArrive DEF Send, ActorFaults, TaskFaults, TaskEnds
  <2>3. CASE \/ \E gated \in BOOLEAN : MintActor(t, gated)
             \/ \E q \in Pools, c \in SUBSET Slots : MintTask(t, q, c)
             \/ MintWaiter(t) \/ Await(t)
             \/ \E r \in Slots : OnIdle(t, r)
             \/ \E q \in Pools : NewPool(t, q)
             \/ \E a \in Actors : NewActor(t, a)
             \/ \E h \in Hosts, c \in SUBSET Slots : HostOpens(t, h, c)
    BY <1>1, <2>3 DEF MintActor, MintTask, MintWaiter, Await, OnIdle, NewPool, NewActor,
                      HostOpens, actorVars, poolVars
  <2>. QED  BY <1>3, <2>1, <2>2, <2>3 DEF Program
<1>4. ASSUME NEW t \in Threads, NEW own, TakeWork(t, own)
      PROVE  NoneArrives
  <2>1. CASE TakeTask(t)
    <3>1. PICK q \in Pools : tasks[q] # <<>> /\ tasks' = [tasks EXCEPT ![q] = Tail(tasks[q])]
      BY <2>1, ConstantsAssumption DEF TakeTask, ConstantsAssumption
    <3>2. ToSet(Tail(tasks[q])) \subseteq ToSet(tasks[q])
      BY <1>0, <3>1, ToSetTail
    <3>3. \A p \in Pools : tasks'[p] = IF p = q THEN Tail(tasks[q]) ELSE tasks[p]
      BY <1>0, <3>1
    <3>. QED  BY <2>1, <3>2, <3>3 DEF TakeTask, actorVars, NoneArrives
  <2>2. ASSUME NEW b \in Actors, NEW k \in DOMAIN queue[b], TakeEntryOf(t, own, b, k)
        PROVE  NoneArrives
    <3>1. UNCHANGED tasks /\ queue' = [queue EXCEPT ![b] = RemoveAt(@, k)]
      BY <2>2 DEF TakeEntryOf
    <3>2. \A a \in Actors : queue'[a] = IF a = b THEN RemoveAt(queue[b], k) ELSE queue[a]
      BY <1>0, <3>1
    <3>. QED  BY <3>1, <3>2, NoAnswerArrives DEF NoneArrives
  <2>. QED  BY <1>4, <2>1, <2>2 DEF TakeWork, TakeEntry
<1>5. ASSUME NEW t \in Threads, Runtime(t)
      PROVE  NoneArrives
  <2>1. CASE NextWork(t) \/ WaitWork(t)
    BY <1>4, <2>1 DEF NextWork, WaitWork
  <2>2. CASE Resend(t)
    <3>1. sending[t].to \in Actors /\ sending[t].tok \in Slots \cup {0}
      BY <2>2 DEF TypeOK, Resend, FramesAreNested, NestedOn, SendRec
    <3>. QED  BY <2>2, <3>1, MessagesArrive DEF Resend
  <2>3. CASE TaskReturns(t)
    BY <2>3, MessagesArrive DEF TaskReturns, TaskEnds
  <2>4. CASE \/ Park(t) \/ ActorReturns(t) \/ NextRetires(t) \/ NextSleeps(t)
             \/ WaitGot(t) \/ WaitIdles(t)
    BY <1>1, <2>4 DEF Park, ActorReturns, NextRetires, NextSleeps, WaitGot, WaitIdles,
                      actorVars, poolVars
  <2>. QED  BY <1>5, <2>1, <2>2, <2>3, <2>4 DEF Runtime
<1>6. CASE DeliverNext
  <2>1. /\ bulk.tokens \in Seq(Slots) /\ bulk.tokens # <<>> /\ DeliverTo(Head(bulk.tokens))
    BY <1>6 DEF DeliverNext, TypeOK, BulkRec
  <2>2. Head(bulk.tokens) \in Slots /\ Head(bulk.tokens) \in ToSet(bulk.tokens)
    BY <2>1, HeadTailProperties, ToSetTail
  <2>. QED  BY <2>1, <2>2, ListSpots DEF Opens
<1>7. CASE \/ UNCHANGED vars \/ EndBulk \/ MainReturns \/ Exited
           \/ \E h \in Threads : HostCloses(h)
  BY <1>1, <1>7 DEF vars, EndBulk, MainReturns, Exited, HostCloses, actorVars, poolVars
<1>. QED  BY <1>3, <1>5, <1>6, <1>7 DEF Next

\* Code on t mints a token.
Mints(t) == /\ pc[t] = "run" /\ UNCHANGED pc
            /\ \E place, to : \E c \in SUBSET Slots : Mint(t, place, to, c)

\* Only an actor that takes a message, a host thread that opens and code that
\* mints come by more tokens.
LEMMA HandKinds ==
    ASSUME TypeOK, FramesAreNested, WaitersExist, [Next]_vars
    PROVE  \/ \A o \in Owners : held'[o] \subseteq held[o]
           \/ \E a \in Actors : \A o \in Owners : o # a => held'[o] = held[o]
           \/ \E t \in Threads, h \in Hosts, c \in SUBSET Slots : HostOpens(t, h, c)
           \/ \E t \in Threads : Mints(t)
<1>0. held \in [Owners -> SUBSET Slots]
  BY DEF TypeOK
<1>1. ASSUME \/ UNCHANGED held
             \/ \E o, S : held' = [held EXCEPT ![o] = @ \ S]
             \/ \E o : held' = [held EXCEPT ![o] = {}]
      PROVE  \A o \in Owners : held'[o] \subseteq held[o]
  BY <1>0, <1>1
<1>2. ASSUME NEW t \in Threads, Program(t)
      PROVE  \/ \A o \in Owners : held'[o] \subseteq held[o]
             \/ \E h \in Hosts, c \in SUBSET Slots : HostOpens(t, h, c)
             \/ Mints(t)
  <2>1. CASE \E gated \in BOOLEAN : MintActor(t, gated)
    <3>1. Mint(t, Me(t), Me(t), {}) /\ pc[t] = "run" /\ UNCHANGED pc /\ {} \in SUBSET Slots
      BY <2>1 DEF MintActor, Runs, threadVars
    <3>. QED  BY <3>1 DEF Mints
  <2>2. ASSUME NEW p \in Pools, NEW c \in SUBSET Slots, MintTask(t, p, c)
        PROVE  Mints(t)
    BY <2>2 DEF MintTask, Mints, Does, Runs, threadVars
  <2>3. CASE MintWaiter(t)
    <3>1. PICK w : Mint(t, w, Serves[t], {})
      BY <2>3 DEF MintWaiter
    <3>2. pc[t] = "run" /\ UNCHANGED pc /\ {} \in SUBSET Slots
      BY <2>3 DEF MintWaiter, Does, Runs
    <3>. QED  BY <3>1, <3>2 DEF Mints
  <2>4. CASE \/ \E a \in Actors, s \in Slots \cup {0} : Send(t, a, s)
             \/ \E s \in Slots : Answer(t, s) \/ OnIdle(t, s)
             \/ \E a \in Actors, s \in Slots : Watch(t, a, s)
             \/ Await(t) \/ \E p \in Pools : NewPool(t, p)
             \/ \E a \in Actors : NewActor(t, a)
             \/ ActorFaults(t) \/ TaskFaults(t)
    BY <1>1, <2>4 DEF Send, Answer, OnIdle, Watch, Await, NewPool, NewActor, ActorFaults,
                      TaskFaults, TaskEnds, tokenVars
  <2>. QED  BY <1>2, <2>1, <2>2, <2>3, <2>4 DEF Program
<1>3. ASSUME NEW t \in Threads, NEW own, TakeWork(t, own)
      PROVE  \/ \A o \in Owners : held'[o] \subseteq held[o]
             \/ \E a \in Actors : \A o \in Owners : o # a => held'[o] = held[o]
  <2>1. CASE TakeTask(t)
    BY <1>1, <2>1 DEF TakeTask
  <2>2. ASSUME NEW a \in Actors, NEW k \in DOMAIN queue[a], TakeEntryOf(t, own, a, k)
        PROVE  \A o \in Owners : o # a => held'[o] = held[o]
    <3>1. UNCHANGED held \/ \E S : held' = [held EXCEPT ![a] = @ \cup S]
      BY <2>2 DEF TakeEntryOf
    <3>. QED  BY <1>0, <3>1
  <2>. QED  BY <1>3, <2>1, <2>2 DEF TakeWork, TakeEntry
<1>4. ASSUME NEW t \in Threads, Runtime(t)
      PROVE  \/ \A o \in Owners : held'[o] \subseteq held[o]
             \/ \E a \in Actors : \A o \in Owners : o # a => held'[o] = held[o]
  <2>1. CASE NextWork(t) \/ WaitWork(t)
    BY <1>3, <2>1 DEF NextWork, WaitWork
  <2>2. CASE \/ Resend(t) \/ Park(t) \/ ActorReturns(t) \/ TaskReturns(t)
             \/ NextRetires(t) \/ NextSleeps(t) \/ WaitGot(t) \/ WaitIdles(t)
    BY <1>1, <2>2 DEF Resend, Park, ActorReturns, TaskReturns, TaskEnds, NextRetires,
                      NextSleeps, WaitGot, WaitIdles, tokenVars
  <2>. QED  BY <1>4, <2>1, <2>2 DEF Runtime
<1>5. CASE \/ UNCHANGED vars \/ DeliverNext \/ EndBulk \/ MainReturns \/ Exited
           \/ \E h \in Threads : HostCloses(h)
  BY <1>1, <1>5 DEF vars, DeliverNext, EndBulk, MainReturns, Exited, HostCloses, tokenVars
<1>. QED  BY <1>2, <1>4, <1>5 DEF Next
===============================================================================
