------------------------- MODULE RoutingCreditProofs -------------------------
(***************************************************************************)
(* The credits of routing, for every value of the constants.  Every credit *)
(* that is held is a token somewhere: in a proxy's purse, with a sender    *)
(* that spent it and has not staged its message, with a frame under way,   *)
(* or gone with a frame the wire lost.  On that stand the room in a        *)
(* mailbox and what is pending of a proxy.                                 *)
(***************************************************************************)
EXTENDS RoutingProofs

\* What the nodes have of an actor's credits, one token for each.
Has(a)   == [n \in Nodes |-> IF proxies[n][a] = 0 THEN 0 ELSE credits[n][proxies[n][a]]]
Purse(g) == UNION {{n} \X (1..g[n]) : n \in Nodes}
LEMMA PurseIs ==
    ASSUME NEW g
    PROVE  /\ \A n \in Nodes : \A j \in 1..g[n] : <<n, j>> \in Purse(g)
           /\ \A y \in Purse(g) : y[1] \in Nodes /\ y[2] \in 1..g[y[1]] /\ y = <<y[1], y[2]>>
  BY DEF Purse
LEMMA UnspentIs == ASSUME NEW a PROVE Unspent(a) = Purse(Has(a))
<1>1. \A y : y \in Unspent(a) <=>
             \E n \in Nodes : proxies[n][a] # 0 /\ y \in {n} \X (1..credits[n][proxies[n][a]])
  BY DEF Unspent, Proxied
<1>2. \A y : y \in Purse(Has(a)) <=> \E n \in Nodes : y \in {n} \X (1..Has(a)[n])
  BY DEF Purse
<1>3. \A n \in Nodes : Has(a)[n] = IF proxies[n][a] = 0 THEN 0 ELSE credits[n][proxies[n][a]]
  BY DEF Has
<1>4. \A y, n : y \notin {n} \X (1..0)
  OBVIOUS
<1>. QED  BY <1>1, <1>2, <1>3, <1>4

LEMMA Tokens ==
    ASSUME NEW x, NEW S, IsFiniteSet(S)
    PROVE  IsFiniteSet({x} \X S) /\ Cardinality({x} \X S) = Cardinality(S)
<1>. DEFINE T == {x} \X S
            g == [j \in S |-> <<x, j>>]
<1>1. g \in [S -> T] /\ (\A i, j \in S : g[i] = g[j] => i = j) /\ \A y \in T : \E j \in S : g[j] = y
  OBVIOUS
<1>. HIDE DEF T, g
<1>2. ExistsBijection(S, T)
  BY <1>1, Fun_IsBij, Fun_ExistsBij
<1>3. IsFiniteSet(T) /\ Cardinality(T) = Cardinality(S)
  BY <1>2, FS_Bijection
<1>. QED  BY <1>3 DEF T
LEMMA PurseGrows ==
    ASSUME NEW g \in [Nodes -> Nat], IsFiniteSet(Purse(g)), NEW n \in Nodes, NEW k \in Nat,
           NEW h \in [Nodes -> Nat], h[n] = g[n] + k, \A m \in Nodes : m # n => h[m] = g[m]
    PROVE  IsFiniteSet(Purse(h)) /\ Cardinality(Purse(h)) = Cardinality(Purse(g)) + k
<1>. DEFINE T == {n} \X (g[n] + 1..g[n] + k)
<1>0. g[n] \in Nat
  OBVIOUS
<1>1. IsFiniteSet(T) /\ Cardinality(T) = k
  <2>. DEFINE S == g[n] + 1..g[n] + k
  <2>1. IsFiniteSet(S) /\ Cardinality(S) = k
    <3>. DEFINE lo == g[n] + 1  hi == g[n] + k
    <3>1. lo \in Int /\ hi \in Int /\ (IF lo > hi THEN 0 ELSE hi - lo + 1) = k
      BY <1>0
    <3>. HIDE DEF lo, hi
    <3>2. IsFiniteSet(lo..hi) /\ Cardinality(lo..hi) = IF lo > hi THEN 0 ELSE hi - lo + 1
      BY <3>1, FS_Interval
    <3>. QED  BY <3>1, <3>2 DEF lo, hi
  <2>. HIDE DEF S
  <2>2. IsFiniteSet({n} \X S) /\ Cardinality({n} \X S) = k
    BY <2>1, Tokens
  <2>. QED  BY <2>2 DEF S
<1>2. Purse(h) = Purse(g) \cup T
  <2>1. ASSUME NEW y \in Purse(h) PROVE y \in Purse(g) \cup T
    <3>1. y[1] \in Nodes /\ y[2] \in 1..h[y[1]] /\ y = <<y[1], y[2]>>
      BY PurseIs
    <3>2. CASE y[1] = n /\ y[2] > g[n]
      BY <3>1, <3>2
    <3>3. CASE y[1] # n \/ y[2] <= g[n]
      <4>1. y[2] \in 1..g[y[1]]
        BY <3>1, <3>3
      <4>. QED  BY <3>1, <4>1, PurseIs
    <3>. QED  BY <3>1, <3>2, <3>3
  <2>2. ASSUME NEW y \in Purse(g) PROVE y \in Purse(h)
    <3>1. y[1] \in Nodes /\ y[2] \in 1..g[y[1]] /\ y = <<y[1], y[2]>>
      BY PurseIs
    <3>2. y[2] \in 1..h[y[1]]
      BY <3>1
    <3>. QED  BY <3>1, <3>2, PurseIs
  <2>3. ASSUME NEW y \in T PROVE y \in Purse(h)
    <3>1. y[1] = n /\ y[2] \in 1..h[n] /\ y = <<y[1], y[2]>>
      OBVIOUS
    <3>. QED  BY <3>1, PurseIs
  <2>. QED  BY <2>1, <2>2, <2>3
<1>3. Purse(g) \cap T = {}
  BY PurseIs
<1>. HIDE DEF T
<1>4. /\ IsFiniteSet(Purse(g) \cup T)
      /\ Cardinality(Purse(g) \cup T) = Cardinality(Purse(g)) + Cardinality(T) - Cardinality({})
  <2>. DEFINE P == Purse(g)
  <2>1. IsFiniteSet(P) /\ P \cap T = {}
    BY <1>3
  <2>. HIDE DEF P
  <2>2. /\ IsFiniteSet(P \cup T)
        /\ Cardinality(P \cup T) = Cardinality(P) + Cardinality(T) - Cardinality(P \cap T)
    BY <1>1, <2>1, FS_Union
  <2>3. /\ IsFiniteSet(P \cup T)
        /\ Cardinality(P \cup T) = Cardinality(P) + Cardinality(T) - Cardinality({})
    BY <2>1, <2>2
  <2>. QED  BY <2>3 DEF P
<1>5. Cardinality({}) = 0 /\ Cardinality(Purse(g)) \in Nat
  BY FS_EmptySet, FS_CardinalityType
<1>. QED  BY <1>1, <1>2, <1>4, <1>5
LEMMA PurseShrinks ==
    ASSUME NEW g \in [Nodes -> Nat], IsFiniteSet(Purse(g)), NEW n \in Nodes,
           NEW h \in [Nodes -> Nat], g[n] = h[n] + 1, \A m \in Nodes : m # n => h[m] = g[m]
    PROVE  IsFiniteSet(Purse(h)) /\ Cardinality(Purse(g)) = Cardinality(Purse(h)) + 1
<1>1. Purse(h) \subseteq Purse(g)
  <2>. SUFFICES ASSUME NEW y \in Purse(h) PROVE y \in Purse(g)
    OBVIOUS
  <2>1. y[1] \in Nodes /\ y[2] \in 1..h[y[1]] /\ y = <<y[1], y[2]>>
    BY PurseIs
  <2>2. y[2] \in 1..g[y[1]]
    BY <2>1
  <2>. QED  BY <2>1, <2>2, PurseIs
<1>2. IsFiniteSet(Purse(h))
  BY <1>1, FS_Subset
<1>. QED  BY <1>2, PurseGrows

\* The books of one actor, as finite sets.
Spread(a) == Cardinality(Purse(Has(a))) + Cardinality(Staging(a)) + Cardinality(Load(Q, FramesOf(a))) + lost[a]
Finite(a) == IsFiniteSet(Purse(Has(a))) /\ IsFiniteSet(Staging(a)) /\ IsFiniteSet(Load(Q, FramesOf(a)))
Kept(a) == Finite(a) /\ held[a] = Spread(a)
LEMMA KeptIs == ASSUME NEW a, Kept(a)
                PROVE  held[a] = Cardinality(Unspent(a)) + Cardinality(Staging(a))
                                   + Cardinality(Carried(FramesOf(a))) + lost[a]
  BY UnspentIs, CarriedIsLoad DEF Kept, Spread

\* What a step does with the frames, and what that does to what they carry.
LEMMA LoadMoves ==
    ASSUME NEW a \in Actors, IsFiniteSet(Load(Q, FramesOf(a)))
    PROVE  /\ Moves(Q, Q') =>
                IsFiniteSet(Load(Q', FramesOf(a))) /\ Cardinality(Load(Q', FramesOf(a))) = Cardinality(Load(Q, FramesOf(a)))
           /\ \A f \in Frame : Adds(Q, Q', f) =>
                /\ IsFiniteSet(Load(Q', FramesOf(a)))
                /\ Cardinality(Load(Q', FramesOf(a)))
                     = Cardinality(Load(Q, FramesOf(a))) + IF f.actor = a THEN Worth(f) ELSE 0
           /\ \A f \in Frame : Adds(Q', Q, f) =>
                /\ IsFiniteSet(Load(Q', FramesOf(a)))
                /\ Cardinality(Load(Q, FramesOf(a)))
                     = Cardinality(Load(Q', FramesOf(a))) + IF f.actor = a THEN Worth(f) ELSE 0
<1>1. ASSUME NEW f \in Frame PROVE (f \in FramesOf(a) <=> f.actor = a) /\ Worth(f) \in Nat
  BY FrameIs DEF FramesOf
<1>2. Cardinality(Load(Q, FramesOf(a))) \in Nat
  BY FS_CardinalityType
<1>3. ASSUME NEW f \in Frame, Adds(Q', Q, f)
      PROVE  /\ IsFiniteSet(Load(Q', FramesOf(a)))
             /\ Cardinality(Load(Q, FramesOf(a)))
                  = Cardinality(Load(Q', FramesOf(a))) + IF f.actor = a THEN Worth(f) ELSE 0
  <2>1. IsFiniteSet(Load(Q', FramesOf(a)))
    BY <1>1, <1>3, DroppedLoad
  <2>2. Cardinality(Load(Q, FramesOf(a))) = Cardinality(Load(Q', FramesOf(a))) + IF f \in FramesOf(a) THEN Worth(f) ELSE 0
    BY <1>1, <1>3, <2>1, AddedLoad
  <2>. QED  BY <1>1, <2>1, <2>2
<1>4. ASSUME NEW f \in Frame, Adds(Q, Q', f)
      PROVE  /\ IsFiniteSet(Load(Q', FramesOf(a)))
             /\ Cardinality(Load(Q', FramesOf(a)))
                  = Cardinality(Load(Q, FramesOf(a))) + IF f.actor = a THEN Worth(f) ELSE 0
  <2>1. /\ IsFiniteSet(Load(Q', FramesOf(a)))
        /\ Cardinality(Load(Q', FramesOf(a))) = Cardinality(Load(Q, FramesOf(a))) + IF f \in FramesOf(a) THEN Worth(f) ELSE 0
    BY <1>1, <1>4, AddedLoad
  <2>. QED  BY <1>1, <2>1
<1>. QED  BY <1>3, <1>4, MovedLoad

LEMMA StagingSame ==
    ASSUME Shape, [Next]_vars, ~\E s \in Senders : TakeCredit(s) \/ Stage(s), NEW a
    PROVE  Staging(a)' = Staging(a)
<1>. USE ConstantsAssumption DEF Threads
<1>t. pc \in [Threads -> Labels] /\ DOMAIN job = Threads
  BY DEF Shape, TablesOK, ThreadsOK
<1>k. ASSUME \A s \in Senders : \/ pc'[s] = pc[s] /\ job'[s] = job[s]
                                \/ pc'[s] # "stage" /\ pc[s] # "stage"
      PROVE  Staging(a)' = Staging(a)
  <2>1. \A s \in Senders : s \in Staging(a)' <=> s \in Staging(a)
    BY <1>k DEF Staging
  <2>. QED  BY <2>1 DEF Staging
<1>1. ASSUME NEW t \in Senders, Sender(t) PROVE Staging(a)' = Staging(a)
  <2>1. \A u \in Senders : u # t => pc'[u] = pc[u] /\ job'[u] = job[u]
    BY <1>1, OthersRest
  <2>2. pc[t] # "stage" /\ pc'[t] # "stage"
    <3>1. CASE \/ \E b \in Actors : ImportFinds(t, b) \/ Send(t, b)
               \/ ImportMakes(t) \/ ImportRegisters(t) \/ ImportMarks(t) \/ SendAgain(t)
      BY <1>t, <3>1 DEF ImportFinds, Send, Tries, ImportMakes, ImportRegisters, ImportMarks, SendAgain, ThenFlush, Idle,
         Works, Goto
    <3>2. CASE LooksBefore(t) \/ LooksAfter(t) \/ ParkEnds(t)
      BY <1>t, <3>2 DEF LooksBefore, LooksAfter, LooksIfDead, ParkEnds, Idle, Works, Goto
    <3>. QED  BY <1>1, <3>1, <3>2 DEF Sender
  <2>. QED  BY <1>k, <2>1, <2>2
<1>2. ASSUME (\E t \in Receivers : Receiver(t)) \/ (\E w \in Workers : Worker(w)) PROVE Staging(a)' = Staging(a)
  <2>1. \A u \in Senders : pc'[u] = pc[u] /\ job'[u] = job[u]
    BY <1>2, OthersRest
  <2>. QED  BY <1>k, <2>1
<1>3. ASSUME NEW t \in Threads, Flush(t) PROVE Staging(a)' = Staging(a)
  BY <1>t, <1>k, <1>3 DEF Flush, TakeOutbox, WireOut, Goto
<1>4. ASSUME \/ \E b \in Actors : LocalSend(b) \/ Die(b)
             \/ \E m, n \in Nodes : Lose(m, n)
             \/ UNCHANGED vars
      PROVE  Staging(a)' = Staging(a)
  BY <1>4, <1>k DEF LocalSend, Die, Lose, vars, thread
<1>. QED  BY <1>1, <1>2, <1>3, <1>4 DEF Next
LEMMA BooksSame ==
    ASSUME [Next]_vars, ~Registers, ~Grants, ~Receives, ~\E s \in Senders : TakeCredit(s)
    PROVE  UNCHANGED <<proxies, credits, held, lost>>
<1>1. CASE \E s \in Senders : Sender(s)
  BY ZenonT(30), <1>1 DEF Sender, Registers, ImportFinds, Send, ImportMakes, ImportRegisters, ImportMarks, SendAgain,
     LooksBefore, LooksAfter, LooksIfDead, ParkEnds, Stage, books, history
<1>2. CASE (\E t \in Receivers : Receiver(t)) \/ (\E w \in Workers : Worker(w))
  BY ZenonT(30), <1>2 DEF Receiver, Worker, Receives, Grants, EnqueueRemote, OpenRoom, Dequeue, CreditBack, AddRoute, NodeLeft,
     SetOutbound, KillNext, books, history
<1>3. CASE \/ \E t \in Threads : Flush(t)
           \/ \E b \in Actors : LocalSend(b) \/ Die(b)
           \/ UNCHANGED vars
  BY ZenonT(30), <1>3 DEF Flush, TakeOutbox, WireOut, LocalSend, Die, vars, books, history
<1>. QED  BY <1>1, <1>2, <1>3 DEF Next, Receives

LEMMA StagingOf ==
    ASSUME NEW t \in Threads, \A u \in Threads : u # t => pc'[u] = pc[u] /\ job'[u] = job[u],
           t \in Senders => pc[t] # "stage" /\ pc'[t] # "stage", NEW a
    PROVE  Staging(a)' = Staging(a)
<1>1. \A s \in Senders : s \in Staging(a)' <=> s \in Staging(a)
  BY DEF Staging, Threads
<1>. QED  BY <1>1 DEF Staging
LEMMA HasSame == ASSUME UNCHANGED <<proxies, credits>>, NEW a PROVE Has(a)' = Has(a)
  BY DEF Has
LEMMA KeptNext ==
    ASSUME NEW a, NEW u, NEW c, NEW l,
           u = Has(a)', c = Staging(a)', l = Load(Q', FramesOf(a)),
           IsFiniteSet(Purse(u)), IsFiniteSet(c), IsFiniteSet(l),
           held'[a] = Cardinality(Purse(u)) + Cardinality(c) + Cardinality(l) + lost'[a]
    PROVE  Kept(a)'
<1>1. Purse(Has(a))' = Purse(u) /\ Load(Q, FramesOf(a))' = l
  BY ZenonT(30) DEF Purse, Load, SlotsIn, At, FramesOf, Frame, Worth
<1>. QED  BY <1>1 DEF Kept, Finite, Spread

LEMMA CreditsStep ==
    ASSUME Shape, Flow, Met, \A a \in Actors : Kept(a), [Next]_vars, NEW b \in Actors
    PROVE  Kept(b)'
<1>. USE ConstantsAssumption DEF Threads
<1>. DEFINE U == Cardinality(Purse(Has(b)))
            S == Cardinality(Staging(b))
            L == Cardinality(Load(Q, FramesOf(b)))
<1>n. /\ IsFiniteSet(Purse(Has(b))) /\ IsFiniteSet(Staging(b)) /\ IsFiniteSet(Load(Q, FramesOf(b)))
      /\ U \in Nat /\ S \in Nat /\ L \in Nat /\ lost[b] \in Nat /\ held[b] = U + S + L + lost[b]
  <2>1. Kept(b)
    OBVIOUS
  <2>. QED  BY <2>1, FS_CardinalityType DEF Kept, Finite, Spread, Flow, CountsOK
<1>t. /\ pc \in [Threads -> Labels] /\ DOMAIN job = Threads
      /\ proxies \in [Nodes -> [Actors -> 0..MaxEntries]] /\ credits \in [Nodes -> [Entries -> Nat]]
      /\ held \in [Actors -> Nat] /\ lost \in [Actors -> Nat]
  BY DEF Shape, TablesOK, ThreadsOK, BooksOK, Flow, CountsOK
<1>h. Has(b) \in [Nodes -> Nat]
  <2>1. \A n \in Nodes : proxies[n][b] # 0 => proxies[n][b] \in Entries
    BY <1>t DEF Entries
  <2>2. \A n \in Nodes : \A i \in Entries : credits[n][i] \in Nat
    BY <1>t
  <2>. QED  BY <2>1, <2>2 DEF Has
\* Nothing moves between the books.
<1>s. ASSUME Has(b)' = Has(b), Staging(b)' = Staging(b), held'[b] = held[b], lost'[b] = lost[b],
             IsFiniteSet(Load(Q', FramesOf(b))), Cardinality(Load(Q', FramesOf(b))) = L
      PROVE  Kept(b)'
  BY <1>n, <1>s, KeptNext
<1>1. ASSUME NEW s \in Senders, ImportRegisters(s), ~ImportedNow(Place[s], job[s].at) PROVE Kept(b)'
  <2>. DEFINE n == Place[s]  a == job[s].at  i == job[s].idx
  <2>0. PICK f : f = OpenFrame(a, n)
    OBVIOUS
  <2>1. /\ n \in Nodes /\ a \in Actors /\ i \in Entries /\ f \in Frame /\ Adds(Q, Q', f)
        /\ f.kind = "open"
    BY <1>1, <2>0, RegisterAdds DEF OpenFrame
  <2>2. Worth(f) = 0
    BY <2>1 DEF Worth
  <2>3. /\ proxies' = [proxies EXCEPT ![n][a] = i] /\ credits' = [credits EXCEPT ![n][i] = 0]
        /\ proxies[n][a] = 0 /\ held' = held /\ lost' = lost /\ pc[s] = "register"
    BY <1>1 DEF ImportRegisters, ImportedNow, history
  <2>4. \A c \in Actors : proxies[n][c] # i
    BY <2>3 DEF Met, FreshInv, Fresh
  <2>5. Staging(b)' = Staging(b)
    <3>1. pc'[s] # "stage"
      BY <1>1, <1>t DEF ImportRegisters, ThenFlush, Works, Goto
    <3>2. \A u \in Threads : u # s => pc'[u] = pc[u] /\ job'[u] = job[u]
      BY <1>1, OthersRest DEF Sender
    <3>. QED  BY <2>3, <3>1, <3>2, StagingOf
  <2>6. Has(b)' = Has(b)
    <3>. HIDE DEF n, a, i
    <3>1. ASSUME NEW m \in Nodes
          PROVE  (IF proxies'[m][b] = 0 THEN 0 ELSE credits'[m][proxies'[m][b]])
                    = (IF proxies[m][b] = 0 THEN 0 ELSE credits[m][proxies[m][b]])
      <4>1. CASE m = n /\ b = a
        BY <1>t, <2>1, <2>3, <4>1
      <4>2. CASE m = n /\ b # a
        BY <1>t, <2>1, <2>3, <2>4, <4>2
      <4>3. CASE m # n
        BY <1>t, <2>1, <2>3, <4>3
      <4>. QED  BY <4>1, <4>2, <4>3
    <3>. QED  BY <3>1 DEF Has
  <2>. HIDE DEF n, a, i
  <2>7. IsFiniteSet(Load(Q', FramesOf(b))) /\ Cardinality(Load(Q', FramesOf(b))) = L
    BY <1>n, <2>1, <2>2, LoadMoves
  <2>. QED  BY <1>s, <2>3, <2>5, <2>6, <2>7
<1>2. ASSUME NEW s \in Senders, TakeCredit(s) PROVE Kept(b)'
  <2>. DEFINE n == Place[s]  a == job[s].at  i == job[s].idx
  <2>1. /\ n \in Nodes /\ a \in Actors /\ i \in Entries /\ i = proxies[n][a] /\ pc[s] = "credit"
    BY <1>2 DEF TakeCredit, Shape, JobsOK, SenderOK, Met, MetInv, MetSender, SendLabels
  <2>2. proxies' = proxies /\ held' = held /\ lost' = lost /\ job' = job
    BY <1>2 DEF TakeCredit, history
  <2>3. IsFiniteSet(Load(Q', FramesOf(b))) /\ Cardinality(Load(Q', FramesOf(b))) = L
    <3>1. Q' = Q
      BY <1>2, QueuesStay DEF TakeCredit, staged
    <3>. QED  BY <1>n, <3>1
  <2>4. \A u \in Threads : u # s => pc'[u] = pc[u] /\ job'[u] = job[u]
    BY <1>2, OthersRest DEF Sender
  <2>5. CASE ~MaySpend(n, i)
    <3>1. pc'[s] = "none" /\ credits' = credits
      BY <1>2, <1>t, <2>5 DEF TakeCredit, Goto
    <3>2. Staging(b)' = Staging(b)
      BY <2>1, <2>4, <3>1, StagingOf
    <3>. QED  BY <1>s, <2>2, <2>3, <3>1, <3>2, HasSame
  <2>6. CASE MaySpend(n, i)
    <3>1. /\ pc' = [pc EXCEPT ![s] = "stage"] /\ credits[n][i] \in Nat \ {0}
          /\ credits' = [credits EXCEPT ![n][i] = credits[n][i] - 1]
      BY <1>2, <1>t, <2>1, <2>6 DEF TakeCredit, MaySpend, Goto
    <3>2. CASE b = a
      <4>1. /\ IsFiniteSet(Purse(Has(b)')) /\ U = Cardinality(Purse(Has(b)')) + 1
        <5>. DEFINE g == Has(b)  h == Has(b)'
        <5>1. \A m \in Nodes : h[m] = IF proxies[m][b] = 0 THEN 0 ELSE credits'[m][proxies[m][b]]
          BY <2>2 DEF Has
        <5>2. \A m \in Nodes : g[m] = IF proxies[m][b] = 0 THEN 0 ELSE credits[m][proxies[m][b]]
          BY DEF Has
        <5>. HIDE DEF n, a, i
        <5>3. g[n] = credits[n][i] /\ h[n] = credits[n][i] - 1
          <6>1. i # 0
            BY <2>1 DEF Entries
          <6>2. credits'[n][i] = credits[n][i] - 1
            BY <1>t, <2>1, <3>1
          <6>. QED  BY <2>1, <3>2, <5>1, <5>2, <6>1, <6>2
        <5>4. \A m \in Nodes : m # n => h[m] = g[m]
          <6>1. \A m \in Nodes : m # n => credits'[m] = credits[m]
            BY <1>t, <3>1
          <6>. QED  BY <5>1, <5>2, <6>1
        <5>5. h \in [Nodes -> Nat]
          <6>1. \A m \in Nodes : h[m] \in Nat
            BY <1>h, <2>1, <3>1, <5>3, <5>4
          <6>2. h = [m \in Nodes |-> h[m]]
            BY DEF Has
          <6>. HIDE DEF h
          <6>. QED  BY <6>1, <6>2
        <5>6. IsFiniteSet(Purse(g)) /\ g \in [Nodes -> Nat] /\ g[n] = h[n] + 1
          BY <1>n, <1>h, <3>1, <5>3
        <5>. HIDE DEF g, h
        <5>7. IsFiniteSet(Purse(h)) /\ Cardinality(Purse(g)) = Cardinality(Purse(h)) + 1
          BY <2>1, <5>4, <5>5, <5>6, PurseShrinks
        <5>. QED  BY <5>7 DEF g, h
      <4>2. /\ IsFiniteSet(Staging(b)') /\ Cardinality(Staging(b)') = S + 1
        <5>1. s \notin Staging(b) /\ Staging(b)' = Staging(b) \cup {s}
          BY <1>t, <2>1, <2>2, <3>1, <3>2 DEF Staging
        <5>. QED  BY <1>n, <5>1, FS_AddElement
      <4>3. Cardinality(Purse(Has(b)')) \in Nat
        BY <4>1, FS_CardinalityType
      <4>. HIDE DEF U, S, L
      <4>4. held'[b] = Cardinality(Purse(Has(b)')) + Cardinality(Staging(b)') + Cardinality(Load(Q', FramesOf(b))) + lost'[b]
        BY <1>n, <2>2, <2>3, <4>1, <4>2, <4>3
      <4>. QED  BY <2>3, <4>1, <4>2, <4>4, KeptNext
    <3>3. CASE b # a
      <4>1. Staging(b)' = Staging(b)
        BY <1>t, <2>1, <2>2, <3>1, <3>3 DEF Staging
      <4>2. Has(b)' = Has(b)
        <5>. HIDE DEF n, a, i
        <5>1. proxies[n][b] # i
          BY <2>1, <3>3 DEF Met, FreshInv, Entries
        <5>2. ASSUME NEW m \in Nodes, proxies[m][b] # 0 PROVE credits'[m][proxies[m][b]] = credits[m][proxies[m][b]]
          <6>1. proxies[m][b] \in Entries
            BY <1>t, <5>2 DEF Entries
          <6>. QED  BY <1>t, <3>1, <5>1, <6>1
        <5>. QED  BY <2>2, <5>2 DEF Has
      <4>. QED  BY <1>s, <2>2, <2>3, <4>1, <4>2
    <3>. QED  BY <3>2, <3>3
  <2>. QED  BY <2>5, <2>6
<1>3. ASSUME NEW s \in Senders, Stage(s) PROVE Kept(b)'
  <2>. DEFINE a == job[s].at
  <2>0. PICK f : f = MsgFrame(a, Place[s], s, job[s].no)
    OBVIOUS
  <2>1. a \in Actors /\ f \in Frame /\ Adds(Q, Q', f) /\ f.actor = a /\ f.kind = "msg"
    BY <1>3, <2>0, StageAdds DEF MsgFrame
  <2>2. Worth(f) = 1
    BY <2>1, FrameIs
  <2>3. proxies' = proxies /\ credits' = credits /\ held' = held /\ lost' = lost /\ pc[s] = "stage" /\ pc'[s] = "flush"
    BY <1>3, <1>t DEF Stage, ThenFlush, Works, Goto, books, history
  <2>4. \A u \in Threads : u # s => pc'[u] = pc[u] /\ job'[u] = job[u]
    BY <1>3, OthersRest DEF Sender
  <2>5. Has(b)' = Has(b)
    BY <2>3, HasSame
  <2>. HIDE DEF a
  <2>6. /\ IsFiniteSet(Load(Q', FramesOf(b)))
        /\ Cardinality(Load(Q', FramesOf(b))) = L + IF a = b THEN 1 ELSE 0
    BY <1>n, <2>1, <2>2, LoadMoves
  <2>7. Staging(b)' = Staging(b) \ {s} /\ (s \in Staging(b) <=> a = b)
    <3>1. \A u \in Senders : u \in Staging(b)' <=> u \in Staging(b) /\ u # s
      BY <2>3, <2>4 DEF Staging
    <3>2. s \in Staging(b) <=> a = b
      BY <2>3 DEF Staging, a
    <3>. QED  BY <3>1, <3>2 DEF Staging
  <2>8. IsFiniteSet(Staging(b)') /\ Cardinality(Staging(b)') = S - IF a = b THEN 1 ELSE 0
    BY <1>n, <2>7, FS_RemoveElement
  <2>9. Cardinality(Staging(b)') \in Nat
    BY <2>8, FS_CardinalityType
  <2>. HIDE DEF U, S, L
  <2>10. held'[b] = U + Cardinality(Staging(b)') + Cardinality(Load(Q', FramesOf(b))) + lost'[b]
    BY <1>n, <2>3, <2>6, <2>8, <2>9
  <2>. QED  BY <1>n, <2>5, <2>6, <2>8, <2>10, KeptNext DEF U
\* A grant is held from when it is staged.
<1>g. ASSUME NEW a \in Actors, NEW n \in Nodes, NEW k \in Nat, Grant(a, n, k), wire' = wire, batch' = batch,
             proxies' = proxies, credits' = credits, lost' = lost, Staging(b)' = Staging(b)
      PROVE  Kept(b)'
  <2>0. PICK f : f = GrantFrame(a, n, k)
    OBVIOUS
  <2>1. f \in Frame /\ Adds(Q, Q', f) /\ f.actor = a /\ f.kind = "grant" /\ f.n = k
    BY <1>g, <2>0, GrantAdds DEF GrantFrame
  <2>2. Worth(f) = k
    BY <2>1, FrameIs
  <2>3. held' = [held EXCEPT ![a] = @ + k]
    BY <1>g DEF Grant
  <2>4. Has(b)' = Has(b)
    BY <1>g, HasSame
  <2>5. /\ IsFiniteSet(Load(Q', FramesOf(b)))
        /\ Cardinality(Load(Q', FramesOf(b))) = L + IF a = b THEN k ELSE 0
    BY <1>n, <2>1, <2>2, LoadMoves
  <2>. HIDE DEF U, S, L
  <2>6. held'[b] = U + S + Cardinality(Load(Q', FramesOf(b))) + lost'[b]
    <3>1. CASE a = b
      BY <1>n, <1>t, <1>g, <2>3, <2>5, <3>1
    <3>2. CASE a # b
      <4>1. held'[b] = held[b]
        BY <1>t, <2>3, <3>2
      <4>. QED  BY <1>n, <1>g, <2>5, <3>2, <4>1
    <3>. QED  BY <3>1, <3>2
  <2>. QED  BY <1>n, <1>g, <2>4, <2>5, <2>6, KeptNext DEF U, S
<1>4. ASSUME NEW t \in Receivers, OpenGrants(t) PROVE Kept(b)'
  <2>1. job[t].at \in Actors /\ job[t].from \in Nodes /\ job[t].n \in Nat
    BY <1>4 DEF OpenGrants, Flow, HandsOK, ReceiverHas
  <2>2. Staging(b)' = Staging(b)
    BY <1>4, OthersRest, StagingOf DEF Receiver
  <2>3. /\ Grant(job[t].at, job[t].from, job[t].n) /\ wire' = wire /\ batch' = batch
        /\ proxies' = proxies /\ credits' = credits /\ lost' = lost
    BY <1>4 DEF OpenGrants, history
  <2>. QED  BY <1>g, <2>1, <2>2, <2>3
<1>5. ASSUME NEW w \in Workers, NEW a \in Actors, Dequeue(w, a), Head(mailbox[a]) \in Nodes PROVE Kept(b)'
  <2>1. Staging(b)' = Staging(b)
    BY <1>5, OthersRest, StagingOf DEF Worker
  <2>2. /\ Grant(a, Head(mailbox[a]), 1) /\ wire' = wire /\ batch' = batch
        /\ proxies' = proxies /\ credits' = credits /\ lost' = lost
    BY <1>5 DEF Dequeue, CreditBack, history
  <2>. QED  BY <1>g, <1>5, <2>1, <2>2
\* What leaves the wire is worth no more than is held.
<1>w. ASSUME NEW m \in Nodes, NEW n \in Nodes, Leaves(m, n), NEW f, f = Head(wire[m][n])
      PROVE  /\ f \in Frame /\ MetFrame(f) /\ f.to = n
             /\ IsFiniteSet(Load(Q', FramesOf(b))) /\ Cardinality(Load(Q', FramesOf(b))) \in Nat
             /\ L = Cardinality(Load(Q', FramesOf(b))) + IF f.actor = b THEN Worth(f) ELSE 0
  <2>1. f \in Frame /\ MetFrame(f) /\ f.to = n /\ Adds(Q', Q, f)
    BY <1>w, HeadMet DEF Met
  <2>2. /\ IsFiniteSet(Load(Q', FramesOf(b)))
        /\ L = Cardinality(Load(Q', FramesOf(b))) + IF f.actor = b THEN Worth(f) ELSE 0
    BY <1>n, <2>1, LoadMoves
  <2>. QED  BY <2>1, <2>2, FS_CardinalityType
<1>6. ASSUME NEW t \in Receivers, NEW m \in Nodes, DeliverMsg(t, m) PROVE Kept(b)'
  <2>0. PICK f : f = Head(wire[m][Place[t]])
    OBVIOUS
  <2>1. Place[t] \in Nodes /\ Leaves(m, Place[t])
    BY <1>6, TakesLeaves
  <2>2. /\ f \in Frame /\ IsFiniteSet(Load(Q', FramesOf(b))) /\ Cardinality(Load(Q', FramesOf(b))) \in Nat
        /\ L = Cardinality(Load(Q', FramesOf(b))) + IF f.actor = b THEN Worth(f) ELSE 0
    BY <1>w, <2>0, <2>1
  <2>3. f.kind = "msg" /\ Received(f.actor) /\ proxies' = proxies /\ credits' = credits /\ lost' = lost
    BY <1>6, <2>0 DEF DeliverMsg, Heard, history
  <2>4. Worth(f) = 1
    BY <2>2, <2>3, FrameIs
  <2>5. Staging(b)' = Staging(b)
    BY <1>6, OthersRest, StagingOf DEF Receiver
  <2>6. Has(b)' = Has(b)
    BY <2>3, HasSame
  <2>. HIDE DEF U, S, L
  <2>7. held'[b] = U + S + Cardinality(Load(Q', FramesOf(b))) + lost'[b]
    <3>1. CASE f.actor = b
      BY <1>n, <1>t, <2>2, <2>3, <2>4, <3>1 DEF Received
    <3>2. CASE f.actor # b
      BY <1>n, <1>t, <2>2, <2>3, <3>2 DEF Received
    <3>. QED  BY <3>1, <3>2
  <2>. QED  BY <1>n, <2>2, <2>5, <2>6, <2>7, KeptNext DEF U, S
<1>7. ASSUME NEW t \in Receivers, NEW m \in Nodes, DeliverOpen(t, m) PROVE Kept(b)'
  <2>0. PICK f : f = Head(wire[m][Place[t]])
    OBVIOUS
  <2>1. Place[t] \in Nodes /\ Leaves(m, Place[t])
    BY <1>7, TakesLeaves
  <2>2. /\ f \in Frame /\ IsFiniteSet(Load(Q', FramesOf(b))) /\ Cardinality(Load(Q', FramesOf(b))) \in Nat
        /\ L = Cardinality(Load(Q', FramesOf(b))) + IF f.actor = b THEN Worth(f) ELSE 0
    BY <1>w, <2>0, <2>1
  <2>3. /\ f.kind = "open" /\ held' = held /\ proxies' = proxies /\ credits' = credits /\ lost' = lost
    BY <1>7, <2>0 DEF DeliverOpen, Heard, books, history
  <2>4. Worth(f) = 0
    BY <2>3 DEF Worth
  <2>5. Staging(b)' = Staging(b)
    BY <1>7, OthersRest, StagingOf DEF Receiver
  <2>6. Has(b)' = Has(b)
    BY <2>3, HasSame
  <2>. QED  BY <1>s, <2>2, <2>3, <2>4, <2>5, <2>6
<1>8. ASSUME NEW t \in Receivers, NEW m \in Nodes, DeliverGrant(t, m) PROVE Kept(b)'
  <2>0. PICK f, n, i : f = Head(wire[m][Place[t]]) /\ n = Place[t] /\ i = proxies[n][f.actor]
    OBVIOUS
  <2>1. n \in Nodes /\ Leaves(m, n)
    BY <1>8, <2>0, TakesLeaves
  <2>2. /\ f \in Frame /\ MetFrame(f) /\ f.to = n
        /\ IsFiniteSet(Load(Q', FramesOf(b))) /\ Cardinality(Load(Q', FramesOf(b))) \in Nat
        /\ L = Cardinality(Load(Q', FramesOf(b))) + IF f.actor = b THEN Worth(f) ELSE 0
    BY <1>w, <2>0, <2>1
  <2>3. f.kind = "grant" /\ held' = held /\ proxies' = proxies /\ lost' = lost
    BY ZenonT(30), <1>8, <2>0 DEF DeliverGrant, Heard, history
  <2>4. f.actor \in Actors /\ f.n \in Nat /\ Worth(f) = f.n
    BY <2>2, <2>3, FrameIs
  <2>5. i # 0 /\ i \in Entries
    <3>1. i # 0
      BY <2>0, <2>2, <2>3 DEF MetFrame
    <3>2. i \in 0..MaxEntries
      BY <1>t, <2>0, <2>1, <2>4
    <3>. QED  BY <3>1, <3>2 DEF Entries
  <2>6. credits' = [credits EXCEPT ![n][i] = credits[n][i] + f.n]
    BY ZenonT(30), <1>8, <2>0, <2>5 DEF DeliverGrant, Heard
  <2>7. Staging(b)' = Staging(b)
    BY <1>8, OthersRest, StagingOf DEF Receiver
  <2>8. CASE f.actor = b
    <3>1. IsFiniteSet(Purse(Has(b)')) /\ Cardinality(Purse(Has(b)')) = U + f.n
      <4>. DEFINE g == Has(b)  h == Has(b)'
      <4>1. \A v \in Nodes : h[v] = IF proxies[v][b] = 0 THEN 0 ELSE credits'[v][proxies[v][b]]
        BY <2>3 DEF Has
      <4>2. \A v \in Nodes : g[v] = IF proxies[v][b] = 0 THEN 0 ELSE credits[v][proxies[v][b]]
        BY DEF Has
      <4>3. h[n] = g[n] + f.n
        <5>1. credits'[n][i] = credits[n][i] + f.n
          BY <1>t, <2>1, <2>5, <2>6
        <5>. QED  BY ZenonT(30), <2>0, <2>1, <2>5, <2>8, <4>1, <4>2, <5>1
      <4>4. \A v \in Nodes : v # n => h[v] = g[v]
        <5>1. \A v \in Nodes : v # n => credits'[v] = credits[v]
          BY <1>t, <2>6
        <5>. QED  BY <4>1, <4>2, <5>1
      <4>5. h \in [Nodes -> Nat]
        <5>1. \A v \in Nodes : h[v] \in Nat
          BY <1>h, <2>1, <2>4, <4>3, <4>4
        <5>2. h = [v \in Nodes |-> h[v]]
          BY DEF Has
        <5>. HIDE DEF h
        <5>. QED  BY <5>1, <5>2
      <4>6. IsFiniteSet(Purse(g)) /\ g \in [Nodes -> Nat] /\ U = Cardinality(Purse(g))
        BY <1>n, <1>h
      <4>. HIDE DEF g, h, U
      <4>7. IsFiniteSet(Purse(h)) /\ Cardinality(Purse(h)) = Cardinality(Purse(g)) + f.n
        BY <2>1, <2>4, <4>3, <4>4, <4>5, <4>6, PurseGrows
      <4>. QED  BY <4>6, <4>7 DEF g, h
    <3>. HIDE DEF U, S, L
    <3>2. held'[b] = Cardinality(Purse(Has(b)')) + S + Cardinality(Load(Q', FramesOf(b))) + lost'[b]
      BY <1>n, <2>2, <2>3, <2>4, <2>8, <3>1
    <3>. QED  BY <1>n, <2>2, <2>7, <3>1, <3>2, KeptNext DEF S
  <2>9. CASE f.actor # b
    <3>1. Has(b)' = Has(b)
      <4>1. proxies[n][b] # i
        BY <2>0, <2>1, <2>4, <2>5, <2>9 DEF Met, FreshInv
      <4>2. ASSUME NEW v \in Nodes, proxies[v][b] # 0 PROVE credits'[v][proxies[v][b]] = credits[v][proxies[v][b]]
        <5>1. proxies[v][b] \in Entries
          BY <1>t, <4>2 DEF Entries
        <5>. QED  BY <1>t, <2>6, <4>1, <5>1
      <4>. QED  BY <2>3, <4>2 DEF Has
    <3>. QED  BY <1>s, <1>n, <2>2, <2>3, <2>7, <2>9, <3>1
  <2>. QED  BY <2>8, <2>9
<1>9. ASSUME NEW m \in Nodes, NEW n \in Nodes, Lose(m, n) PROVE Kept(b)'
  <2>0. PICK f : f = Head(wire[m][n])
    OBVIOUS
  <2>1. Leaves(m, n)
    BY <1>9 DEF Lose, Leaves, staged, thread
  <2>2. /\ f \in Frame /\ IsFiniteSet(Load(Q', FramesOf(b))) /\ Cardinality(Load(Q', FramesOf(b))) \in Nat
        /\ L = Cardinality(Load(Q', FramesOf(b))) + IF f.actor = b THEN Worth(f) ELSE 0
    BY <1>w, <2>0, <2>1
  <2>3. /\ lost' = [lost EXCEPT ![f.actor] = @ + Worth(f)] /\ held' = held /\ proxies' = proxies /\ credits' = credits
        /\ pc' = pc /\ job' = job
    BY <1>9, <2>0 DEF Lose, books, thread
  <2>4. f.actor \in Actors /\ Worth(f) \in Nat
    BY <2>2, FrameIs
  <2>5. Staging(b)' = Staging(b) /\ Has(b)' = Has(b)
    BY <2>3, HasSame DEF Staging
  <2>. HIDE DEF U, S, L
  <2>6. held'[b] = U + S + Cardinality(Load(Q', FramesOf(b))) + lost'[b]
    <3>1. CASE f.actor = b
      BY <1>n, <1>t, <2>2, <2>3, <2>4, <3>1
    <3>2. CASE f.actor # b
      BY <1>n, <1>t, <2>2, <2>3, <2>4, <3>2
    <3>. QED  BY <3>1, <3>2
  <2>. QED  BY <1>n, <2>2, <2>5, <2>6, KeptNext DEF U, S
<1>10. ASSUME ~Registers, ~Grants, ~Receives, ~\E s \in Senders : TakeCredit(s) \/ Stage(s) PROVE Kept(b)'
  <2>1. Moves(Q, Q')
    BY <1>10, OthersMove
  <2>2. UNCHANGED <<proxies, credits, held, lost>>
    BY <1>10, BooksSame
  <2>3. Staging(b)' = Staging(b)
    BY <1>10, StagingSame
  <2>4. Has(b)' = Has(b)
    BY <2>2, HasSame
  <2>5. IsFiniteSet(Load(Q', FramesOf(b))) /\ Cardinality(Load(Q', FramesOf(b))) = L
    BY <1>n, <2>1, LoadMoves
  <2>. QED  BY <1>s, <2>2, <2>3, <2>4, <2>5
<1>. QED  BY <1>1, <1>2, <1>3, <1>4, <1>5, <1>6, <1>7, <1>8, <1>9, <1>10 DEF Registers, Grants, Receives

LEMMA InitKept == Init => \A a \in Actors : Kept(a)
<1>. SUFFICES ASSUME Init, NEW a \in Actors PROVE Kept(a)
  OBVIOUS
<1>1. Purse(Has(a)) = {}
  <2>1. \A n \in Nodes : Has(a)[n] = 0
    BY DEF Has, Init
  <2>. QED  BY <2>1 DEF Purse
<1>2. Staging(a) = {}
  BY ConstantsAssumption DEF Init, Staging, Threads
<1>3. Load(Q, FramesOf(a)) = {}
  BY EmptyAtFirst DEF Load
<1>4. held[a] = 0 /\ lost[a] = 0
  BY DEF Init
<1>. QED  BY <1>1, <1>2, <1>3, <1>4, FS_EmptySet DEF Kept, Finite, Spread

(***************************************************************************)
(* The books of two nodes and the wire between them agree, whatever        *)
(* happens between a credit's grant and its return (grant, take_credit,    *)
(* received, credited).                                                    *)
(***************************************************************************)
THEOREM CreditsBalance == Spec => []CreditsAreKept
<1>1. Init => Met /\ \A a \in Actors : Kept(a)
  BY InitMet, InitKept
<1>2. Shape /\ Flow /\ Met /\ (\A a \in Actors : Kept(a)) /\ [Next]_vars => Met' /\ (\A a \in Actors : Kept(a))'
  BY MetStep, CreditsStep
<1>3. (\A a \in Actors : Kept(a)) => CreditsAreKept
  BY KeptIs DEF CreditsAreKept
<1>. QED  BY <1>1, <1>2, <1>3, ShapeIsKept, FlowIsKept, PTL DEF Spec

(***************************************************************************)
(* Counting frames and messages of a kind.                                 *)
(***************************************************************************)
\* Matching members one by one matches what is counted.
LEMMA Matched ==
    ASSUME NEW X, NEW Y, NEW g \in Bijection(X, Y), NEW P \in SUBSET X, NEW R \in SUBSET Y,
           \A x \in X : x \in P <=> g[x] \in R
    PROVE  ExistsBijection(P, R)
<1>. DEFINE h == [x \in P |-> g[x]]
<1>1. /\ \A x \in X : g[x] \in Y
      /\ \A x, y \in X : g[x] = g[y] => x = y
      /\ \A y \in Y : \E x \in X : g[x] = y
  BY Fun_BijectionProperties
<1>2. h \in [P -> R]
  BY <1>1
<1>3. \A x, y \in P : h[x] = h[y] => x = y
  BY <1>1
<1>4. \A y \in R : \E x \in P : h[x] = y
  BY <1>1
<1>. HIDE DEF h
<1>. QED  BY <1>2, <1>3, <1>4, Fun_IsBij, Fun_ExistsBij

\* The frames of a kind that are under way.
Holding(q, F) == {x \in SlotsIn(q) : At(q, x) \in F}
LEMMA HoldingMoves ==
    ASSUME NEW q, NEW r, NEW F, IsFiniteSet(Holding(q, F))
    PROVE  /\ Moves(q, r) => IsFiniteSet(Holding(r, F)) /\ Cardinality(Holding(r, F)) = Cardinality(Holding(q, F))
           /\ \A f : Adds(q, r, f) =>
                /\ IsFiniteSet(Holding(r, F))
                /\ Cardinality(Holding(r, F)) = Cardinality(Holding(q, F)) + IF f \in F THEN 1 ELSE 0
           /\ \A f : Adds(r, q, f) =>
                /\ IsFiniteSet(Holding(r, F))
                /\ Cardinality(Holding(q, F)) = Cardinality(Holding(r, F)) + IF f \in F THEN 1 ELSE 0
<1>0. Cardinality(Holding(q, F)) \in Nat
  BY FS_CardinalityType
<1>1. ASSUME Moves(q, r)
      PROVE  IsFiniteSet(Holding(r, F)) /\ Cardinality(Holding(r, F)) = Cardinality(Holding(q, F))
  <2>1. PICK g \in Bijection(SlotsIn(q), SlotsIn(r)) : \A x \in SlotsIn(q) : At(r, g[x]) = At(q, x)
    BY <1>1 DEF Moves
  <2>2. \A x \in SlotsIn(q) : g[x] \in SlotsIn(r)
    BY Fun_BijectionProperties
  <2>3. \A x \in SlotsIn(q) : x \in Holding(q, F) <=> g[x] \in Holding(r, F)
    BY <2>1, <2>2 DEF Holding
  <2>4. Holding(q, F) \in SUBSET SlotsIn(q) /\ Holding(r, F) \in SUBSET SlotsIn(r)
    BY DEF Holding
  <2>5. ExistsBijection(Holding(q, F), Holding(r, F))
    BY <2>3, <2>4, Matched
  <2>. QED  BY <2>5, FS_Bijection
\* All but the slot of the frame that one has and the other has not.
<1>2. ASSUME NEW u, NEW v, NEW f, Adds(u, v, f)
      PROVE  \E z \in SlotsIn(v) : At(v, z) = f /\ ExistsBijection(Holding(u, F), Holding(v, F) \ {z})
  <2>1. PICK z \in SlotsIn(v) :
            /\ At(v, z) = f
            /\ \E g \in Bijection(SlotsIn(u), SlotsIn(v) \ {z}) : \A x \in SlotsIn(u) : At(v, g[x]) = At(u, x)
    BY <1>2 DEF Adds
  <2>2. PICK g \in Bijection(SlotsIn(u), SlotsIn(v) \ {z}) : \A x \in SlotsIn(u) : At(v, g[x]) = At(u, x)
    BY <2>1
  <2>3. \A x \in SlotsIn(u) : g[x] \in SlotsIn(v) \ {z}
    BY Fun_BijectionProperties
  <2>4. \A x \in SlotsIn(u) : x \in Holding(u, F) <=> g[x] \in Holding(v, F) \ {z}
    BY <2>2, <2>3 DEF Holding
  <2>5. Holding(u, F) \in SUBSET SlotsIn(u) /\ Holding(v, F) \ {z} \in SUBSET (SlotsIn(v) \ {z})
    BY DEF Holding
  <2>6. ExistsBijection(Holding(u, F), Holding(v, F) \ {z})
    BY <2>4, <2>5, Matched
  <2>. QED  BY <2>1, <2>6
<1>3. ASSUME NEW f, Adds(q, r, f)
      PROVE  /\ IsFiniteSet(Holding(r, F))
             /\ Cardinality(Holding(r, F)) = Cardinality(Holding(q, F)) + IF f \in F THEN 1 ELSE 0
  <2>. DEFINE H == Holding(r, F)
  <2>1. PICK z \in SlotsIn(r) : At(r, z) = f /\ ExistsBijection(Holding(q, F), H \ {z})
    BY <1>2, <1>3
  <2>2. z \in H <=> f \in F
    BY <2>1 DEF Holding
  <2>. HIDE DEF H
  <2>3. IsFiniteSet(H \ {z}) /\ Cardinality(H \ {z}) = Cardinality(Holding(q, F))
    BY <2>1, FS_Bijection
  <2>4. CASE f \in F
    <3>1. H = (H \ {z}) \cup {z}
      BY <2>2, <2>4
    <3>2. IsFiniteSet(H) /\ Cardinality(H) = Cardinality(H \ {z}) + 1
      BY <2>3, <3>1, FS_AddElement
    <3>. QED  BY <2>3, <2>4, <3>2 DEF H
  <2>5. CASE f \notin F
    <3>1. H = H \ {z}
      BY <2>2, <2>5
    <3>. QED  BY <1>0, <2>3, <2>5, <3>1 DEF H
  <2>. QED  BY <2>4, <2>5
<1>4. ASSUME NEW f, Adds(r, q, f)
      PROVE  /\ IsFiniteSet(Holding(r, F))
             /\ Cardinality(Holding(q, F)) = Cardinality(Holding(r, F)) + IF f \in F THEN 1 ELSE 0
  <2>. DEFINE H == Holding(q, F)
  <2>1. PICK z \in SlotsIn(q) : At(q, z) = f /\ ExistsBijection(Holding(r, F), H \ {z})
    BY <1>2, <1>4
  <2>2. z \in H <=> f \in F
    BY <2>1 DEF Holding
  <2>. HIDE DEF H
  <2>3. IsFiniteSet(H) /\ Cardinality(H) \in Nat
    BY <1>0 DEF H
  <2>4. IsFiniteSet(H \ {z}) /\ Cardinality(H) = Cardinality(H \ {z}) + IF f \in F THEN 1 ELSE 0
    <3>1. IsFiniteSet(H \ {z}) /\ Cardinality(H \ {z}) = IF z \in H THEN Cardinality(H) - 1 ELSE Cardinality(H)
      BY <2>3, FS_RemoveElement
    <3>. QED  BY <2>2, <2>3, <3>1
  <2>5. ExistsBijection(H \ {z}, Holding(r, F))
    BY <2>1, Fun_ExistsBijSymmetric
  <2>6. IsFiniteSet(Holding(r, F)) /\ Cardinality(Holding(r, F)) = Cardinality(H \ {z})
    BY <2>4, <2>5, FS_Bijection
  <2>. QED  BY <2>4, <2>6 DEF H
<1>. QED  BY <1>1, <1>3, <1>4

\* The messages of some kind in a mailbox.
Marks(q, S) == {k \in 1..Len(q) : q[k] \in S}
LEMMA MarksAre ==
    ASSUME NEW T, NEW q \in Seq(T), NEW S
    PROVE  IsFiniteSet(Marks(q, S)) /\ Cardinality(Marks(q, S)) \in Nat /\ Cardinality(Marks(q, S)) <= Len(q)
<1>0. Len(q) \in Nat
  OBVIOUS
<1>1. IsFiniteSet(1..Len(q)) /\ Cardinality(1..Len(q)) = Len(q)
  <2>. DEFINE n == Len(q)
  <2>1. n \in Nat
    BY <1>0
  <2>. HIDE DEF n
  <2>2. IsFiniteSet(1..n) /\ Cardinality(1..n) = n
    BY <2>1, FS_Interval
  <2>. QED  BY <2>2 DEF n
<1>2. Marks(q, S) \in SUBSET (1..Len(q))
  BY DEF Marks
<1>. QED  BY <1>0, <1>1, <1>2, FS_Subset, FS_CardinalityType
LEMMA MarksAppended ==
    ASSUME NEW T, NEW q \in Seq(T), NEW x \in T, NEW S
    PROVE  Cardinality(Marks(Append(q, x), S)) = Cardinality(Marks(q, S)) + IF x \in S THEN 1 ELSE 0
<1>1. IsFiniteSet(Marks(q, S)) /\ Cardinality(Marks(q, S)) \in Nat
  BY MarksAre
<1>2. Len(q) + 1 \notin Marks(q, S)
  BY DEF Marks
<1>3. Len(Append(q, x)) = Len(q) + 1 /\ \A k \in 1..Len(q) + 1 : Append(q, x)[k] = IF k = Len(q) + 1 THEN x ELSE q[k]
  OBVIOUS
<1>4. CASE x \in S
  <2>1. Marks(Append(q, x), S) = Marks(q, S) \cup {Len(q) + 1}
    BY <1>3, <1>4 DEF Marks
  <2>. QED  BY <1>1, <1>2, <1>4, <2>1, FS_AddElement
<1>5. CASE x \notin S
  <2>1. Marks(Append(q, x), S) = Marks(q, S)
    BY <1>3, <1>5 DEF Marks
  <2>. QED  BY <1>1, <1>5, <2>1
<1>. QED  BY <1>4, <1>5
LEMMA MarksTail ==
    ASSUME NEW T, NEW q \in Seq(T), q # <<>>, NEW S
    PROVE  Cardinality(Marks(q, S)) = Cardinality(Marks(Tail(q), S)) + IF Head(q) \in S THEN 1 ELSE 0
<1>. DEFINE M == Marks(q, S)
            R == Marks(Tail(q), S)
            g == [k \in R |-> k + 1]
<1>1. Len(q) \in Nat \ {0} /\ Tail(q) \in Seq(T) /\ Len(Tail(q)) = Len(q) - 1 /\ Head(q) = q[1]
      /\ \A k \in 1..Len(q) - 1 : Tail(q)[k] = q[k + 1]
  OBVIOUS
<1>2. IsFiniteSet(M) /\ Cardinality(M) \in Nat /\ IsFiniteSet(R) /\ Cardinality(R) \in Nat
  BY <1>1, MarksAre
<1>3. \A k : k \in R <=> k \in 1..Len(q) - 1 /\ q[k + 1] \in S
  BY <1>1 DEF Marks
<1>4. \A k : k \in M <=> k \in 1..Len(q) /\ q[k] \in S
  BY DEF Marks
<1>. HIDE DEF M, R
<1>5. ExistsBijection(R, M \ {1})
  <2>1. g \in [R -> M \ {1}]
    BY <1>1, <1>3, <1>4
  <2>2. \A j, k \in R : g[j] = g[k] => j = k
    BY <1>1, <1>3
  <2>3. \A y \in M \ {1} : \E k \in R : g[k] = y
    <3>. TAKE y \in M \ {1}
    <3>1. y - 1 \in R /\ (y - 1) + 1 = y
      BY <1>1, <1>3, <1>4
    <3>. QED  BY <3>1
  <2>. HIDE DEF g
  <2>. QED  BY <2>1, <2>2, <2>3, Fun_IsBij, Fun_ExistsBij
<1>6. Cardinality(M \ {1}) = Cardinality(R)
  BY <1>2, <1>5, FS_Bijection
<1>7. 1 \in M <=> Head(q) \in S
  BY <1>1, <1>4
<1>8. Cardinality(M \ {1}) = IF 1 \in M THEN Cardinality(M) - 1 ELSE Cardinality(M)
  BY <1>2, FS_RemoveElement
<1>. QED  BY <1>2, <1>6, <1>7, <1>8 DEF M, R

(***************************************************************************)
(* What a receiver has in hand changes by its own steps only.              *)
(***************************************************************************)
HandLabels == {"queue", "room", "grant"}
Acts(t) ==
    \/ \E m \in Nodes : DeliverMsg(t, m) \/ DeliverOpen(t, m)
    \/ EnqueueRemote(t) \/ OpenRoom(t) \/ OpenGrants(t)
HandRests(t) ==
    \/ pc'[t] = pc[t] /\ job'[t] = job[t]
    \/ pc[t] \notin HandLabels /\ pc'[t] \notin HandLabels
LEMMA HandsRest ==
    ASSUME Shape, [Next]_vars, NEW t \in Receivers, ~Acts(t)
    PROVE  HandRests(t)
<1>. USE ConstantsAssumption DEF Threads
<1>t. pc \in [Threads -> Labels] /\ DOMAIN job = Threads /\ t \in Threads
  BY DEF Shape, TablesOK, ThreadsOK
<1>1. CASE \/ \E s \in Senders : Sender(s)
           \/ \E w \in Workers : Worker(w)
           \/ \E u \in Receivers : u # t /\ Receiver(u)
  <2>1. pc'[t] = pc[t] /\ job'[t] = job[t]
    BY <1>1, <1>t, OthersRest
  <2>. QED  BY <2>1 DEF HandRests
<1>2. CASE Receiver(t)
  <2>1. PICK m \in Nodes : DeliverGrant(t, m)
    BY <1>2 DEF Receiver, Acts
  <2>. QED  BY <2>1 DEF DeliverGrant, HandRests
<1>3. CASE \E u \in Threads : Flush(u)
  BY <1>t, <1>3 DEF Flush, TakeOutbox, WireOut, Goto, HandRests, HandLabels
<1>4. CASE \/ \E a \in Actors : LocalSend(a) \/ Die(a)
           \/ \E m, n \in Nodes : Lose(m, n)
           \/ UNCHANGED vars
  <2>1. pc' = pc /\ job' = job
    BY <1>4 DEF LocalSend, Die, Lose, vars, thread
  <2>. QED  BY <2>1 DEF HandRests
<1>. QED  BY <1>1, <1>2, <1>3, <1>4 DEF Next
LEMMA OtherHandsRest ==
    ASSUME Shape, NEW t \in Receivers, Acts(t)
    PROVE  \A u \in Receivers : u # t => pc'[u] = pc[u] /\ job'[u] = job[u]
  BY OthersRest DEF Acts, Receiver, Threads

\* The rest of a step in which no receiver acts: a mailbox and what is held of it.
BoxStep(a) ==
    \/ mailbox'[a] = mailbox[a] /\ held'[a] = held[a]
    \/ /\ mailbox[a] # <<>> /\ mailbox'[a] = Tail(mailbox[a])
       /\ held'[a] = held[a] + IF Head(mailbox[a]) \in Nodes THEN 1 ELSE 0
    \/ mailbox'[a] = Append(mailbox[a], Local) /\ held'[a] = held[a]
    \/ mailbox'[a] = <<>> /\ held'[a] = held[a]
LEMMA BoxesRest ==
    ASSUME Flow, [Next]_vars, \A t \in Receivers : ~Acts(t), NEW a \in Actors
    PROVE  BoxStep(a)
<1>t. mailbox \in [Actors -> Seq(Nodes \cup {Local})] /\ held \in [Actors -> Nat]
  BY DEF Flow, BoxesOK, CountsOK
<1>q. ASSUME mailbox' = mailbox, held' = held PROVE BoxStep(a)
  BY <1>q DEF BoxStep
<1>1. ASSUME NEW w \in Workers, NEW b \in Actors, Dequeue(w, b) PROVE BoxStep(a)
  <2>1. /\ mailbox[b] # <<>> /\ mailbox' = [mailbox EXCEPT ![b] = Tail(mailbox[b])]
        /\ held' = IF Head(mailbox[b]) \in Nodes THEN [held EXCEPT ![b] = held[b] + 1] ELSE held
    BY <1>1 DEF Dequeue, CreditBack, Grant
  <2>2. CASE b = a
    BY <1>t, <2>1, <2>2 DEF BoxStep
  <2>3. CASE b # a
    <3>1. mailbox'[a] = mailbox[a] /\ held'[a] = held[a]
      BY <1>t, <2>1, <2>3
    <3>. QED  BY <3>1 DEF BoxStep
  <2>. QED  BY <2>2, <2>3
<1>2. ASSUME NEW b \in Actors, LocalSend(b) PROVE BoxStep(a)
  <2>1. mailbox' = [mailbox EXCEPT ![b] = Append(@, Local)] /\ held' = held
    BY <1>2 DEF LocalSend, books
  <2>. QED  BY <1>t, <2>1 DEF BoxStep
<1>3. ASSUME NEW b \in Actors, Die(b) PROVE BoxStep(a)
  <2>1. mailbox' = [mailbox EXCEPT ![b] = <<>>] /\ held' = held
    BY <1>3 DEF Die, books
  <2>2. CASE b = a
    BY <1>t, <2>1, <2>2 DEF BoxStep
  <2>3. CASE b # a
    <3>1. mailbox'[a] = mailbox[a] /\ held'[a] = held[a]
      BY <1>t, <2>1, <2>3
    <3>. QED  BY <3>1 DEF BoxStep
  <2>. QED  BY <2>2, <2>3
<1>4. ASSUME NEW s \in Senders, Sender(s) PROVE BoxStep(a)
  <2>1. mailbox' = mailbox /\ held' = held
    BY ZenonT(30), <1>4 DEF Sender, ImportFinds, Send, ImportMakes, ImportRegisters, ImportMarks, SendAgain, TakeCredit,
       LooksBefore, LooksAfter, LooksIfDead, ParkEnds, Stage, boxes, books
  <2>. QED  BY <1>q, <2>1
<1>5. ASSUME NEW t \in Receivers, Receiver(t) PROVE BoxStep(a)
  <2>1. PICK m \in Nodes : DeliverGrant(t, m)
    BY <1>5 DEF Receiver, Acts
  <2>2. mailbox' = mailbox /\ held' = held
    BY ZenonT(30), <2>1 DEF DeliverGrant, boxes
  <2>. QED  BY <1>q, <2>2
<1>6. ASSUME NEW w \in Workers, Worker(w), ~\E b \in Actors : Dequeue(w, b) PROVE BoxStep(a)
  <2>1. mailbox' = mailbox /\ held' = held
    BY ZenonT(30), <1>6 DEF Worker, AddRoute, NodeLeft, SetOutbound, KillNext, boxes, books
  <2>. QED  BY <1>q, <2>1
<1>7. ASSUME \/ \E t \in Threads : Flush(t)
             \/ \E m, n \in Nodes : Lose(m, n)
             \/ UNCHANGED vars
      PROVE  BoxStep(a)
  <2>1. mailbox' = mailbox /\ held' = held
    BY ZenonT(30), <1>7 DEF Flush, TakeOutbox, WireOut, Lose, vars, boxes, books
  <2>. QED  BY <1>q, <2>1
<1>. QED  BY <1>1, <1>2, <1>3, <1>4, <1>5, <1>6, <1>7 DEF Next

(***************************************************************************)
(* The capacity of a mailbox.                                              *)
(***************************************************************************)
OpensOf(a)    == {f \in Frame : f.kind = "open" /\ f.actor = a}
Asking(a)     == Holding(Q, OpensOf(a))
Opening(a)    == {t \in Receivers : pc[t] \in {"room", "grant"} /\ job[t].at = a}
Claims(a)     == Cardinality(Asking(a)) + Cardinality(Opening(a))
Taken(a)      == Cardinality(FromNodes(a)) + Cardinality(InHand(a)) + held[a]
TakenOf       == [a \in Actors |-> Taken(a)]

\* Every node that has a proxy has at most one request for its first credits on the way;
\* one credit is set aside for each.
RoomOK(a) ==
    /\ IsFiniteSet(Proxied(a)) /\ IsFiniteSet(Asking(a))
    /\ Claims(a) <= Cardinality(Proxied(a))
    /\ Proxied(a) = {} => Taken(a) = 0
    /\ Proxied(a) # {} => Taken(a) + Claims(a) <= Bound[a] + Cardinality(Proxied(a)) - 1
\* Between its look at the mailbox and its grant, only a receiver's own steps take room.
GrantOK(t) ==
    /\ pc[t] = "queue" => Home[job[t].at] = Place[t]
    /\ pc[t] = "room"  => TakenOf[job[t].at] <= job[t].queued + held[job[t].at]
    /\ pc[t] = "grant" => job[t].n = 1 \/ TakenOf[job[t].at] + job[t].n <= Bound[job[t].at]
RoomInv ==
    /\ \A a \in Actors : RoomOK(a)
    /\ \A t \in Receivers : GrantOK(t)

\* An actor's node has one receiver, so one has something of an actor in hand.
LEMMA OneHand ==
    ASSUME Shape, \A t \in Receivers : GrantOK(t), NEW a \in Actors
    PROVE  /\ IsFiniteSet(InHand(a)) /\ Cardinality(InHand(a)) \in Nat
           /\ IsFiniteSet(Opening(a)) /\ Cardinality(Opening(a)) \in Nat
           /\ \A t \in InHand(a) : InHand(a) = {t} /\ Opening(a) = {}
           /\ \A t \in Opening(a) : Opening(a) = {t} /\ InHand(a) = {}
<1>1. \A t \in InHand(a) \cup Opening(a) : t \in Receivers /\ Place[t] = Home[a]
  BY DEF InHand, Opening, GrantOK, Shape, JobsOK, ReceiverOK
<1>2. \A t, u \in InHand(a) \cup Opening(a) : t = u
  BY <1>1, OneReceiver
<1>3. InHand(a) \cap Opening(a) = {}
  BY DEF InHand, Opening
<1>4. \A t \in InHand(a) : InHand(a) = {t} /\ Opening(a) = {}
  BY <1>2, <1>3
<1>5. \A t \in Opening(a) : Opening(a) = {t} /\ InHand(a) = {}
  BY <1>2, <1>3
<1>6. IsFiniteSet(InHand(a))
  <2>1. CASE InHand(a) = {}
    BY <2>1, FS_EmptySet
  <2>2. CASE \E t : t \in InHand(a)
    <3>1. PICK t : InHand(a) = {t}
      BY <1>4, <2>2
    <3>. QED  BY <3>1, FS_Singleton
  <2>. QED  BY <2>1, <2>2
<1>7. IsFiniteSet(Opening(a))
  <2>1. CASE Opening(a) = {}
    BY <2>1, FS_EmptySet
  <2>2. CASE \E t : t \in Opening(a)
    <3>1. PICK t : Opening(a) = {t}
      BY <1>5, <2>2
    <3>. QED  BY <3>1, FS_Singleton
  <2>. QED  BY <2>1, <2>2
<1>. QED  BY <1>4, <1>5, <1>6, <1>7, FS_CardinalityType

LEMMA FromNodesIs ==
    ASSUME Flow, NEW a \in Actors
    PROVE  /\ FromNodes(a) = Marks(mailbox[a], Nodes) /\ mailbox[a] \in Seq(Nodes \cup {Local})
           /\ Cardinality(FromNodes(a)) \in Nat /\ held[a] \in Nat /\ Cardinality(FromNodes(a)) <= Len(mailbox[a])
<1>1. mailbox[a] \in Seq(Nodes \cup {Local}) /\ held[a] \in Nat
  BY DEF Flow, BoxesOK, CountsOK
<1>2. FromNodes(a) = Marks(mailbox[a], Nodes)
  BY DEF FromNodes, Marks
<1>. QED  BY <1>1, <1>2, MarksAre

\* When no receiver acts, no room is taken.
LEMMA TakenRests ==
    ASSUME Shape, Flow, Flow', [Next]_vars, RoomInv, \A t \in Receivers : ~Acts(t), NEW a \in Actors
    PROVE  /\ Taken(a)' <= Taken(a) /\ held'[a] >= held[a] /\ Taken(a) \in Nat /\ Taken(a)' \in Nat
           /\ InHand(a)' = InHand(a) /\ Opening(a)' = Opening(a)
<1>1. \A t \in Receivers : HandRests(t)
  BY HandsRest
<1>2. InHand(a)' = InHand(a)
  <2>1. \A t \in Receivers : pc'[t] = "queue" /\ job'[t].at = a <=> pc[t] = "queue" /\ job[t].at = a
    BY <1>1 DEF HandRests, HandLabels
  <2>. QED  BY <2>1 DEF InHand
<1>3. Opening(a)' = Opening(a)
  <2>1. \A t \in Receivers : pc'[t] \in {"room", "grant"} /\ job'[t].at = a <=> pc[t] \in {"room", "grant"} /\ job[t].at = a
    BY <1>1 DEF HandRests, HandLabels
  <2>. QED  BY <2>1 DEF Opening
<1>4. FromNodes(a)' = Marks(mailbox'[a], Nodes) /\ Cardinality(FromNodes(a)') \in Nat /\ held'[a] \in Nat
  <2>1. mailbox'[a] \in Seq(Nodes \cup {Local}) /\ held'[a] \in Nat
    BY DEF Flow, BoxesOK, CountsOK
  <2>2. FromNodes(a)' = Marks(mailbox'[a], Nodes)
    BY DEF FromNodes, Marks
  <2>. QED  BY <2>1, <2>2, MarksAre
<1>5. /\ FromNodes(a) = Marks(mailbox[a], Nodes) /\ mailbox[a] \in Seq(Nodes \cup {Local})
      /\ Cardinality(FromNodes(a)) \in Nat /\ held[a] \in Nat
  BY FromNodesIs
<1>6. Cardinality(InHand(a)) \in Nat
  BY OneHand DEF RoomInv
<1>7. Cardinality(FromNodes(a)') + held'[a] <= Cardinality(FromNodes(a)) + held[a] /\ held'[a] >= held[a]
  <2>1. CASE mailbox'[a] = mailbox[a] /\ held'[a] = held[a]
    BY <1>4, <1>5, <2>1
  <2>2. CASE /\ mailbox[a] # <<>> /\ mailbox'[a] = Tail(mailbox[a])
             /\ held'[a] = held[a] + IF Head(mailbox[a]) \in Nodes THEN 1 ELSE 0
    <3>1. Cardinality(Marks(mailbox[a], Nodes))
            = Cardinality(Marks(Tail(mailbox[a]), Nodes)) + IF Head(mailbox[a]) \in Nodes THEN 1 ELSE 0
      BY <1>5, <2>2, MarksTail
    <3>. QED  BY <1>4, <1>5, <2>2, <3>1
  <2>3. CASE mailbox'[a] = Append(mailbox[a], Local) /\ held'[a] = held[a]
    <3>1. Cardinality(Marks(Append(mailbox[a], Local), Nodes)) = Cardinality(Marks(mailbox[a], Nodes))
      BY <1>5, MarksAppended, ConstantsAssumption
    <3>. QED  BY <1>4, <1>5, <2>3, <3>1
  <2>4. CASE mailbox'[a] = <<>> /\ held'[a] = held[a]
    <3>1. Marks(<<>>, Nodes) = {}
      BY DEF Marks
    <3>2. Cardinality(FromNodes(a)') = 0
      BY <1>4, <2>4, <3>1, FS_EmptySet
    <3>. QED  BY <1>4, <1>5, <2>4, <3>2
  <2>. QED  BY <2>1, <2>2, <2>3, <2>4, BoxesRest DEF BoxStep
<1>. QED  BY <1>2, <1>3, <1>4, <1>5, <1>6, <1>7 DEF Taken

\* A node's proxy and its request come together.
LEMMA ProxiesRest == [Next]_vars /\ ~Registers => proxies' = proxies
<1>1. ASSUME NEW s \in Senders, ImportRegisters(s), ~Registers PROVE proxies' = proxies
  BY <1>1 DEF ImportRegisters, Registers
<1>2. ASSUME [Next]_vars, ~\E s \in Senders : ImportRegisters(s) PROVE proxies' = proxies
  BY ZenonT(30), <1>2 DEF Next, Sender, Receiver, Worker, Flush, ImportFinds, Send, ImportMakes, ImportMarks, SendAgain,
     TakeCredit, LooksBefore, LooksAfter, LooksIfDead, ParkEnds, Stage, DeliverMsg, DeliverOpen, DeliverGrant,
     EnqueueRemote, OpenRoom, OpenGrants, Dequeue, AddRoute, NodeLeft, SetOutbound, KillNext, TakeOutbox, WireOut,
     LocalSend, Die, Lose, books, vars
<1>. QED  BY <1>1, <1>2
LEMMA AskingMoves ==
    ASSUME NEW a \in Actors, IsFiniteSet(Asking(a))
    PROVE  /\ Moves(Q, Q') => IsFiniteSet(Asking(a)') /\ Cardinality(Asking(a)') = Cardinality(Asking(a))
           /\ \A f \in Frame : Adds(Q, Q', f) =>
                /\ IsFiniteSet(Asking(a)')
                /\ Cardinality(Asking(a)')
                     = Cardinality(Asking(a)) + IF f.kind = "open" /\ f.actor = a THEN 1 ELSE 0
           /\ \A f \in Frame : Adds(Q', Q, f) =>
                /\ IsFiniteSet(Asking(a)')
                /\ Cardinality(Asking(a))
                     = Cardinality(Asking(a)') + IF f.kind = "open" /\ f.actor = a THEN 1 ELSE 0
<1>1. Asking(a)' = Holding(Q', OpensOf(a))
  BY DEF Asking, Holding, SlotsIn, At, OpensOf, Frame
<1>2. \A f \in Frame : f \in OpensOf(a) <=> f.kind = "open" /\ f.actor = a
  BY DEF OpensOf
<1>3. Asking(a) = Holding(Q, OpensOf(a))
  BY DEF Asking
<1>4. IsFiniteSet(Holding(Q, OpensOf(a)))
  BY <1>3
<1>5. Moves(Q, Q') => /\ IsFiniteSet(Holding(Q', OpensOf(a)))
                      /\ Cardinality(Holding(Q', OpensOf(a))) = Cardinality(Holding(Q, OpensOf(a)))
  BY <1>4, HoldingMoves
<1>6. ASSUME NEW f \in Frame, Adds(Q, Q', f)
      PROVE  /\ IsFiniteSet(Holding(Q', OpensOf(a)))
             /\ Cardinality(Holding(Q', OpensOf(a)))
                  = Cardinality(Holding(Q, OpensOf(a))) + IF f \in OpensOf(a) THEN 1 ELSE 0
  <2>1. \A g : Adds(Q, Q', g) =>
            /\ IsFiniteSet(Holding(Q', OpensOf(a)))
            /\ Cardinality(Holding(Q', OpensOf(a)))
                 = Cardinality(Holding(Q, OpensOf(a))) + IF g \in OpensOf(a) THEN 1 ELSE 0
    BY ZenonT(30), <1>4, HoldingMoves
  <2>. QED  BY <1>6, <2>1
<1>7. ASSUME NEW f \in Frame, Adds(Q', Q, f)
      PROVE  /\ IsFiniteSet(Holding(Q', OpensOf(a)))
             /\ Cardinality(Holding(Q, OpensOf(a)))
                  = Cardinality(Holding(Q', OpensOf(a))) + IF f \in OpensOf(a) THEN 1 ELSE 0
  BY <1>4, <1>7, HoldingMoves
<1>. QED  BY <1>1, <1>2, <1>3, <1>5, <1>6, <1>7
LEMMA ClaimsRest ==
    ASSUME Shape, Flow, Met, [Next]_vars, \A t \in Receivers : ~Acts(t),
           NEW a \in Actors, IsFiniteSet(Proxied(a)), IsFiniteSet(Asking(a))
    PROVE  /\ IsFiniteSet(Proxied(a)') /\ IsFiniteSet(Asking(a)')
           /\ \/ /\ Cardinality(Proxied(a)') = Cardinality(Proxied(a)) + 1
                 /\ Cardinality(Asking(a)') = Cardinality(Asking(a)) + 1
              \/ /\ Proxied(a)' = Proxied(a)
                 /\ Cardinality(Asking(a)') <= Cardinality(Asking(a))
<1>0. Cardinality(Asking(a)) \in Nat /\ \A S : IsFiniteSet(S) => Cardinality(S) \in Nat
  BY FS_CardinalityType
<1>p. ASSUME proxies' = proxies PROVE Proxied(a)' = Proxied(a)
  BY <1>p DEF Proxied
<1>1. ASSUME NEW s \in Senders, ImportRegisters(s), ~ImportedNow(Place[s], job[s].at)
      PROVE  /\ IsFiniteSet(Proxied(a)') /\ IsFiniteSet(Asking(a)')
             /\ \/ /\ Cardinality(Proxied(a)') = Cardinality(Proxied(a)) + 1
                   /\ Cardinality(Asking(a)') = Cardinality(Asking(a)) + 1
                \/ Proxied(a)' = Proxied(a) /\ Cardinality(Asking(a)') <= Cardinality(Asking(a))
  <2>0. PICK f, n, b, i : f = OpenFrame(b, n) /\ n = Place[s] /\ b = job[s].at /\ i = job[s].idx
    OBVIOUS
  <2>1. /\ n \in Nodes /\ b \in Actors /\ i \in Entries /\ f \in Frame /\ Adds(Q, Q', f)
        /\ f.kind = "open" /\ f.actor = b
    BY <1>1, <2>0, RegisterAdds DEF OpenFrame
  <2>2. proxies' = [proxies EXCEPT ![n][b] = i] /\ proxies[n][b] = 0
    BY <1>1, <2>0 DEF ImportRegisters, ImportedNow
  <2>3. proxies \in [Nodes -> [Actors -> 0..MaxEntries]] /\ i # 0
    BY <2>1 DEF Shape, TablesOK, BooksOK, Entries
  <2>4. IsFiniteSet(Asking(a)') /\ Cardinality(Asking(a)') = Cardinality(Asking(a)) + IF b = a THEN 1 ELSE 0
    BY <2>1, AskingMoves
  <2>5. CASE b = a
    <3>1. Proxied(a)' = Proxied(a) \cup {n} /\ n \notin Proxied(a)
      BY <2>1, <2>2, <2>3, <2>5 DEF Proxied
    <3>2. IsFiniteSet(Proxied(a)') /\ Cardinality(Proxied(a)') = Cardinality(Proxied(a)) + 1
      BY <3>1, FS_AddElement
    <3>. QED  BY <2>4, <2>5, <3>2
  <2>6. CASE b # a
    <3>1. Proxied(a)' = Proxied(a)
      BY <2>1, <2>2, <2>3, <2>6 DEF Proxied
    <3>. QED  BY <1>0, <2>4, <2>6, <3>1
  <2>. QED  BY <2>5, <2>6
<1>2. ASSUME ~Registers
      PROVE  /\ Proxied(a)' = Proxied(a) /\ IsFiniteSet(Asking(a)')
             /\ Cardinality(Asking(a)') <= Cardinality(Asking(a))
  <2>1. Proxied(a)' = Proxied(a)
    BY <1>2, <1>p, ProxiesRest
  <2>a. ASSUME NEW f \in Frame, Adds(Q, Q', f), f.kind # "open"
        PROVE  IsFiniteSet(Asking(a)') /\ Cardinality(Asking(a)') <= Cardinality(Asking(a))
    BY <1>0, <2>a, AskingMoves
  <2>d. ASSUME NEW f \in Frame, Adds(Q', Q, f)
        PROVE  IsFiniteSet(Asking(a)') /\ Cardinality(Asking(a)') <= Cardinality(Asking(a))
    BY <1>0, <2>d, AskingMoves
  <2>2. CASE \E s \in Senders : Stage(s)
    <3>1. PICK s \in Senders : Stage(s)
      BY <2>2
    <3>2. PICK f : f = MsgFrame(job[s].at, Place[s], s, job[s].no)
      OBVIOUS
    <3>3. f \in Frame /\ Adds(Q, Q', f) /\ f.kind = "msg"
      BY <3>1, <3>2, StageAdds DEF MsgFrame
    <3>. QED  BY <2>1, <2>a, <3>3
  <2>3. CASE Grants
    <3>1. PICK w \in Workers, b \in Actors : Dequeue(w, b) /\ Head(mailbox[b]) \in Nodes
      BY <2>3 DEF Grants, Acts
    <3>2. Grant(b, Head(mailbox[b]), 1) /\ wire' = wire /\ batch' = batch
      BY <3>1 DEF Dequeue, CreditBack
    <3>3. PICK f : f = GrantFrame(b, Head(mailbox[b]), 1)
      OBVIOUS
    <3>4. f \in Frame /\ Adds(Q, Q', f) /\ f.kind = "grant"
      BY <3>1, <3>2, <3>3, GrantAdds DEF GrantFrame
    <3>. QED  BY <2>1, <2>a, <3>4
  <2>4. CASE Receives
    <3>1. CASE \E t \in Receivers, m \in Nodes : DeliverGrant(t, m)
      <4>1. PICK t \in Receivers, m \in Nodes : DeliverGrant(t, m)
        BY <3>1
      <4>2. Place[t] \in Nodes /\ Leaves(m, Place[t])
        BY <4>1, TakesLeaves
      <4>3. PICK f : f = Head(wire[m][Place[t]])
        OBVIOUS
      <4>4. f \in Frame /\ Adds(Q', Q, f)
        BY <4>2, <4>3, HeadMet DEF Met
      <4>. QED  BY <2>1, <2>d, <4>4
    <3>2. CASE \E m, n \in Nodes : Lose(m, n)
      <4>1. PICK m, n \in Nodes : Lose(m, n)
        BY <3>2
      <4>2. Leaves(m, n)
        BY <4>1 DEF Lose, Leaves, staged, thread
      <4>3. PICK f : f = Head(wire[m][n])
        OBVIOUS
      <4>4. f \in Frame /\ Adds(Q', Q, f)
        BY <4>2, <4>3, HeadMet DEF Met
      <4>. QED  BY <2>1, <2>d, <4>4
    <3>. QED  BY <2>4, <3>1, <3>2 DEF Receives, Acts
  <2>5. CASE ~Grants /\ ~Receives /\ ~\E s \in Senders : Stage(s)
    <3>1. Moves(Q, Q')
      BY <1>2, <2>5, OthersMove
    <3>. QED  BY <1>0, <2>1, <3>1, AskingMoves
  <2>. QED  BY <2>2, <2>3, <2>4, <2>5
<1>. QED  BY <1>1, <1>2 DEF Registers


\* Less taken and fewer claims leave more room.
LEMMA RoomLess ==
    ASSUME NEW a \in Actors, RoomOK(a), Proxied(a)' = Proxied(a), IsFiniteSet(Asking(a)'), Bound[a] \in Nat,
           Taken(a) \in Nat, Taken(a)' \in Nat, Taken(a)' <= Taken(a), Claims(a) \in Nat, Claims(a)' \in Nat,
           Claims(a)' <= Claims(a)
    PROVE  RoomOK(a)'
<1>. DEFINE P == Cardinality(Proxied(a))  k == Taken(a)  l == Taken(a)'  c == Claims(a)  d == Claims(a)'
<1>1. /\ P \in Nat /\ c <= P /\ (Proxied(a) = {} => k = 0)
      /\ (Proxied(a) # {} => k + c <= Bound[a] + P - 1) /\ k \in Nat /\ l \in Nat /\ l <= k /\ c \in Nat /\ d \in Nat
      /\ d <= c /\ Bound[a] \in Nat
  BY FS_CardinalityType DEF RoomOK
<1>. HIDE DEF P, k, l, c, d
<1>2. d <= P /\ (Proxied(a) = {} => l = 0) /\ (Proxied(a) # {} => l + d <= Bound[a] + P - 1)
  BY <1>1
<1>3. Proxied(a)' = Proxied(a) /\ IsFiniteSet(Proxied(a)) /\ IsFiniteSet(Asking(a)')
  BY DEF RoomOK
<1>. QED  BY <1>2, <1>3 DEF RoomOK, P, l, d
LEMMA TakenIs == ASSUME NEW a \in Actors PROVE TakenOf[a] = Taken(a) /\ TakenOf'[a] = Taken(a)'
  BY DEF TakenOf
LEMMA OneMoves ==
    ASSUME NEW S, NEW T, NEW t, IsFiniteSet(S), S \ {t} = T \ {t}
    PROVE  /\ IsFiniteSet(T) /\ Cardinality(T) \in Nat
           /\ Cardinality(T) + (IF t \in S THEN 1 ELSE 0) = Cardinality(S) + IF t \in T THEN 1 ELSE 0
<1>1. IsFiniteSet(S \ {t}) /\ Cardinality(S \ {t}) = IF t \in S THEN Cardinality(S) - 1 ELSE Cardinality(S)
  BY FS_RemoveElement
<1>2. Cardinality(S) \in Nat
  BY FS_CardinalityType
<1>3. CASE t \in T
  <2>1. T = (S \ {t}) \cup {t}
    BY <1>3
  <2>2. IsFiniteSet(T) /\ Cardinality(T) = Cardinality(S \ {t}) + 1
    BY <1>1, <2>1, FS_AddElement
  <2>. QED  BY <1>1, <1>2, <1>3, <2>2, FS_CardinalityType
<1>4. CASE t \notin T
  <2>1. T = S \ {t}
    BY <1>4
  <2>. QED  BY <1>1, <1>2, <1>4, <2>1, FS_CardinalityType
<1>. QED  BY <1>3, <1>4

\* What each step of a receiver does with the room: to one actor, with everything else
\* where it was.
LEMMA ActsRest ==
    ASSUME Shape, Flow, Met, NEW t \in Receivers, Acts(t)
    PROVE  proxies' = proxies /\ \A u \in Receivers : u # t => pc'[u] = pc[u] /\ job'[u] = job[u]
<1>1. proxies' = proxies
  BY DEF Acts, DeliverMsg, DeliverOpen, EnqueueRemote, OpenRoom, OpenGrants, books
<1>. QED  BY <1>1, OtherHandsRest

LEMMA RoomStep ==
    ASSUME Shape, Shape', Flow, Flow', Met, \A a \in Actors : Kept(a), RoomInv, [Next]_vars
    PROVE  RoomInv'
<1>. USE ConstantsAssumption DEF Threads
<1>t. /\ pc \in [Threads -> Labels] /\ DOMAIN job = Threads
      /\ \A a \in Actors : Bound[a] \in Nat \ {0}
      /\ \A t \in Receivers : t \in Threads /\ Place[t] \in Nodes
  BY DEF Shape, TablesOK, ThreadsOK
<1>n. ASSUME NEW a \in Actors
      PROVE  /\ RoomOK(a) /\ Cardinality(Proxied(a)) \in Nat /\ Cardinality(Asking(a)) \in Nat
             /\ Cardinality(Opening(a)) \in Nat /\ Cardinality(InHand(a)) \in Nat
             /\ Cardinality(FromNodes(a)) \in Nat /\ held[a] \in Nat /\ Taken(a) \in Nat /\ Claims(a) \in Nat
  <2>1. RoomOK(a)
    BY DEF RoomInv
  <2>2. Cardinality(Proxied(a)) \in Nat /\ Cardinality(Asking(a)) \in Nat
    BY <2>1, FS_CardinalityType DEF RoomOK
  <2>3. Cardinality(Opening(a)) \in Nat /\ Cardinality(InHand(a)) \in Nat
    BY OneHand DEF RoomInv
  <2>4. Cardinality(FromNodes(a)) \in Nat /\ held[a] \in Nat
    BY FromNodesIs
  <2>. QED  BY <2>1, <2>2, <2>3, <2>4 DEF Taken, Claims
\* No receiver acts.
<1>1. ASSUME \A t \in Receivers : ~Acts(t) PROVE RoomInv'
  <2>1. ASSUME NEW a \in Actors PROVE RoomOK(a)'
    <3>1. /\ Taken(a)' <= Taken(a) /\ Opening(a)' = Opening(a)
      BY <1>1, TakenRests
    <3>2. /\ IsFiniteSet(Proxied(a)') /\ IsFiniteSet(Asking(a)')
          /\ \/ /\ Cardinality(Proxied(a)') = Cardinality(Proxied(a)) + 1
                /\ Cardinality(Asking(a)') = Cardinality(Asking(a)) + 1
             \/ /\ Proxied(a)' = Proxied(a)
                /\ Cardinality(Asking(a)') <= Cardinality(Asking(a))
      BY <1>1, <1>n, ClaimsRest DEF RoomOK
    <3>3. Taken(a)' \in Nat
      BY <1>1, TakenRests
    <3>4. Cardinality(Asking(a)') \in Nat /\ Cardinality(Proxied(a)') \in Nat
      BY <3>2, FS_CardinalityType
    <3>5. Claims(a)' = Cardinality(Asking(a)') + Cardinality(Opening(a))
      BY <3>1 DEF Claims
    <3>6. Cardinality(Proxied(a)) = 0 <=> Proxied(a) = {}
      BY <1>n, FS_EmptySet DEF RoomOK
    <3>7. Cardinality(Proxied(a)') = 0 <=> Proxied(a)' = {}
      BY <3>2, FS_EmptySet
    <3>8. /\ Claims(a) = Cardinality(Asking(a)) + Cardinality(Opening(a))
          /\ Claims(a) <= Cardinality(Proxied(a))
          /\ Cardinality(Proxied(a)) = 0 => Taken(a) = 0
          /\ Cardinality(Proxied(a)) # 0 => Taken(a) + Claims(a) <= Bound[a] + Cardinality(Proxied(a)) - 1
          /\ Bound[a] \in Nat \ {0} /\ Cardinality(Asking(a)) \in Nat /\ Cardinality(Opening(a)) \in Nat
          /\ Cardinality(Proxied(a)) \in Nat /\ Taken(a) \in Nat
      BY <1>n, <1>t, <3>6 DEF RoomOK, Claims
    <3>9. CASE Cardinality(Proxied(a)') = Cardinality(Proxied(a)) + 1 /\ Cardinality(Asking(a)') = Cardinality(Asking(a)) + 1
      <4>1. /\ Claims(a)' <= Cardinality(Proxied(a)') /\ Cardinality(Proxied(a)') # 0
            /\ Taken(a)' + Claims(a)' <= Bound[a] + Cardinality(Proxied(a)') - 1
        BY <3>1, <3>3, <3>4, <3>5, <3>8, <3>9
      <4>. QED  BY <3>2, <3>7, <4>1 DEF RoomOK
    <3>10. CASE Proxied(a)' = Proxied(a) /\ Cardinality(Asking(a)') <= Cardinality(Asking(a))
      <4>1. Claims(a)' <= Claims(a) /\ Claims(a)' \in Nat
        BY <3>4, <3>5, <3>8, <3>10
      <4>. QED  BY <1>n, <1>t, <3>1, <3>2, <3>3, <3>10, <4>1, RoomLess
    <3>. QED  BY <3>2, <3>9, <3>10
  <2>2. ASSUME NEW t \in Receivers PROVE GrantOK(t)'
    <3>1. HandRests(t) /\ GrantOK(t)
      BY <1>1, HandsRest DEF RoomInv
    <3>2. CASE pc'[t] \notin HandLabels
      BY <3>2 DEF GrantOK, HandLabels
    <3>3. CASE pc'[t] \in HandLabels
      <4>1. pc'[t] = pc[t] /\ job'[t] = job[t]
        BY <3>1, <3>3 DEF HandRests
      <4>2. ASSUME pc[t] \in {"room", "grant"}
            PROVE  GrantOK(t)'
        <5>1. PICK a \in Actors : a = job[t].at
          BY <4>2 DEF Flow, HandsOK, ReceiverHas
        <5>2. Taken(a)' <= Taken(a) /\ held'[a] >= held[a] /\ Taken(a) \in Nat /\ Taken(a)' \in Nat /\ held[a] \in Nat
              /\ Bound[a] \in Nat /\ held'[a] \in Nat
          BY <1>1, <1>n, <1>t, TakenRests DEF Flow, CountsOK
        <5>3. TakenOf[a] = Taken(a) /\ TakenOf'[a] = Taken(a)' /\ job'[t] = job[t] /\ job[t].at = a
          BY <4>1, <5>1, TakenIs
        <5>4. CASE pc[t] = "room"
          <6>1. Taken(a) <= job[t].queued + held[a] /\ job[t].queued \in Nat
            BY <3>1, <5>3, <5>4 DEF GrantOK, Flow, HandsOK, ReceiverHas
          <6>2. Taken(a)' <= job[t].queued + held'[a]
            BY <5>2, <6>1
          <6>. QED  BY <4>1, <5>3, <5>4, <6>2 DEF GrantOK
        <5>5. CASE pc[t] = "grant"
          <6>1. (job[t].n = 1 \/ Taken(a) + job[t].n <= Bound[a]) /\ job[t].n \in Nat
            BY <3>1, <5>3, <5>5 DEF GrantOK, Flow, HandsOK, ReceiverHas
          <6>2. job[t].n = 1 \/ Taken(a)' + job[t].n <= Bound[a]
            BY <5>2, <6>1
          <6>. QED  BY <4>1, <5>3, <5>5, <6>2 DEF GrantOK
        <5>. QED  BY <4>2, <5>4, <5>5
      <4>3. CASE pc[t] = "queue"
        BY <3>1, <4>1, <4>3 DEF GrantOK
      <4>. QED  BY <3>3, <4>1, <4>2, <4>3 DEF HandLabels
    <3>. QED  BY <3>2, <3>3
  <2>. QED  BY <2>1, <2>2 DEF RoomInv
\* A receiver acts for one actor, of its own node.
<1>a. ASSUME NEW t \in Receivers, Acts(t), NEW a \in Actors, Home[a] = Place[t],
             pc[t] \in HandLabels => job[t].at = a, pc'[t] \in HandLabels => job'[t].at = a,
             \A c \in Actors : c # a => mailbox'[c] = mailbox[c] /\ held'[c] = held[c],
             \A c \in Actors : c # a => IsFiniteSet(Asking(c)') /\ Cardinality(Asking(c)') = Cardinality(Asking(c)),
             RoomOK(a)', GrantOK(t)'
      PROVE  RoomInv'
  <2>0. proxies' = proxies /\ \A u \in Receivers : u # t => pc'[u] = pc[u] /\ job'[u] = job[u]
    BY <1>a, ActsRest
  <2>1. ASSUME NEW c \in Actors, c # a
        PROVE  Taken(c)' = Taken(c) /\ Opening(c)' = Opening(c) /\ Proxied(c)' = Proxied(c)
    <3>1. InHand(c)' = InHand(c)
      <4>1. \A u \in Receivers : u \in InHand(c)' <=> u \in InHand(c)
        BY <1>a, <2>0, <2>1 DEF InHand, HandLabels
      <4>. QED  BY <4>1 DEF InHand
    <3>2. Opening(c)' = Opening(c)
      <4>1. \A u \in Receivers : u \in Opening(c)' <=> u \in Opening(c)
        BY <1>a, <2>0, <2>1 DEF Opening, HandLabels
      <4>. QED  BY <4>1 DEF Opening
    <3>3. FromNodes(c)' = FromNodes(c) /\ held'[c] = held[c]
      BY <1>a, <2>1 DEF FromNodes
    <3>4. Proxied(c)' = Proxied(c)
      BY <2>0 DEF Proxied
    <3>. QED  BY <3>1, <3>2, <3>3, <3>4 DEF Taken
  <2>2. ASSUME NEW c \in Actors, c # a PROVE RoomOK(c)'
    <3>1. Claims(c)' = Claims(c)
      BY <1>a, <2>1, <2>2 DEF Claims
    <3>2. Proxied(c)' = Proxied(c) /\ Taken(c)' = Taken(c)
      BY <2>1, <2>2
    <3>3. RoomOK(c) /\ IsFiniteSet(Asking(c)') /\ Bound[c] \in Nat /\ Taken(c) \in Nat /\ Claims(c) \in Nat
      BY <1>a, <1>n, <1>t, <2>2
    <3>. QED  BY <3>1, <3>2, <3>3, RoomLess
  <2>3. ASSUME NEW u \in Receivers, u # t PROVE GrantOK(u)'
    <3>1. pc'[u] = pc[u] /\ job'[u] = job[u] /\ GrantOK(u)
      BY <2>0, <2>3 DEF RoomInv
    <3>2. CASE pc[u] \in {"room", "grant"}
      <4>1. PICK c \in Actors : c = job[u].at
        BY <3>2 DEF Flow, HandsOK, ReceiverHas
      <4>2. c # a
        BY <1>a, <2>3, <3>2, <4>1, OneReceiver DEF Shape, JobsOK, ReceiverOK
      <4>3. TakenOf'[c] = TakenOf[c] /\ held'[c] = held[c]
        BY <1>a, <2>1, <4>2, TakenIs
      <4>. QED  BY <3>1, <3>2, <4>1, <4>3 DEF GrantOK
    <3>3. CASE pc[u] \notin {"room", "grant"}
      BY <3>1, <3>3 DEF GrantOK
    <3>. QED  BY <3>2, <3>3
  <2>. QED  BY <1>a, <2>2, <2>3 DEF RoomInv
\* The sets of that actor.
<1>b. ASSUME NEW t \in Receivers, Acts(t), NEW a \in Actors
      PROVE  /\ Cardinality(InHand(a)') \in Nat /\ Cardinality(Opening(a)') \in Nat
             /\ Cardinality(InHand(a)') + (IF pc[t] = "queue" /\ job[t].at = a THEN 1 ELSE 0)
                  = Cardinality(InHand(a)) + IF pc'[t] = "queue" /\ job'[t].at = a THEN 1 ELSE 0
             /\ Cardinality(Opening(a)') + (IF pc[t] \in {"room", "grant"} /\ job[t].at = a THEN 1 ELSE 0)
                  = Cardinality(Opening(a)) + IF pc'[t] \in {"room", "grant"} /\ job'[t].at = a THEN 1 ELSE 0
             /\ Proxied(a)' = Proxied(a)
  <2>0. proxies' = proxies /\ \A u \in Receivers : u # t => pc'[u] = pc[u] /\ job'[u] = job[u]
    BY <1>b, ActsRest
  <2>1. IsFiniteSet(InHand(a)) /\ IsFiniteSet(Opening(a))
    BY OneHand DEF RoomInv
  <2>2. InHand(a) \ {t} = InHand(a)' \ {t}
    BY <2>0 DEF InHand
  <2>3. Opening(a) \ {t} = Opening(a)' \ {t}
    BY <2>0 DEF Opening
  <2>4. /\ t \in InHand(a) <=> pc[t] = "queue" /\ job[t].at = a
        /\ t \in InHand(a)' <=> pc'[t] = "queue" /\ job'[t].at = a
        /\ t \in Opening(a) <=> pc[t] \in {"room", "grant"} /\ job[t].at = a
        /\ t \in Opening(a)' <=> pc'[t] \in {"room", "grant"} /\ job'[t].at = a
    BY DEF InHand, Opening
  <2>5. /\ Cardinality(InHand(a)') \in Nat
        /\ Cardinality(InHand(a)') + (IF t \in InHand(a) THEN 1 ELSE 0)
             = Cardinality(InHand(a)) + IF t \in InHand(a)' THEN 1 ELSE 0
    BY <2>1, <2>2, OneMoves
  <2>6. /\ Cardinality(Opening(a)') \in Nat
        /\ Cardinality(Opening(a)') + (IF t \in Opening(a) THEN 1 ELSE 0)
             = Cardinality(Opening(a)) + IF t \in Opening(a)' THEN 1 ELSE 0
    BY <2>1, <2>3, OneMoves
  <2>7. Proxied(a)' = Proxied(a)
    BY <2>0 DEF Proxied
  <2>. QED  BY <2>4, <2>5, <2>6, <2>7
<1>2. ASSUME NEW t \in Receivers, NEW m \in Nodes, DeliverMsg(t, m) PROVE RoomInv'
  <2>0. PICK f : f = Head(wire[m][Place[t]])
    OBVIOUS
  <2>1. Place[t] \in Nodes /\ Leaves(m, Place[t]) /\ Acts(t)
    BY <1>2, TakesLeaves DEF Acts
  <2>2. f \in Frame /\ Adds(Q', Q, f)
    BY <2>0, <2>1, HeadMet DEF Met
  <2>3. PICK a \in Actors : a = f.actor
    BY <2>2, FrameIs
  <2>4. /\ f.kind = "msg" /\ Home[a] = Place[t] /\ held' = [held EXCEPT ![a] = IF @ > 0 THEN @ - 1 ELSE @]
        /\ mailbox' = mailbox /\ pc[t] = "idle"
    BY <1>2, <2>0, <2>3 DEF DeliverMsg, Heard, Accepted, Received, Takes, boxes
  <2>5. pc'[t] = "queue" /\ job'[t].at = a
    BY <1>2, <1>t, <2>0, <2>3 DEF DeliverMsg, Heard, Works, Goto
  <2>6. Worth(f) = 1
    BY <2>2, <2>4, FrameIs
  \* The credit the message spent is held until now.
  <2>7. held[a] \in Nat \ {0}
    <3>1. Kept(a)
      OBVIOUS
    <3>2. /\ IsFiniteSet(Purse(Has(a))) /\ IsFiniteSet(Staging(a)) /\ IsFiniteSet(Load(Q, FramesOf(a)))
          /\ held[a] = Cardinality(Purse(Has(a))) + Cardinality(Staging(a)) + Cardinality(Load(Q, FramesOf(a))) + lost[a]
      BY <3>1 DEF Kept, Finite, Spread
    <3>3. /\ IsFiniteSet(Load(Q', FramesOf(a)))
          /\ Cardinality(Load(Q, FramesOf(a))) = Cardinality(Load(Q', FramesOf(a))) + 1
      BY <2>2, <2>3, <2>6, <3>2, LoadMoves
    <3>4. /\ Cardinality(Purse(Has(a))) \in Nat /\ Cardinality(Staging(a)) \in Nat
          /\ Cardinality(Load(Q', FramesOf(a))) \in Nat /\ lost[a] \in Nat
      BY <3>2, <3>3, FS_CardinalityType DEF Flow, CountsOK
    <3>. QED  BY <3>2, <3>3, <3>4
  <2>8. held'[a] = held[a] - 1 /\ \A c \in Actors : c # a => held'[c] = held[c]
    BY <2>4, <2>7 DEF Flow, CountsOK
  <2>9. ASSUME NEW c \in Actors
        PROVE  IsFiniteSet(Asking(c)') /\ Cardinality(Asking(c)') = Cardinality(Asking(c))
    <3>1. IsFiniteSet(Asking(c))
      BY <1>n DEF RoomOK
    <3>2. /\ IsFiniteSet(Asking(c)')
          /\ Cardinality(Asking(c)) = Cardinality(Asking(c)') + IF f.kind = "open" /\ f.actor = c THEN 1 ELSE 0
      BY <2>2, <3>1, AskingMoves
    <3>. QED  BY <2>4, <3>2, FS_CardinalityType
  <2>10. /\ Cardinality(InHand(a)') = Cardinality(InHand(a)) + 1 /\ Cardinality(Opening(a)') = Cardinality(Opening(a))
         /\ Proxied(a)' = Proxied(a)
    <3>1. pc[t] = "idle" /\ Cardinality(InHand(a)) \in Nat /\ Cardinality(Opening(a)) \in Nat
      BY <1>n, <2>4
    <3>. QED  BY <1>b, <2>1, <2>5, <3>1
  <2>11. Taken(a)' = Taken(a) /\ Claims(a)' = Claims(a)
    <3>1. FromNodes(a)' = FromNodes(a)
      BY <2>4 DEF FromNodes
    <3>. QED  BY <1>n, <2>7, <2>8, <2>9, <2>10, <3>1 DEF Taken, Claims
  <2>12. RoomOK(a)'
    BY <1>n, <1>t, <2>9, <2>10, <2>11, RoomLess
  <2>13. GrantOK(t)'
    BY <2>4, <2>5 DEF GrantOK
  <2>. QED  BY <1>a, <2>1, <2>4, <2>5, <2>8, <2>9, <2>12, <2>13 DEF HandLabels
<1>3. ASSUME NEW t \in Receivers, EnqueueRemote(t) PROVE RoomInv'
  <2>1. pc[t] = "queue" /\ Acts(t) /\ held' = held
    BY <1>3 DEF EnqueueRemote, Acts, books
  <2>2. PICK a \in Actors : a = job[t].at /\ Home[a] = Place[t] /\ job[t].msg \in Frame
    BY <2>1, FrameIs DEF Flow, HandsOK, ReceiverHas, RoomInv, GrantOK
  <2>3. pc'[t] = "idle"
    BY <1>3, <1>t DEF EnqueueRemote, Idle, Works, Goto
  <2>4. /\ \/ mailbox' = mailbox
           \/ mailbox' = [mailbox EXCEPT ![a] = Append(mailbox[a], job[t].msg.from)]
        /\ job[t].msg.from \in Nodes
    BY <1>3, <2>2, FrameIs DEF EnqueueRemote
  <2>5. \A c \in Actors : c # a => mailbox'[c] = mailbox[c] /\ held'[c] = held[c]
    BY <2>1, <2>4 DEF Flow, BoxesOK
  <2>6. Cardinality(FromNodes(a)') \in Nat /\ Cardinality(FromNodes(a)') <= Cardinality(FromNodes(a)) + 1
    <3>0. FromNodes(a) = Marks(mailbox[a], Nodes) /\ mailbox[a] \in Seq(Nodes \cup {Local})
      BY FromNodesIs
    <3>1. FromNodes(a)' = Marks(mailbox'[a], Nodes) /\ mailbox'[a] \in Seq(Nodes \cup {Local})
      BY DEF FromNodes, Marks, Flow, BoxesOK
    <3>2. Cardinality(FromNodes(a)') \in Nat
      BY <3>1, MarksAre
    <3>3. CASE mailbox' = mailbox
      BY <1>n, <3>0, <3>1, <3>2, <3>3
    <3>4. CASE mailbox' = [mailbox EXCEPT ![a] = Append(mailbox[a], job[t].msg.from)]
      <4>1. mailbox'[a] = Append(mailbox[a], job[t].msg.from)
        BY <3>4 DEF Flow, BoxesOK
      <4>2. Cardinality(Marks(mailbox'[a], Nodes)) = Cardinality(Marks(mailbox[a], Nodes)) + 1
        <5>1. job[t].msg.from \in Nodes \cup {Local} /\ job[t].msg.from \in Nodes
          BY <2>4
        <5>2. Cardinality(Marks(Append(mailbox[a], job[t].msg.from), Nodes))
                = Cardinality(Marks(mailbox[a], Nodes)) + IF job[t].msg.from \in Nodes THEN 1 ELSE 0
          BY <3>0, <5>1, MarksAppended
        <5>. QED  BY <4>1, <5>1, <5>2
      <4>. QED  BY <1>n, <3>0, <3>1, <3>2, <4>2
    <3>. QED  BY <2>4, <3>3, <3>4
  <2>7. Moves(Q, Q')
    <3>1. Q' = Q
      BY <1>3, QueuesStay DEF EnqueueRemote, staged
    <3>. QED  BY <3>1, SameMoves
  <2>8. \A c \in Actors : IsFiniteSet(Asking(c)') /\ Cardinality(Asking(c)') = Cardinality(Asking(c))
    BY <1>n, <2>7, AskingMoves DEF RoomOK
  <2>9. /\ Cardinality(InHand(a)') + 1 = Cardinality(InHand(a)) /\ Cardinality(Opening(a)') = Cardinality(Opening(a))
        /\ Proxied(a)' = Proxied(a) /\ Cardinality(InHand(a)') \in Nat
    BY <1>b, <1>n, <2>1, <2>2, <2>3
  <2>10. Taken(a)' \in Nat /\ Taken(a)' <= Taken(a) /\ Claims(a)' = Claims(a)
    BY <1>n, <2>1, <2>6, <2>8, <2>9 DEF Taken, Claims
  <2>11. RoomOK(a)'
    BY <1>n, <1>t, <2>8, <2>9, <2>10, RoomLess
  <2>12. GrantOK(t)'
    BY <2>3 DEF GrantOK
  <2>. QED  BY <1>a, <2>1, <2>2, <2>3, <2>5, <2>8, <2>11, <2>12 DEF HandLabels
<1>4. ASSUME NEW t \in Receivers, NEW m \in Nodes, DeliverOpen(t, m) PROVE RoomInv'
  <2>0. PICK f : f = Head(wire[m][Place[t]])
    OBVIOUS
  <2>1. Place[t] \in Nodes /\ Leaves(m, Place[t]) /\ Acts(t)
    BY <1>4, TakesLeaves DEF Acts
  <2>2. f \in Frame /\ Adds(Q', Q, f)
    BY <2>0, <2>1, HeadMet DEF Met
  <2>3. PICK a \in Actors : a = f.actor
    BY <2>2, FrameIs
  <2>4. f.kind = "open" /\ Home[a] = Place[t] /\ held' = held /\ mailbox' = mailbox /\ pc[t] = "idle"
    BY <1>4, <2>0, <2>3 DEF DeliverOpen, Heard, Accepted, Takes, boxes, books
  <2>5. pc'[t] = "room" /\ job'[t].at = a /\ job'[t].queued = Len(mailbox[a])
    BY <1>4, <1>t, <2>0, <2>3 DEF DeliverOpen, Heard, Works, Goto
  <2>6. ASSUME NEW c \in Actors
        PROVE  /\ IsFiniteSet(Asking(c)') /\ Cardinality(Asking(c)') \in Nat
               /\ Cardinality(Asking(c)) = Cardinality(Asking(c)') + IF a = c THEN 1 ELSE 0
    <3>1. IsFiniteSet(Asking(c))
      BY <1>n DEF RoomOK
    <3>2. /\ IsFiniteSet(Asking(c)')
          /\ Cardinality(Asking(c)) = Cardinality(Asking(c)') + IF f.kind = "open" /\ f.actor = c THEN 1 ELSE 0
      BY <2>2, <3>1, AskingMoves
    <3>. QED  BY <2>3, <2>4, <3>2, FS_CardinalityType
  <2>7. /\ Cardinality(InHand(a)') = Cardinality(InHand(a)) /\ Cardinality(Opening(a)') = Cardinality(Opening(a)) + 1
        /\ Proxied(a)' = Proxied(a)
    <3>1. pc[t] = "idle" /\ Cardinality(InHand(a)) \in Nat /\ Cardinality(Opening(a)) \in Nat
      BY <1>n, <2>4
    <3>2. /\ Cardinality(InHand(a)') \in Nat /\ Cardinality(Opening(a)') \in Nat
          /\ Cardinality(InHand(a)') + (IF pc[t] = "queue" /\ job[t].at = a THEN 1 ELSE 0)
               = Cardinality(InHand(a)) + IF pc'[t] = "queue" /\ job'[t].at = a THEN 1 ELSE 0
          /\ Cardinality(Opening(a)') + (IF pc[t] \in {"room", "grant"} /\ job[t].at = a THEN 1 ELSE 0)
               = Cardinality(Opening(a)) + IF pc'[t] \in {"room", "grant"} /\ job'[t].at = a THEN 1 ELSE 0
          /\ Proxied(a)' = Proxied(a)
      BY <1>b, <2>1
    <3>3. ~(pc[t] \in {"room", "grant"} /\ job[t].at = a) /\ pc'[t] \in {"room", "grant"} /\ job'[t].at = a
          /\ pc'[t] # "queue" /\ pc[t] # "queue"
      BY <2>5, <3>1
    <3>. QED  BY <3>1, <3>2, <3>3
  <2>8. Taken(a)' = Taken(a) /\ Claims(a)' = Claims(a)
    <3>1. FromNodes(a)' = FromNodes(a)
      BY <2>4 DEF FromNodes
    <3>. QED  BY <1>n, <2>4, <2>6, <2>7, <3>1 DEF Taken, Claims
  <2>9. RoomOK(a)'
    BY <1>n, <1>t, <2>6, <2>7, <2>8, RoomLess
  \* Nothing of this actor's is in the hands of its one receiver.
  <2>10. Cardinality(InHand(a)) = 0
    <3>1. \A u \in InHand(a) : u \in Receivers /\ Place[u] = Place[t] /\ u # t
      BY <2>4 DEF InHand, RoomInv, GrantOK
    <3>2. InHand(a) = {}
      BY <3>1, OneReceiver
    <3>. QED  BY <3>2, FS_EmptySet
  <2>11. GrantOK(t)'
    <3>1. Taken(a)' <= Len(mailbox[a]) + held[a]
      <4>1. Len(mailbox[a]) \in Nat /\ Cardinality(FromNodes(a)) <= Len(mailbox[a])
        BY FromNodesIs
      <4>. QED  BY <1>n, <2>8, <2>10, <4>1 DEF Taken
    <3>2. TakenOf'[a] <= job'[t].queued + held'[a]
      BY <2>4, <2>5, <3>1, TakenIs
    <3>. QED  BY <2>5, <3>2 DEF GrantOK
  <2>12. \A c \in Actors : c # a => /\ IsFiniteSet(Asking(c)') /\ Cardinality(Asking(c)') = Cardinality(Asking(c))
                                    /\ mailbox'[c] = mailbox[c] /\ held'[c] = held[c]
    BY <2>4, <2>6
  <2>. QED  BY <1>a, <2>1, <2>4, <2>5, <2>9, <2>11, <2>12 DEF HandLabels
<1>5. ASSUME NEW t \in Receivers, OpenRoom(t) PROVE RoomInv'
  <2>1. pc[t] = "room" /\ Acts(t) /\ held' = held /\ mailbox' = mailbox
    BY <1>5 DEF OpenRoom, Acts, books, boxes
  <2>2. PICK a \in Actors : a = job[t].at /\ Home[a] = Place[t] /\ job[t].queued \in Nat
    BY <2>1 DEF Flow, HandsOK, ReceiverHas, Shape, JobsOK, ReceiverOK
  <2>3. pc'[t] = "grant" /\ job'[t].at = a /\ job'[t].n = Room(a, job[t].queued)
    BY <1>5, <1>t, <2>2 DEF OpenRoom, Works, Goto
  <2>4. Moves(Q, Q')
    <3>1. Q' = Q
      BY <1>5, QueuesStay DEF OpenRoom, staged
    <3>. QED  BY <3>1, SameMoves
  <2>5. \A c \in Actors : IsFiniteSet(Asking(c)') /\ Cardinality(Asking(c)') = Cardinality(Asking(c))
    BY <1>n, <2>4, AskingMoves DEF RoomOK
  <2>6. /\ Cardinality(InHand(a)') = Cardinality(InHand(a)) /\ Cardinality(Opening(a)') = Cardinality(Opening(a))
        /\ Proxied(a)' = Proxied(a)
    BY <1>b, <1>n, <2>1, <2>2, <2>3
  <2>7. Taken(a)' = Taken(a) /\ Claims(a)' = Claims(a)
    <3>1. FromNodes(a)' = FromNodes(a)
      BY <2>1 DEF FromNodes
    <3>. QED  BY <1>n, <2>1, <2>5, <2>6, <3>1 DEF Taken, Claims
  <2>8. RoomOK(a)'
    BY <1>n, <1>t, <2>5, <2>6, <2>7, RoomLess
  <2>9. GrantOK(t)'
    <3>1. Taken(a) <= job[t].queued + held[a]
      BY <2>1, <2>2, TakenIs DEF RoomInv, GrantOK
    <3>2. job'[t].n = 1 \/ Taken(a) + job'[t].n <= Bound[a]
      BY <1>n, <1>t, <2>2, <2>3, <3>1 DEF Room
    <3>3. TakenOf'[a] = Taken(a)
      BY <2>7, TakenIs
    <3>. QED  BY <2>3, <3>2, <3>3 DEF GrantOK
  <2>. QED  BY <1>a, <2>1, <2>2, <2>3, <2>5, <2>8, <2>9 DEF HandLabels
<1>6. ASSUME NEW t \in Receivers, OpenGrants(t) PROVE RoomInv'
  <2>1. pc[t] = "grant" /\ Acts(t) /\ mailbox' = mailbox /\ wire' = wire /\ batch' = batch
    BY <1>6 DEF OpenGrants, Acts, boxes
  <2>2. PICK a \in Actors, n \in Nodes, k \in Nat \ {0} :
            a = job[t].at /\ Home[a] = Place[t] /\ n = job[t].from /\ k = job[t].n
    BY <2>1 DEF Flow, HandsOK, ReceiverHas, Shape, JobsOK, ReceiverOK
  <2>3. pc'[t] = "flush"
    BY <1>6, <1>t DEF OpenGrants, ThenFlush, Works, Goto
  <2>4. Grant(a, n, k)
    BY <1>6, <2>2 DEF OpenGrants
  <2>5. held' = [held EXCEPT ![a] = @ + k]
    BY <2>4 DEF Grant
  <2>6. held'[a] = held[a] + k /\ \A c \in Actors : c # a => held'[c] = held[c]
    BY <2>5 DEF Flow, CountsOK
  <2>7. PICK f : f = GrantFrame(a, n, k)
    OBVIOUS
  <2>8. f \in Frame /\ Adds(Q, Q', f) /\ f.kind = "grant"
    BY <2>1, <2>4, <2>7, GrantAdds DEF GrantFrame
  <2>9. ASSUME NEW c \in Actors
        PROVE  IsFiniteSet(Asking(c)') /\ Cardinality(Asking(c)') = Cardinality(Asking(c))
    <3>1. IsFiniteSet(Asking(c)) /\ Cardinality(Asking(c)) \in Nat
      BY <1>n DEF RoomOK
    <3>2. /\ IsFiniteSet(Asking(c)')
          /\ Cardinality(Asking(c)') = Cardinality(Asking(c)) + IF f.kind = "open" /\ f.actor = c THEN 1 ELSE 0
      BY <2>8, <3>1, AskingMoves
    <3>. QED  BY <2>8, <3>1, <3>2
  <2>10. /\ Cardinality(InHand(a)') = Cardinality(InHand(a)) /\ Cardinality(Opening(a)') + 1 = Cardinality(Opening(a))
         /\ Cardinality(Opening(a)') \in Nat /\ Proxied(a)' = Proxied(a)
    BY <1>b, <1>n, <2>1, <2>2, <2>3
  <2>11. Taken(a)' = Taken(a) + k /\ Claims(a)' + 1 = Claims(a) /\ Claims(a)' \in Nat
    <3>1. FromNodes(a)' = FromNodes(a)
      BY <2>1 DEF FromNodes
    <3>. QED  BY <1>n, <2>2, <2>6, <2>9, <2>10, <3>1 DEF Taken, Claims
  \* Room was read for it, or it takes the one set aside for its request.
  <2>12. k = 1 \/ Taken(a) + k <= Bound[a]
    BY <2>1, <2>2, TakenIs DEF RoomInv, GrantOK
  <2>13. Proxied(a) # {}
    BY <2>1, <2>2 DEF Met, MetInv, MetReceiver, Proxied
  <2>14. RoomOK(a)'
    <3>1. /\ Claims(a) <= Cardinality(Proxied(a)) /\ IsFiniteSet(Proxied(a))
          /\ Taken(a) + Claims(a) <= Bound[a] + Cardinality(Proxied(a)) - 1
      BY <1>n, <2>13 DEF RoomOK
    <3>2. Cardinality(Proxied(a)) \in Nat /\ Taken(a) \in Nat /\ Claims(a) \in Nat /\ Bound[a] \in Nat
      BY <1>n, <1>t
    <3>3. /\ Claims(a)' <= Cardinality(Proxied(a))
          /\ Taken(a)' + Claims(a)' <= Bound[a] + Cardinality(Proxied(a)) - 1
      BY <2>2, <2>11, <2>12, <3>1, <3>2
    <3>. QED  BY <2>9, <2>10, <2>13, <3>1, <3>3 DEF RoomOK
  <2>15. GrantOK(t)'
    BY <2>3 DEF GrantOK
  <2>. QED  BY <1>a, <2>1, <2>2, <2>3, <2>6, <2>9, <2>14, <2>15 DEF HandLabels
<1>. QED  BY <1>1, <1>2, <1>3, <1>4, <1>5, <1>6 DEF Acts

LEMMA InitRoom == Init => RoomInv
<1>. SUFFICES ASSUME Init PROVE RoomInv
  OBVIOUS
<1>. USE ConstantsAssumption DEF Threads
<1>1. ASSUME NEW t \in Receivers PROVE GrantOK(t)
  BY DEF Init, GrantOK
<1>2. ASSUME NEW a \in Actors PROVE RoomOK(a)
  <2>1. Proxied(a) = {} /\ InHand(a) = {} /\ Opening(a) = {}
    BY DEF Init, Proxied, InHand, Opening
  <2>2. Asking(a) = {}
    BY EmptyAtFirst DEF Asking, Holding
  <2>3. FromNodes(a) = {} /\ held[a] = 0
    BY DEF Init, FromNodes
  <2>4. Taken(a) = 0 /\ Claims(a) = 0 /\ Cardinality(Proxied(a)) = 0 /\ IsFiniteSet(Proxied(a)) /\ IsFiniteSet(Asking(a))
    BY <2>1, <2>2, <2>3, FS_EmptySet DEF Taken, Claims
  <2>. QED  BY <2>1, <2>4 DEF RoomOK
<1>. QED  BY <1>1, <1>2 DEF RoomInv

(***************************************************************************)
(* A mailbox's capacity holds across nodes: what other nodes have queued,  *)
(* may queue and are about to queue never passes it by more than one for   *)
(* each of them but the first (OpenRoom's room, received, credited).       *)
(***************************************************************************)
THEOREM CapacityHoldsAcrossNodes == Spec => []RoomIsKept
<1>1. Init => Met /\ (\A a \in Actors : Kept(a)) /\ RoomInv
  BY InitMet, InitKept, InitRoom
<1>2. /\ Shape /\ Shape' /\ Flow /\ Flow' /\ Met /\ (\A a \in Actors : Kept(a)) /\ RoomInv /\ [Next]_vars
      => Met' /\ (\A a \in Actors : Kept(a))' /\ RoomInv'
  BY MetStep, CreditsStep, RoomStep
<1>3. RoomInv /\ Flow /\ Shape => RoomIsKept
  <2>. SUFFICES ASSUME RoomInv, Flow, Shape, NEW a \in Actors, Proxied(a) # {}
                PROVE  Cardinality(FromNodes(a)) + Cardinality(InHand(a)) + held[a]
                          <= Bound[a] + Cardinality(Proxied(a)) - 1
    BY DEF RoomIsKept
  <2>1. RoomOK(a)
    BY DEF RoomInv
  <2>2. Cardinality(Asking(a)) \in Nat /\ Cardinality(Proxied(a)) \in Nat
    BY <2>1, FS_CardinalityType DEF RoomOK
  <2>3. Cardinality(Opening(a)) \in Nat /\ Cardinality(InHand(a)) \in Nat
    BY OneHand DEF RoomInv
  <2>4. Cardinality(FromNodes(a)) \in Nat /\ held[a] \in Nat
    BY FromNodesIs
  <2>5. Taken(a) + Claims(a) <= Bound[a] + Cardinality(Proxied(a)) - 1
    BY <2>1 DEF RoomOK
  <2>. QED  BY <2>2, <2>3, <2>4, <2>5, ConstantsAssumption DEF Taken, Claims
<1>. QED  BY <1>1, <1>2, <1>3, ShapeIsKept, FlowIsKept, PTL DEF Spec

(***************************************************************************)
(* What is pending of a proxy.                                             *)
(***************************************************************************)
\* The frames between a node and an actor: requests, grants, messages, and their worth.
OpensFrom(n, a) == {f \in FramesOf(a) : f.kind = "open" /\ f.from = n}
BacksTo(n, a)   == {f \in FramesOf(a) : f.kind = "grant" /\ f.to = n}
MsgsFrom(n, a)  == {f \in FramesOf(a) : f.kind = "msg" /\ f.from = n}
TripOf(n, a)    == {f \in FramesOf(a) : IF f.kind = "grant" THEN f.to = n ELSE f.from = n}
FiniteTrip(q, n, a) ==
    /\ IsFiniteSet(Holding(q, OpensFrom(n, a))) /\ IsFiniteSet(Holding(q, BacksTo(n, a)))
    /\ IsFiniteSet(Holding(q, MsgsFrom(n, a))) /\ IsFiniteSet(Load(q, TripOf(n, a)))
OpenCount(q, n, a) == Cardinality(Holding(q, OpensFrom(n, a)))
BackCount(q, n, a) == Cardinality(Holding(q, BacksTo(n, a)))
MsgCount(q, n, a)  == Cardinality(Holding(q, MsgsFrom(n, a)))
TripWorth(q, n, a)  == Cardinality(Load(q, TripOf(n, a)))
SameTrip(q, r, n, a) ==
    /\ FiniteTrip(r, n, a)
    /\ OpenCount(r, n, a) = OpenCount(q, n, a) /\ BackCount(r, n, a) = BackCount(q, n, a)
    /\ MsgCount(r, n, a) = MsgCount(q, n, a) /\ TripWorth(r, n, a) = TripWorth(q, n, a)

Grown(q, r, n, a, f) ==
    /\ OpenCount(r, n, a) = OpenCount(q, n, a) + IF f \in OpensFrom(n, a) THEN 1 ELSE 0
    /\ BackCount(r, n, a) = BackCount(q, n, a) + IF f \in BacksTo(n, a) THEN 1 ELSE 0
    /\ MsgCount(r, n, a) = MsgCount(q, n, a) + IF f \in MsgsFrom(n, a) THEN 1 ELSE 0
    /\ TripWorth(r, n, a) = TripWorth(q, n, a) + IF f \in TripOf(n, a) THEN Worth(f) ELSE 0

\* The threads that have something of the two in hand.
StagingAt(n, a) == {s \in Staging(a) : Place[s] = n}
HandOf(n, a)    == {t \in InHand(a) : job[t].msg.from = n}
OpeningOf(n, a) == {t \in Opening(a) : job[t].from = n}

\* Before a proxy's first credits it has sent nothing, and one request, or its grant, is
\* on its way; from then on what is pending is counted, and there is no other request.
PendingIs(p, c, sg, h, qd, op, ho, hb, hm, l) ==
    \/ p = 0 /\ c = 0 /\ sg = 0 /\ h = 0 /\ qd = 0 /\ hm = 0 /\ op + ho + hb <= 1
    \/ p + c > 0 /\ op = 0 /\ ho = 0 /\ p = sg + h + qd + l
PendingOK(n, a) ==
    LET i == proxies[n][a] IN
    i # 0 /\ a \notin died /\ lost[a] = 0 =>
        /\ FiniteTrip(Q, n, a)
        /\ PendingIs(pending[n][i], credits[n][i], Cardinality(StagingAt(n, a)), Cardinality(HandOf(n, a)),
                     Cardinality(QueuedBy(n, a)), Cardinality(OpeningOf(n, a)),
                     OpenCount(Q, n, a), BackCount(Q, n, a), MsgCount(Q, n, a), TripWorth(Q, n, a))
\* Only what a proxy sent is pending.
OwnedOK == \A n \in Nodes : \A i \in Entries : pending[n][i] # 0 => \E a \in Actors : proxies[n][a] = i
PendingInv == OwnedOK /\ \A n \in Nodes, a \in Actors : PendingOK(n, a)

\* The same of the next state, with the entry i.
PendingNext(n, a, i) ==
    /\ FiniteTrip(Q', n, a)
    /\ PendingIs(pending'[n][i], credits'[n][i], Cardinality(StagingAt(n, a)'), Cardinality(HandOf(n, a)'),
                 Cardinality(QueuedBy(n, a)'), Cardinality(OpeningOf(n, a)'),
                 OpenCount(Q', n, a), BackCount(Q', n, a), MsgCount(Q', n, a), TripWorth(Q', n, a))
LEMMA PendingIsNext ==
    ASSUME NEW n, NEW a, NEW i, i = proxies'[n][a],
           i # 0 /\ a \notin died' /\ lost'[a] = 0 => PendingNext(n, a, i)
    PROVE  PendingOK(n, a)'
<1>1. /\ FiniteTrip(Q, n, a)' = FiniteTrip(Q', n, a)
      /\ OpenCount(Q, n, a)' = OpenCount(Q', n, a) /\ BackCount(Q, n, a)' = BackCount(Q', n, a)
      /\ MsgCount(Q, n, a)' = MsgCount(Q', n, a) /\ TripWorth(Q, n, a)' = TripWorth(Q', n, a)
  BY ZenonT(30) DEF FiniteTrip, OpenCount, BackCount, MsgCount, TripWorth, Holding, Load, SlotsIn, At, Worth,
     OpensFrom, BacksTo, MsgsFrom, TripOf, FramesOf, Frame
<1>. QED  BY ZenonT(30), <1>1 DEF PendingOK, PendingNext, PendingIs

LEMMA TripIs ==
    ASSUME NEW f \in Frame, NEW n, NEW a
    PROVE  /\ f \in OpensFrom(n, a) <=> f.actor = a /\ f.kind = "open" /\ f.from = n
           /\ f \in BacksTo(n, a) <=> f.actor = a /\ f.kind = "grant" /\ f.to = n
           /\ f \in MsgsFrom(n, a) <=> f.actor = a /\ f.kind = "msg" /\ f.from = n
           /\ f \in TripOf(n, a) <=> f.actor = a /\ IF f.kind = "grant" THEN f.to = n ELSE f.from = n
  BY DEF OpensFrom, BacksTo, MsgsFrom, TripOf, FramesOf
LEMMA TripMoves ==
    ASSUME NEW q, NEW r, NEW n, NEW a, FiniteTrip(q, n, a)
    PROVE  /\ Moves(q, r) => SameTrip(q, r, n, a)
           /\ \A f \in Frame : Adds(q, r, f) => FiniteTrip(r, n, a) /\ Grown(q, r, n, a, f)
           /\ \A f \in Frame : Adds(r, q, f) => FiniteTrip(r, n, a) /\ Grown(r, q, n, a, f)
<1>. DEFINE Kinds == {OpensFrom(n, a), BacksTo(n, a), MsgsFrom(n, a)}
<1>0. \A F \in Kinds : IsFiniteSet(Holding(q, F))
  BY DEF FiniteTrip
<1>1. ASSUME NEW F \in Kinds
      PROVE  /\ Moves(q, r) => IsFiniteSet(Holding(r, F)) /\ Cardinality(Holding(r, F)) = Cardinality(Holding(q, F))
             /\ \A f : Adds(q, r, f) =>
                  /\ IsFiniteSet(Holding(r, F))
                  /\ Cardinality(Holding(r, F)) = Cardinality(Holding(q, F)) + IF f \in F THEN 1 ELSE 0
             /\ \A f : Adds(r, q, f) =>
                  /\ IsFiniteSet(Holding(r, F))
                  /\ Cardinality(Holding(q, F)) = Cardinality(Holding(r, F)) + IF f \in F THEN 1 ELSE 0
  <2>. HIDE DEF Kinds
  <2>1. IsFiniteSet(Holding(q, F))
    BY <1>0
  <2>. QED  BY ZenonT(30), <2>1, HoldingMoves
<1>. DEFINE T == TripOf(n, a)
<1>2. IsFiniteSet(Load(q, T))
  BY DEF FiniteTrip
<1>t. \A f \in Frame : Worth(f) \in Nat
  BY FrameIs
<1>. HIDE DEF T
<1>3. Moves(q, r) => IsFiniteSet(Load(r, T)) /\ Cardinality(Load(r, T)) = Cardinality(Load(q, T))
  BY <1>2, MovedLoad
<1>4. ASSUME NEW f \in Frame, Adds(q, r, f)
      PROVE  /\ IsFiniteSet(Load(r, T))
             /\ Cardinality(Load(r, T)) = Cardinality(Load(q, T)) + IF f \in T THEN Worth(f) ELSE 0
  BY <1>2, <1>4, <1>t, AddedLoad
<1>5. ASSUME NEW f \in Frame, Adds(r, q, f)
      PROVE  /\ IsFiniteSet(Load(r, T))
             /\ Cardinality(Load(q, T)) = Cardinality(Load(r, T)) + IF f \in T THEN Worth(f) ELSE 0
  <2>1. IsFiniteSet(Load(r, T))
    BY <1>2, <1>5, <1>t, DroppedLoad
  <2>. QED  BY <1>5, <1>t, <2>1, AddedLoad
<1>6. Moves(q, r) => SameTrip(q, r, n, a)
  BY <1>1, <1>3 DEF SameTrip, FiniteTrip, OpenCount, BackCount, MsgCount, TripWorth, T
<1>7. ASSUME NEW f \in Frame, Adds(q, r, f) PROVE FiniteTrip(r, n, a) /\ Grown(q, r, n, a, f)
  BY <1>1, <1>4, <1>7 DEF Grown, FiniteTrip, OpenCount, BackCount, MsgCount, TripWorth, T
<1>8. ASSUME NEW f \in Frame, Adds(r, q, f) PROVE FiniteTrip(r, n, a) /\ Grown(r, q, n, a, f)
  BY <1>1, <1>5, <1>8 DEF Grown, FiniteTrip, OpenCount, BackCount, MsgCount, TripWorth, T
<1>. QED  BY <1>6, <1>7, <1>8
LEMMA TripCounts ==
    ASSUME NEW q, NEW n, NEW a, FiniteTrip(q, n, a)
    PROVE  /\ OpenCount(q, n, a) \in Nat /\ BackCount(q, n, a) \in Nat /\ MsgCount(q, n, a) \in Nat /\ TripWorth(q, n, a) \in Nat
           /\ OpenCount(q, n, a) = 0 /\ BackCount(q, n, a) = 0 /\ MsgCount(q, n, a) = 0 /\ (\A x \in SlotsIn(q) : At(q, x) \in Frame)
                => TripWorth(q, n, a) = 0
<1>1. /\ OpenCount(q, n, a) \in Nat /\ BackCount(q, n, a) \in Nat /\ MsgCount(q, n, a) \in Nat /\ TripWorth(q, n, a) \in Nat
  BY FS_CardinalityType DEF FiniteTrip, OpenCount, BackCount, MsgCount, TripWorth
<1>2. ASSUME OpenCount(q, n, a) = 0, BackCount(q, n, a) = 0, MsgCount(q, n, a) = 0, \A x \in SlotsIn(q) : At(q, x) \in Frame
      PROVE  TripWorth(q, n, a) = 0
  <2>1. /\ Holding(q, OpensFrom(n, a)) = {} /\ Holding(q, BacksTo(n, a)) = {} /\ Holding(q, MsgsFrom(n, a)) = {}
    BY <1>2, FS_EmptySet DEF FiniteTrip, OpenCount, BackCount, MsgCount
  <2>2. \A x \in SlotsIn(q) : At(q, x) \notin TripOf(n, a)
    <3>. TAKE x \in SlotsIn(q)
    <3>1. PICK f \in Frame : f = At(q, x)
      BY <1>2
    <3>2. f \notin OpensFrom(n, a) /\ f \notin BacksTo(n, a) /\ f \notin MsgsFrom(n, a)
      BY <2>1, <3>1 DEF Holding
    <3>. QED  BY <3>1, <3>2, FrameIs, TripIs
  <2>3. Load(q, TripOf(n, a)) = {}
    BY <2>2 DEF Load
  <2>. QED  BY <2>3, FS_EmptySet DEF TripWorth
<1>. QED  BY <1>1, <1>2
\* A thread's step moves that thread only.
LEMMA SetsMove ==
    ASSUME NEW t \in Threads, \A u \in Threads : u # t => pc'[u] = pc[u] /\ job'[u] = job[u], NEW n, NEW a
    PROVE  /\ StagingAt(n, a)' \ {t} = StagingAt(n, a) \ {t}
           /\ HandOf(n, a)' \ {t} = HandOf(n, a) \ {t}
           /\ OpeningOf(n, a)' \ {t} = OpeningOf(n, a) \ {t}
<1>1. /\ \A u \in Senders : u # t => (u \in StagingAt(n, a)' <=> u \in StagingAt(n, a))
      /\ \A u \in Receivers : u # t => (u \in HandOf(n, a)' <=> u \in HandOf(n, a))
      /\ \A u \in Receivers : u # t => (u \in OpeningOf(n, a)' <=> u \in OpeningOf(n, a))
  BY DEF StagingAt, Staging, HandOf, InHand, OpeningOf, Opening, Threads
<1>. QED  BY <1>1 DEF StagingAt, Staging, HandOf, InHand, OpeningOf, Opening
LEMMA SetsCount ==
    ASSUME NEW t \in Threads, \A u \in Threads : u # t => pc'[u] = pc[u] /\ job'[u] = job[u], NEW n, NEW a,
           IsFiniteSet(StagingAt(n, a)), IsFiniteSet(HandOf(n, a)), IsFiniteSet(OpeningOf(n, a))
    PROVE  /\ Cardinality(StagingAt(n, a)') \in Nat /\ Cardinality(HandOf(n, a)') \in Nat
           /\ Cardinality(OpeningOf(n, a)') \in Nat
           /\ Cardinality(StagingAt(n, a)') + (IF t \in StagingAt(n, a) THEN 1 ELSE 0)
                = Cardinality(StagingAt(n, a)) + IF t \in StagingAt(n, a)' THEN 1 ELSE 0
           /\ Cardinality(HandOf(n, a)') + (IF t \in HandOf(n, a) THEN 1 ELSE 0)
                = Cardinality(HandOf(n, a)) + IF t \in HandOf(n, a)' THEN 1 ELSE 0
           /\ Cardinality(OpeningOf(n, a)') + (IF t \in OpeningOf(n, a) THEN 1 ELSE 0)
                = Cardinality(OpeningOf(n, a)) + IF t \in OpeningOf(n, a)' THEN 1 ELSE 0
<1>1. /\ StagingAt(n, a) \ {t} = StagingAt(n, a)' \ {t} /\ HandOf(n, a) \ {t} = HandOf(n, a)' \ {t}
      /\ OpeningOf(n, a) \ {t} = OpeningOf(n, a)' \ {t}
  BY SetsMove
<1>2. /\ Cardinality(StagingAt(n, a)') \in Nat
      /\ Cardinality(StagingAt(n, a)') + (IF t \in StagingAt(n, a) THEN 1 ELSE 0)
           = Cardinality(StagingAt(n, a)) + IF t \in StagingAt(n, a)' THEN 1 ELSE 0
  BY <1>1, OneMoves
<1>3. /\ Cardinality(HandOf(n, a)') \in Nat
      /\ Cardinality(HandOf(n, a)') + (IF t \in HandOf(n, a) THEN 1 ELSE 0)
           = Cardinality(HandOf(n, a)) + IF t \in HandOf(n, a)' THEN 1 ELSE 0
  BY <1>1, OneMoves
<1>4. /\ Cardinality(OpeningOf(n, a)') \in Nat
      /\ Cardinality(OpeningOf(n, a)') + (IF t \in OpeningOf(n, a) THEN 1 ELSE 0)
           = Cardinality(OpeningOf(n, a)) + IF t \in OpeningOf(n, a)' THEN 1 ELSE 0
  BY <1>1, OneMoves
<1>. QED  BY <1>2, <1>3, <1>4

\* The dead stay dead and what is lost stays lost.
LEMMA NeverBack ==
    ASSUME Flow, Met, [Next]_vars, NEW a \in Actors, a \notin died', lost'[a] = 0
    PROVE  a \notin died /\ lost[a] = 0
<1>t. lost \in [Actors -> Nat]
  BY DEF Flow, CountsOK
<1>1. CASE \E b \in Actors : Die(b)
  BY <1>1 DEF Die, history
<1>2. CASE \E m, n \in Nodes : Lose(m, n)
  <2>1. PICK m, n \in Nodes : Lose(m, n)
    BY <1>2
  <2>2. PICK f : f = Head(wire[m][n])
    OBVIOUS
  <2>3. Leaves(m, n)
    BY <2>1 DEF Lose, Leaves, staged, thread
  <2>4. f \in Frame
    BY <2>2, <2>3, HeadMet DEF Met
  <2>5. lost' = [lost EXCEPT ![f.actor] = @ + Worth(f)] /\ died' = died
    BY <2>1, <2>2 DEF Lose, boxes
  <2>6. Worth(f) \in Nat /\ f.actor \in Actors
    BY <2>4, FrameIs
  <2>7. lost[a] \in Nat /\ lost'[a] = lost[a] + IF f.actor = a THEN Worth(f) ELSE 0
    BY <1>t, <2>5, <2>6
  <2>. QED  BY <2>5, <2>6, <2>7
<1>3. CASE ~(\E b \in Actors : Die(b)) /\ ~\E m, n \in Nodes : Lose(m, n)
  <2>1. died' = died /\ lost' = lost
    BY ZenonT(30), <1>3 DEF Next, Sender, Receiver, Worker, Flush, ImportFinds, Send, ImportMakes, ImportRegisters, ImportMarks,
       SendAgain, TakeCredit, LooksBefore, LooksAfter, LooksIfDead, ParkEnds, Stage, DeliverMsg, DeliverOpen, DeliverGrant,
       EnqueueRemote, OpenRoom, OpenGrants, Dequeue, AddRoute, NodeLeft, SetOutbound, KillNext, TakeOutbox, WireOut,
       LocalSend, boxes, history, vars
  <2>. QED  BY <2>1
<1>. QED  BY <1>1, <1>2, <1>3

LEMMA PendingSame ==
    ASSUME [Next]_vars, ~\E s \in Senders : TakeCredit(s), ~\E t \in Receivers, m \in Nodes : DeliverGrant(t, m)
    PROVE  pending' = pending
  BY ZenonT(30) DEF Next, Sender, Receiver, Worker, Flush, ImportFinds, Send, ImportMakes, ImportRegisters, ImportMarks,
     SendAgain, LooksBefore, LooksAfter, LooksIfDead, ParkEnds, Stage, DeliverMsg, DeliverOpen,
     EnqueueRemote, OpenRoom, OpenGrants, Dequeue, AddRoute, NodeLeft, SetOutbound, KillNext, TakeOutbox, WireOut,
     LocalSend, Die, Lose, books, vars
LEMMA MailSame ==
    ASSUME [Next]_vars, ~\E w \in Workers, a \in Actors : Dequeue(w, a), ~\E t \in Receivers : EnqueueRemote(t),
           ~\E a \in Actors : LocalSend(a) \/ Die(a)
    PROVE  mailbox' = mailbox
  BY ZenonT(30) DEF Next, Sender, Receiver, Worker, Flush, ImportFinds, Send, ImportMakes, ImportRegisters, ImportMarks,
     SendAgain, TakeCredit, LooksBefore, LooksAfter, LooksIfDead, ParkEnds, Stage, DeliverMsg, DeliverOpen, DeliverGrant,
     OpenRoom, OpenGrants, AddRoute, NodeLeft, SetOutbound, KillNext, TakeOutbox, WireOut, Lose, boxes, vars
\* Only a credit that is spent makes something pending.
LEMMA PendingGrows ==
    ASSUME Shape, Flow, [Next]_vars, ~\E s \in Senders : TakeCredit(s), NEW n \in Nodes, NEW i \in Entries, pending'[n][i] # 0
    PROVE  pending[n][i] # 0
<1>t. pending \in [Nodes -> [Entries -> Nat]]
  BY DEF Flow, CountsOK
<1>1. CASE \E t \in Receivers, m \in Nodes : DeliverGrant(t, m)
  <2>1. PICK t \in Receivers, m \in Nodes : DeliverGrant(t, m)
    BY <1>1
  <2>2. PICK f, k, j : f = Head(wire[m][Place[t]]) /\ k = Place[t] /\ j = proxies[k][f.actor]
    OBVIOUS
  <2>3. \/ pending' = pending
        \/ pending' = [pending EXCEPT ![k][j] = IF @ > f.n THEN @ - f.n ELSE 0]
    BY ZenonT(30), <2>1, <2>2 DEF DeliverGrant, Heard
  <2>4. CASE pending' = [pending EXCEPT ![k][j] = IF @ > f.n THEN @ - f.n ELSE 0]
    <3>1. CASE k = n /\ j = i
      <4>1. pending'[n][i] = IF pending[n][i] > f.n THEN pending[n][i] - f.n ELSE 0
        BY <1>t, <2>4, <3>1
      <4>2. f \in Frame /\ f.kind = "grant"
        <5>1. Leaves(m, Place[t]) /\ Place[t] \in Nodes
          BY <2>1, TakesLeaves
        <5>2. wire[m][Place[t]] \in Seq(Frame) /\ wire[m][Place[t]] # <<>>
          BY <5>1 DEF Leaves, Flow, QueuesOK
        <5>3. PICK q : q = wire[m][Place[t]]
          OBVIOUS
        <5>4. q \in Seq(Frame) /\ q # <<>> /\ f = Head(q)
          BY <2>2, <5>2, <5>3
        <5>5. f \in Frame
          BY <5>4
        <5>. QED  BY <2>1, <2>2, <5>5 DEF DeliverGrant, Heard
      <4>3. f.n \in Nat /\ pending[n][i] \in Nat
        BY <1>t, <4>2, FrameIs
      <4>. QED  BY <4>1, <4>3
    <3>2. CASE ~(k = n /\ j = i)
      BY <1>t, <2>4, <3>2
    <3>. QED  BY <3>1, <3>2
  <2>. QED  BY <2>3, <2>4
<1>2. CASE ~\E t \in Receivers, m \in Nodes : DeliverGrant(t, m)
  BY <1>2, PendingSame
<1>. QED  BY <1>1, <1>2
LEMMA OwnedStep == Shape /\ Flow /\ Met /\ OwnedOK /\ [Next]_vars => OwnedOK'
<1>. SUFFICES ASSUME Shape, Flow, Met, OwnedOK, [Next]_vars, NEW n \in Nodes, NEW i \in Entries, pending'[n][i] # 0
              PROVE  \E a \in Actors : proxies'[n][a] = i
  BY DEF OwnedOK
<1>0. Remembers /\ i # 0
  BY RemembersStep DEF Entries
<1>1. ASSUME pending[n][i] # 0 PROVE \E a \in Actors : proxies'[n][a] = i
  <2>1. PICK a \in Actors : proxies[n][a] = i
    BY <1>1 DEF OwnedOK
  <2>2. proxies'[n][a] = i
    BY <1>0, <2>1 DEF Remembers
  <2>. QED  BY <2>2
<1>2. ASSUME NEW s \in Senders, TakeCredit(s), pending[n][i] = 0 PROVE \E a \in Actors : proxies'[n][a] = i
  <2>1. /\ Place[s] \in Nodes /\ job[s].at \in Actors /\ job[s].idx \in Entries /\ job[s].idx = proxies[Place[s]][job[s].at]
        /\ pending \in [Nodes -> [Entries -> Nat]]
    BY <1>2, ConstantsAssumption
       DEF Threads, TakeCredit, Shape, JobsOK, SenderOK, Met, MetInv, MetSender, SendLabels, Flow, CountsOK
  <2>2. pending' = pending \/ pending' = [pending EXCEPT ![Place[s]][job[s].idx] = @ + 1]
    BY <1>2 DEF TakeCredit, Counted
  <2>3. Place[s] = n /\ job[s].idx = i
    BY <1>2, <2>1, <2>2
  <2>4. proxies'[n][job[s].at] = i
    BY <1>0, <2>1, <2>3 DEF Remembers
  <2>. QED  BY <2>1, <2>4
<1>. QED  BY <1>1, <1>2, PendingGrows

LEMMA PendingStep ==
    ASSUME Shape, Flow, Flow', Met, \A b \in Actors : Kept(b), RoomInv, PendingInv, [Next]_vars,
           NEW n \in Nodes, NEW a \in Actors
    PROVE  PendingOK(n, a)'
<1>. USE ConstantsAssumption DEF Threads
<1>. SUFFICES ASSUME NEW i, i = proxies'[n][a], i # 0, a \notin died', lost'[a] = 0 PROVE PendingNext(n, a, i)
  BY PendingIsNext
<1>0. Remembers /\ a \notin died /\ lost[a] = 0
  BY RemembersStep, NeverBack
<1>t. /\ pc \in [Threads -> Labels] /\ DOMAIN job = Threads
      /\ proxies \in [Nodes -> [Actors -> 0..MaxEntries]]
      /\ credits \in [Nodes -> [Entries -> Nat]] /\ pending \in [Nodes -> [Entries -> Nat]]
      /\ mailbox \in [Actors -> Seq(Nodes \cup {Local})]
  BY DEF Shape, TablesOK, ThreadsOK, BooksOK, Flow, BoxesOK, CountsOK
<1>f. /\ IsFiniteSet(StagingAt(n, a)) /\ IsFiniteSet(HandOf(n, a)) /\ IsFiniteSet(OpeningOf(n, a))
      /\ Cardinality(StagingAt(n, a)) \in Nat /\ Cardinality(HandOf(n, a)) \in Nat /\ Cardinality(OpeningOf(n, a)) \in Nat
  <2>1. IsFiniteSet(Staging(a)) /\ IsFiniteSet(InHand(a)) /\ IsFiniteSet(Opening(a))
    BY OneHand DEF Kept, Finite, RoomInv
  <2>2. /\ StagingAt(n, a) \in SUBSET Staging(a) /\ HandOf(n, a) \in SUBSET InHand(a)
        /\ OpeningOf(n, a) \in SUBSET Opening(a)
    BY DEF StagingAt, HandOf, OpeningOf
  <2>. QED  BY <2>1, <2>2, FS_Subset, FS_CardinalityType
<1>q. /\ QueuedBy(n, a) = Marks(mailbox[a], {n}) /\ QueuedBy(n, a)' = Marks(mailbox'[a], {n})
      /\ Cardinality(QueuedBy(n, a)) \in Nat /\ Cardinality(QueuedBy(n, a)') \in Nat
      /\ mailbox[a] \in Seq(Nodes \cup {Local}) /\ mailbox'[a] \in Seq(Nodes \cup {Local})
  <2>1. QueuedBy(n, a) = Marks(mailbox[a], {n}) /\ QueuedBy(n, a)' = Marks(mailbox'[a], {n})
    BY DEF QueuedBy, Marks
  <2>2. mailbox[a] \in Seq(Nodes \cup {Local}) /\ mailbox'[a] \in Seq(Nodes \cup {Local})
    BY DEF Flow, BoxesOK
  <2>. QED  BY <2>1, <2>2, MarksAre
\* A new proxy: nothing is on its way yet.
<1>1. CASE proxies[n][a] = 0
  <2>1. PICK s \in Senders : ImportRegisters(s) /\ ~ImportedNow(Place[s], job[s].at)
    BY <1>1, ProxiesRest DEF Registers
  <2>2. PICK k, b, j, f : k = Place[s] /\ b = job[s].at /\ j = job[s].idx /\ f = OpenFrame(b, k)
    OBVIOUS
  <2>3. k \in Nodes /\ b \in Actors /\ j \in Entries /\ f \in Frame /\ Adds(Q, Q', f)
    BY <2>1, <2>2, RegisterAdds
  <2>4. /\ proxies' = [proxies EXCEPT ![k][b] = j] /\ credits' = [credits EXCEPT ![k][j] = 0]
        /\ pending' = pending /\ mailbox' = mailbox /\ pc[s] = "register"
    BY <2>1, <2>2 DEF ImportRegisters, boxes
  <2>5. k = n /\ b = a /\ j = i
    BY <1>t, <1>1, <2>3, <2>4
  <2>6. credits'[n][i] = 0 /\ pending'[n][i] = 0
    <3>0. Fresh(s)
      BY DEF Met, FreshInv
    <3>1. \A c \in Actors : proxies[n][c] # i
      BY <2>2, <2>4, <2>5, <3>0 DEF Fresh
    <3>2. pending[n][i] = 0
      BY <2>3, <2>5, <3>1 DEF PendingInv, OwnedOK
    <3>. QED  BY <1>t, <2>3, <2>4, <2>5, <3>2
  <2>7. StagingAt(n, a) = {} /\ HandOf(n, a) = {} /\ OpeningOf(n, a) = {} /\ QueuedBy(n, a) = {}
    <3>1. StagingAt(n, a) = {}
      <4>1. \A u \in Senders : pc[u] = "stage" => job[u].idx \in Entries /\ job[u].idx = proxies[Place[u]][job[u].at]
        BY DEF Shape, JobsOK, SenderOK, Met, MetInv, MetSender, SendLabels
      <4>. QED  BY <1>1, <4>1 DEF StagingAt, Staging, Entries
    <3>2. HandOf(n, a) = {}
      BY <1>1 DEF HandOf, InHand, Met, MetInv, MetReceiver
    <3>3. OpeningOf(n, a) = {}
      BY <1>1 DEF OpeningOf, Opening, Met, MetInv, MetReceiver
    <3>4. QueuedBy(n, a) = {}
      BY <1>1 DEF QueuedBy, Met, MetInv, MetBox
    <3>. QED  BY <3>1, <3>2, <3>3, <3>4
  <2>8. StagingAt(n, a)' = {} /\ HandOf(n, a)' = {} /\ OpeningOf(n, a)' = {} /\ QueuedBy(n, a)' = {}
    <3>1. pc'[s] = "mark"
      BY <1>t, <2>1 DEF ImportRegisters, Goto
    <3>2. \A u \in Threads : u # s => pc'[u] = pc[u] /\ job'[u] = job[u]
      BY <2>1, OthersRest DEF Sender
    <3>3. s \notin StagingAt(n, a)' /\ s \notin HandOf(n, a)' /\ s \notin OpeningOf(n, a)'
      BY <3>1 DEF StagingAt, Staging, HandOf, InHand, OpeningOf, Opening
    <3>4. /\ StagingAt(n, a)' \ {s} = StagingAt(n, a) \ {s} /\ HandOf(n, a)' \ {s} = HandOf(n, a) \ {s}
          /\ OpeningOf(n, a)' \ {s} = OpeningOf(n, a) \ {s}
      BY <3>2, SetsMove
    <3>5. QueuedBy(n, a)' = QueuedBy(n, a)
      BY <2>4 DEF QueuedBy
    <3>. QED  BY <2>7, <3>3, <3>4, <3>5
  <2>9. FiniteTrip(Q, n, a) /\ OpenCount(Q, n, a) = 0 /\ BackCount(Q, n, a) = 0 /\ MsgCount(Q, n, a) = 0 /\ TripWorth(Q, n, a) = 0
    <3>1. \A x \in SlotsIn(Q) : At(Q, x) \notin TripOf(n, a)
      <4>. TAKE x \in SlotsIn(Q)
      <4>1. PICK g : g = At(Q, x) /\ g \in FramesIn(Q) /\ g \in Frame /\ MetFrame(g)
        BY FramesInQ DEF FramesIn, Met, MetInv, Flow
      <4>. QED  BY <1>1, <4>1, TripIs DEF MetFrame
    <3>2. \A g : g \in OpensFrom(n, a) \/ g \in BacksTo(n, a) \/ g \in MsgsFrom(n, a) => g \in TripOf(n, a)
      BY DEF OpensFrom, BacksTo, MsgsFrom, TripOf
    <3>3. /\ Holding(Q, OpensFrom(n, a)) = {} /\ Holding(Q, BacksTo(n, a)) = {} /\ Holding(Q, MsgsFrom(n, a)) = {}
      BY <3>1, <3>2 DEF Holding
    <3>4. Load(Q, TripOf(n, a)) = {}
      BY <3>1 DEF Load
    <3>. QED  BY <3>3, <3>4, FS_EmptySet DEF FiniteTrip, OpenCount, BackCount, MsgCount, TripWorth
  <2>10. f.kind = "open" /\ f.actor = a /\ f.from = n
    BY <2>2, <2>5 DEF OpenFrame
  <2>11. f \notin BacksTo(n, a) /\ f \notin MsgsFrom(n, a) /\ f \in OpensFrom(n, a) /\ Worth(f) = 0
    BY <2>3, <2>10, TripIs DEF Worth
  <2>12. /\ FiniteTrip(Q', n, a) /\ OpenCount(Q', n, a) = 1 /\ BackCount(Q', n, a) = 0 /\ MsgCount(Q', n, a) = 0
    <3>1. FiniteTrip(Q', n, a) /\ Grown(Q, Q', n, a, f)
      BY ZenonT(30), <2>3, <2>9, TripMoves
    <3>. QED  BY <2>9, <2>11, <3>1 DEF Grown
  <2>13. /\ Cardinality(StagingAt(n, a)') = 0 /\ Cardinality(HandOf(n, a)') = 0 /\ Cardinality(OpeningOf(n, a)') = 0
         /\ Cardinality(QueuedBy(n, a)') = 0
    BY <2>8, FS_EmptySet
  <2>. QED  BY <2>6, <2>12, <2>13 DEF PendingNext, PendingIs
<1>2. CASE proxies[n][a] # 0
  <2>. DEFINE p == pending[n][i]  c == credits[n][i]
              sg == Cardinality(StagingAt(n, a))  h == Cardinality(HandOf(n, a))
              qd == Cardinality(QueuedBy(n, a))   op == Cardinality(OpeningOf(n, a))
              ho == OpenCount(Q, n, a)  hb == BackCount(Q, n, a)  hm == MsgCount(Q, n, a)  l == TripWorth(Q, n, a)
  <2>0. proxies[n][a] = i /\ i \in Entries
    BY <1>0, <1>2, <1>t DEF Remembers, Entries
  <2>n. /\ FiniteTrip(Q, n, a) /\ PendingIs(p, c, sg, h, qd, op, ho, hb, hm, l)
        /\ p \in Nat /\ c \in Nat /\ sg \in Nat /\ h \in Nat /\ qd \in Nat /\ op \in Nat
        /\ ho \in Nat /\ hb \in Nat /\ hm \in Nat /\ l \in Nat
    <3>1. FiniteTrip(Q, n, a) /\ PendingIs(p, c, sg, h, qd, op, ho, hb, hm, l)
      BY <1>0, <1>2, <2>0 DEF PendingInv, PendingOK
    <3>. QED  BY <1>f, <1>q, <1>t, <2>0, <3>1, TripCounts
  <2>x. /\ p = pending[n][i] /\ c = credits[n][i] /\ sg = Cardinality(StagingAt(n, a)) /\ h = Cardinality(HandOf(n, a))
        /\ qd = Cardinality(QueuedBy(n, a)) /\ op = Cardinality(OpeningOf(n, a))
        /\ ho = OpenCount(Q, n, a) /\ hb = BackCount(Q, n, a) /\ hm = MsgCount(Q, n, a) /\ l = TripWorth(Q, n, a)
    OBVIOUS
  <2>. HIDE DEF p, c, sg, h, qd, op, ho, hb, hm, l
  \* Nothing of this proxy's moves.
  <2>s. ASSUME pending'[n][i] = p, credits'[n][i] = c, SameTrip(Q, Q', n, a), StagingAt(n, a)' = StagingAt(n, a),
               HandOf(n, a)' = HandOf(n, a), OpeningOf(n, a)' = OpeningOf(n, a), Cardinality(QueuedBy(n, a)') = qd
        PROVE  PendingNext(n, a, i)
    BY <2>n, <2>s, <2>x DEF PendingNext, PendingIs, SameTrip
  <2>m. Moves(Q, Q') => SameTrip(Q, Q', n, a)
    BY <2>n, TripMoves
  <2>a. ASSUME NEW f \in Frame, Adds(Q, Q', f)
        PROVE  /\ FiniteTrip(Q', n, a)
               /\ OpenCount(Q', n, a) = ho + IF f \in OpensFrom(n, a) THEN 1 ELSE 0
               /\ BackCount(Q', n, a) = hb + IF f \in BacksTo(n, a) THEN 1 ELSE 0
               /\ MsgCount(Q', n, a) = hm + IF f \in MsgsFrom(n, a) THEN 1 ELSE 0
               /\ TripWorth(Q', n, a) = l + IF f \in TripOf(n, a) THEN Worth(f) ELSE 0
    <3>1. FiniteTrip(Q', n, a) /\ Grown(Q, Q', n, a, f)
      BY ZenonT(30), <2>a, <2>n, TripMoves
    <3>. QED  BY <2>x, <3>1 DEF Grown
  <2>d. ASSUME NEW f \in Frame, Adds(Q', Q, f)
        PROVE  /\ FiniteTrip(Q', n, a)
               /\ ho = OpenCount(Q', n, a) + IF f \in OpensFrom(n, a) THEN 1 ELSE 0
               /\ hb = BackCount(Q', n, a) + IF f \in BacksTo(n, a) THEN 1 ELSE 0
               /\ hm = MsgCount(Q', n, a) + IF f \in MsgsFrom(n, a) THEN 1 ELSE 0
               /\ l = TripWorth(Q', n, a) + IF f \in TripOf(n, a) THEN Worth(f) ELSE 0
               /\ OpenCount(Q', n, a) \in Nat /\ BackCount(Q', n, a) \in Nat /\ MsgCount(Q', n, a) \in Nat
               /\ TripWorth(Q', n, a) \in Nat
    <3>1. FiniteTrip(Q', n, a) /\ Grown(Q', Q, n, a, f)
      BY ZenonT(30), <2>d, <2>n, TripMoves
    <3>. QED  BY <2>x, <3>1, TripCounts DEF Grown
  <2>b. mailbox' = mailbox => Cardinality(QueuedBy(n, a)') = qd
    BY <1>q, <2>x
  <2>e. ASSUME NEW y \in Nodes \cup {Local}, mailbox'[a] = Append(mailbox[a], y)
        PROVE  Cardinality(QueuedBy(n, a)') = qd + IF y = n THEN 1 ELSE 0
    BY <1>q, <2>e, <2>x, MarksAppended
  \* The thread t moves, and is none of those that have something of this proxy in hand.
  <2>w. ASSUME NEW t \in Threads, \A u \in Threads : u # t => pc'[u] = pc[u] /\ job'[u] = job[u],
               t \notin StagingAt(n, a), t \notin StagingAt(n, a)', t \notin HandOf(n, a), t \notin HandOf(n, a)',
               t \notin OpeningOf(n, a), t \notin OpeningOf(n, a)'
        PROVE  /\ StagingAt(n, a)' = StagingAt(n, a) /\ HandOf(n, a)' = HandOf(n, a)
               /\ OpeningOf(n, a)' = OpeningOf(n, a)
    <3>1. /\ StagingAt(n, a)' \ {t} = StagingAt(n, a) \ {t}
          /\ HandOf(n, a)' \ {t} = HandOf(n, a) \ {t}
          /\ OpeningOf(n, a)' \ {t} = OpeningOf(n, a) \ {t}
      BY <2>w, SetsMove
    <3>0. ASSUME NEW S, NEW T, S \ {t} = T \ {t}, t \notin S, t \notin T PROVE S = T
      <4>1. S = S \ {t} /\ T = T \ {t}
        BY <3>0
      <4>. QED  BY <3>0, <4>1
    <3>2. StagingAt(n, a)' = StagingAt(n, a)
      BY ZenonT(30), <2>w, <3>0, <3>1
    <3>3. HandOf(n, a)' = HandOf(n, a)
      BY ZenonT(30), <2>w, <3>0, <3>1
    <3>4. OpeningOf(n, a)' = OpeningOf(n, a)
      BY ZenonT(30), <2>w, <3>0, <3>1
    <3>. QED  BY <3>2, <3>3, <3>4
  <2>1. ASSUME NEW s \in Senders, ImportRegisters(s), ~ImportedNow(Place[s], job[s].at) PROVE PendingNext(n, a, i)
    <3>1. PICK k, b, j, f : k = Place[s] /\ b = job[s].at /\ j = job[s].idx /\ f = OpenFrame(b, k)
      OBVIOUS
    <3>2. k \in Nodes /\ b \in Actors /\ j \in Entries /\ f \in Frame /\ Adds(Q, Q', f)
      BY <2>1, <3>1, RegisterAdds
    <3>3. /\ proxies[k][b] = 0 /\ credits' = [credits EXCEPT ![k][j] = 0]
          /\ pending' = pending /\ mailbox' = mailbox /\ pc[s] = "register"
      BY <2>1, <3>1 DEF ImportRegisters, ImportedNow, boxes
    <3>4. ~(k = n /\ b = a) /\ ~(k = n /\ j = i)
      BY <1>2, <2>0, <3>1, <3>3 DEF Met, FreshInv, Fresh
    <3>5. pending'[n][i] = p /\ credits'[n][i] = c
      BY <1>t, <2>0, <2>x, <3>2, <3>3, <3>4
    <3>6. f.kind = "open" /\ f.actor = b /\ f.from = k
      BY <3>1 DEF OpenFrame
    <3>7. f \notin OpensFrom(n, a) /\ f \notin BacksTo(n, a) /\ f \notin MsgsFrom(n, a) /\ f \notin TripOf(n, a)
      BY <3>2, <3>4, <3>6, TripIs
    <3>8. SameTrip(Q, Q', n, a)
      BY <2>a, <2>n, <2>x, <3>2, <3>7 DEF SameTrip
    <3>9. pc'[s] = "mark"
      BY <1>t, <2>1 DEF ImportRegisters, ImportedNow, Goto
    <3>10. \A u \in Threads : u # s => pc'[u] = pc[u] /\ job'[u] = job[u]
      BY <2>1, OthersRest DEF Sender
    <3>11. /\ StagingAt(n, a)' = StagingAt(n, a) /\ HandOf(n, a)' = HandOf(n, a)
           /\ OpeningOf(n, a)' = OpeningOf(n, a)
      BY <2>w, <3>3, <3>9, <3>10 DEF StagingAt, Staging, HandOf, InHand, OpeningOf, Opening
    <3>. QED  BY <2>b, <2>s, <3>3, <3>5, <3>8, <3>11
  <2>2. ASSUME NEW s \in Senders, TakeCredit(s) PROVE PendingNext(n, a, i)
    <3>1. PICK k, b, j : k = Place[s] /\ b = job[s].at /\ j = job[s].idx
      OBVIOUS
    <3>2. k \in Nodes /\ b \in Actors /\ j \in Entries /\ j = proxies[k][b] /\ pc[s] = "credit"
      BY <2>2, <3>1 DEF TakeCredit, Shape, JobsOK, SenderOK, Met, MetInv, MetSender, SendLabels
    <3>3. job' = job /\ mailbox' = mailbox
      BY <2>2 DEF TakeCredit, boxes
    <3>4. SameTrip(Q, Q', n, a)
      <4>1. Q' = Q
        BY <2>2, QueuesStay DEF TakeCredit, staged
      <4>. QED  BY <2>m, <4>1, SameMoves
    <3>5. \A u \in Threads : u # s => pc'[u] = pc[u] /\ job'[u] = job[u]
      BY <2>2, OthersRest DEF Sender
    <3>6. s \notin HandOf(n, a) /\ s \notin HandOf(n, a)' /\ s \notin OpeningOf(n, a) /\ s \notin OpeningOf(n, a)'
      BY DEF HandOf, InHand, OpeningOf, Opening
    <3>7. CASE ~MaySpend(k, j)
      <4>1. pc'[s] = "none" /\ credits' = credits /\ pending' = pending
        BY <2>2, <1>t, <3>1, <3>7 DEF TakeCredit, Goto
      <4>2. /\ StagingAt(n, a)' = StagingAt(n, a) /\ HandOf(n, a)' = HandOf(n, a)
            /\ OpeningOf(n, a)' = OpeningOf(n, a)
        BY <2>w, <3>2, <3>5, <3>6, <4>1 DEF StagingAt, Staging
      <4>. QED  BY <2>b, <2>s, <2>x, <3>3, <3>4, <4>1, <4>2
    <3>8. CASE MaySpend(k, j)
      <4>1. /\ pc'[s] = "stage" /\ credits[k][j] \in Nat \ {0}
            /\ credits' = [credits EXCEPT ![k][j] = credits[k][j] - 1]
            /\ pending' = [pending EXCEPT ![k][j] = pending[k][j] + 1]
        <5>1. /\ pc'[s] = "stage" /\ credits[k][j] > 0
              /\ credits' = [credits EXCEPT ![k][j] = @ - 1] /\ pending' = [pending EXCEPT ![k][j] = @ + 1]
          BY <2>2, <1>t, <3>1, <3>8 DEF TakeCredit, MaySpend, Counted, Goto
        <5>2. credits[k][j] \in Nat
          BY <1>t, <3>2
        <5>. QED  BY <5>1, <5>2
      <4>2. s \notin StagingAt(n, a) /\ (s \in StagingAt(n, a)' <=> k = n /\ b = a)
        BY <3>1, <3>2, <3>3, <4>1 DEF StagingAt, Staging
      <4>3. (k = n /\ b = a) <=> (k = n /\ j = i)
        BY <2>0, <3>2 DEF Met, FreshInv, Entries
      <4>4. CASE ~(k = n /\ b = a)
        <5>1. pending'[n][i] = p /\ credits'[n][i] = c
          BY <1>t, <2>0, <2>x, <3>2, <4>1, <4>3, <4>4
        <5>2. /\ StagingAt(n, a)' = StagingAt(n, a) /\ HandOf(n, a)' = HandOf(n, a)
              /\ OpeningOf(n, a)' = OpeningOf(n, a)
          BY <2>w, <3>5, <3>6, <4>2, <4>4
        <5>. QED  BY <2>b, <2>s, <3>3, <3>4, <5>1, <5>2
      <4>5. CASE k = n /\ b = a
        <5>1. c \in Nat \ {0} /\ credits'[n][i] = c - 1 /\ pending'[n][i] = p + 1
          BY <1>t, <2>0, <2>x, <3>2, <4>1, <4>3, <4>5
        <5>2. /\ Cardinality(StagingAt(n, a)') = sg + 1
              /\ Cardinality(HandOf(n, a)') = h /\ Cardinality(OpeningOf(n, a)') = op
          BY <1>f, <2>x, <3>5, <3>6, <4>2, <4>5, SetsCount
        <5>3. Cardinality(QueuedBy(n, a)') = qd
          BY <2>b, <3>3
        <5>4. /\ FiniteTrip(Q', n, a) /\ OpenCount(Q', n, a) = ho /\ BackCount(Q', n, a) = hb
              /\ MsgCount(Q', n, a) = hm /\ TripWorth(Q', n, a) = l
          BY <2>x, <3>4 DEF SameTrip
        <5>. QED  BY <2>n, <5>1, <5>2, <5>3, <5>4 DEF PendingNext, PendingIs
      <4>. QED  BY <4>4, <4>5
    <3>. QED  BY <3>7, <3>8
  <2>3. ASSUME NEW s \in Senders, Stage(s) PROVE PendingNext(n, a, i)
    <3>1. PICK k, b, f : k = Place[s] /\ b = job[s].at /\ f = MsgFrame(b, k, s, job[s].no)
      OBVIOUS
    <3>2. k \in Nodes /\ b \in Actors /\ f \in Frame /\ Adds(Q, Q', f)
      BY <2>3, <3>1, StageAdds
    <3>3. f.kind = "msg" /\ f.actor = b /\ f.from = k
      BY <3>1 DEF MsgFrame
    <3>4. /\ Worth(f) = 1 /\ f \notin OpensFrom(n, a) /\ f \notin BacksTo(n, a)
          /\ (f \in MsgsFrom(n, a) <=> b = a /\ k = n) /\ (f \in TripOf(n, a) <=> b = a /\ k = n)
      BY <3>2, <3>3, TripIs DEF Worth
    <3>5. pending' = pending /\ credits' = credits /\ mailbox' = mailbox /\ pc[s] = "stage" /\ pc'[s] = "flush"
      BY <2>3, <1>t DEF Stage, ThenFlush, Works, Goto, books, boxes
    <3>6. \A u \in Threads : u # s => pc'[u] = pc[u] /\ job'[u] = job[u]
      BY <2>3, OthersRest DEF Sender
    <3>7. /\ s \notin HandOf(n, a) /\ s \notin HandOf(n, a)' /\ s \notin OpeningOf(n, a) /\ s \notin OpeningOf(n, a)'
          /\ s \notin StagingAt(n, a)' /\ (s \in StagingAt(n, a) <=> b = a /\ k = n)
      BY <3>1, <3>5 DEF HandOf, InHand, OpeningOf, Opening, StagingAt, Staging
    <3>8. /\ Cardinality(StagingAt(n, a)') + (IF b = a /\ k = n THEN 1 ELSE 0) = sg /\ Cardinality(StagingAt(n, a)') \in Nat
          /\ Cardinality(HandOf(n, a)') = h /\ Cardinality(OpeningOf(n, a)') = op
      BY <1>f, <2>n, <2>x, <3>6, <3>7, SetsCount
    <3>9. /\ FiniteTrip(Q', n, a) /\ OpenCount(Q', n, a) = ho /\ BackCount(Q', n, a) = hb
          /\ MsgCount(Q', n, a) = hm + (IF b = a /\ k = n THEN 1 ELSE 0)
          /\ TripWorth(Q', n, a) = l + (IF b = a /\ k = n THEN 1 ELSE 0)
      BY <2>a, <2>n, <3>2, <3>4
    <3>10. Cardinality(QueuedBy(n, a)') = qd /\ pending'[n][i] = p /\ credits'[n][i] = c
      BY <2>b, <2>x, <3>5
    <3>. QED  BY <2>n, <3>8, <3>9, <3>10 DEF PendingNext, PendingIs
  <2>4. ASSUME NEW t \in Receivers, OpenGrants(t) PROVE PendingNext(n, a, i)
    <3>1. /\ pc[t] = "grant" /\ mailbox' = mailbox /\ wire' = wire /\ batch' = batch
          /\ pending' = pending /\ credits' = credits
      BY <2>4 DEF OpenGrants, boxes
    <3>2. PICK b \in Actors, m \in Nodes, k \in Nat : b = job[t].at /\ m = job[t].from /\ k = job[t].n
      BY <3>1 DEF Flow, HandsOK, ReceiverHas
    <3>3. pc'[t] = "flush"
      BY <2>4, <1>t DEF OpenGrants, ThenFlush, Works, Goto
    <3>4. PICK f : f = GrantFrame(b, m, k)
      OBVIOUS
    <3>5. f \in Frame /\ Adds(Q, Q', f) /\ f.kind = "grant" /\ f.actor = b /\ f.to = m
      <4>1. Grant(b, m, k)
        BY <2>4, <3>2 DEF OpenGrants
      <4>. QED  BY <3>1, <3>4, <4>1, GrantAdds DEF GrantFrame
    <3>6. /\ f \notin OpensFrom(n, a) /\ f \notin MsgsFrom(n, a) /\ Worth(f) \in Nat
          /\ (f \in BacksTo(n, a) <=> b = a /\ m = n)
      BY <3>5, TripIs, FrameIs
    <3>7. \A u \in Threads : u # t => pc'[u] = pc[u] /\ job'[u] = job[u]
      BY <2>4, OthersRest DEF Receiver
    <3>8. /\ t \notin StagingAt(n, a) /\ t \notin StagingAt(n, a)' /\ t \notin HandOf(n, a) /\ t \notin HandOf(n, a)'
          /\ t \notin OpeningOf(n, a)' /\ (t \in OpeningOf(n, a) <=> b = a /\ m = n)
      BY <3>1, <3>2, <3>3 DEF StagingAt, Staging, HandOf, InHand, OpeningOf, Opening
    <3>9. /\ Cardinality(StagingAt(n, a)') = sg /\ Cardinality(HandOf(n, a)') = h
          /\ Cardinality(OpeningOf(n, a)') \in Nat
          /\ Cardinality(OpeningOf(n, a)') + (IF b = a /\ m = n THEN 1 ELSE 0) = op
      BY <1>f, <2>n, <2>x, <3>7, <3>8, SetsCount
    <3>10. /\ FiniteTrip(Q', n, a) /\ OpenCount(Q', n, a) = ho /\ MsgCount(Q', n, a) = hm
           /\ BackCount(Q', n, a) = hb + (IF b = a /\ m = n THEN 1 ELSE 0)
           /\ TripWorth(Q', n, a) = l + (IF f \in TripOf(n, a) THEN Worth(f) ELSE 0)
      BY <2>a, <2>n, <3>5, <3>6
    <3>11. f \in TripOf(n, a) <=> b = a /\ m = n
      BY <3>5, TripIs
    <3>12. Cardinality(QueuedBy(n, a)') = qd /\ pending'[n][i] = p /\ credits'[n][i] = c
      BY <2>b, <2>x, <3>1
    <3>. QED  BY <2>n, <3>9, <3>10, <3>11, <3>12 DEF PendingNext, PendingIs
  <2>5. ASSUME NEW w \in Workers, NEW b \in Actors, Dequeue(w, b) PROVE PendingNext(n, a, i)
    <3>1. /\ pc[w] = "idle" /\ mailbox[b] # <<>> /\ mailbox' = [mailbox EXCEPT ![b] = Tail(mailbox[b])]
          /\ wire' = wire /\ batch' = batch /\ pending' = pending /\ credits' = credits
      BY <2>5 DEF Dequeue
    <3>2. pending'[n][i] = p /\ credits'[n][i] = c
      BY <2>x, <3>1
    <3>3. /\ Cardinality(StagingAt(n, a)') = sg /\ Cardinality(HandOf(n, a)') = h /\ Cardinality(OpeningOf(n, a)') = op
      <4>1. \A u \in Threads : u # w => pc'[u] = pc[u] /\ job'[u] = job[u]
        BY <2>5, OthersRest DEF Worker
      <4>2. /\ StagingAt(n, a)' = StagingAt(n, a) /\ HandOf(n, a)' = HandOf(n, a)
            /\ OpeningOf(n, a)' = OpeningOf(n, a)
        BY <2>w, <4>1 DEF StagingAt, Staging, HandOf, InHand, OpeningOf, Opening
      <4>. QED  BY <2>x, <4>2
    <3>4. /\ Cardinality(QueuedBy(n, a)') \in Nat
          /\ qd = Cardinality(QueuedBy(n, a)') + IF b = a /\ Head(mailbox[a]) = n THEN 1 ELSE 0
      <4>1. CASE b = a
        <5>1. mailbox'[a] = Tail(mailbox[a]) /\ mailbox[a] # <<>>
          BY <1>t, <3>1, <4>1
        <5>. QED  BY <1>q, <2>x, <4>1, <5>1, MarksTail
      <4>2. CASE b # a
        <5>1. mailbox'[a] = mailbox[a]
          BY <1>t, <3>1, <4>2
        <5>. QED  BY <1>q, <2>x, <4>2, <5>1
      <4>. QED  BY <4>1, <4>2
    <3>5. CASE Head(mailbox[b]) \in Nodes
      <4>1. PICK m \in Nodes : m = Head(mailbox[b])
        BY <3>5
      <4>2. PICK f : f = GrantFrame(b, m, 1)
        OBVIOUS
      <4>3. f \in Frame /\ Adds(Q, Q', f) /\ f.kind = "grant" /\ f.actor = b /\ f.to = m /\ Worth(f) = 1
        <5>1. Grant(b, m, 1)
          BY <2>5, <3>5, <4>1 DEF Dequeue, CreditBack
        <5>2. f \in Frame /\ Adds(Q, Q', f) /\ f.kind = "grant" /\ f.actor = b /\ f.to = m /\ f.n = 1
          BY <3>1, <4>2, <5>1, GrantAdds DEF GrantFrame
        <5>. QED  BY <5>2, FrameIs
      <4>4. /\ f \notin OpensFrom(n, a) /\ f \notin MsgsFrom(n, a)
            /\ (f \in BacksTo(n, a) <=> b = a /\ m = n) /\ (f \in TripOf(n, a) <=> b = a /\ m = n)
        BY <4>3, TripIs
      <4>5. /\ FiniteTrip(Q', n, a) /\ OpenCount(Q', n, a) = ho /\ MsgCount(Q', n, a) = hm
            /\ BackCount(Q', n, a) = hb + (IF b = a /\ m = n THEN 1 ELSE 0)
            /\ TripWorth(Q', n, a) = l + (IF b = a /\ m = n THEN 1 ELSE 0)
        BY <2>a, <2>n, <4>3, <4>4
      <4>6. qd = Cardinality(QueuedBy(n, a)') + IF b = a /\ m = n THEN 1 ELSE 0
        BY <3>4, <4>1
      <4>. QED  BY <2>n, <3>2, <3>3, <3>4, <4>5, <4>6 DEF PendingNext, PendingIs
    <3>6. CASE Head(mailbox[b]) \notin Nodes
      <4>1. Q' = Q
        BY <2>5, <3>1, <3>6, QueuesStay DEF Dequeue, CreditBack, staged
      <4>2. SameTrip(Q, Q', n, a)
        BY <2>m, <4>1, SameMoves
      <4>3. Cardinality(QueuedBy(n, a)') = qd
        BY <2>n, <3>4, <3>6
      <4>. QED  BY <2>n, <2>x, <3>2, <3>3, <4>2, <4>3 DEF PendingNext, PendingIs, SameTrip
    <3>. QED  BY <3>5, <3>6
  <2>6. ASSUME NEW t \in Receivers, NEW m \in Nodes, DeliverMsg(t, m) PROVE PendingNext(n, a, i)
    <3>1. PICK f : f = Head(wire[m][Place[t]])
      OBVIOUS
    <3>2. f \in Frame /\ Adds(Q', Q, f)
      BY <2>6, <3>1, TakesLeaves, HeadMet DEF Met
    <3>3. f.kind = "msg" /\ mailbox' = mailbox /\ pending' = pending /\ credits' = credits /\ pc[t] = "idle"
      BY <2>6, <3>1 DEF DeliverMsg, Heard, Takes, boxes
    <3>4. pc'[t] = "queue" /\ job'[t] = [at |-> f.actor, msg |-> f]
      BY <2>6, <1>t, <3>1 DEF DeliverMsg, Heard, Works, Goto
    <3>5. /\ f \notin OpensFrom(n, a) /\ f \notin BacksTo(n, a) /\ Worth(f) = 1
          /\ (f \in MsgsFrom(n, a) <=> f.actor = a /\ f.from = n) /\ (f \in TripOf(n, a) <=> f.actor = a /\ f.from = n)
      BY <3>2, <3>3, TripIs, FrameIs
    <3>6. \A u \in Threads : u # t => pc'[u] = pc[u] /\ job'[u] = job[u]
      BY <2>6, OthersRest DEF Receiver
    <3>7. /\ t \notin StagingAt(n, a) /\ t \notin StagingAt(n, a)' /\ t \notin OpeningOf(n, a) /\ t \notin OpeningOf(n, a)'
          /\ t \notin HandOf(n, a) /\ (t \in HandOf(n, a)' <=> f.actor = a /\ f.from = n)
      BY <3>3, <3>4 DEF StagingAt, Staging, HandOf, InHand, OpeningOf, Opening
    <3>8. /\ Cardinality(StagingAt(n, a)') = sg /\ Cardinality(OpeningOf(n, a)') = op
          /\ Cardinality(HandOf(n, a)') = h + IF f.actor = a /\ f.from = n THEN 1 ELSE 0
      BY <1>f, <2>n, <2>x, <3>6, <3>7, SetsCount
    <3>9. /\ FiniteTrip(Q', n, a) /\ OpenCount(Q', n, a) = ho /\ BackCount(Q', n, a) = hb
          /\ MsgCount(Q', n, a) \in Nat /\ TripWorth(Q', n, a) \in Nat
          /\ hm = MsgCount(Q', n, a) + (IF f.actor = a /\ f.from = n THEN 1 ELSE 0)
          /\ l = TripWorth(Q', n, a) + (IF f.actor = a /\ f.from = n THEN 1 ELSE 0)
      BY <2>d, <3>2, <3>5
    <3>10. Cardinality(QueuedBy(n, a)') = qd /\ pending'[n][i] = p /\ credits'[n][i] = c
      BY <2>b, <2>x, <3>3
    <3>. QED  BY <2>n, <3>8, <3>9, <3>10 DEF PendingNext, PendingIs
  <2>7. ASSUME NEW t \in Receivers, NEW m \in Nodes, DeliverOpen(t, m) PROVE PendingNext(n, a, i)
    <3>1. PICK f : f = Head(wire[m][Place[t]])
      OBVIOUS
    <3>2. f \in Frame /\ Adds(Q', Q, f)
      BY <2>7, <3>1, TakesLeaves, HeadMet DEF Met
    <3>3. f.kind = "open" /\ mailbox' = mailbox /\ pending' = pending /\ credits' = credits /\ pc[t] = "idle"
      BY <2>7, <3>1 DEF DeliverOpen, Heard, Takes, boxes, books
    <3>4. pc'[t] = "room" /\ job'[t].at = f.actor /\ job'[t].from = f.from
      BY <2>7, <1>t, <3>1 DEF DeliverOpen, Heard, Works, Goto
    <3>5. /\ f \notin MsgsFrom(n, a) /\ f \notin BacksTo(n, a) /\ Worth(f) = 0
          /\ (f \in OpensFrom(n, a) <=> f.actor = a /\ f.from = n)
      BY <3>2, <3>3, TripIs DEF Worth
    <3>6. \A u \in Threads : u # t => pc'[u] = pc[u] /\ job'[u] = job[u]
      BY <2>7, OthersRest DEF Receiver
    <3>7. /\ t \notin StagingAt(n, a) /\ t \notin StagingAt(n, a)' /\ t \notin HandOf(n, a) /\ t \notin HandOf(n, a)'
          /\ t \notin OpeningOf(n, a) /\ (t \in OpeningOf(n, a)' <=> f.actor = a /\ f.from = n)
      BY <3>3, <3>4 DEF StagingAt, Staging, HandOf, InHand, OpeningOf, Opening
    <3>8. /\ Cardinality(StagingAt(n, a)') = sg /\ Cardinality(HandOf(n, a)') = h
          /\ Cardinality(OpeningOf(n, a)') = op + IF f.actor = a /\ f.from = n THEN 1 ELSE 0
      BY <1>f, <2>n, <2>x, <3>6, <3>7, SetsCount
    <3>9. /\ FiniteTrip(Q', n, a) /\ MsgCount(Q', n, a) = hm /\ BackCount(Q', n, a) = hb
          /\ TripWorth(Q', n, a) = l /\ OpenCount(Q', n, a) \in Nat
          /\ ho = OpenCount(Q', n, a) + (IF f.actor = a /\ f.from = n THEN 1 ELSE 0)
      BY <2>d, <3>2, <3>5
    <3>10. Cardinality(QueuedBy(n, a)') = qd /\ pending'[n][i] = p /\ credits'[n][i] = c
      BY <2>b, <2>x, <3>3
    <3>. QED  BY <2>n, <3>8, <3>9, <3>10 DEF PendingNext, PendingIs
  \* Its first credits find nothing of it under way; later ones are pending.
  <2>8. ASSUME NEW t \in Receivers, NEW m \in Nodes, DeliverGrant(t, m) PROVE PendingNext(n, a, i)
    <3>1. PICK f, k, b, j : f = Head(wire[m][Place[t]]) /\ k = Place[t] /\ b = f.actor /\ j = proxies[k][b]
      OBVIOUS
    <3>2. f \in Frame /\ Adds(Q', Q, f) /\ f.to = k /\ MetFrame(f) /\ k \in Nodes
      BY <2>8, <3>1, TakesLeaves, HeadMet DEF Met
    <3>3. f.kind = "grant" /\ mailbox' = mailbox /\ pc' = pc /\ job' = job
      BY <2>8, <3>1 DEF DeliverGrant, Heard, boxes
    <3>4. j # 0 /\ b \in Actors /\ j \in Entries /\ f.n \in Nat /\ Worth(f) = f.n
      <4>1. b \in Actors /\ f.n \in Nat /\ Worth(f) = f.n
        BY <3>1, <3>2, <3>3, FrameIs
      <4>2. j # 0
        BY <3>1, <3>2, <3>3 DEF MetFrame
      <4>3. j \in 0..MaxEntries
        BY <1>t, <3>1, <3>2, <4>1
      <4>. QED  BY <4>1, <4>2, <4>3 DEF Entries
    <3>5. /\ credits' = [credits EXCEPT ![k][j] = @ + f.n]
          /\ pending' = [pending EXCEPT ![k][j] = IF @ > f.n THEN @ - f.n ELSE 0]
      BY <2>8, <3>1, <3>4 DEF DeliverGrant, Heard
    <3>6. k = n /\ b = a <=> k = n /\ j = i
      <4>1. \A d \in Actors : proxies[n][d] = proxies[n][a] /\ proxies[n][d] # 0 => d = a
        BY DEF Met, FreshInv
      <4>. QED  BY <2>0, <3>1, <3>4, <4>1
    <3>7. /\ f \notin OpensFrom(n, a) /\ f \notin MsgsFrom(n, a)
          /\ (f \in BacksTo(n, a) <=> k = n /\ b = a) /\ (f \in TripOf(n, a) <=> k = n /\ b = a)
      BY <3>1, <3>2, <3>3, TripIs
    <3>8. /\ FiniteTrip(Q', n, a) /\ OpenCount(Q', n, a) = ho /\ MsgCount(Q', n, a) = hm
          /\ hb = BackCount(Q', n, a) + (IF k = n /\ b = a THEN 1 ELSE 0)
          /\ l = TripWorth(Q', n, a) + (IF k = n /\ b = a THEN f.n ELSE 0)
          /\ BackCount(Q', n, a) \in Nat /\ TripWorth(Q', n, a) \in Nat
      BY <2>d, <3>2, <3>4, <3>7
    <3>9. /\ Cardinality(StagingAt(n, a)') = sg /\ Cardinality(HandOf(n, a)') = h
          /\ Cardinality(OpeningOf(n, a)') = op
      BY <2>x, <3>3 DEF StagingAt, Staging, HandOf, InHand, OpeningOf, Opening
    <3>10. Cardinality(QueuedBy(n, a)') = qd
      BY <2>b, <3>3
    <3>11. CASE ~(k = n /\ b = a)
      <4>1. pending'[n][i] = p /\ credits'[n][i] = c
        BY <1>t, <2>0, <2>x, <3>2, <3>4, <3>5, <3>6, <3>11
      <4>. QED  BY <2>n, <3>8, <3>9, <3>10, <3>11, <4>1 DEF PendingNext, PendingIs
    <3>12. CASE k = n /\ b = a
      <4>1. credits'[n][i] = c + f.n /\ pending'[n][i] = IF p > f.n THEN p - f.n ELSE 0
        BY <1>t, <2>0, <2>x, <3>2, <3>4, <3>5, <3>6, <3>12
      <4>2. CASE p = 0 /\ c = 0
        <5>1. /\ sg = 0 /\ h = 0 /\ qd = 0 /\ hm = 0 /\ op = 0 /\ ho = 0 /\ hb = 1
          BY <2>n, <3>8, <3>12, <4>2 DEF PendingIs
        <5>2. BackCount(Q', n, a) = 0
          BY <3>8, <3>12, <5>1
        <5>3. TripWorth(Q', n, a) = 0
          <6>1. \A x \in SlotsIn(Q') : At(Q', x) \in Frame
            <7>1. \A x \in SlotsIn(Q') : At(Q', x) \in FramesIn(Q')
              BY DEF FramesIn
            <7>2. FramesIn(Q') \subseteq FramesIn(Q)
              BY <2>8, TakesLeaves, HeadMet DEF Met
            <7>3. FramesIn(Q) \subseteq Frame
              BY FramesInQ DEF Flow
            <7>. QED  BY <7>1, <7>2, <7>3
          <6>. QED  BY ZenonT(30), <3>8, <5>1, <5>2, <6>1, TripCounts
        <5>4. pending'[n][i] = 0 /\ credits'[n][i] = f.n
          BY <3>4, <4>1, <4>2
        <5>. QED  BY <3>4, <3>8, <3>9, <3>10, <5>1, <5>2, <5>3, <5>4 DEF PendingNext, PendingIs
      <4>3. CASE ~(p = 0 /\ c = 0)
        <5>1. op = 0 /\ ho = 0 /\ p = sg + h + qd + l
          BY <2>n, <4>3 DEF PendingIs
        <5>2. l = TripWorth(Q', n, a) + f.n
          BY <3>8, <3>12
        <5>3. pending'[n][i] = p - f.n /\ p >= f.n
          BY <2>n, <3>4, <3>8, <4>1, <5>1, <5>2
        <5>. QED  BY <2>n, <3>4, <3>8, <3>9, <3>10, <4>1, <4>3, <5>1, <5>2, <5>3 DEF PendingNext, PendingIs
      <4>. QED  BY <4>2, <4>3
    <3>. QED  BY <3>11, <3>12
  <2>9. ASSUME NEW m \in Nodes, NEW k \in Nodes, Lose(m, k) PROVE PendingNext(n, a, i)
    <3>1. PICK f : f = Head(wire[m][k])
      OBVIOUS
    <3>2. f \in Frame /\ Adds(Q', Q, f)
      <4>1. Leaves(m, k)
        BY <2>9 DEF Lose, Leaves, staged, thread
      <4>. QED  BY <3>1, <4>1, HeadMet DEF Met
    <3>3. /\ lost' = [lost EXCEPT ![f.actor] = @ + Worth(f)] /\ mailbox' = mailbox /\ pending' = pending
          /\ credits' = credits /\ pc' = pc /\ job' = job
      BY <2>9, <3>1 DEF Lose, boxes, books, thread
    <3>4. f.actor = a => Worth(f) = 0
      <4>1. lost \in [Actors -> Nat] /\ f.actor \in Actors /\ Worth(f) \in Nat
        BY <3>2, FrameIs DEF Flow, CountsOK
      <4>. QED  BY <1>0, <3>3, <4>1
    <3>5. f \notin MsgsFrom(n, a) /\ (f \in TripOf(n, a) => Worth(f) = 0)
      BY <3>2, <3>4, TripIs, FrameIs
    <3>6. /\ FiniteTrip(Q', n, a) /\ MsgCount(Q', n, a) = hm /\ TripWorth(Q', n, a) = l
          /\ OpenCount(Q', n, a) \in Nat /\ BackCount(Q', n, a) \in Nat
          /\ OpenCount(Q', n, a) <= ho /\ BackCount(Q', n, a) <= hb
      BY <2>d, <3>2, <3>5
    <3>7. /\ Cardinality(StagingAt(n, a)') = sg /\ Cardinality(HandOf(n, a)') = h
          /\ Cardinality(OpeningOf(n, a)') = op
      BY <2>x, <3>3 DEF StagingAt, Staging, HandOf, InHand, OpeningOf, Opening
    <3>8. Cardinality(QueuedBy(n, a)') = qd /\ pending'[n][i] = p /\ credits'[n][i] = c
      BY <2>b, <2>x, <3>3
    <3>. QED  BY <2>n, <3>6, <3>7, <3>8 DEF PendingNext, PendingIs
  <2>10. ASSUME NEW t \in Receivers, EnqueueRemote(t) PROVE PendingNext(n, a, i)
    <3>1. PICK b, f : b = job[t].at /\ f = job[t].msg
      OBVIOUS
    <3>2. /\ pc[t] = "queue" /\ pending' = pending /\ credits' = credits
          /\ mailbox' = IF b \notin died THEN [mailbox EXCEPT ![b] = Append(@, f.from)] ELSE mailbox
      BY <2>10, <3>1 DEF EnqueueRemote, Accepts, books
    <3>3. pc'[t] = "idle"
      BY <2>10, <1>t DEF EnqueueRemote, Idle, Works, Goto
    <3>4. f.from \in Nodes /\ b \in Actors
      BY <3>1, <3>2, FrameIs DEF Flow, HandsOK, ReceiverHas
    <3>5. Cardinality(QueuedBy(n, a)') = qd + IF b = a /\ f.from = n THEN 1 ELSE 0
      <4>1. CASE b = a
        <5>1. mailbox'[a] = Append(mailbox[a], f.from)
          BY <1>0, <1>t, <3>2, <4>1
        <5>. QED  BY <2>e, <3>4, <4>1, <5>1
      <4>2. CASE b # a
        <5>1. mailbox'[a] = mailbox[a]
          BY <1>t, <3>2, <4>2
        <5>. QED  BY <1>q, <2>n, <2>x, <4>2, <5>1
      <4>. QED  BY <4>1, <4>2
    <3>6. SameTrip(Q, Q', n, a)
      <4>1. Q' = Q
        BY <2>10, QueuesStay DEF EnqueueRemote, staged
      <4>. QED  BY <2>m, <4>1, SameMoves
    <3>7. \A u \in Threads : u # t => pc'[u] = pc[u] /\ job'[u] = job[u]
      BY <2>10, OthersRest DEF Receiver
    <3>8. /\ t \notin StagingAt(n, a) /\ t \notin StagingAt(n, a)' /\ t \notin OpeningOf(n, a) /\ t \notin OpeningOf(n, a)'
          /\ t \notin HandOf(n, a)' /\ (t \in HandOf(n, a) <=> b = a /\ f.from = n)
      BY <3>1, <3>2, <3>3 DEF StagingAt, Staging, HandOf, InHand, OpeningOf, Opening
    <3>9. /\ Cardinality(StagingAt(n, a)') = sg /\ Cardinality(OpeningOf(n, a)') = op
          /\ Cardinality(HandOf(n, a)') \in Nat
          /\ Cardinality(HandOf(n, a)') + (IF b = a /\ f.from = n THEN 1 ELSE 0) = h
      BY <1>f, <2>n, <2>x, <3>7, <3>8, SetsCount
    <3>10. /\ FiniteTrip(Q', n, a) /\ OpenCount(Q', n, a) = ho /\ BackCount(Q', n, a) = hb
           /\ MsgCount(Q', n, a) = hm /\ TripWorth(Q', n, a) = l
      BY <2>x, <3>6 DEF SameTrip
    <3>11. pending'[n][i] = p /\ credits'[n][i] = c
      BY <2>x, <3>2
    <3>. QED  BY <2>n, <3>5, <3>9, <3>10, <3>11 DEF PendingNext, PendingIs
  <2>11. ASSUME NEW t \in Receivers, OpenRoom(t) PROVE PendingNext(n, a, i)
    <3>1. pc[t] = "room" /\ pending' = pending /\ credits' = credits /\ mailbox' = mailbox
      BY <2>11 DEF OpenRoom, books, boxes
    <3>2. pc'[t] = "grant" /\ job'[t].at = job[t].at /\ job'[t].from = job[t].from
      BY <2>11, <1>t DEF OpenRoom, Works, Goto
    <3>3. SameTrip(Q, Q', n, a)
      <4>1. Q' = Q
        BY <2>11, QueuesStay DEF OpenRoom, staged
      <4>. QED  BY <2>m, <4>1, SameMoves
    <3>4. \A u \in Threads : u # t => pc'[u] = pc[u] /\ job'[u] = job[u]
      BY <2>11, OthersRest DEF Receiver
    <3>5. /\ t \notin StagingAt(n, a) /\ t \notin StagingAt(n, a)' /\ t \notin HandOf(n, a) /\ t \notin HandOf(n, a)'
          /\ (t \in OpeningOf(n, a)' <=> t \in OpeningOf(n, a))
      BY <3>1, <3>2 DEF StagingAt, Staging, HandOf, InHand, OpeningOf, Opening
    <3>6. /\ Cardinality(StagingAt(n, a)') = sg /\ Cardinality(HandOf(n, a)') = h
          /\ Cardinality(OpeningOf(n, a)') = op
      BY <1>f, <2>n, <2>x, <3>4, <3>5, SetsCount
    <3>7. Cardinality(QueuedBy(n, a)') = qd /\ pending'[n][i] = p /\ credits'[n][i] = c
      BY <2>b, <2>x, <3>1
    <3>. QED  BY <2>n, <2>x, <3>3, <3>6, <3>7 DEF PendingNext, PendingIs, SameTrip
  <2>12. ASSUME NEW b \in Actors, LocalSend(b) \/ Die(b) PROVE PendingNext(n, a, i)
    <3>1. pending' = pending /\ credits' = credits /\ pc' = pc /\ job' = job
      BY <2>12 DEF LocalSend, Die, books, thread
    <3>2. SameTrip(Q, Q', n, a)
      <4>1. Q' = Q
        BY <2>12, QueuesStay DEF LocalSend, Die, staged, thread
      <4>. QED  BY <2>m, <4>1, SameMoves
    <3>3. Cardinality(QueuedBy(n, a)') = qd
      <4>1. mailbox'[a] = mailbox[a] \/ mailbox'[a] = Append(mailbox[a], Local)
        <5>1. CASE LocalSend(b)
          BY <1>t, <5>1 DEF LocalSend
        <5>2. CASE Die(b)
          <6>1. b # a
            BY <5>2 DEF Die
          <6>. QED  BY <1>t, <5>2, <6>1 DEF Die
        <5>. QED  BY <2>12, <5>1, <5>2
      <4>2. CASE mailbox'[a] = mailbox[a]
        BY <1>q, <2>x, <4>2
      <4>3. CASE mailbox'[a] = Append(mailbox[a], Local)
        BY <2>e, <2>n, <4>3
      <4>. QED  BY <4>1, <4>2, <4>3
    <3>4. /\ StagingAt(n, a)' = StagingAt(n, a) /\ HandOf(n, a)' = HandOf(n, a) /\ OpeningOf(n, a)' = OpeningOf(n, a)
      BY <3>1 DEF StagingAt, Staging, HandOf, InHand, OpeningOf, Opening
    <3>. QED  BY <2>s, <2>x, <3>1, <3>2, <3>3, <3>4
  <2>13. ASSUME ~Registers, ~Grants, ~Receives, ~\E s \in Senders : TakeCredit(s) \/ Stage(s),
                ~\E w \in Workers, b \in Actors : Dequeue(w, b),
                ~\E t \in Receivers : EnqueueRemote(t) \/ OpenRoom(t), ~\E b \in Actors : LocalSend(b) \/ Die(b)
         PROVE  PendingNext(n, a, i)
    <3>1. SameTrip(Q, Q', n, a)
      BY <2>m, <2>13, OthersMove
    <3>2. credits' = credits
      BY <2>13, BooksSame
    <3>3. pending' = pending
      BY <2>13, PendingSame DEF Receives
    <3>4. mailbox' = mailbox
      BY <2>13, MailSame
    <3>5. StagingAt(n, a)' = StagingAt(n, a)
      <4>1. Staging(a)' = Staging(a)
        BY <2>13, StagingSame
      <4>. QED  BY <4>1 DEF StagingAt
    <3>6. \A t \in Receivers : HandRests(t)
      BY <2>13, HandsRest DEF Acts, Receives, Grants
    <3>7. HandOf(n, a)' = HandOf(n, a)
      <4>1. \A t \in Receivers : t \in HandOf(n, a)' <=> t \in HandOf(n, a)
        BY <3>6 DEF HandRests, HandLabels, HandOf, InHand
      <4>. QED  BY <4>1 DEF HandOf, InHand
    <3>8. OpeningOf(n, a)' = OpeningOf(n, a)
      <4>1. \A t \in Receivers : t \in OpeningOf(n, a)' <=> t \in OpeningOf(n, a)
        BY <3>6 DEF HandRests, HandLabels, OpeningOf, Opening
      <4>. QED  BY <4>1 DEF OpeningOf, Opening
    <3>. QED  BY <2>b, <2>s, <2>x, <3>1, <3>2, <3>3, <3>4, <3>5, <3>7, <3>8
  <2>. QED  BY <2>1, <2>2, <2>3, <2>4, <2>5, <2>6, <2>7, <2>8, <2>9, <2>10, <2>11, <2>12, <2>13 DEF Registers, Grants, Receives
<1>. QED  BY <1>1, <1>2
LEMMA InitPending == Init => PendingInv
  BY DEF Init, PendingInv, OwnedOK, PendingOK

(***************************************************************************)
(* What `pending` answers for a proxy is exact: its messages on their way, *)
(* in hand and queued, and the credits returning, and never the first      *)
(* grant (take_credit, credited, received).                                *)
(***************************************************************************)
THEOREM PendingIsCounted == Spec => []PendingIsExact
<1>1. Init => Met /\ (\A a \in Actors : Kept(a)) /\ RoomInv /\ PendingInv
  BY InitMet, InitKept, InitRoom, InitPending
<1>2. /\ Shape /\ Shape' /\ Flow /\ Flow' /\ Met /\ (\A a \in Actors : Kept(a)) /\ RoomInv /\ PendingInv /\ [Next]_vars
      => Met' /\ (\A a \in Actors : Kept(a))' /\ RoomInv' /\ PendingInv'
  <2>. SUFFICES ASSUME Shape, Shape', Flow, Flow', Met, \A a \in Actors : Kept(a), RoomInv, PendingInv, [Next]_vars
                PROVE  Met' /\ (\A a \in Actors : Kept(a))' /\ RoomInv' /\ PendingInv'
    OBVIOUS
  <2>1. Met' /\ (\A a \in Actors : Kept(a))' /\ RoomInv'
    BY MetStep, CreditsStep, RoomStep
  <2>2. OwnedOK'
    BY OwnedStep DEF PendingInv
  <2>3. \A n \in Nodes, a \in Actors : PendingOK(n, a)'
    BY PendingStep
  <2>. QED  BY <2>1, <2>2, <2>3 DEF PendingInv
<1>3. Shape /\ Flow /\ (\A a \in Actors : Kept(a)) /\ RoomInv /\ PendingInv => PendingIsExact
  <2>. SUFFICES ASSUME Shape, Flow, \A a \in Actors : Kept(a), RoomInv, PendingInv,
                       NEW n \in Nodes, NEW a \in Actors \ died, NEW i, i = proxies[n][a],
                       NEW F, F = {f \in FramesOf(a) : IF f.kind = "grant" THEN f.to = n /\ credits[n][i] + pending[n][i] > 0
                                                                           ELSE f.from = n},
                       i # 0, lost[a] = 0
                PROVE  pending[n][i] = Cardinality(StagingAt(n, a)) + Cardinality(Carried(F))
                                         + Cardinality(HandOf(n, a)) + Cardinality(QueuedBy(n, a))
    BY DEF PendingIsExact, StagingAt, HandOf
  <2>1. /\ FiniteTrip(Q, n, a)
        /\ PendingIs(pending[n][i], credits[n][i], Cardinality(StagingAt(n, a)), Cardinality(HandOf(n, a)),
                     Cardinality(QueuedBy(n, a)), Cardinality(OpeningOf(n, a)),
                     OpenCount(Q, n, a), BackCount(Q, n, a), MsgCount(Q, n, a), TripWorth(Q, n, a))
    BY DEF PendingInv, PendingOK
  <2>2. /\ Cardinality(StagingAt(n, a)) \in Nat /\ Cardinality(HandOf(n, a)) \in Nat
        /\ Cardinality(QueuedBy(n, a)) \in Nat /\ TripWorth(Q, n, a) \in Nat
    <3>1. /\ StagingAt(n, a) \in SUBSET Staging(a) /\ HandOf(n, a) \in SUBSET InHand(a)
          /\ IsFiniteSet(Staging(a)) /\ IsFiniteSet(InHand(a))
      BY OneHand DEF StagingAt, HandOf, Kept, Finite, RoomInv
    <3>2. QueuedBy(n, a) = Marks(mailbox[a], {n}) /\ mailbox[a] \in Seq(Nodes \cup {Local})
      BY DEF QueuedBy, Marks, Flow, BoxesOK
    <3>3. Cardinality(QueuedBy(n, a)) \in Nat
      BY <3>2, MarksAre
    <3>. QED  BY <2>1, <3>1, <3>3, FS_Subset, FS_CardinalityType, TripCounts
  <2>3. Carried(F) = Load(Q, F)
    BY CarriedIsLoad
  <2>4. CASE pending[n][i] = 0 /\ credits[n][i] = 0
    <3>1. /\ Cardinality(StagingAt(n, a)) = 0 /\ Cardinality(HandOf(n, a)) = 0 /\ Cardinality(QueuedBy(n, a)) = 0
          /\ MsgCount(Q, n, a) = 0
      BY <2>1, <2>4 DEF PendingIs
    <3>2. Holding(Q, MsgsFrom(n, a)) = {}
      BY <2>1, <3>1, FS_EmptySet DEF FiniteTrip, MsgCount
    <3>3. ASSUME NEW x \in SlotsIn(Q), At(Q, x) \in F PROVE 1..Worth(At(Q, x)) = {}
      <4>1. PICK f \in Frame : f = At(Q, x)
        BY SlotHasFrame DEF Flow
      <4>2. f.actor = a /\ f.kind # "grant" /\ f.from = n
        BY <2>4, <3>3, <4>1 DEF FramesOf
      <4>3. f \notin MsgsFrom(n, a)
        BY <3>2, <4>1 DEF Holding
      <4>4. Worth(f) = 0
        BY <4>1, <4>2, <4>3, TripIs DEF Worth
      <4>. QED  BY <4>1, <4>4
    <3>4. Load(Q, F) = {}
      BY <3>3 DEF Load
    <3>5. Cardinality(Carried(F)) = 0
      BY <2>3, <3>4, FS_EmptySet
    <3>. QED  BY <2>4, <3>1, <3>5
  <2>5. CASE ~(pending[n][i] = 0 /\ credits[n][i] = 0)
    <3>1. /\ pending[n][i] + credits[n][i] > 0
          /\ pending[n][i] = Cardinality(StagingAt(n, a)) + Cardinality(HandOf(n, a)) + Cardinality(QueuedBy(n, a))
                               + TripWorth(Q, n, a)
      BY <2>1, <2>5 DEF PendingIs
    <3>2. pending[n][i] \in Nat /\ credits[n][i] \in Nat
      <4>1. i \in 0..MaxEntries
        BY DEF Shape, TablesOK, BooksOK
      <4>2. i \in Entries
        BY <4>1 DEF Entries
      <4>. QED  BY <4>2 DEF Flow, CountsOK
    <3>3. F = TripOf(n, a)
      BY <3>1, <3>2 DEF TripOf
    <3>4. Cardinality(Carried(F)) = TripWorth(Q, n, a)
      BY <2>3, <3>3 DEF TripWorth
    <3>. QED  BY <2>2, <3>1, <3>4
  <2>. QED  BY <2>4, <2>5
<1>. QED  BY <1>1, <1>2, <1>3, ShapeIsKept, FlowIsKept, PTL DEF Spec
==============================================================================
