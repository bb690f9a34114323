---------------------------- MODULE DeadlockProofs ----------------------------
(***************************************************************************)
(* Proofs about Deadlock: the search misses no cycle, for every graph of   *)
(* edges and every order of the nodes; and the edges do not depend on      *)
(* where, through tasks and bindings, the code that makes them is written. *)
(***************************************************************************)
EXTENDS Deadlock, FiniteSetTheorems, TLAPS

(***************************************************************************)
(* Cycles as sets and as sequences.                                        *)
(***************************************************************************)
OnRing(all, n) ==
    \A S \in SUBSET Nodes :
        Succ(graph, all, n) \subseteq S /\ (\A m \in S : Succ(graph, all, m) \subseteq S) => n \in S

\* The edges a pass looks at are those the properties speak of.
LEMMA RingsAreCycles ==
    ASSUME TypeOK, NEW n \in Nodes
    PROVE  /\ OnRing(FALSE, n) <=> OnCycle(Stalls, n)
           /\ OnRing(TRUE, n) <=> OnCycle(Waits, n)
<1>1. \A m \in Nodes : Succ(graph, FALSE, m) = Stalls[m]
  BY DEF TypeOK, Succ, Edge, Unconditional, Stalls, Kinds
<1>2. \A m \in Nodes : Succ(graph, TRUE, m) = Waits[m]
  BY DEF TypeOK, Succ, Edge, Waits, Kinds
<1>3. QED
  BY <1>1, <1>2 DEF OnRing, OnCycle

\* What holds of one place of a sequence and passes from each to the next holds after it.
LEMMA Onward ==
    ASSUME NEW c, NEW len \in Nat, NEW S, NEW i \in 1..len, c[i] \in S,
           \A k \in 1..len - 1 : c[k] \in S => c[k + 1] \in S
    PROVE  \A k \in i..len : c[k] \in S
<1> DEFINE bad == {k \in i..len : c[k] \notin S}
<1> DEFINE upto == {1..k : k \in bad}
<1>1. SUFFICES ASSUME bad # {} PROVE FALSE
  OBVIOUS
<1>2. upto \subseteq SUBSET (1..len) /\ upto # {}
  BY <1>1
<1>3. IsWellFoundedOn(StrictSubsetOrdering(1..len), SUBSET (1..len))
  <2> DEFINE places == 1..len
  <2>1. IsFiniteSet(places)
    BY FS_Interval
  <2> HIDE DEF places
  <2>2. FiniteSubsetsOf(places) = SUBSET places
    BY <2>1, FS_FiniteSubsetsOfFinite
  <2>3. IsWellFoundedOn(StrictSubsetOrdering(places), FiniteSubsetsOf(places))
    BY FS_StrictSubsetOrderingWellFounded
  <2> QED BY <2>2, <2>3 DEF places
<1>4. PICK u \in upto : \A v \in upto : ~(<<v, u>> \in StrictSubsetOrdering(1..len))
  <2> HIDE DEF bad, upto
  <2> QED BY <1>2, <1>3, WFMin
<1>5. PICK k \in bad : u = 1..k
  OBVIOUS
<1>6. k # i /\ k \in 1..len /\ k - 1 \in i..len /\ k - 1 \in 1..len - 1
  BY <1>5
<1>7. k - 1 \in bad
  <2>1. c[k - 1] \in S => c[k] \in S
    <3>1. c[k - 1] \in S => c[(k - 1) + 1] \in S
      BY <1>6
    <3> QED BY <3>1, <1>6
  <2> QED BY <2>1, <1>5, <1>6
<1>8. 1..(k - 1) \in upto /\ 1..(k - 1) \subseteq 1..k /\ 1..(k - 1) # 1..k
  BY <1>6, <1>7
<1>9. QED
  BY <1>2, <1>4, <1>5, <1>8 DEF StrictSubsetOrdering

\* Every node of a cycle of edges is on one in the properties' sense.
LEMMA CyclesAreRings ==
    ASSUME TypeOK, NEW all \in BOOLEAN, NEW c \in Seq(Nodes), Len(c) > 1, c[1] = c[Len(c)],
           \A k \in 1..Len(c) - 1 : c[k + 1] \in Succ(graph, all, c[k]),
           NEW j \in 1..Len(c)
    PROVE  OnRing(all, c[j])
<1> SUFFICES ASSUME NEW S \in SUBSET Nodes, Succ(graph, all, c[j]) \subseteq S,
                    \A m \in S : Succ(graph, all, m) \subseteq S
             PROVE  c[j] \in S
  BY DEF OnRing
<1> DEFINE len == Len(c)
<1>1. len \in Nat /\ len > 1
  OBVIOUS
<1>2. \A k \in 1..len - 1 : c[k] \in S => c[k + 1] \in S
  OBVIOUS
<1>3. PICK i \in 1..len : c[i] \in S /\ (j = len \/ i = j + 1)
  <2>1. CASE j = len
    BY <2>1, <1>1
  <2>2. CASE j # len
    <3>1. j \in 1..len - 1 /\ j + 1 \in 1..len
      BY <2>2, <1>1
    <3> QED BY <3>1
  <2> QED BY <2>1, <2>2
<1> HIDE DEF len
<1>4. c[len] \in S
  <2>1. \A k \in i..len : c[k] \in S
    BY <1>1, <1>2, <1>3, Onward
  <2> QED BY <2>1, <1>1
<1>5. c[1] \in S
  BY <1>4 DEF len
<1>6. \A k \in 1..len : c[k] \in S
  <2>1. 1 \in 1..len
    BY <1>1
  <2> QED BY <2>1, <1>1, <1>2, <1>5, Onward
<1>7. QED
  BY <1>6 DEF len

(***************************************************************************)
(* Types.                                                                  *)
(***************************************************************************)

\* Typing is inductive on its own.
THEOREM TypeCorrect == Spec => []TypeOK
<1>1. Init => TypeOK
  BY DEF Init, TypeOK
<1>2. TypeOK /\ [Next]_vars => TypeOK'
  <2> SUFFICES ASSUME TypeOK, [Next]_vars PROVE TypeOK'
    OBVIOUS
  <2> USE DEF TypeOK
  <2>1. CASE Build
    BY <2>1 DEF Build, Graph, Strongest, Kinds, Keys, search
  <2>2. CASE Take
    BY <2>2 DEF Take, Succ
  <2>3. CASE Extended
    BY <2>3 DEF Extended
  <2>4. CASE Found
    <3>1. Append(path, start) \in Seq(Nodes)
      BY <2>4 DEF Found
    <3>2. On(Append(path, start)) \subseteq Nodes
      BY <3>1 DEF On
    <3>3. reports' \subseteq [cycle : Seq(Nodes), error : BOOLEAN]
      <4>1. \A e \in BOOLEAN :
              [cycle |-> Append(path, start), error |-> e] \in [cycle : Seq(Nodes), error : BOOLEAN]
        BY <3>1
      <4>2. reports' = reports \/ \E e \in BOOLEAN :
              reports' = reports \cup {[cycle |-> Append(path, start), error |-> e]}
        BY <2>4 DEF Found, Report, AddTo
      <4> QED BY <4>1, <4>2
    <3> QED BY <2>4, <3>2, <3>3 DEF Found, QueueGone
  <2>5. CASE NoCycle
    BY <2>5 DEF NoCycle
  <2>6. CASE NextPass
    <3>1. \A r \in reports : On(r.cycle) \subseteq Nodes
      BY DEF On
    <3> QED BY ZenonT(30), <2>6, <3>1 DEF NextPass, Keys, search
  <2>7. ASSUME NEW n \in Nodes, Begin(n) PROVE TypeOK'
    <3>1. CASE n \in done
      BY <2>7, <3>1 DEF Begin, search
    <3>2. CASE n \notin done
      <4>1. << <<n>> >> \in Seq(Seq(Nodes))
        <5>1. <<n>> \in Seq(Nodes)
          OBVIOUS
        <5> QED BY <5>1
      <4> QED BY <2>7, <3>2, <4>1, DeadlockAssumption DEF Begin, Fresh
    <3> QED BY <3>1, <3>2
  <2>8. ASSUME NEW n \in Nodes, Extend(n) PROVE TypeOK'
    <3>1. Append(path, n) \in Seq(Nodes)
      OBVIOUS
    <3>2. Append(queue, Append(path, n)) \in Seq(Seq(Nodes))
      BY <3>1
    <3>3. start # None /\ start' = start /\ path' = path
      BY <2>8 DEF Extend
    <3>4. queue' \in Seq(Seq(Nodes)) /\ visited' \subseteq Nodes
      BY <2>8, <3>2 DEF Extend
    <3> QED BY <2>8, <3>3, <3>4 DEF Extend
  <2>9. CASE UNCHANGED vars
    BY <2>9 DEF vars, search
  <2> QED BY <2>1, <2>2, <2>3, <2>4, <2>5, <2>6, <2>7, <2>8, <2>9 DEF Next
<1>3. QED
  BY <1>1, <1>2, PTL DEF Spec

(***************************************************************************)
(* One search.                                                             *)
(***************************************************************************)

\* A path from the start, along the pass's edges.
IsPath(p) ==
    /\ p \in Seq(Nodes) /\ Len(p) > 0
    /\ p[1] = start
    /\ \A k \in 1..Len(p) - 1 : p[k + 1] \in Succ(graph, All, p[k])
Paths ==
    /\ \A k \in 1..Len(queue) : IsPath(queue[k])
    /\ path # <<>> => IsPath(path) /\ nexts \subseteq Succ(graph, All, Last(path))
    /\ path = <<>> => nexts = {}

\* A node that has been reached has its successors among those reached, or is about to:
\* a path to it waits to be extended, or is being.
Waiting(m) == \E k \in 1..Len(queue) : Last(queue[k]) = m
Frontier ==
    start # None =>
        /\ start \notin visited
        /\ \A m \in visited \cup {start} :
              \/ Waiting(m)
              \/ path # <<>> /\ Last(path) = m /\ Succ(graph, All, m) \subseteq visited \cup nexts
              \/ Succ(graph, All, m) \subseteq visited
Resting   == pass \in {"build", "end"} => start = None
Searching == TypeOK /\ Resting /\ Paths /\ Frontier

\* A path stays one while neither its start nor the pass and its graph change.
LEMMA PathsStay ==
    ASSUME NEW p, IsPath(p), start' = start, graph' = graph, pass' = pass
    PROVE  IsPath(p)'
BY DEF IsPath, All

LEMMA SearchIsKept == Spec => []Searching
<1>1. Init => Searching
  BY DEF Init, Searching, TypeOK, Resting, Paths, Frontier
<1>2. Searching /\ TypeOK' /\ [Next]_vars => Searching'
  <2> SUFFICES ASSUME Searching, TypeOK', [Next]_vars PROVE Resting' /\ Paths' /\ Frontier'
    BY DEF Searching
  <2> USE DEF Searching
  <2>0. Resting'
    <3> USE DEF Resting
    <3>1. CASE Build \/ NextPass \/ UNCHANGED vars
      BY <3>1 DEF Build, NextPass, vars, search
    <3>2. CASE Take \/ Extended \/ Found \/ NoCycle
      BY <3>2 DEF Take, Extended, Found, NoCycle
    <3>3. CASE \E n \in Nodes : Begin(n) \/ Extend(n)
      BY <3>3 DEF Begin, Extend, search
    <3> QED BY <3>1, <3>2, <3>3 DEF Next
  <2> SUFFICES Paths' /\ Frontier'
    BY <2>0
  <2>1. CASE Build
    BY <2>1 DEF Build, search, TypeOK, Resting, Paths, Frontier
  <2>2. CASE Take
    <3> USE <2>2 DEF Take
    <3>1. queue # <<>> /\ queue \in Seq(Seq(Nodes)) /\ queue' = Tail(queue) /\ path' = queue[1]
      BY DEF TypeOK
    <3>2. IsPath(path)'
      <4>1. IsPath(queue[1])
        BY <3>1 DEF Paths
      <4> QED BY <4>1, <3>1, PathsStay DEF IsPath, All
    <3>3. \A k \in 1..Len(queue') : k + 1 \in 1..Len(queue) /\ queue'[k] = queue[k + 1]
      BY <3>1
    <3>4. Paths'
      <4>2. \A k \in 1..Len(queue') : IsPath(queue[k])'
        <5> SUFFICES ASSUME NEW k \in 1..Len(queue') PROVE IsPath(queue[k])'
          OBVIOUS
        <5>1. IsPath(queue[k + 1]) /\ queue'[k] = queue[k + 1]
          BY <3>3 DEF Paths
        <5> QED BY <5>1 DEF IsPath, All
      <4> QED BY <4>2, <3>2 DEF Paths, All, Last, IsPath
    <3>5. Frontier'
      <4> SUFFICES ASSUME NEW m \in visited \cup {start}
                   PROVE  \/ Waiting(m)'
                          \/ path' # <<>> /\ Last(path') = m /\ Succ(graph, All, m) \subseteq visited \cup nexts'
                          \/ Succ(graph, All, m) \subseteq visited
        BY DEF Frontier, All
      <4>1. CASE Waiting(m)
        <5>1. PICK k \in 1..Len(queue) : Last(queue[k]) = m
          BY <4>1 DEF Waiting
        <5>2. CASE k = 1
          BY <5>1, <5>2, <3>1, <3>2 DEF IsPath
        <5>3. CASE k # 1
          <6>1. k - 1 \in 1..Len(queue') /\ queue'[k - 1] = queue[k]
            BY <3>1, <5>3
          <6> QED BY <6>1, <5>1 DEF Waiting, Last
        <5> QED BY <5>2, <5>3
      <4> QED BY <4>1 DEF Frontier
    <3> QED BY <3>4, <3>5
  <2>3. CASE Extended
    <3> USE <2>3 DEF Extended
    <3>1. Paths'
      <4>1. \A k \in 1..Len(queue) : IsPath(queue[k])'
        BY PathsStay DEF Paths
      <4> QED BY <4>1 DEF Paths
    <3>2. Frontier'
      BY DEF Frontier, Waiting, All
    <3> QED BY <3>1, <3>2
  <2>4. CASE Found
    BY <2>4 DEF Found, QueueGone, Paths, Frontier
  <2>5. CASE NoCycle
    BY <2>5 DEF NoCycle, Paths, Frontier
  <2>6. CASE NextPass
    BY <2>6 DEF NextPass, search, TypeOK, Paths, Frontier
  <2>7. ASSUME NEW n \in Nodes, Begin(n) PROVE Paths' /\ Frontier'
    <3> USE <2>7 DEF Begin
    <3>1. CASE n \in done
      BY <3>1 DEF search, TypeOK, Paths, Frontier
    <3>2. CASE n \notin done
      <4>1. queue' = << <<n>> >> /\ start' = n /\ path' = <<>> /\ nexts' = {} /\ visited' = {}
        BY <3>2 DEF TypeOK, Paths, Fresh
      <4>2. IsPath(<<n>>)'
        <5>1. <<n>> \in Seq(Nodes) /\ Len(<<n>>) = 1 /\ <<n>>[1] = n
          OBVIOUS
        <5> QED BY <5>1, <4>1 DEF IsPath
      <4>3. Paths'
        <5>1. \A k \in 1..Len(queue') : queue'[k] = <<n>>
          BY <4>1
        <5>2. \A k \in 1..Len(queue') : IsPath(queue[k])'
          BY <5>1, <4>2 DEF IsPath, All
        <5> QED BY <5>2, <4>1 DEF Paths
      <4>4. Frontier'
        <5>1. Waiting(n)'
          BY <4>1 DEF Waiting, Last
        <5> QED BY <5>1, <4>1 DEF Frontier
      <4> QED BY <4>3, <4>4
    <3> QED BY <3>1, <3>2
  <2>8. ASSUME NEW n \in Nodes, Extend(n) PROVE Paths' /\ Frontier'
    <3> USE <2>8 DEF Extend
    <3>1. IsPath(path)' /\ start # None /\ n \in nexts /\ n \in Succ(graph, All, Last(path)) /\ n # start
      BY PathsStay DEF Paths, TypeOK, Lowest
    <3>2. CASE n \in visited
      <4>1. \A k \in 1..Len(queue) : IsPath(queue[k])'
        BY PathsStay DEF Paths
      <4>2. Paths'
        BY <3>1, <3>2, <4>1 DEF Paths, All
      <4>3. Frontier'
        BY <3>1, <3>2 DEF Frontier, Waiting, All
      <4> QED BY <4>2, <4>3
    <3>3. CASE n \notin visited
      <4> DEFINE longer == Append(path, n)
      <4>1. queue' = Append(queue, longer) /\ visited' = visited \cup {n} /\ queue \in Seq(Seq(Nodes))
        BY <3>3 DEF TypeOK
      <4>2. /\ longer \in Seq(Nodes) /\ Len(longer) = Len(path) + 1 /\ Last(longer) = n
            /\ path \in Seq(Nodes) /\ Len(path) > 0
            /\ \A k \in 1..Len(path) : longer[k] = path[k]
        BY <3>1 DEF IsPath, Last
      <4>3. IsPath(longer)'
        <5>1. \A k \in 1..Len(longer) - 1 : longer[k + 1] \in Succ(graph, All, longer[k])
          <6> SUFFICES ASSUME NEW k \in 1..Len(path) PROVE longer[k + 1] \in Succ(graph, All, longer[k])
            BY <4>2
          <6>1. CASE k = Len(path)
            BY <6>1, <3>1, <4>2 DEF Last
          <6>2. CASE k # Len(path)
            <7>1. k \in 1..Len(path) - 1 /\ k + 1 \in 1..Len(path)
              BY <6>2, <4>2
            <7> QED BY <7>1, <3>1, <4>2 DEF IsPath, All
          <6> QED BY <6>1, <6>2
        <5>2. longer[1] = start
          BY <3>1, <4>2 DEF IsPath
        <5> QED BY <5>1, <5>2, <4>2 DEF IsPath, All
      <4>9. longer' = longer
        OBVIOUS
      <4> HIDE DEF longer
      <4>4. \A k \in 1..Len(queue') : queue'[k] = longer \/ (k \in 1..Len(queue) /\ queue'[k] = queue[k])
        BY <4>1, <4>2
      <4>5. \A k \in 1..Len(queue) : k \in 1..Len(queue') /\ queue'[k] = queue[k]
        BY <4>1, <4>2
      <4>6. Len(queue') \in 1..Len(queue') /\ queue'[Len(queue')] = longer
        BY <4>1, <4>2
      <4>7. Paths'
        <5>2. \A k \in 1..Len(queue') : IsPath(queue[k])'
          <6> SUFFICES ASSUME NEW k \in 1..Len(queue') PROVE IsPath(queue[k])'
            OBVIOUS
          <6>1. CASE queue'[k] = longer
            BY <6>1, <4>3, <4>9 DEF IsPath, All
          <6>2. CASE k \in 1..Len(queue) /\ queue'[k] = queue[k]
            <7>1. IsPath(queue[k])
              BY <6>2 DEF Paths
            <7> QED BY <7>1, <6>2 DEF IsPath, All
          <6> QED BY <6>1, <6>2, <4>4
        <5> QED BY <5>2, <3>1 DEF Paths, All
      <4>8. Frontier'
        <5>1. Waiting(n)'
          BY <4>2, <4>6 DEF Waiting
        <5>2. \A m : Waiting(m) => Waiting(m)'
          BY <4>5 DEF Waiting
        <5> QED BY <5>1, <5>2, <4>1, <3>1 DEF Frontier, All
      <4> QED BY <4>7, <4>8
    <3> QED BY <3>2, <3>3
  <2>9. CASE UNCHANGED vars
    <3>1. \A k \in 1..Len(queue) : IsPath(queue[k])'
      BY <2>9, PathsStay DEF Paths, vars, search
    <3>2. path # <<>> => IsPath(path)'
      BY <2>9, PathsStay DEF Paths, vars, search
    <3> QED BY <2>9, <3>1, <3>2 DEF vars, search, Paths, Frontier, Waiting, All, IsPath
  <2> QED BY <2>1, <2>2, <2>3, <2>4, <2>5, <2>6, <2>7, <2>8, <2>9 DEF Next
<1>3. QED
  BY <1>1, <1>2, TypeCorrect, PTL DEF Spec

(***************************************************************************)
(* All searches.                                                           *)
(***************************************************************************)
Named(n)        == \E r \in reports : n \in On(r.cycle)
NamedInError(n) == \E r \in reports : r.error /\ n \in On(r.cycle)

\* A start that has been tried is on no cycle, or on one that has been found.
Handled ==
    pass \in {"waits", "all"} =>
        \A n \in Keys(graph, All) : n \in left \/ n = start \/ n \in done \/ ~OnRing(All, n)
Marked ==
    /\ pass = "build" => reports = {} /\ done = {}
    /\ pass = "waits" => (\A n \in done : NamedInError(n)) /\ (\A r \in reports : r.error)
    /\ pass = "all" => \A n \in done : Named(n)
    /\ pass \in {"all", "end"} =>
          /\ \A n \in seen : NamedInError(n)
          /\ \A n \in Nodes : OnRing(FALSE, n) => n \in seen
    /\ pass = "end" => \A n \in Nodes : OnRing(TRUE, n) => Named(n)

\* A node on a cycle has a successor.
LEMMA RingsAreKeys == ASSUME NEW all, NEW n \in Nodes, OnRing(all, n) PROVE n \in Keys(graph, all)
<1>1. Succ(graph, all, n) # {}
  BY DEF OnRing
<1>2. QED
  BY <1>1 DEF Keys

\* A search that finds nothing has been everywhere its start leads.
LEMMA NoCycleIsMissed == ASSUME Searching, NoCycle PROVE ~OnRing(All, start)
<1>1. visited \subseteq Nodes /\ start \in Nodes /\ start \notin visited
  BY DEF Searching, TypeOK, Frontier, NoCycle
<1>2. \A m \in visited \cup {start} : Succ(graph, All, m) \subseteq visited
  BY DEF Searching, Frontier, Waiting, NoCycle
<1>3. QED
  BY <1>1, <1>2 DEF OnRing

\* What is found is a cycle of the pass's edges.
LEMMA FoundIsACycle ==
    ASSUME Searching, Found, NEW c, c = Append(path, start)
    PROVE  /\ c \in Seq(Nodes) /\ Len(c) > 1 /\ c[1] = start /\ c[Len(c)] = start
           /\ \A k \in 1..Len(c) - 1 : c[k + 1] \in Succ(graph, All, c[k])
<1>1. IsPath(path) /\ start \in Succ(graph, All, Last(path)) /\ start \in Nodes
  BY DEF Searching, Found, Paths, Lowest, TypeOK
<1>2. /\ c \in Seq(Nodes) /\ Len(c) = Len(path) + 1 /\ c[Len(c)] = start
      /\ path \in Seq(Nodes) /\ Len(path) > 0
      /\ \A k \in 1..Len(path) : c[k] = path[k]
  BY <1>1 DEF IsPath
<1>3. ASSUME NEW k \in 1..Len(path) PROVE c[k + 1] \in Succ(graph, All, c[k])
  <2>1. CASE k = Len(path)
    BY <2>1, <1>1, <1>2 DEF Last
  <2>2. CASE k # Len(path)
    <3>1. k \in 1..Len(path) - 1 /\ k + 1 \in 1..Len(path)
      BY <2>2, <1>2
    <3> QED BY <3>1, <1>1, <1>2 DEF IsPath
  <2> QED BY <2>1, <2>2
<1>4. c[1] = start
  BY <1>1, <1>2 DEF IsPath
<1>5. QED
  BY <1>2, <1>3, <1>4

Checked == Searching /\ Handled /\ Marked

LEMMA NothingIsMissed == Spec => []Checked
<1>1. Init => Handled /\ Marked
  BY DEF Init, Handled, Marked
<1>2. Checked /\ Searching' /\ [Next]_vars => Checked'
  <2> SUFFICES ASSUME Checked, Searching', [Next]_vars PROVE Handled' /\ Marked'
    BY DEF Checked
  <2> USE DEF Checked
  <2>1. CASE Build
    BY <2>1 DEF Build, Handled, Marked, All
  <2>2. ASSUME UNCHANGED <<graph, pass, done, seen, reports>>,
               \A n \in Nodes :
                  n \in left \/ n = start => n \in left' \/ n = start' \/ n \in done \/ ~OnRing(All, n)
        PROVE  Handled' /\ Marked'
    <3>1. \A all, n : OnRing(all, n)' <=> OnRing(all, n)
      BY <2>2 DEF OnRing
    <3>2. Handled'
      BY <2>2, <3>1 DEF Handled, All, Keys
    <3>3. Marked'
      BY <2>2, <3>1 DEF Marked, Named, NamedInError
    <3> QED BY <3>2, <3>3
  <2>3. CASE Take \/ Extended
    BY <2>2, <2>3 DEF Take, Extended
  <2>4. CASE NoCycle
    BY <2>2, <2>4, NoCycleIsMissed DEF NoCycle
  <2>5. ASSUME NEW n \in Nodes, Begin(n) PROVE Handled' /\ Marked'
    <3>1. UNCHANGED <<graph, pass, done, seen, reports>> /\ left' = left \ {n} /\ start = None
      BY <2>5 DEF Begin
    <3>2. n \in done \/ start' = n
      BY <2>5 DEF Begin
    <3> QED BY <2>2, <3>1, <3>2, DeadlockAssumption
  <2>6. ASSUME NEW n \in Nodes, Extend(n) PROVE Handled' /\ Marked'
    BY <2>2, <2>6 DEF Extend
  <2>7. CASE UNCHANGED vars
    <3>1. UNCHANGED <<graph, pass, done, seen, reports>> /\ left' = left /\ start' = start
      BY <2>7 DEF vars, search
    <3> QED BY <2>2, <3>1
  <2>8. CASE Found
    <3>0. PICK cycle : cycle = Append(path, start)
      OBVIOUS
    <3>1. start \in On(cycle) /\ pass \in {"waits", "all"} /\ done' = done \cup On(cycle)
      <4>1. cycle \in Seq(Nodes) /\ Len(cycle) > 1 /\ cycle[1] = start
        BY <2>8, <3>0, FoundIsACycle
      <4>2. 1 \in 1..Len(cycle)
        BY <4>1
      <4>3. pass \in {"waits", "all"}
        BY <2>8 DEF Found, Searching, Resting, TypeOK
      <4> QED BY <4>1, <4>2, <4>3, <2>8, <3>0 DEF Found, On
    <3>2. Handled'
      BY <2>8, <3>1 DEF Found, Handled, All, OnRing
    <3>3. UNCHANGED <<graph, pass, seen>> /\ reports \subseteq reports'
      BY <2>8 DEF Found, Report, AddTo
    <3>4. ASSUME NEW e \in BOOLEAN, reports' = reports \cup {[cycle |-> cycle, error |-> e]}
          PROVE  \A n \in On(cycle) : Named(n)' /\ (e => NamedInError(n)')
      <4> DEFINE new == [cycle |-> cycle, error |-> e]
      <4>1. new \in reports' /\ new.cycle = cycle /\ new.error = e
        BY <3>4
      <4> HIDE DEF new
      <4> QED BY <4>1 DEF Named, NamedInError
    <3>5. \A n : (Named(n) => Named(n)') /\ (NamedInError(n) => NamedInError(n)')
      BY <3>3 DEF Named, NamedInError
    <3>6. CASE pass = "waits"
      <4>1. reports' = reports \cup {[cycle |-> cycle, error |-> TRUE]}
        BY <2>8, <3>0, <3>6 DEF Found, Report, AddTo, All
      <4>2. \A n \in done' : NamedInError(n)'
        BY <3>1, <3>4, <3>5, <3>6, <4>1 DEF Marked
      <4>3. \A r \in reports' : r.error
        BY <3>6, <4>1 DEF Marked
      <4>4. Marked'
        BY <3>3, <3>6, <4>2, <4>3 DEF Marked
      <4> QED BY <3>2, <4>4
    <3>7. CASE pass = "all"
      <4>1. \A n \in On(cycle) : Named(n)'
        <5>1. CASE reports' = reports \cup {[cycle |-> cycle, error |-> TRUE]}
          BY <3>4, <5>1
        <5>2. CASE reports' = reports \cup {[cycle |-> cycle, error |-> FALSE]}
          BY <3>4, <5>2
        <5>3. CASE AllSeen(cycle) /\ reports' = reports
          <6>1. \A n \in On(cycle) : NamedInError(n)
            BY <3>7, <5>3 DEF AllSeen, Marked
          <6> QED BY <6>1, <3>5 DEF Named, NamedInError
        <5> QED BY <2>8, <3>0, <5>1, <5>2, <5>3 DEF Found, Report, AddTo
      <4>2. \A n \in done' : Named(n)'
        BY <3>1, <3>5, <3>7, <4>1 DEF Marked
      <4>3. \A n \in seen' : NamedInError(n)'
        BY <3>3, <3>5, <3>7 DEF Marked
      <4>4. \A n \in Nodes : OnRing(FALSE, n)' => n \in seen'
        BY <3>3, <3>7 DEF Marked, OnRing
      <4> QED BY <3>2, <3>3, <3>7, <4>2, <4>3, <4>4 DEF Marked
    <3> QED BY <3>1, <3>6, <3>7
  <2>9. CASE NextPass
    <3> USE <2>9
    <3>1. UNCHANGED <<graph, reports>> /\ left = {} /\ start = None
      BY DEF NextPass
    <3>2. \A n \in Nodes : pass \in {"waits", "all"} /\ OnRing(All, n) => n \in done
      BY <3>1, RingsAreKeys, DeadlockAssumption DEF Handled
    <3>3. \A all, n : OnRing(all, n)' <=> OnRing(all, n)
      BY <3>1 DEF OnRing
    <3>4. CASE pass = "waits"
      <4>1. pass' = "all" /\ left' = Keys(graph, TRUE) /\ done' = {} /\ seen' = UNION {On(r.cycle) : r \in reports}
        BY <3>4 DEF NextPass
      <4>2. Handled'
        BY <3>1, <4>1 DEF Handled, All
      <4>3. \A n \in seen' : NamedInError(n)'
        BY <3>1, <3>4, <4>1 DEF Marked, NamedInError
      <4>4. \A n \in Nodes : OnRing(FALSE, n) => n \in seen'
        <5>1. \A n \in Nodes : OnRing(FALSE, n) => NamedInError(n)
          <6>1. All = FALSE
            BY <3>4 DEF All
          <6> QED BY <3>2, <3>4, <6>1 DEF Marked
        <5> QED BY <4>1, <5>1 DEF NamedInError
      <4> QED BY <3>3, <4>1, <4>2, <4>3, <4>4 DEF Marked
    <3>5. CASE pass = "all"
      <4>1. pass' = "end" /\ UNCHANGED <<done, seen>>
        BY <3>5 DEF NextPass
      <4>2. \A n \in Nodes : OnRing(TRUE, n) => Named(n)
        <5>1. All = TRUE
          BY <3>5 DEF All
        <5> QED BY <3>2, <3>5, <5>1 DEF Marked
      <4> QED BY <3>1, <3>3, <3>5, <4>1, <4>2 DEF Handled, Marked, Named, NamedInError
    <3> QED BY <3>4, <3>5 DEF NextPass
  <2> QED BY <2>1, <2>3, <2>4, <2>5, <2>6, <2>7, <2>8, <2>9 DEF Next
<1>3. QED
  BY <1>1, <1>2, SearchIsKept, PTL DEF Spec, Checked

\* Every actor on a cycle is named by a report: a search of the cycles' nodes that skips
\* those already named misses none (cycles).
THEOREM NoCycleGoesUnreported == Spec => []EveryCycleIsReported
<1>1. Checked => EveryCycleIsReported
  BY RingsAreCycles DEF Checked, Searching, Marked, Named, EveryCycleIsReported
<1>2. QED
  BY <1>1, NothingIsMissed, PTL

\* Every actor on a cycle whose edges all wait is named by an error.
THEOREM NoGateCycleGoesUnreported == Spec => []GateCyclesAreErrors
<1>1. Checked => GateCyclesAreErrors
  BY RingsAreCycles DEF Checked, Searching, Marked, NamedInError, GateCyclesAreErrors
<1>2. QED
  BY <1>1, NothingIsMissed, PTL

(***************************************************************************)
(* What a report says.                                                     *)
(***************************************************************************)
Says(c, error) ==
    /\ IsCycle(c)
    /\ IF error THEN ~Loaded(c) \/ Occupied(c) ELSE Loaded(c) /\ ~Occupied(c)

\* A cycle that needs no full mailbox was found in the first pass, so the second does not
\* warn of it.
LEMMA FoundIsTrue ==
    ASSUME Checked, Found, NEW c, c = Append(path, start)
    PROVE  /\ ~All \/ Occupied(c) => Says(c, TRUE)
           /\ All /\ ~Occupied(c) /\ ~AllSeen(c) => Says(c, FALSE)
<1> USE DEF Checked
<1>1. /\ c \in Seq(Nodes) /\ Len(c) > 1 /\ c[1] = start /\ c[Len(c)] = start
      /\ \A k \in 1..Len(c) - 1 : c[k + 1] \in Succ(graph, All, c[k])
  BY FoundIsACycle
<1>2. \A k \in 1..Len(c) - 1 : graph[c[k]][c[k + 1]] # "none"
  BY <1>1 DEF Succ, Edge, Unconditional
<1>3. IsCycle(c)
  BY <1>1, <1>2 DEF IsCycle, Last
<1>4. ASSUME ~All PROVE ~Loaded(c)
  BY <1>1, <1>4 DEF Loaded, Succ, Edge, Unconditional
<1>5. ASSUME All, ~Loaded(c), ~AllSeen(c) PROVE FALSE
  <2>1. pass = "all"
    BY <1>5 DEF All
  <2>2. \A k \in 1..Len(c) - 1 : c[k + 1] \in Succ(graph, FALSE, c[k])
    <3> SUFFICES ASSUME NEW k \in 1..Len(c) - 1 PROVE c[k + 1] \in Succ(graph, FALSE, c[k])
      OBVIOUS
    <3>1. c[k] \in Nodes /\ c[k + 1] \in Nodes
      BY <1>1
    <3>2. graph[c[k]][c[k + 1]] \in Kinds \ {"pressure"}
      BY <1>2, <1>5, <3>1 DEF Loaded, Searching, TypeOK
    <3> QED BY <3>1, <3>2 DEF Succ, Edge, Unconditional, Kinds
  <2>3. \A j \in 1..Len(c) : OnRing(FALSE, c[j])
    <3>1. c[1] = c[Len(c)] /\ TypeOK
      BY <1>1 DEF Searching
    <3> QED BY <1>1, <2>2, <3>1, CyclesAreRings
  <2>4. \A j \in 1..Len(c) : c[j] \in seen
    <3>1. \A j \in 1..Len(c) : c[j] \in Nodes
      BY <1>1
    <3> QED BY <2>1, <2>3, <3>1 DEF Marked
  <2> QED BY <1>5, <2>4 DEF AllSeen, On
<1>6. QED
  BY <1>3, <1>4, <1>5 DEF Says

\* What is reported is a cycle of the strength it says.
THEOREM ReportsAreFair == Spec => []ReportsAreTrue
<1>1. Init => ReportsAreTrue
  BY DEF Init, ReportsAreTrue
<1>2. Checked /\ ReportsAreTrue /\ [Next]_vars => ReportsAreTrue'
  <2> SUFFICES ASSUME Checked, ReportsAreTrue, [Next]_vars PROVE ReportsAreTrue'
    OBVIOUS
  <2>1. CASE Build
    BY <2>1 DEF Build, Checked, Marked, ReportsAreTrue
  <2>2. CASE graph' = graph /\ reports' = reports
    BY <2>2 DEF ReportsAreTrue, IsCycle, Loaded, Occupied
  <2>3. CASE Take \/ Extended \/ NoCycle \/ NextPass \/ UNCHANGED vars
    BY <2>2, <2>3 DEF Take, Extended, NoCycle, NextPass, vars
  <2>4. CASE \E n \in Nodes : Begin(n) \/ Extend(n)
    BY <2>2, <2>4 DEF Begin, Extend
  <2>5. CASE Found
    <3>1. PICK c : c = Append(path, start)
      OBVIOUS
    <3>2. graph' = graph
      BY <2>5 DEF Found
    <3>3. \A d, e : Says(d, e)' <=> Says(d, e)
      BY <3>2 DEF Says, IsCycle, Loaded, Occupied
    <3>4. \A r \in reports : Says(r.cycle, r.error)
      BY DEF ReportsAreTrue, Says
    <3>5. ASSUME NEW e \in BOOLEAN, Says(c, e), AddTo(c, e) PROVE ReportsAreTrue'
      <4>1. \A r \in reports' : Says(r.cycle, r.error)
        BY <3>4, <3>5 DEF AddTo
      <4> QED BY <3>3, <4>1 DEF ReportsAreTrue, Says
    <3>6. \/ (~All \/ Occupied(c)) /\ AddTo(c, TRUE)
          \/ reports' = reports
          \/ All /\ ~Occupied(c) /\ ~AllSeen(c) /\ AddTo(c, FALSE)
      BY <2>5, <3>1 DEF Found, Report
    <3> QED BY <2>2, <2>5, <3>1, <3>2, <3>5, <3>6, FoundIsTrue
  <2> QED BY <2>1, <2>3, <2>4, <2>5 DEF Next
<1>3. QED
  BY <1>1, <1>2, NothingIsMissed, PTL DEF Spec

(***************************************************************************)
(* Sets that grow step by step.                                            *)
(***************************************************************************)

\* A set of numbers that has 0 and the successors of its members has them all.
LEMMA Counting ==
    ASSUME NEW T, 0 \in T, \A n \in T : n \in Nat => n + 1 \in T
    PROVE  Nat \subseteq T
<1> SUFFICES ASSUME Nat \ T # {} PROVE FALSE
  OBVIOUS
<1> DEFINE R == {p \in Nat \X Nat : p[1] < p[2]}
<1>1. IsWellFoundedOn(R, Nat)
  BY NatLessThanWellFounded DEF OpToRel
<1>2. PICK x \in Nat \ T : \A y \in Nat \ T : <<y, x>> \notin R
  <2> HIDE DEF R
  <2> QED BY <1>1, WFMin
<1>3. x # 0 /\ x - 1 \in Nat /\ <<x - 1, x>> \in R
  <2>1. x # 0 /\ x - 1 \in Nat /\ x - 1 < x
    OBVIOUS
  <2> QED BY <2>1
<1>4. x - 1 \in T
  BY <1>2, <1>3
<1> QED BY <1>3, <1>4

\* The sets of n steps of growth from a seed.
Grows(f, n, X, seed, step) ==
    /\ f \in [0..n -> SUBSET X] /\ f[0] = seed
    /\ \A k \in 0..n - 1 : f[k + 1] = step[f[k]]

LEMMA GrowthExists ==
    ASSUME NEW X, NEW seed \in SUBSET X, NEW step \in [SUBSET X -> SUBSET X], NEW n \in Nat
    PROVE  \E f : Grows(f, n, X, seed, step)
<1> DEFINE T == {m \in Nat : \E f : Grows(f, m, X, seed, step)}
<1>1. 0 \in T
  <2>1. Grows([k \in 0..0 |-> seed], 0, X, seed, step)
    BY DEF Grows
  <2> QED BY <2>1
<1>2. ASSUME NEW m \in T PROVE m + 1 \in T
  <2>1. PICK f : Grows(f, m, X, seed, step)
    OBVIOUS
  <2> DEFINE g == [k \in 0..m + 1 |-> IF k = m + 1 THEN step[f[m]] ELSE f[k]]
  <2>2. m \in 0..m /\ f[m] \in SUBSET X
    BY <2>1 DEF Grows
  <2>3. g \in [0..m + 1 -> SUBSET X]
    BY <2>1, <2>2 DEF Grows
  <2>4. g[0] = seed
    BY <2>1 DEF Grows
  <2>5. ASSUME NEW k \in 0..(m + 1) - 1 PROVE g[k + 1] = step[g[k]]
    <3>1. CASE k = m
      BY <3>1
    <3>2. CASE k # m
      <4>1. k \in 0..m - 1 /\ k + 1 \in 0..m + 1 /\ k \in 0..m + 1 /\ k + 1 # m + 1 /\ k # m + 1
        BY <3>2
      <4> QED BY <4>1, <2>1 DEF Grows
    <3> QED BY <3>1, <3>2
  <2>6. Grows(g, m + 1, X, seed, step)
    <3> HIDE DEF g
    <3> QED BY <2>3, <2>4, <2>5 DEF Grows
  <2> QED BY <2>6
<1> HIDE DEF T
<1>3. n \in T
  BY <1>1, <1>2, Counting
<1> QED BY <1>3 DEF T

\* Two that grow alike agree as far as both go.
LEMMA GrowthAgrees ==
    ASSUME NEW X, NEW seed \in SUBSET X, NEW step \in [SUBSET X -> SUBSET X],
           NEW m \in Nat, NEW n \in Nat, NEW f, NEW g,
           Grows(f, m, X, seed, step), Grows(g, n, X, seed, step)
    PROVE  \A k \in 0..m : k \in 0..n => f[k] = g[k]
<1> DEFINE T == {k \in Nat : k <= m /\ k <= n => f[k] = g[k]}
<1>1. 0 \in T
  BY DEF Grows
<1>2. ASSUME NEW k \in T PROVE k + 1 \in T
  <2>1. SUFFICES ASSUME k + 1 <= m, k + 1 <= n PROVE f[k + 1] = g[k + 1]
    OBVIOUS
  <2>2. k \in 0..m - 1 /\ k \in 0..n - 1 /\ f[k] = g[k]
    BY <2>1
  <2> QED BY <2>2 DEF Grows
<1> HIDE DEF T
<1>3. Nat \subseteq T
  BY <1>1, <1>2, Counting
<1> QED BY <1>3 DEF T

\* So there is one that goes on for ever.
Growing(f, X, seed, step) ==
    f \in [Nat -> SUBSET X] /\ f[0] = seed /\ \A k \in Nat : f[k + 1] = step[f[k]]

LEMMA Growth ==
    ASSUME NEW X, NEW seed \in SUBSET X, NEW step \in [SUBSET X -> SUBSET X]
    PROVE  \E f : Growing(f, X, seed, step)
<1> DEFINE upto == [n \in Nat |-> CHOOSE f : Grows(f, n, X, seed, step)]
<1> DEFINE f == [n \in Nat |-> upto[n][n]]
<1>1. ASSUME NEW n \in Nat PROVE Grows(upto[n], n, X, seed, step)
  BY GrowthExists
<1> HIDE DEF upto
<1>2. f \in [Nat -> SUBSET X]
  <2>1. ASSUME NEW n \in Nat PROVE f[n] \in SUBSET X
    BY <1>1 DEF Grows
  <2> QED BY <2>1
<1>3. f[0] = seed
  BY <1>1 DEF Grows
<1>4. ASSUME NEW k \in Nat PROVE f[k + 1] = step[f[k]]
  <2>1. k + 1 \in Nat /\ k \in 0..k /\ k \in 0..k + 1 /\ k \in 0..(k + 1) - 1
    OBVIOUS
  <2>2. upto[k + 1][k + 1] = step[upto[k + 1][k]]
    BY <1>1, <2>1 DEF Grows
  <2>3. upto[k][k] = upto[k + 1][k]
    <3>1. Grows(upto[k], k, X, seed, step) /\ Grows(upto[k + 1], k + 1, X, seed, step)
      BY <1>1, <2>1
    <3> QED BY <2>1, <3>1, GrowthAgrees
  <2> QED BY <2>1, <2>2, <2>3
<1> HIDE DEF f
<1> QED BY <1>2, <1>3, <1>4 DEF Growing

\* What grows within a finite set has its limit after as many steps as that has members:
\* it grows no further, and has only what it must.
Limit(L, X, seed, step) ==
    /\ L \in SUBSET X /\ seed \subseteq L /\ step[L] = L
    /\ \A S \in SUBSET X : seed \subseteq S /\ (\A A \in SUBSET S : step[A] \subseteq S)
                             => L \subseteq S

LEMMA GrowthEnds ==
    ASSUME NEW X, IsFiniteSet(X), NEW seed \in SUBSET X, NEW step \in [SUBSET X -> SUBSET X],
           \A A \in SUBSET X : A \subseteq step[A],
           NEW f, Growing(f, X, seed, step)
    PROVE  Limit(f[Cardinality(X)], X, seed, step)
<1> DEFINE N == Cardinality(X)
<1> USE DEF Growing
<1>0. N \in Nat
  BY FS_CardinalityType
<1>1. ASSUME NEW k \in Nat
      PROVE  IsFiniteSet(f[k]) /\ Cardinality(f[k]) \in Nat /\ Cardinality(f[k]) <= N
  BY FS_Subset, FS_CardinalityType
<1>2. ASSUME NEW k \in Nat, f[k + 1] # f[k]
      PROVE  Cardinality(f[k]) < Cardinality(f[k + 1])
  <2>1. k + 1 \in Nat /\ f[k] \in SUBSET f[k + 1]
    OBVIOUS
  <2>2. Cardinality(f[k]) <= Cardinality(f[k + 1])
    BY <1>1, <2>1, FS_Subset
  <2>3. Cardinality(f[k]) # Cardinality(f[k + 1])
    BY <1>1, <1>2, <2>1, FS_Subset
  <2>4. Cardinality(f[k]) \in Nat /\ Cardinality(f[k + 1]) \in Nat
    BY <1>1, <2>1
  <2> QED BY <2>2, <2>3, <2>4
<1> DEFINE T == {k \in Nat : f[k + 1] = f[k] \/ Cardinality(f[k + 1]) >= k + 1}
<1>3. N \in T
  <2>1. 0 \in T
    <3>1. 0 + 1 \in Nat
      OBVIOUS
    <3> QED BY <1>1, <1>2, <3>1
  <2>2. ASSUME NEW k \in T PROVE k + 1 \in T
    <3>0. k \in Nat /\ k + 1 \in Nat /\ (k + 1) + 1 \in Nat
      OBVIOUS
    <3>1. CASE f[k + 1] = f[k]
      BY <3>0, <3>1
    <3>2. CASE f[(k + 1) + 1] # f[k + 1] /\ f[k + 1] # f[k]
      <4>1. Cardinality(f[k + 1]) >= k + 1
        BY <3>2
      <4>2. Cardinality(f[k + 1]) < Cardinality(f[(k + 1) + 1])
        BY <3>0, <3>2, <1>2
      <4>3. Cardinality(f[(k + 1) + 1]) >= (k + 1) + 1
        BY <3>0, <4>1, <4>2, <1>1
      <4> QED BY <3>0, <4>3
    <3> QED BY <3>0, <3>1, <3>2
  <2> HIDE DEF T
  <2>3. Nat \subseteq T
    BY <2>1, <2>2, Counting
  <2> QED BY <1>0, <2>3
<1>4. step[f[N]] = f[N]
  <2>1. N + 1 \in Nat /\ f[N + 1] = step[f[N]]
    BY <1>0
  <2>2. ~(Cardinality(f[N + 1]) >= N + 1)
    BY <1>0, <1>1, <2>1
  <2> QED BY <1>3, <2>1, <2>2
<1> HIDE DEF N
<1>5. f[N] \in SUBSET X
  BY <1>0
<1>6. seed \subseteq f[N]
  <2> DEFINE U == {k \in Nat : seed \subseteq f[k]}
  <2>1. 0 \in U
    OBVIOUS
  <2>2. ASSUME NEW k \in U PROVE k + 1 \in U
    OBVIOUS
  <2> HIDE DEF U
  <2>3. Nat \subseteq U
    BY <2>1, <2>2, Counting
  <2> QED BY <1>0, <2>3 DEF U
<1>7. ASSUME NEW S \in SUBSET X, seed \subseteq S, \A A \in SUBSET S : step[A] \subseteq S
      PROVE  f[N] \subseteq S
  <2> DEFINE U == {k \in Nat : f[k] \subseteq S}
  <2>1. 0 \in U
    BY <1>7
  <2>2. ASSUME NEW k \in U PROVE k + 1 \in U
    BY <1>7
  <2> HIDE DEF U
  <2>3. Nat \subseteq U
    BY <2>1, <2>2, Counting
  <2> QED BY <1>0, <2>3 DEF U
<1>8. QED
  BY <1>4, <1>5, <1>6, <1>7 DEF Limit, N

\* The model's loops are such growths.
Loops(g, X, seed, step) ==
    /\ g = [k \in Nat |-> g[k]] /\ g[0] = seed
    /\ \A k \in Nat : g[k] \in SUBSET X => g[k + 1] = step[g[k]]

LEMMA LoopEnds ==
    ASSUME NEW X, IsFiniteSet(X), NEW seed \in SUBSET X, NEW step \in [SUBSET X -> SUBSET X],
           \A A \in SUBSET X : A \subseteq step[A],
           NEW g, Loops(g, X, seed, step)
    PROVE  Limit(g[Cardinality(X)], X, seed, step)
<1> DEFINE T == {k \in Nat : g[k] \in SUBSET X}
<1> USE DEF Loops
<1>1. 0 \in T
  OBVIOUS
<1>2. ASSUME NEW k \in T PROVE k + 1 \in T
  OBVIOUS
<1> HIDE DEF T
<1>3. Nat \subseteq T
  BY <1>1, <1>2, Counting
<1>4. \A k \in Nat : g[k] \in SUBSET X
  BY <1>3 DEF T
<1>5. Growing(g, X, seed, step)
  BY <1>4 DEF Growing
<1> QED BY <1>5, GrowthEnds

\* What a handler binds, and what those bind, up to whoever waits.
Callers(p) == [A \in SUBSET Handlers |->
                 A \cup {h \in Handlers : \E b \in A : <<h, b>> \in p.binds}]
LEMMA WaitsLimit ==
    ASSUME NEW p \in Program
    PROVE  Limit(WaitsOf(p), Handlers, p.waits, Callers(p))
<1> DEFINE body(f) == [k \in Nat |->
            IF k = 0 THEN p.waits
            ELSE f[k - 1] \cup {h \in Handlers : \E b \in f[k - 1] : <<h, b>> \in p.binds}]
<1>1. p.waits \in SUBSET Handlers /\ Callers(p) \in [SUBSET Handlers -> SUBSET Handlers]
  BY DEF Program, Callers
<1>2. \E f : f = body(f)
  <2>1. PICK f : Growing(f, Handlers, p.waits, Callers(p))
    BY <1>1, Growth
  <2>2. ASSUME NEW k \in Nat PROVE f[k] = body(f)[k]
    <3>1. CASE k = 0
      BY <2>1, <3>1 DEF Growing
    <3>2. CASE k # 0
      <4>1. k - 1 \in Nat /\ (k - 1) + 1 = k
        BY <3>2
      <4>2. f[k] = Callers(p)[f[k - 1]] /\ f[k - 1] \in SUBSET Handlers
        BY <2>1, <4>1 DEF Growing
      <4> QED BY <4>1, <4>2, <3>2 DEF Callers
    <3> QED BY <3>1, <3>2
  <2>3. f = body(f)
    BY <2>1, <2>2 DEF Growing
  <2> QED BY <2>3
<1> DEFINE g == CHOOSE f : f = body(f)
<1>3. g = body(g)
  BY <1>2
<1>4. WaitsOf(p) = g[Cardinality(Handlers)]
  BY DEF WaitsOf
<1> HIDE DEF g
<1>5. ASSUME NEW k \in Nat, g[k] \in SUBSET Handlers PROVE g[k + 1] = Callers(p)[g[k]]
  <2>1. k + 1 \in Nat /\ k + 1 # 0 /\ (k + 1) - 1 = k
    OBVIOUS
  <2> QED BY <1>3, <1>5, <2>1 DEF Callers
<1>6. g[0] = p.waits /\ g = [k \in Nat |-> g[k]]
  BY <1>3
<1>7. \A A \in SUBSET Handlers : A \subseteq Callers(p)[A]
  BY DEF Callers
<1>8. Loops(g, Handlers, p.waits, Callers(p))
  BY <1>5, <1>6 DEF Loops
<1>9. IsFiniteSet(Handlers) /\ IsFiniteSet(Tasks)
  BY ProgramAssumption
<1> HIDE DEF body
<1>10. Limit(g[Cardinality(Handlers)], Handlers, p.waits, Callers(p))
  BY <1>1, <1>7, <1>8, <1>9, LoopEnds
<1> QED BY <1>4, <1>10

\* What a handler mints, and what those tasks mint.
Minting(p) == [A \in SUBSET Tasks |-> A \cup UNION {TasksMinted(p, t) : t \in A}]
LEMMA TasksLimit ==
    ASSUME NEW p \in Program, NEW h \in Handlers
    PROVE  Limit(TasksReached(p, h), Tasks, TasksMinted(p, h), Minting(p))
<1> DEFINE body(f) == [k \in Nat |->
            IF k = 0 THEN TasksMinted(p, h)
            ELSE f[k - 1] \cup UNION {TasksMinted(p, t) : t \in f[k - 1]}]
<1>1. /\ TasksMinted(p, h) \in SUBSET Tasks
      /\ Minting(p) \in [SUBSET Tasks -> SUBSET Tasks]
  BY DEF TasksMinted, Minting
<1>2. \E f : f = body(f)
  <2>1. PICK f : Growing(f, Tasks, TasksMinted(p, h), Minting(p))
    BY <1>1, Growth
  <2>2. ASSUME NEW k \in Nat PROVE f[k] = body(f)[k]
    <3>1. CASE k = 0
      BY <2>1, <3>1 DEF Growing
    <3>2. CASE k # 0
      <4>1. k - 1 \in Nat /\ (k - 1) + 1 = k
        BY <3>2
      <4>2. f[k] = Minting(p)[f[k - 1]] /\ f[k - 1] \in SUBSET Tasks
        BY <2>1, <4>1 DEF Growing
      <4> QED BY <4>1, <4>2, <3>2 DEF Minting
    <3> QED BY <3>1, <3>2
  <2>3. f = body(f)
    BY <2>1, <2>2 DEF Growing
  <2> QED BY <2>3
<1> DEFINE g == CHOOSE f : f = body(f)
<1>3. g = body(g)
  BY <1>2
<1>4. TasksReached(p, h) = g[Cardinality(Tasks)]
  BY DEF TasksReached
<1> HIDE DEF g
<1>5. ASSUME NEW k \in Nat, g[k] \in SUBSET Tasks PROVE g[k + 1] = Minting(p)[g[k]]
  <2>1. k + 1 \in Nat /\ k + 1 # 0 /\ (k + 1) - 1 = k
    OBVIOUS
  <2> QED BY <1>3, <1>5, <2>1 DEF Minting
<1>6. g[0] = TasksMinted(p, h) /\ g = [k \in Nat |-> g[k]]
  BY <1>3
<1>7. \A A \in SUBSET Tasks : A \subseteq Minting(p)[A]
  BY DEF Minting
<1>8. Loops(g, Tasks, TasksMinted(p, h), Minting(p))
  BY <1>5, <1>6 DEF Loops
<1>9. IsFiniteSet(Handlers) /\ IsFiniteSet(Tasks)
  BY ProgramAssumption
<1> HIDE DEF body
<1>10. Limit(g[Cardinality(Tasks)], Tasks, TasksMinted(p, h), Minting(p))
  BY <1>1, <1>7, <1>8, <1>9, LoopEnds
<1> QED BY <1>4, <1>10

(***************************************************************************)
(* Closures and reachability.                                              *)
(***************************************************************************)

\* A handler is found to wait exactly when its bindings lead to one that does.
LEMMA WaitsAreReached ==
    ASSUME NEW p \in Program
    PROVE  WaitsOf(p) = {h \in Handlers : \E w \in p.waits : Reaches(p.binds, h, w)}
<1> DEFINE W == WaitsOf(p)
<1> DEFINE G == {h \in Handlers : \E w \in p.waits : Reaches(p.binds, h, w)}
<1>1. p.waits \subseteq Handlers /\ p.binds \subseteq Handlers \X Handlers
  BY DEF Program
<1>2. /\ W \subseteq Handlers /\ p.waits \subseteq W
      /\ \A h \in Handlers, b \in W : <<h, b>> \in p.binds => h \in W
  <2>1. W \in SUBSET Handlers /\ p.waits \subseteq W /\ Callers(p)[W] = W
    BY WaitsLimit DEF Limit
  <2>2. Callers(p)[W] = W \cup {h \in Handlers : \E b \in W : <<h, b>> \in p.binds}
    BY <2>1 DEF Callers
  <2> HIDE DEF W
  <2> QED BY <2>1, <2>2
<1>3. W \subseteq G
  <2>1. p.waits \subseteq G
    BY <1>1 DEF Reaches
  <2>2. ASSUME NEW h \in Handlers, NEW b \in G, <<h, b>> \in p.binds PROVE h \in G
    <3>1. PICK w \in p.waits : Reaches(p.binds, b, w)
      OBVIOUS
    <3>2. Reaches(p.binds, h, w)
      BY <3>1, <2>2 DEF Reaches, Closed
    <3> QED BY <3>2
  <2>3. ASSUME NEW A \in SUBSET G PROVE Callers(p)[A] \subseteq G
    <3> HIDE DEF G
    <3>1. A \in SUBSET Handlers
      BY DEF G
    <3> QED BY <2>2, <3>1 DEF Callers, G
  <2>4. G \in SUBSET Handlers
    OBVIOUS
  <2> HIDE DEF G
  <2> QED BY <2>1, <2>3, <2>4, WaitsLimit DEF Limit
<1>4. G \subseteq W
  <2> SUFFICES ASSUME NEW h \in G, h \notin W PROVE FALSE
    OBVIOUS
  <2>1. PICK w \in p.waits : Reaches(p.binds, h, w)
    OBVIOUS
  <2> DEFINE S == (Handlers \cup Tasks) \ W
  <2>2. Closed(p.binds, S)
    BY <1>1, <1>2 DEF Closed
  <2>3. w \in S
    BY <2>1, <2>2 DEF Reaches
  <2> QED BY <1>2, <2>3
<1> QED BY <1>3, <1>4

\* A task is found exactly when it is minted, or minted by one that is found.
LEMMA TasksAreReached ==
    ASSUME NEW p \in Program, NEW h \in Handlers
    PROVE  TasksReached(p, h) = {x \in Tasks : Reaches(p.mints, h, x)}
<1> DEFINE R == TasksReached(p, h)
<1> DEFINE G == {x \in Tasks : Reaches(p.mints, h, x)}
<1>1. p.mints \subseteq (Handlers \cup Tasks) \X Tasks
  BY DEF Program
<1>2. /\ R \subseteq Tasks /\ \A x \in Tasks : <<h, x>> \in p.mints => x \in R
      /\ \A t \in R, x \in Tasks : <<t, x>> \in p.mints => x \in R
  <2>1. R \in SUBSET Tasks /\ TasksMinted(p, h) \subseteq R /\ Minting(p)[R] = R
    BY TasksLimit DEF Limit
  <2>2. Minting(p)[R] = R \cup UNION {TasksMinted(p, t) : t \in R}
    BY <2>1 DEF Minting
  <2> HIDE DEF R
  <2>3. \A x \in Tasks : <<h, x>> \in p.mints => x \in R
    BY <2>1 DEF TasksMinted
  <2>4. \A t \in R, x \in Tasks : <<t, x>> \in p.mints => x \in TasksMinted(p, t)
    BY DEF TasksMinted
  <2>5. \A t \in R : TasksMinted(p, t) \subseteq R
    BY <2>1, <2>2
  <2> QED BY <2>1, <2>3, <2>4, <2>5
<1>3. R \subseteq G
  <2>1. TasksMinted(p, h) \subseteq G
    BY DEF Reaches, Closed, TasksMinted
  <2>2. ASSUME NEW t \in G, NEW x \in TasksMinted(p, t) PROVE x \in G
    BY DEF Reaches, Closed, TasksMinted
  <2>3. ASSUME NEW A \in SUBSET G PROVE Minting(p)[A] \subseteq G
    <3>1. A \in SUBSET Tasks
      OBVIOUS
    <3> HIDE DEF G
    <3> QED BY <2>2, <3>1 DEF Minting
  <2>4. G \in SUBSET Tasks
    OBVIOUS
  <2> HIDE DEF G
  <2> QED BY <2>1, <2>3, <2>4, TasksLimit DEF Limit
<1>4. G \subseteq R
  <2> SUFFICES ASSUME NEW x \in G PROVE x \in R
    OBVIOUS
  <2> DEFINE S == {h} \cup R
  <2>1. S \in SUBSET (Handlers \cup Tasks) /\ Closed(p.mints, S)
    BY <1>1, <1>2 DEF Closed
  <2>2. x \in S /\ x # h
    BY <2>1, ProgramAssumption DEF Reaches
  <2> QED BY <2>2
<1> QED BY <1>3, <1>4

(***************************************************************************)
(* Tasks and bindings written out in place.                                *)
(***************************************************************************)

\* What is written out is a program with the same monitors, whose tasks are what they
\* were; the same handlers wait but for those that have no node to wait at.
LEMMA WrittenOutIs ==
    ASSUME NEW p \in Program, NEW q, q = WrittenOut(p)
    PROVE  /\ q \in Program
           /\ q.faces = p.faces /\ q.deps = p.deps /\ q.serves = p.serves
           /\ q.receives = p.receives /\ q.stateful = p.stateful /\ q.gates = p.gates
           /\ q.taskSends = p.taskSends
           /\ \A h \in Handlers :
                /\ IsMonitor(q, h) <=> IsMonitor(p, h)
                /\ h \in WaitsOf(q) <=> h \in WaitsOf(p) /\ ~Overlooked(p, h)
                /\ TasksReached(q, h) = IF IsMonitor(p, h) THEN TasksReached(p, h) ELSE {}
                /\ q.sends[h] = p.sends[h] \cup UNION {p.taskSends[t] : t \in TasksReached(p, h)}
<1> DEFINE monitors == {h \in Handlers : IsMonitor(p, h)}
<1> DEFINE sent == [h \in Handlers |->
                      p.sends[h] \cup UNION {p.taskSends[t] : t \in TasksOf(p, h)}]
<1> DEFINE minted == {e \in monitors \X Tasks : e[2] \in TasksOf(p, e[1])}
<1> DEFINE waiting == {h \in Handlers : \E w \in p.waits : Reaches(p.binds, h, w)}
<1> DEFINE waits == {h \in waiting : ~Overlooked(p, h)}
<1>1. /\ q.faces = p.faces /\ q.deps = p.deps /\ q.serves = p.serves
      /\ q.receives = p.receives /\ q.stateful = p.stateful /\ q.gates = p.gates
      /\ q.taskSends = p.taskSends
      /\ q.sends = sent /\ q.mints = minted /\ q.waits = waits /\ q.binds = {}
  BY DEF WrittenOut, Program
<1>2. sent \in [Handlers -> SUBSET Actors]
  <2>1. p.sends \in [Handlers -> SUBSET Actors] /\ p.taskSends \in [Tasks -> SUBSET Actors]
    BY DEF Program
  <2>2. \A h \in Handlers : TasksOf(p, h) \subseteq Tasks
    BY DEF TasksOf
  <2>3. \A h \in Handlers :
           p.sends[h] \cup UNION {p.taskSends[t] : t \in TasksOf(p, h)} \in SUBSET Actors
    BY <2>1, <2>2
  <2> QED BY <2>3
<1>3. minted \subseteq (Handlers \cup Tasks) \X Tasks
  OBVIOUS
<1>4. q \in Program
  BY <1>2, <1>3 DEF Program, WrittenOut
<1>5. WaitsOf(p) = waiting
  BY WaitsAreReached
<1>6. \A h \in Handlers : TasksReached(p, h) = TasksOf(p, h)
  BY TasksAreReached DEF TasksOf
<1>7. p.waits \subseteq waiting
  BY DEF Reaches, Program
<1>8. WaitsOf(q) = waits
  <2>1. WaitsOf(q) = {h \in Handlers : \E w \in q.waits : Reaches(q.binds, h, w)}
    BY <1>4, WaitsAreReached
  <2>2. \A m, n \in Handlers : Reaches({}, m, n) <=> m = n
    BY DEF Reaches, Closed
  <2>3. waits \subseteq Handlers
    OBVIOUS
  <2> HIDE DEF waits, sent, minted
  <2> QED BY <1>1, <2>1, <2>2, <2>3
<1>9. ASSUME NEW h \in Handlers PROVE IsMonitor(q, h) <=> IsMonitor(p, h)
  <2>1. AllPlain(q, h) <=> AllPlain(p, h)
    BY <1>1 DEF AllPlain, Faces
  <2>2. IsMonitor(p, h) => ~Overlooked(p, h)
    BY DEF Overlooked
  <2>3. h \in p.waits /\ IsMonitor(p, h) => h \in waits
    BY <2>2, <1>7
  <2>4. h \in waits => ~Overlooked(p, h)
    OBVIOUS
  <2> HIDE DEF waits, sent, minted
  <2> QED BY <1>1, <2>1, <2>3, <2>4 DEF IsMonitor, Overlooked
<1>10. ASSUME NEW h \in Handlers
       PROVE  TasksReached(q, h) = IF IsMonitor(p, h) THEN TasksReached(p, h) ELSE {}
  <2>1. TasksReached(q, h) = {x \in Tasks : Reaches(minted, h, x)}
    <3>1. TasksReached(q, h) = {x \in Tasks : Reaches(q.mints, h, x)}
      BY <1>4, TasksAreReached
    <3> HIDE DEF sent, minted, waits
    <3> QED BY <1>1, <3>1
  <2>2. \A t \in Tasks : t \notin monitors /\ t # h
    BY ProgramAssumption
  <2>3. CASE IsMonitor(p, h)
    <3> DEFINE T == TasksOf(p, h)
    <3>1. T \subseteq Tasks
      BY DEF TasksOf
    <3>2. \A x \in T : <<h, x>> \in minted
      BY <2>3, <3>1
    <3>3. \A x \in T : Reaches(minted, h, x)
      BY <3>1, <3>2 DEF Reaches, Closed
    <3>4. Closed(minted, {h} \cup T)
      BY <2>2, <3>1, ProgramAssumption DEF Closed
    <3> HIDE DEF T
    <3>5. {h} \cup T \in SUBSET (Handlers \cup Tasks)
      BY <3>1
    <3> HIDE DEF minted
    <3>6. \A x \in Tasks : Reaches(minted, h, x) => x \in T
      BY <2>2, <3>4, <3>5 DEF Reaches
    <3>7. TasksReached(q, h) = T
      BY <2>1, <3>1, <3>3, <3>6
    <3> QED BY <2>3, <3>7, <1>6 DEF T
  <2>4. CASE ~IsMonitor(p, h)
    <3>1. Closed(minted, {h})
      BY <2>4, <2>2 DEF Closed
    <3> HIDE DEF minted
    <3>2. \A x \in Tasks : ~Reaches(minted, h, x)
      BY <2>2, <3>1 DEF Reaches
    <3> QED BY <2>1, <2>4, <3>2
  <2> QED BY <2>3, <2>4
<1>11. ASSUME NEW h \in Handlers
       PROVE  q.sends[h] = p.sends[h] \cup UNION {p.taskSends[t] : t \in TasksReached(p, h)}
  BY <1>1, <1>6
<1>12. ASSUME NEW h \in Handlers
       PROVE  h \in WaitsOf(q) <=> h \in WaitsOf(p) /\ ~Overlooked(p, h)
  BY <1>5, <1>8
<1> HIDE DEF sent, minted, waits
<1> QED BY <1>1, <1>4, <1>9, <1>10, <1>11, <1>12

\* A handler with a node and a router are none of the overlooked.
LEMMA OverlookedHaveNoNode ==
    ASSUME NEW p \in Program, NEW h \in Handlers, Overlooked(p, h)
    PROVE  NodesOf(p, h) = {} /\ ~IsRouter(p, h)
<1>1. Faces(p, h) \cap Actors = {}
  BY DeadlockAssumption DEF Overlooked, AllPlain
<1> QED BY <1>1 DEF Overlooked, NodesOf, IsServant, IsMixed, IsRouter

\* A handler's nodes, and where it may park, do not depend on where its sends and waits are
\* written; nor does what it sends to, and how, if it has a node.
LEMMA HandlersAreKept ==
    ASSUME NEW p \in Program, NEW q, q = WrittenOut(p), NEW h \in Handlers
    PROVE  /\ NodesOf(q, h) = NodesOf(p, h)
           /\ Occupancies(q, h) = Occupancies(p, h)
           /\ Targets(q, h) = Targets(p, h)
           /\ NodesOf(p, h) # {} => TargetKind(q, h) = TargetKind(p, h)
<1>0. /\ q.faces = p.faces /\ q.deps = p.deps /\ q.serves = p.serves
      /\ q.receives = p.receives /\ q.stateful = p.stateful /\ q.gates = p.gates
      /\ q.taskSends = p.taskSends
      /\ \A x \in Handlers :
            /\ IsMonitor(q, x) <=> IsMonitor(p, x)
            /\ x \in WaitsOf(q) <=> x \in WaitsOf(p) /\ ~Overlooked(p, x)
      /\ TasksReached(q, h) = IF IsMonitor(p, h) THEN TasksReached(p, h) ELSE {}
      /\ q.sends[h] = p.sends[h] \cup UNION {p.taskSends[t] : t \in TasksReached(p, h)}
  BY WrittenOutIs
<1>1. \A x : /\ Faces(q, x) = Faces(p, x)
             /\ IsMixed(q, x) <=> IsMixed(p, x)
             /\ IsRouter(q, x) <=> IsRouter(p, x)
             /\ IsServant(q, x) <=> IsServant(p, x)
  BY <1>0 DEF Faces, IsMixed, AllPlain, IsRouter, IsServant
<1>2. \A x \in Handlers : IsRouter(p, x) => (Occupies(q, x) <=> Occupies(p, x))
  BY <1>0, OverlookedHaveNoNode DEF Occupies
<1>3. \A d : /\ Covering(q, h, d) = Covering(p, h, d)
             /\ \A r \in Covering(p, h, d) : r \in Handlers /\ IsRouter(p, r)
  BY <1>0, <1>1 DEF Covering
<1>4. \A d : /\ {c \in Covering(q, h, d) : Occupies(q, c)} =
                    {c \in Covering(p, h, d) : Occupies(p, c)}
             /\ {c \in Covering(q, h, d) : ~Occupies(q, c)} =
                    {c \in Covering(p, h, d) : ~Occupies(p, c)}
  BY <1>2, <1>3
<1>5. Deps(q, h) = Deps(p, h)
  BY <1>0, <1>1 DEF Deps
<1>6. NodesOf(q, h) = NodesOf(p, h)
  BY <1>0, <1>1 DEF NodesOf
<1>7. Occupancies(q, h) = Occupancies(p, h)
  BY <1>0, <1>1, <1>4, <1>5 DEF Occupancies
<1>8. SendsOf(q, h) = SendsOf(p, h)
  BY <1>0, <1>1 DEF SendsOf
<1>9. Targets(q, h) = Targets(p, h)
  BY <1>1, <1>4, <1>5, <1>8 DEF Targets
<1>10. NodesOf(p, h) # {} => TargetKind(q, h) = TargetKind(p, h)
  BY <1>0, OverlookedHaveNoNode DEF TargetKind
<1> QED BY <1>6, <1>7, <1>9, <1>10

\* The graph is that of the program with its tasks and bindings written out in place, for
\* every program; but the sends of a monitor make no edge, and a handler without a node,
\* which is one under a lock that waits only by what it binds, is given none.
THEOREM TasksAndBindingsAreCode == Spec => []TasksAreCode
<1>1. ASSUME NEW p \in Program, NEW q, q = WrittenOut(p)
      PROVE  Graph(p) = Graph(q)
  <2>1. ASSUME NEW x \in Handlers, NEW m \in NodesOf(p, x)
        PROVE  TargetKind(q, x) = TargetKind(p, x)
    BY <1>1, <2>1, HandlersAreKept
  <2>2. ASSUME NEW x \in Handlers
        PROVE  /\ NodesOf(q, x) = NodesOf(p, x) /\ Occupancies(q, x) = Occupancies(p, x)
               /\ Targets(q, x) = Targets(p, x)
    BY <1>1, HandlersAreKept
  <2> QED BY <2>1, <2>2 DEF Graph
<1>2. program \in Programs => TasksAreCode
  BY <1>1, ProgramAssumption DEF TasksAreCode
<1>3. Init => program \in Programs
  BY DEF Init
<1>4. program \in Programs /\ [Next]_vars => (program \in Programs)'
  BY DEF Next, vars, Build, Begin, Take, Extend, Extended, Found, NoCycle, NextPass
<1>5. QED
  BY <1>2, <1>3, <1>4, PTL DEF Spec
===============================================================================
