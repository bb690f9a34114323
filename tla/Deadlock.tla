------------------------------- MODULE Deadlock -------------------------------
(***************************************************************************)
(* The compiler's check that actors cannot wait for one another in a       *)
(* circle (crates/salvo-core/src/deadlock.rs): which edges a program's     *)
(* handlers have, and the search that reports cycles of them, one turn of  *)
(* its innermost loop at a time.                                           *)
(*                                                                         *)
(* A site, a handler's name and the wording of a report are left out, so   *)
(* of the edges between two nodes only the strongest kind is kept.         *)
(***************************************************************************)
EXTENDS Naturals, Sequences, FiniteSets

CONSTANTS
    Actors,       \* the actor effects
    Plains,       \* the other effects
    Handlers,
    Tasks,        \* the free send fns
    Claims,
    Programs,     \* what the checker has recorded of a program
    Rank,         \* the order of the nodes' names
    None

Servant(h) == <<h, "servant">>
Lock(h)    == <<h, "lock">>
Nodes      == Actors \cup {Servant(h) : h \in Handlers} \cup {Lock(h) : h \in Handlers}

\* An effect with the claims it is worn or required with.
Claimed == (Actors \cup Plains) \X SUBSET Claims
Program ==
    [faces : [Handlers -> SUBSET Claimed], deps : [Handlers -> SUBSET Claimed],
     serves : SUBSET Handlers,     \* has send members
     receives : SUBSET Handlers, stateful : SUBSET Handlers,
     gates : SUBSET Handlers,      \* mints a `replyto!`
     waits : SUBSET Handlers,      \* contains a `waitfor`
     binds : SUBSET (Handlers \X Handlers),
     sends : [Handlers -> SUBSET Actors],
     mints : SUBSET ((Handlers \cup Tasks) \X Tasks),
     taskSends : [Tasks -> SUBSET Actors]]

ASSUME DeadlockAssumption ==
    /\ Rank \in [Nodes -> Nat]
    /\ \A m, n \in Nodes : Rank[m] = Rank[n] => m = n
    /\ None \notin Nodes
    /\ Actors \cap Plains = {}
ASSUME ProgramAssumption ==
    /\ Programs \subseteq Program
    /\ IsFiniteSet(Handlers) /\ IsFiniteSet(Tasks) /\ Handlers \cap Tasks = {}
    /\ \A h \in Handlers : {Servant(h), Lock(h)} \cap Actors = {}

VARIABLES
    program,
    graph,        \* from -> to -> the kind of the edge, or "none"
    pass,         \* "build", "waits", "all", "end"
    left,         \* the starts the pass has yet to try
    start,        \* the node the search began at
    queue,        \* the paths to extend
    path,         \* the path being extended
    nexts,        \* the successors of its last node yet to be looked at
    visited, done,
    seen,         \* the nodes on the cycles of waits
    reports
search == <<start, queue, path, nexts, visited>>
vars   == <<program, graph, pass, left, search, done, seen, reports>>

------------------------------------------------------------------------------
(***************************************************************************)
(* The graph.                                                              *)
(***************************************************************************)
Of(claimed) == {c[1] : c \in claimed}
Faces(p, h) == Of(p.faces[h])

\* What waits: a member does, or a handler it binds does.
WaitsOf(p) ==
    LET grow[k \in Nat] ==
            IF k = 0 THEN p.waits
            ELSE grow[k - 1] \cup {h \in Handlers : \E b \in grow[k - 1] : <<h, b>> \in p.binds}
    IN  grow[Cardinality(Handlers)]

\* The tasks a minter reaches.  (The mutant does not look at what they mint.)
TasksMinted(p, who) == {t \in Tasks : <<who, t>> \in p.mints}
MintedOnly(p, h) == TasksMinted(p, h)
TasksReached(p, h) ==
    LET grow[k \in Nat] ==
            IF k = 0 THEN TasksMinted(p, h)
            ELSE grow[k - 1] \cup UNION {TasksMinted(p, t) : t \in grow[k - 1]}
    IN  grow[Cardinality(Tasks)]

AllPlain(p, h)  == Faces(p, h) # {} /\ Faces(p, h) \subseteq Plains
IsMixed(p, h)   == AllPlain(p, h) /\ h \in p.serves
IsMonitor(p, h) ==
    AllPlain(p, h) /\ h \notin p.serves /\ h \in p.stateful /\ (p.deps[h] # {} \/ h \in p.waits)
IsRouter(p, h)  == h \in p.receives /\ Faces(p, h) \cap Actors # {}
IsServant(p, h) == IsMixed(p, h) \/ IsRouter(p, h)
Occupies(p, r)  == r \in p.stateful \cup WaitsOf(p)

\* The nodes a handler's edges leave from: one per protocol an actor serves.
NodesOf(p, h) ==
    IF IsServant(p, h) THEN {Servant(h)}
    ELSE IF IsMonitor(p, h) THEN {Lock(h)}
    ELSE Faces(p, h) \cap Actors

\* Interception binds outward: an own face is no dependency.
Deps(p, h) ==
    LET own == IF IsServant(p, h) \/ IsMonitor(p, h) THEN Faces(p, h) ELSE Faces(p, h) \cap Actors
    IN  {d \in p.deps[h] : d[1] \notin own}

\* The routers a dependency may be bound to.
Covering(p, h, d) ==
    {r \in Handlers \ {h} : IsRouter(p, r) /\ \E f \in p.faces[r] : f[1] = d[1] /\ d[2] \subseteq f[2]}

\* Where a caller may park in another's code.
Occupancies(p, h) ==
    UNION {
        IF d[1] \in Actors THEN {Servant(r) : r \in {c \in Covering(p, h, d) : Occupies(p, c)}}
        ELSE {Servant(m) : m \in {x \in Handlers : IsMixed(p, x) /\ d[1] \in Faces(p, x)}}
                \cup {Lock(m) : m \in {x \in Handlers \ {h} : IsMonitor(p, x) /\ d[1] \in Faces(p, x)}}
        : d \in Deps(p, h)}

\* What a handler sends to, and its tasks; a router's forward is no edge.
SendsOf(p, h) ==
    LET own == IF IsMonitor(p, h) THEN {} ELSE p.sends[h]
        forwards == IF h \in p.receives THEN Faces(p, h) \cap Actors ELSE {}
    IN  (own \cup UNION {p.taskSends[t] : t \in TasksReached(p, h)}) \ forwards
Targets(p, h) ==
    LET needed == {d \in Deps(p, h) : d[1] \in Actors}
        bare(d) == {r \in Covering(p, h, d) : ~Occupies(p, r)}
        sent == SendsOf(p, h)
        routers == {r \in Handlers \ {h} : IsRouter(p, r) /\ Faces(p, r) \cap sent # {}}
    IN  Of(needed) \cup UNION {{Servant(r) : r \in bare(d)} : d \in needed}
            \cup sent \cup {Servant(r) : r \in routers}

TargetKind(p, h) ==
    IF h \in p.gates /\ ~IsMonitor(p, h) THEN "wait"
    ELSE IF h \in WaitsOf(p) THEN "block" ELSE "pressure"

\* Of the kinds of edge between two nodes, the strongest.
Strongest(kinds) ==
    IF "wait" \in kinds THEN "wait" ELSE IF "block" \in kinds THEN "block"
    ELSE IF "occupancy" \in kinds THEN "occupancy" ELSE IF "pressure" \in kinds THEN "pressure"
    ELSE "none"
Graph(p) ==
    LET from == [h \in Handlers |-> NodesOf(p, h)]
        occupied == [h \in Handlers |-> Occupancies(p, h)]
        targets == [h \in Handlers |-> Targets(p, h)]
        kinds(h, n) == (IF n \in occupied[h] THEN {"occupancy"} ELSE {})
                         \cup (IF n \in targets[h] THEN {TargetKind(p, h)} ELSE {})
    IN  [m \in Nodes |-> [n \in Nodes |->
            Strongest(UNION {kinds(h, n) : h \in {x \in Handlers : m \in from[x]}})]]

\* (The mutant forgets the waits that have no gate.)
OnlyGates     == {"wait", "occupancy"}
Unconditional == {"wait", "block", "occupancy"}
Edge(g, all, m, n) == IF all THEN g[m][n] # "none" ELSE g[m][n] \in Unconditional
Succ(g, all, m) == {n \in Nodes : Edge(g, all, m, n)}
Keys(g, all)    == {m \in Nodes : Succ(g, all, m) # {}}

------------------------------------------------------------------------------
(***************************************************************************)
(* cycles, over the edges that wait and then over all.                     *)
(***************************************************************************)
All == pass = "all"
Last(s) == s[Len(s)]
On(s) == {s[k] : k \in 1..Len(s)}
Lowest(n, S) == n \in S /\ \A m \in S : Rank[n] <= Rank[m]
Occupied(cycle) == \E k \in 1..Len(cycle) - 1 : graph[cycle[k]][cycle[k + 1]] = "occupancy"

Init ==
    /\ program \in Programs
    /\ graph = [m \in Nodes |-> [n \in Nodes |-> "none"]]
    /\ pass = "build"
    /\ left = {} /\ start = None /\ queue = <<>> /\ path = <<>> /\ nexts = {} /\ visited = {}
    /\ done = {} /\ seen = {} /\ reports = {}

Build ==
    /\ pass = "build"
    /\ graph' = Graph(program)
    /\ pass' = "waits"
    /\ left' = Keys(graph', FALSE)
    /\ UNCHANGED <<program, search, done, seen, reports>>

\* The next start, unless a cycle found before has it.  (The mutant remembers the nodes
\* another start's search has visited.)
Stale == visited
Fresh == {}
Begin(n) ==
    /\ pass \in {"waits", "all"} /\ start = None
    /\ Lowest(n, left)
    /\ left' = left \ {n}
    /\ IF n \in done THEN UNCHANGED search
       ELSE /\ start' = n
            /\ queue' = << <<n>> >>
            /\ visited' = Fresh
            /\ UNCHANGED <<path, nexts>>
    /\ UNCHANGED <<program, graph, pass, done, seen, reports>>

Take ==
    /\ start # None /\ path = <<>> /\ queue # <<>>
    /\ path' = Head(queue)
    /\ queue' = Tail(queue)
    /\ nexts' = Succ(graph, All, Last(path'))
    /\ UNCHANGED <<program, graph, pass, left, start, visited, done, seen, reports>>

Extend(n) ==
    /\ path # <<>> /\ Lowest(n, nexts) /\ n # start
    /\ nexts' = nexts \ {n}
    /\ IF n \in visited THEN UNCHANGED <<queue, visited>>
       ELSE /\ visited' = visited \cup {n}
            /\ queue' = Append(queue, Append(path, n))
    /\ UNCHANGED <<program, graph, pass, left, start, path, done, seen, reports>>

Extended ==
    /\ path # <<>> /\ nexts = {}
    /\ path' = <<>>
    /\ UNCHANGED <<program, graph, pass, left, start, queue, nexts, visited, done, seen, reports>>

\* A cycle: an error if all its edges wait or one occupies; a warning, unless every
\* node on it is on an error's already.  (The mutants warn of those too, and take a cycle
\* among the path's nodes for one through the start.)
AddTo(cycle, error) == reports' = reports \cup {[cycle |-> cycle, error |-> error]}
SeenNone(cycle) == FALSE
AllSeen(cycle)  == On(cycle) \subseteq seen
Report(cycle) ==
    \/ (~All \/ Occupied(cycle)) /\ AddTo(cycle, TRUE)
    \/ All /\ ~Occupied(cycle) /\ AllSeen(cycle) /\ UNCHANGED reports
    \/ All /\ ~Occupied(cycle) /\ ~AllSeen(cycle) /\ AddTo(cycle, FALSE)
QueueKept  == UNCHANGED queue
QueueGone  == queue' = <<>>
Found ==
    LET cycle == Append(path, start) IN
    /\ path # <<>> /\ Lowest(start, nexts)
    /\ Report(cycle)
    /\ done' = done \cup On(cycle)
    /\ start' = None /\ path' = <<>> /\ nexts' = {}
    /\ QueueGone
    /\ UNCHANGED <<program, graph, pass, left, visited, seen>>

NoCycle ==
    /\ start # None /\ path = <<>> /\ queue = <<>>
    /\ start' = None
    /\ UNCHANGED <<program, graph, pass, left, queue, path, nexts, visited, done, seen, reports>>

NextPass ==
    /\ left = {} /\ start = None
    /\ \/ /\ pass = "waits"
          /\ pass' = "all"
          /\ left' = Keys(graph, TRUE)
          /\ done' = {}
          /\ seen' = UNION {On(r.cycle) : r \in reports}
       \/ /\ pass = "all"
          /\ pass' = "end"
          /\ UNCHANGED <<left, done, seen>>
    /\ UNCHANGED <<program, graph, search, reports>>

Next ==
    \/ Build \/ Take \/ Extended \/ Found \/ NoCycle \/ NextPass
    \/ \E n \in Nodes : Begin(n) \/ Extend(n)
Spec == Init /\ [][Next]_vars

------------------------------------------------------------------------------
(***************************************************************************)
(* Properties.                                                             *)
(***************************************************************************)

\* Every variable holds a value of its kind, and a search that is over leaves nothing.
Kinds == {"wait", "block", "occupancy", "pressure"}
TypeOK ==
    /\ graph \in [Nodes -> [Nodes -> Kinds \cup {"none"}]]
    /\ pass \in {"build", "waits", "all", "end"}
    /\ left \subseteq Nodes /\ nexts \subseteq Nodes /\ visited \subseteq Nodes
    /\ done \subseteq Nodes /\ seen \subseteq Nodes
    /\ start \in Nodes \cup {None}
    /\ queue \in Seq(Seq(Nodes)) /\ path \in Seq(Nodes)
    /\ start = None => queue = <<>> /\ path = <<>>
    /\ reports \subseteq [cycle : Seq(Nodes), error : BOOLEAN]

\* What a node waits for whatever the load, and at all.
Stalls == [m \in Nodes |-> {n \in Nodes : graph[m][n] \notin {"none", "pressure"}}]
Waits  == [m \in Nodes |-> {n \in Nodes : graph[m][n] # "none"}]

\* A node on a cycle: it is in every set that holds its successors and theirs.
OnCycle(succ, n) ==
    \A S \in SUBSET Nodes : succ[n] \subseteq S /\ (\A m \in S : succ[m] \subseteq S) => n \in S

\* What is reported is a cycle of the program's: its edges are there; an error's all wait
\* or one occupies, and a warning's has one that needs full mailboxes and none that
\* occupies, so a cycle of gates is never reported as the weaker thing.
IsCycle(c) ==
    Len(c) > 1 /\ c[1] = Last(c) /\ \A k \in 1..Len(c) - 1 : graph[c[k]][c[k + 1]] # "none"
Loaded(c) == \E k \in 1..Len(c) - 1 : graph[c[k]][c[k + 1]] = "pressure"
ReportsAreTrue ==
    \A r \in reports :
        /\ IsCycle(r.cycle)
        /\ IF r.error THEN ~Loaded(r.cycle) \/ Occupied(r.cycle)
           ELSE Loaded(r.cycle) /\ ~Occupied(r.cycle)

\* Every actor on a cycle of gates, waits and occupancies is named by an error, though
\* one search's cycle spares its nodes searches of their own.
GateCyclesAreErrors ==
    pass = "end" =>
        \A n \in Nodes : OnCycle(Stalls, n) => \E r \in reports : r.error /\ n \in On(r.cycle)

\* Every actor on any cycle is named by a report.
EveryCycleIsReported ==
    pass = "end" => \A n \in Nodes : OnCycle(Waits, n) => \E r \in reports : n \in On(r.cycle)

\* A task is the code of whoever mints it, through however many tasks, and a handler
\* waits when anything it binds does, however deep: the graph is that of the program with
\* both written out in place.  The two exceptions are the code's.  A monitor's own sends
\* make no edge (deadlock.rs:556-563 has its tasks' only), so it still mints its tasks.  And
\* what a handler under a lock binds is looked at for whoever binds that handler, never for
\* itself (deadlock.rs:254, where 267-270 follows bindings): one with no dependencies and
\* no `waitfor` of its own has no node, and is not written to wait.
Closed(R, S) == \A m \in S : \A n \in Handlers \cup Tasks : <<m, n>> \in R => n \in S
Reaches(R, m, n) ==
    \A S \in SUBSET (Handlers \cup Tasks) : m \in S /\ Closed(R, S) => n \in S
TasksOf(p, h) == {t \in Tasks : Reaches(p.mints, h, t)}
Overlooked(p, h) ==
    AllPlain(p, h) /\ h \notin p.serves /\ h \in p.stateful /\ ~IsMonitor(p, h)
WrittenOut(p) ==
    LET monitors == {h \in Handlers : IsMonitor(p, h)}
        waiting == {h \in Handlers : \E w \in p.waits : Reaches(p.binds, h, w)}
        sent(h) == p.sends[h] \cup UNION {p.taskSends[t] : t \in TasksOf(p, h)}
    IN  [p EXCEPT !.sends = [h \in Handlers |-> sent(h)],
                  !.mints = {e \in monitors \X Tasks : e[2] \in TasksOf(p, e[1])},
                  !.waits = {h \in waiting : ~Overlooked(p, h)},
                  !.binds = {}]
TasksAreCode == pass = "build" => Graph(program) = Graph(WrittenOut(program))

\* A cycle that an occupancy is part of is an error, though sends close it.
Leads(n, m) == \A S \in SUBSET Nodes : n \in S /\ (\A x \in S : Waits[x] \subseteq S) => m \in S
OccupancyCyclesAreErrors ==
    pass = "end" =>
        \A m, n \in Nodes :
            graph[m][n] = "occupancy" /\ Leads(n, m) => \E r \in reports : r.error
==============================================================================
