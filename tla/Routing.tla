------------------------------- MODULE Routing -------------------------------
(***************************************************************************)
(* Addresses across nodes, as lib/std/runtime/routing.sv routes them.  An  *)
(* actor of another node is reached through a proxy: an entry of the       *)
(* scheduler's table whose sends spend credits and become frames.  Each    *)
(* action is one call on a table under its lock; what a member of the      *)
(* module does between two calls, other threads see.                       *)
(*                                                                         *)
(* A process here hosts one node.  The wire keeps the frames of each       *)
(* ordered pair of nodes in order and may lose them; nothing is resent.    *)
(***************************************************************************)
EXTENDS Naturals, Sequences, FiniteSets, Functions

CONSTANTS
    Nodes,
    Actors,
    Senders,      \* threads whose code imports addresses and sends
    Receivers,    \* the one thread of each node that runs its Receiving actor
    Workers,      \* threads that take messages out of mailboxes, or hear that a node left
    Home,         \* the node each actor lives on
    Place,        \* the node each thread works for
    Bound,        \* each actor's mailbox capacity
    Known,        \* the routes there are from the start: <<node, to>>
    Wired,        \* the nodes whose outbound hook is bound from the start
    MaxSends,     \* how many sends each sender begins
    MaxEntries,   \* how many proxy entries a node's table has room for
    MayLeave,     \* <<n, m>>: n may hear that m has left
    MayDie,       \* actors that may fault
    Locals,       \* actors that are also sent to on their own node
    Lossy,        \* whether the wire may lose frames
    Local         \* the sender of a message that did not come over the wire

Threads == Senders \cup Receivers \cup Workers

ASSUME ConstantsAssumption ==
    /\ Home \in [Actors -> Nodes]
    /\ Place \in [Threads -> Nodes]
    /\ Senders \cap Receivers = {} /\ Senders \cap Workers = {} /\ Receivers \cap Workers = {}
    /\ Bound \in [Actors -> Nat \ {0}]
    /\ Known \subseteq Nodes \X Nodes
    /\ Wired \subseteq Nodes
    /\ MaxSends \in Nat
    /\ MaxEntries \in Nat
    /\ MayLeave \subseteq Nodes \X Nodes
    /\ MayDie \subseteq Actors
    /\ Locals \subseteq Actors
    /\ Lossy \in BOOLEAN
    /\ Local \notin Nodes
    /\ Local \notin Senders

\* A node's frames are received by one actor, and an actor runs on one thread at a time.
ASSUME OneReceiver == \A t, u \in Receivers : Place[t] = Place[u] => t = u

VARIABLES
    \* the scheduler's table
    made,         \* node -> how many inert entries it has made
    proxy,        \* <<node, entry>>: marked a proxy
    dead,         \* <<node, entry>>: killed
    blocked,      \* node -> entry -> the threads parked on its mailbox
    mailbox,      \* actor -> the messages queued for it
    died,         \* actors that have died
    \* the routing table of each node
    proxies,      \* node -> actor -> its proxy's entry, 0 for none
    credits,      \* node -> entry -> the sends it may make
    pending,      \* node -> entry -> the sends whose credit has not come back
    held,         \* actor -> the credits remote senders hold
    waiters,      \* node -> the threads to wake when credits may have come
    routes,       \* node -> the nodes it has a route to
    outbound,     \* the nodes whose outbound hook is bound
    parked,       \* node -> frames that wait for a route or the hook
    outbox,       \* node -> frames ready to be flushed
    \* the wire, and the threads
    wire,         \* node -> node -> the frames on their way
    permit,       \* threads with an unpark pending
    pc,           \* thread -> where it is between two calls
    job,          \* thread -> what it works on
    batch,        \* thread -> the frames it took to send
    holds,        \* sender -> actor -> the entry its code holds as the address
    \* history, for the properties
    sent,         \* sender -> how many sends it has begun
    arrived,      \* sender -> actor -> its sends that have arrived, in that order
    lost          \* actor -> the credits that went with lost frames

entries == <<made, proxy, dead, blocked>>
boxes   == <<mailbox, died>>
books   == <<proxies, credits, pending, held, waiters>>
roads   == <<routes, outbound>>
staged  == <<parked, outbox>>
thread  == <<permit, pc, job, batch>>
history == <<sent, arrived, lost>>
vars    == <<entries, boxes, books, roads, staged, wire, thread, holds, history>>

Entries == 1..MaxEntries
Remote(n) == {a \in Actors : Home[a] # n}

(***************************************************************************)
(* Frames.                                                                 *)
(***************************************************************************)
MsgFrame(a, n, s, k)  == [kind |-> "msg", actor |-> a, from |-> n, to |-> Home[a], by |-> s, no |-> k]
OpenFrame(a, n)       == [kind |-> "open", actor |-> a, from |-> n, to |-> Home[a]]
GrantFrame(a, n, k)   == [kind |-> "grant", actor |-> a, from |-> Home[a], to |-> n, n |-> k]

\* stage_in: ready when the receiver has a route and the sender its hook, parked until
\* then.  (The mutant parks what is ready too.)
Goes(n, f) == f.to \in routes[n] /\ n \in outbound
StageInBoth(n, f) ==
    /\ outbox' = IF Goes(n, f) THEN [outbox EXCEPT ![n] = Append(@, f)] ELSE outbox
    /\ parked' = [parked EXCEPT ![n] = Append(@, f)]
StageIn(n, f) ==
    /\ outbox' = IF Goes(n, f) THEN [outbox EXCEPT ![n] = Append(@, f)] ELSE outbox
    /\ parked' = IF Goes(n, f) THEN parked ELSE [parked EXCEPT ![n] = Append(@, f)]

\* The members of q at the positions K, in order.
Picked(q, K) == [j \in 1..Cardinality(K) |-> q[CHOOSE k \in K : Cardinality(K \cap 1..k) = j]]

\* restage: what was parked tries again, in order, with the new routes and hooks.
\* (The mutant leaves it parked.)
RestageNothing(n) == UNCHANGED <<staged>>
Restage(n) ==
    LET all  == 1..Len(parked[n])
        goes == {k \in all : parked[n][k].to \in routes'[n] /\ n \in outbound'}
    IN  /\ outbox' = [outbox EXCEPT ![n] = @ \o Picked(parked[n], goes)]
        /\ parked' = [parked EXCEPT ![n] = Picked(@, all \ goes)]

(***************************************************************************)
(* Threads.                                                                *)
(***************************************************************************)
Nothing == [at |-> "nothing"]
Goto(t, label)     == pc' = [pc EXCEPT ![t] = label]
Works(t, label, j) == Goto(t, label) /\ job' = [job EXCEPT ![t] = j]
Idle(t)            == Works(t, "idle", Nothing)

\* What is staged is flushed by its stager, once it holds no lock.  (The mutant does not.)
ThenRest(t)  == Idle(t)
ThenFlush(t) == Works(t, "flush", Nothing)

Init ==
    /\ made = [n \in Nodes |-> 0]
    /\ proxy = {} /\ dead = {}
    /\ blocked = [n \in Nodes |-> [i \in Entries |-> {}]]
    /\ mailbox = [a \in Actors |-> <<>>]
    /\ died = {}
    /\ proxies = [n \in Nodes |-> [a \in Actors |-> 0]]
    /\ credits = [n \in Nodes |-> [i \in Entries |-> 0]]
    /\ pending = [n \in Nodes |-> [i \in Entries |-> 0]]
    /\ held = [a \in Actors |-> 0]
    /\ waiters = [n \in Nodes |-> {}]
    /\ routes = [n \in Nodes |-> {m \in Nodes : <<n, m>> \in Known}]
    /\ outbound = Wired
    /\ parked = [n \in Nodes |-> <<>>]
    /\ outbox = [n \in Nodes |-> <<>>]
    /\ wire = [n \in Nodes |-> [m \in Nodes |-> <<>>]]
    /\ permit = {}
    /\ pc = [t \in Threads |-> "idle"]
    /\ job = [t \in Threads |-> Nothing]
    /\ batch = [t \in Threads |-> <<>>]
    /\ holds = [s \in Senders |-> [a \in Actors |-> 0]]
    /\ sent = [s \in Senders |-> 0]
    /\ arrived = [s \in Senders |-> [a \in Actors |-> <<>>]]
    /\ lost = [a \in Actors |-> 0]

------------------------------------------------------------------------------
(***************************************************************************)
(* import_addr: an address decoded on a node its actor does not live on.   *)
(***************************************************************************)

\* find_import: the proxy there is, or one is to be made.
ImportFinds(s, a) ==
    LET n == Place[s] IN
    /\ pc[s] = "idle"
    /\ holds[s][a] = 0
    /\ a \in Remote(n)
    /\ IF proxies[n][a] # 0
       THEN /\ holds' = [holds EXCEPT ![s][a] = proxies[n][a]]
            /\ UNCHANGED <<pc, job>>
       ELSE Works(s, "make", [at |-> a]) /\ UNCHANGED holds
    /\ UNCHANGED <<entries, boxes, books, roads, staged, wire, permit, batch, history>>

\* spawn_inert: an entry that is nobody's yet.
ImportMakes(s) ==
    LET n == Place[s] IN
    /\ pc[s] = "make"
    /\ made[n] < MaxEntries
    /\ made' = [made EXCEPT ![n] = @ + 1]
    /\ Works(s, "register", [at |-> job[s].at, idx |-> made[n] + 1])
    /\ UNCHANGED <<proxy, dead, blocked, boxes, books, roads, staged, wire, permit, batch,
                   holds, history>>

\* register_proxy: another thread may have imported it meanwhile (the mutant does not
\* look again); a new proxy asks for its first credits.
NotImported(n, a) == FALSE
ImportedNow(n, a) == proxies[n][a] # 0
ImportRegisters(s) ==
    LET n == Place[s]
        a == job[s].at
        i == job[s].idx
    IN  /\ pc[s] = "register"
        /\ IF ImportedNow(n, a)
           THEN /\ holds' = [holds EXCEPT ![s][a] = proxies[n][a]]
                /\ ThenFlush(s)
                /\ UNCHANGED <<proxies, credits, staged>>
           ELSE /\ proxies' = [proxies EXCEPT ![n][a] = i]
                /\ credits' = [credits EXCEPT ![n][i] = 0]
                /\ StageIn(n, OpenFrame(a, n))
                /\ Goto(s, "mark")
                /\ UNCHANGED <<job, holds>>
        /\ UNCHANGED <<entries, boxes, pending, held, waiters, roads, wire, permit, batch,
                       history>>

\* mark_proxy, in the scheduler.
ImportMarks(s) ==
    /\ pc[s] = "mark"
    /\ proxy' = proxy \cup {<<Place[s], job[s].idx>>}
    /\ holds' = [holds EXCEPT ![s][job[s].at] = job[s].idx]
    /\ ThenFlush(s)
    /\ UNCHANGED <<made, dead, blocked, boxes, books, roads, staged, wire, permit, batch,
                   history>>

(***************************************************************************)
(* A send through an address of another node: send_or_back in the          *)
(* scheduler, then send_remote.                                            *)
(***************************************************************************)

\* enqueue: dropped by the dead, handed back by a proxy; the mailbox of an entry
\* that is not one yet has no room, and the sender joins its list.
Tries(s, a, k) ==
    LET n == Place[s]
        i == holds[s][a]
    IN  \/ /\ <<n, i>> \in dead
           /\ Idle(s)
           /\ UNCHANGED blocked
        \/ /\ <<n, i>> \notin dead
           /\ <<n, i>> \in proxy
           /\ Works(s, "credit", [at |-> a, idx |-> i, no |-> k])
           /\ UNCHANGED blocked
        \/ /\ <<n, i>> \notin dead \cup proxy
           /\ blocked' = [blocked EXCEPT ![n][i] = @ \cup {s}]
           /\ Works(s, "full", [at |-> a, idx |-> i, no |-> k])

Send(s, a) ==
    /\ pc[s] = "idle"
    /\ holds[s][a] # 0
    /\ sent[s] < MaxSends
    /\ sent' = [sent EXCEPT ![s] = @ + 1]
    /\ Tries(s, a, sent[s] + 1)
    /\ UNCHANGED <<made, proxy, dead, boxes, books, roads, staged, wire, permit, batch, holds,
                   arrived, lost>>

\* The park on a full mailbox ends, and the sender tries again.
SendAgain(s) ==
    /\ pc[s] = "full"
    /\ s \in permit
    /\ permit' = permit \ {s}
    /\ Tries(s, job[s].at, job[s].no)
    /\ UNCHANGED <<made, proxy, dead, boxes, books, roads, staged, wire, batch, holds,
                   history>>

\* take_credit: one is spent, or the sender is recorded to be woken.  (The mutants
\* overspend by one, and do not count what is pending.)
MayOverspend(n, i) == TRUE
MaySpend(n, i)     == credits[n][i] > 0
Uncounted(n, i)    == UNCHANGED pending
Counted(n, i)      == pending' = [pending EXCEPT ![n][i] = @ + 1]
TakeCredit(s) ==
    LET n == Place[s]
        i == job[s].idx
    IN  /\ pc[s] = "credit"
        /\ IF MaySpend(n, i)
           THEN /\ credits' = [credits EXCEPT ![n][i] = @ - 1]
                /\ Counted(n, i)
                /\ Goto(s, "stage")
                /\ UNCHANGED waiters
           ELSE /\ waiters' = [waiters EXCEPT ![n] = @ \cup {s}]
                /\ Goto(s, "none")
                /\ UNCHANGED <<credits, pending>>
        /\ UNCHANGED <<entries, boxes, proxies, held, roads, staged, wire, permit, job, batch,
                       holds, history>>

\* mailbox_dead, before the park and after it.
LooksIfDead(s, label) ==
    /\ IF <<Place[s], job[s].idx>> \in dead THEN Idle(s) ELSE Goto(s, label) /\ UNCHANGED job
    /\ UNCHANGED <<entries, boxes, books, roads, staged, wire, permit, batch, holds, history>>
LooksBefore(s) == pc[s] = "none" /\ LooksIfDead(s, "park")
LooksAfter(s)  == pc[s] = "woken" /\ LooksIfDead(s, "credit")

ParkEnds(s) ==
    /\ pc[s] = "park"
    /\ s \in permit
    /\ permit' = permit \ {s}
    /\ Goto(s, "woken")
    /\ UNCHANGED <<entries, boxes, books, roads, staged, wire, job, batch, holds, history>>

Stage(s) ==
    /\ pc[s] = "stage"
    /\ StageIn(Place[s], MsgFrame(job[s].at, Place[s], s, job[s].no))
    /\ ThenFlush(s)
    /\ UNCHANGED <<entries, boxes, books, roads, wire, permit, batch, holds, history>>

(***************************************************************************)
(* flush, by whichever thread: all that is staged is taken, then sent one  *)
(* by one with no lock held.                                               *)
(***************************************************************************)
Emptied(n) == outbox' = [outbox EXCEPT ![n] = <<>>]
TakeOutbox(t) ==
    LET n == Place[t] IN
    /\ pc[t] = "flush"
    /\ batch' = [batch EXCEPT ![t] = outbox[n]]
    /\ Emptied(n)
    /\ Goto(t, IF outbox[n] = <<>> THEN "idle" ELSE "wire")
    /\ UNCHANGED <<entries, boxes, books, roads, parked, wire, permit, job, holds, history>>

WireOut(t) ==
    LET f == Head(batch[t]) IN
    /\ pc[t] = "wire"
    /\ wire' = [wire EXCEPT ![Place[t]][f.to] = Append(@, f)]
    /\ batch' = [batch EXCEPT ![t] = Tail(@)]
    /\ Goto(t, IF Len(batch[t]) = 1 THEN "idle" ELSE "wire")
    /\ UNCHANGED <<entries, boxes, books, roads, staged, permit, job, holds, history>>

------------------------------------------------------------------------------
(***************************************************************************)
(* deliver: the frames that arrive, one at a time.                         *)
(***************************************************************************)
Heard(t, m) == wire[m][Place[t]]
Takes(t, m) ==
    /\ pc[t] = "idle"
    /\ Heard(t, m) # <<>>
    /\ wire' = [wire EXCEPT ![m][Place[t]] = Tail(@)]

\* accepts: only what is for an actor of this node.
Accepted(t, f) == Home[f.actor] = Place[t]

\* A message: its credit is no longer held (but by the mutant) ...
StillHeld(a) == UNCHANGED held
Received(a)  == held' = [held EXCEPT ![a] = IF @ > 0 THEN @ - 1 ELSE @]
DeliverMsg(t, m) ==
    LET f == Head(Heard(t, m)) IN
    /\ Takes(t, m)
    /\ f.kind = "msg" /\ Accepted(t, f)
    /\ Received(f.actor)
    /\ Works(t, "queue", [at |-> f.actor, msg |-> f])
    /\ UNCHANGED <<entries, boxes, proxies, credits, pending, waiters, roads, staged, permit,
                   batch, holds, history>>

\* ... then it is queued, whatever room there is; the dead drop it.
Accepts(a) == a \notin died
EnqueueRemote(t) ==
    LET a == job[t].at
        f == job[t].msg
    IN  /\ pc[t] = "queue"
        /\ mailbox' = IF Accepts(a) THEN [mailbox EXCEPT ![a] = Append(@, f.from)] ELSE mailbox
        /\ arrived' = IF Accepts(a) THEN [arrived EXCEPT ![f.by][a] = Append(@, f.no)] ELSE arrived
        /\ Idle(t)
        /\ UNCHANGED <<entries, died, books, roads, staged, wire, permit, batch, holds, sent,
                       lost>>

\* A newcomer: the room left in the mailbox is read (a dead one has all of it) ...
DeliverOpen(t, m) ==
    LET f == Head(Heard(t, m)) IN
    /\ Takes(t, m)
    /\ f.kind = "open" /\ Accepted(t, f)
    /\ Works(t, "room", [at |-> f.actor, from |-> f.from,
                         queued |-> Len(mailbox[f.actor])])
    /\ UNCHANGED <<entries, boxes, books, roads, staged, permit, batch, holds, history>>

\* ... what others hold is taken off it, and at least one is left ...  (The mutant
\* looks at the mailbox only.)
RoomQueued(a, queued) == IF Bound[a] > queued THEN Bound[a] - queued ELSE 1
Room(a, queued) == IF Bound[a] > queued + held[a] THEN Bound[a] - (queued + held[a]) ELSE 1
OpenRoom(t) ==
    /\ pc[t] = "room"
    /\ Works(t, "grant", [at |-> job[t].at, from |-> job[t].from,
                          n |-> Room(job[t].at, job[t].queued)])
    /\ UNCHANGED <<entries, boxes, books, roads, staged, wire, permit, batch, holds, history>>

\* ... and granted.
Grant(a, n, k) ==
    /\ held' = [held EXCEPT ![a] = @ + k]
    /\ StageIn(Home[a], GrantFrame(a, n, k))
OpenGrants(t) ==
    /\ pc[t] = "grant"
    /\ Grant(job[t].at, job[t].from, job[t].n)
    /\ ThenFlush(t)
    /\ UNCHANGED <<entries, boxes, proxies, credits, pending, waiters, roads, wire, permit,
                   batch, holds, history>>

\* Credits: they are added, and every sender that waits for some looks again.
\* (The mutant wakes one.)
WakeOneSender(n) ==
    IF waiters[n] = {} THEN UNCHANGED <<waiters, permit>>
    ELSE \E s \in waiters[n] :
            /\ permit' = permit \cup {s}
            /\ waiters' = [waiters EXCEPT ![n] = @ \ {s}]
WakeSenders(n) ==
    /\ permit' = permit \cup waiters[n]
    /\ waiters' = [waiters EXCEPT ![n] = {}]
DeliverGrant(t, m) ==
    LET f == Head(Heard(t, m))
        n == Place[t]
        i == proxies[n][f.actor]
    IN  /\ Takes(t, m)
        /\ f.kind = "grant"
        /\ IF i # 0
           THEN /\ credits' = [credits EXCEPT ![n][i] = @ + f.n]
                /\ pending' = [pending EXCEPT ![n][i] = IF @ > f.n THEN @ - f.n ELSE 0]
                /\ WakeSenders(n)
           ELSE UNCHANGED <<credits, pending, waiters, permit>>
        /\ UNCHANGED <<entries, boxes, proxies, held, roads, staged, pc, job, batch, holds,
                       history>>

------------------------------------------------------------------------------
(***************************************************************************)
(* The nodes' workers.                                                     *)
(***************************************************************************)

\* work_of: a message leaves the mailbox, and one that came from another node
\* gives a credit back, staged under the scheduler's lock; run_actor flushes.  (The
\* mutant gives none back.)
NoCreditBack(a) == UNCHANGED <<held, staged>>
CreditBack(a) ==
    IF Head(mailbox[a]) \in Nodes THEN Grant(a, Head(mailbox[a]), 1)
    ELSE UNCHANGED <<held, staged>>
Dequeue(w, a) ==
    /\ pc[w] = "idle"
    /\ Place[w] = Home[a]
    /\ mailbox[a] # <<>>
    /\ CreditBack(a)
    /\ mailbox' = [mailbox EXCEPT ![a] = Tail(@)]
    /\ ThenFlush(w)
    /\ UNCHANGED <<entries, died, proxies, credits, pending, waiters, roads, wire, permit, job,
                   batch, holds, history>>

\* A send from the actor's own node.
LocalSend(a) ==
    /\ a \in Locals \ died
    /\ Len(mailbox[a]) < Bound[a]
    /\ mailbox' = [mailbox EXCEPT ![a] = Append(@, Local)]
    /\ UNCHANGED <<entries, died, books, roads, staged, wire, thread, holds, history>>

\* finish, of an activation that faulted: what is queued is dropped.
Die(a) ==
    /\ a \in MayDie \ died
    /\ died' = died \cup {a}
    /\ mailbox' = [mailbox EXCEPT ![a] = <<>>]
    /\ UNCHANGED <<entries, books, roads, staged, wire, thread, holds, history>>

\* add_route, of a handshake, and set_outbound, of route_frames.
AddRoute(w, m) ==
    LET n == Place[w] IN
    /\ pc[w] = "idle"
    /\ m \notin routes[n]
    /\ routes' = [routes EXCEPT ![n] = @ \cup {m}]
    /\ UNCHANGED outbound
    /\ Restage(n)
    /\ ThenFlush(w)
    /\ UNCHANGED <<entries, boxes, books, wire, permit, job, batch, holds, history>>
SetOutbound(w) ==
    LET n == Place[w] IN
    /\ pc[w] = "idle"
    /\ n \notin outbound
    /\ outbound' = outbound \cup {n}
    /\ UNCHANGED routes
    /\ Restage(n)
    /\ ThenFlush(w)
    /\ UNCHANGED <<entries, boxes, books, wire, permit, job, batch, holds, history>>

\* node_left: the node is forgotten and the senders woken under the routing
\* table's lock ...
ProxiesOf(n, m) == {proxies[n][a] : a \in {b \in Actors : Home[b] = m}} \ {0}
NodeLeft(w, m) ==
    LET n == Place[w] IN
    /\ pc[w] = "idle"
    /\ <<n, m>> \in MayLeave
    /\ m \in routes[n]
    /\ routes' = [routes EXCEPT ![n] = @ \ {m}]
    /\ WakeSenders(n)
    /\ Works(w, "kill", [gone |-> ProxiesOf(n, m)])
    /\ UNCHANGED <<entries, boxes, proxies, credits, pending, held, outbound, staged, wire,
                   batch, holds, history>>

\* ... and its proxies are killed after, one by one, under the scheduler's.
KillNext(w) ==
    LET n == Place[w] IN
    /\ pc[w] = "kill"
    /\ \/ /\ job[w].gone = {}
          /\ Idle(w)
          /\ UNCHANGED <<dead, blocked, permit>>
       \/ \E i \in job[w].gone :
            /\ dead' = dead \cup {<<n, i>>}
            /\ permit' = permit \cup blocked[n][i]
            /\ blocked' = [blocked EXCEPT ![n][i] = {}]
            /\ Works(w, "kill", [gone |-> job[w].gone \ {i}])
    /\ UNCHANGED <<made, proxy, boxes, books, roads, staged, wire, batch, holds, history>>

\* The transport loses a frame, with the credits it was worth.
Worth(f) == IF f.kind = "msg" THEN 1 ELSE IF f.kind = "grant" THEN f.n ELSE 0
Lose(m, n) ==
    LET f == Head(wire[m][n]) IN
    /\ Lossy
    /\ wire[m][n] # <<>>
    /\ wire' = [wire EXCEPT ![m][n] = Tail(@)]
    /\ lost' = [lost EXCEPT ![f.actor] = @ + Worth(f)]
    /\ UNCHANGED <<entries, boxes, books, roads, staged, thread, holds, sent, arrived>>

------------------------------------------------------------------------------
Sender(s) ==
    \/ \E a \in Actors : ImportFinds(s, a) \/ Send(s, a)
    \/ ImportMakes(s) \/ ImportRegisters(s) \/ ImportMarks(s)
    \/ SendAgain(s) \/ TakeCredit(s) \/ LooksBefore(s) \/ LooksAfter(s) \/ ParkEnds(s) \/ Stage(s)
Receiver(t) ==
    \/ \E m \in Nodes : DeliverMsg(t, m) \/ DeliverOpen(t, m) \/ DeliverGrant(t, m)
    \/ EnqueueRemote(t) \/ OpenRoom(t) \/ OpenGrants(t)
Worker(w) ==
    \/ \E a \in Actors : Dequeue(w, a)
    \/ \E m \in Nodes : AddRoute(w, m) \/ NodeLeft(w, m)
    \/ SetOutbound(w) \/ KillNext(w)
Flush(t) == TakeOutbox(t) \/ WireOut(t)

Next ==
    \/ \E s \in Senders : Sender(s)
    \/ \E t \in Receivers : Receiver(t)
    \/ \E w \in Workers : Worker(w)
    \/ \E t \in Threads : Flush(t)
    \/ \E a \in Actors : LocalSend(a) \/ Die(a)
    \/ \E m, n \in Nodes : Lose(m, n)

Spec == Init /\ [][Next]_vars

\* Threads run, frames are received, and mailboxes are served; nobody must send.
FairSpec ==
    /\ Spec
    /\ \A s \in Senders : WF_vars(Sender(s) /\ pc[s] # "idle")
    /\ \A t \in Receivers : WF_vars(Receiver(t))
    /\ \A w \in Workers : WF_vars(\E a \in Actors : Dequeue(w, a)) /\ WF_vars(KillNext(w))
    /\ \A t \in Threads : WF_vars(Flush(t))
------------------------------------------------------------------------------
(***************************************************************************)
(* Properties.                                                             *)
(***************************************************************************)

\* Every variable holds a value of its kind.
Frame ==
    [kind : {"msg"}, actor : Actors, from : Nodes, to : Nodes, by : Senders, no : 1..MaxSends]
        \cup [kind : {"open"}, actor : Actors, from : Nodes, to : Nodes]
        \cup [kind : {"grant"}, actor : Actors, from : Nodes, to : Nodes, n : Nat]
TypeOK ==
    /\ made \in [Nodes -> 0..MaxEntries]
    /\ proxy \subseteq Nodes \X Entries /\ dead \subseteq Nodes \X Entries
    /\ blocked \in [Nodes -> [Entries -> SUBSET Senders]]
    /\ mailbox \in [Actors -> Seq(Nodes \cup {Local})]
    /\ died \subseteq Actors
    /\ proxies \in [Nodes -> [Actors -> Entries \cup {0}]]
    /\ credits \in [Nodes -> [Entries -> Nat]] /\ pending \in [Nodes -> [Entries -> Nat]]
    /\ held \in [Actors -> Nat] /\ lost \in [Actors -> Nat]
    /\ waiters \in [Nodes -> SUBSET Senders] /\ permit \subseteq Senders
    /\ routes \in [Nodes -> SUBSET Nodes] /\ outbound \subseteq Nodes
    /\ parked \in [Nodes -> Seq(Frame)] /\ outbox \in [Nodes -> Seq(Frame)]
    /\ wire \in [Nodes -> [Nodes -> Seq(Frame)]] /\ batch \in [Threads -> Seq(Frame)]
    /\ holds \in [Senders -> [Actors -> Entries \cup {0}]]
    /\ sent \in [Senders -> 0..MaxSends]

\* Where a frame can be: parked, staged, taken by a flush, or on the wire.
Places ==
    ({"parked", "outbox"} \X Nodes) \cup ({"batch"} \X Threads) \cup ({"wire"} \X (Nodes \X Nodes))
Queue(p) ==
    CASE p[1] = "parked" -> parked[p[2]]
      [] p[1] = "outbox" -> outbox[p[2]]
      [] p[1] = "batch"  -> batch[p[2]]
      [] p[1] = "wire"   -> wire[p[2][1]][p[2][2]]
Slots == UNION {{p} \X (1..Len(Queue(p))) : p \in Places}
FrameAt(x) == Queue(x[1])[x[2]]

\* The credits that those of the frames F carry which are under way, that the proxies
\* for an actor may spend, and that are spent on a message no frame carries yet.
Carried(F)  == UNION {{x} \X (1..Worth(FrameAt(x))) : x \in {y \in Slots : FrameAt(y) \in F}}
Proxied(a)  == {n \in Nodes : proxies[n][a] # 0}
Unspent(a)  == UNION {{n} \X (1..credits[n][proxies[n][a]]) : n \in Proxied(a)}
Staging(a)  == {s \in Senders : pc[s] = "stage" /\ job[s].at = a}
FramesOf(a) == {f \in Frame : f.actor = a}

\* The books of two nodes and the wire between them agree: what an actor's node counts
\* as held by others is what their proxies may spend, have spent on a message that is
\* on its way, or are being granted; less is never counted, and more only by what went
\* with frames the transport lost (grant, take_credit, received, credited).
CreditsAreKept ==
    \A a \in Actors :
        held[a] = Cardinality(Unspent(a)) + Cardinality(Staging(a))
                    + Cardinality(Carried(FramesOf(a))) + lost[a]

\* A mailbox's capacity holds across nodes: what other nodes have queued, may queue and
\* are about to queue never passes it by more than one for each of them but the first.
FromNodes(a) == {k \in 1..Len(mailbox[a]) : mailbox[a][k] \in Nodes}
InHand(a) == {t \in Receivers : pc[t] = "queue" /\ job[t].at = a}
RoomIsKept ==
    \A a \in Actors :
        Proxied(a) # {} =>
            Cardinality(FromNodes(a)) + Cardinality(InHand(a)) + held[a]
                <= Bound[a] + Cardinality(Proxied(a)) - 1

\* One identity is one proxy: every address a node's threads hold for an actor of
\* another node is the entry its routing table has (register_proxy's second look).
AddressesAgree ==
    \A s \in Senders, a \in Actors : holds[s][a] \in {0, proxies[Place[s]][a]}

\* A sender that is asleep for credit, or about to be, has none to spend and is on the
\* list that the next grant wakes; no grant falls between its look and its park.
CreditIsNotSleptOn ==
    \A s \in Senders :
        pc[s] \in {"none", "park"} /\ s \notin permit =>
            /\ s \in waiters[Place[s]]
            /\ ~MaySpend(Place[s], job[s].idx)

\* A frame that is staged has a thread on its way to flush it: stagers that hold the
\* scheduler's lock cannot, so run_actor flushes for them.
FramesAreFlushed ==
    \A n \in Nodes : outbox[n] # <<>> => \E t \in Threads : Place[t] = n /\ pc[t] \in {"mark", "flush"}

\* Frames stay parked only for the want of a route or of the outbound hook.
ParkedFramesWait ==
    \A n \in Nodes : \A k \in 1..Len(parked[n]) : ~Goes(n, parked[n][k])

\* What `pending` answers for a proxy is what was sent through it and whose credit has
\* not come back: its messages on their way and queued, and the credits returning. The
\* first grant is not one of them (a proxy that has had it has spent or unspent ones).
\* A death or a lost frame leaves sends pending for good.
QueuedBy(n, a) == {k \in 1..Len(mailbox[a]) : mailbox[a][k] = n}
PendingIsExact ==
    \A n \in Nodes : \A a \in Actors \ died :
        LET i == proxies[n][a]
            opened == credits[n][i] + pending[n][i] > 0
            travels ==
                {f \in FramesOf(a) : IF f.kind = "grant" THEN f.to = n /\ opened ELSE f.from = n}
        IN  i # 0 /\ lost[a] = 0 =>
                pending[n][i] = Cardinality({s \in Staging(a) : Place[s] = n})
                                  + Cardinality(Carried(travels))
                                  + Cardinality({t \in InHand(a) : job[t].msg.from = n})
                                  + Cardinality(QueuedBy(n, a))

\* A message arrives at most once.
MessagesArriveOnce ==
    \A s \in Senders, a \in Actors : IsInjective(arrived[s][a])

\* While nobody leaves or dies and no frame is lost, and each sender begins no more than
\* MaxSends messages, a message that waits for credit gets it and arrives: the wake of a
\* grant is not lost, a credit spent comes back, and whichever thread takes a frame flushes
\* it.  Nothing is said of a sender that never stops: a grant wakes all who wait
\* (wake_senders) and keeps no order among them, so it might take every credit.
MessagesArrive ==
    \A s \in Senders, a \in Actors, k \in 1..MaxSends :
        (pc[s] \in {"credit", "none", "park", "woken", "stage"} /\ job[s].at = a /\ job[s].no = k) ~>
            (k \in {arrived[s][a][j] : j \in 1..Len(arrived[s][a])})

(***************************************************************************)
(* What the documents say, and the code does not do.                       *)
(***************************************************************************)

\* Delivery is in order for each pair of sender and receiver.
MessagesArriveInOrder ==
    \A s \in Senders, a \in Actors :
        \A j, k \in 1..Len(arrived[s][a]) : j < k => arrived[s][a][j] < arrived[s][a][k]

\* The senders that wait for the credit of a node that has left stop.
SendersStop ==
    \A s \in Senders :
        (pc[s] = "park" /\ Home[job[s].at] \notin routes[Place[s]]) ~> (pc[s] # "park")
==============================================================================
