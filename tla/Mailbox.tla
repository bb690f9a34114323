------------------------------- MODULE Mailbox -------------------------------
(***************************************************************************)
(* What the scheduler promises one actor: its messages arrive one at a     *)
(* time, in the order they were posted; at most Capacity of the program's  *)
(* messages wait, answers and fault reports beyond that; and while a       *)
(* gated reply (replyto!) is out, nothing arrives but that answer.         *)
(*                                                                         *)
(* There are no threads here, no pools, no ready queue, no wakes.          *)
(***************************************************************************)
EXTENDS Naturals, FiniteSets, SequencesExt

CONSTANTS Capacity, Entry, Slots

VARIABLES box,      \* what has been posted and not yet taken, in order
          gate,     \* the answer waited for, or 0
          busy,     \* an activation is under way
          dead

mailboxVars == <<box, gate, busy, dead>>

IsMessage(e) == e.kind = "msg"
IsAnswer(e)  == e.kind = "ans"
Messages     == {i \in DOMAIN box : IsMessage(box[i])}

Init == box = <<>> /\ gate = 0 /\ ~busy /\ ~dead

Post(e) ==
    /\ ~dead
    /\ IsMessage(e) => Cardinality(Messages) < Capacity
    /\ box' = Append(box, e)
    /\ UNCHANGED <<gate, busy, dead>>

TakeFirst ==
    /\ ~busy /\ ~dead /\ gate = 0 /\ box # <<>>
    /\ box' = Tail(box)
    /\ busy'
    /\ UNCHANGED <<gate, dead>>

TakeAwaited ==
    /\ ~busy /\ ~dead /\ gate # 0
    /\ \E i \in DOMAIN box :
          /\ IsAnswer(box[i]) /\ box[i].id = gate
          /\ box' = RemoveAt(box, i)
    /\ gate' = 0
    /\ busy'
    /\ UNCHANGED dead

Close == /\ busy /\ gate' \in Slots \ {gate}
         /\ UNCHANGED <<box, busy, dead>>

Return == /\ busy /\ ~busy'
          /\ UNCHANGED <<box, gate, dead>>

Die == /\ busy
       /\ box' = <<>> /\ gate' = 0 /\ ~busy' /\ dead'

Next == (\E e \in Entry : Post(e)) \/ TakeFirst \/ TakeAwaited
          \/ Close \/ Return \/ Die

Spec == Init /\ [][Next]_mailboxVars
==============================================================================
