------------------------- MODULE SchedulerMailboxes -------------------------
(***************************************************************************)
(* What the scheduler keeps of an actor, any one of them, is a Mailbox.    *)
(***************************************************************************)
EXTENDS Scheduler

CONSTANT Whose      \* the actor whose mailbox is looked at

ASSUME WhoseAssumption == Whose \in Actors

Box == INSTANCE Mailbox
    WITH Capacity <- Bound[Whose], box <- queue[Whose], gate <- gate[Whose],
         busy <- Whose \in running, dead <- Whose \in dead

\* The scheduler implements the Mailbox specification for that actor.
MailboxIsKept == Box!Spec
=============================================================================
