---------------------------- MODULE EventMailbox ----------------------------
(***************************************************************************)
(* The bounded mailbox from the gateway worker to the main thread          *)
(* (EventMailbox of relay_shell.cpp).  Every operation holds its mutex, so *)
(* each is one action; IviFrameRelay gives it its two threads.             *)
(*                                                                         *)
(* ready is the byte in the pipe that the main thread polls.  The pipe     *)
(* that tells the poster of room is left out: the poster looks again after *)
(* at most kMailboxRoomWaitMs in any case, so Post is an action that is    *)
(* enabled when it can end.                                                *)
(***************************************************************************)
EXTENDS Naturals, Sequences

CONSTANT MailboxCapacity    \* mailbox_capacity, at least 1

VARIABLES queue, closed, mailbox_dropped, ready

mailboxVars == <<queue, closed, mailbox_dropped, ready>>

Init == queue = <<>> /\ closed = FALSE /\ mailbox_dropped = 0 /\ ready = FALSE

Full == Len(queue) >= MailboxCapacity

\* Mutant: a full mailbox drops the event instead of waiting for room.
PostOrDrop(event) ==
  \/ /\ ~Full
     /\ queue' = Append(queue, event)
     /\ ready' = (ready \/ queue = <<>>)
     /\ UNCHANGED <<closed, mailbox_dropped>>
  \/ /\ Full
     /\ mailbox_dropped' = mailbox_dropped + 1
     /\ UNCHANGED <<queue, closed, ready>>

\* Mutant: was_empty is looked at after the event was pushed.
PostLooksLate(event) ==
  /\ ~Full
  /\ queue' = Append(queue, event)
  /\ ready' = (ready \/ queue' = <<>>)
  /\ UNCHANGED <<closed, mailbox_dropped>>

\* The first event of an empty queue wakes the main thread.
Post(event) ==
  \/ /\ ~Full
     /\ queue' = Append(queue, event)
     /\ ready' = (ready \/ queue = <<>>)
     /\ UNCHANGED <<closed, mailbox_dropped>>
  \/ /\ Full /\ closed
     /\ mailbox_dropped' = mailbox_dropped + 1
     /\ UNCHANGED <<queue, closed, ready>>

TakeAll ==
  /\ queue' = <<>>
  /\ ready' = FALSE
  /\ UNCHANGED <<closed, mailbox_dropped>>

Wake ==
  /\ ready' = TRUE
  /\ UNCHANGED <<queue, closed, mailbox_dropped>>

Close ==
  /\ closed' = TRUE
  /\ UNCHANGED <<queue, mailbox_dropped, ready>>

=============================================================================
