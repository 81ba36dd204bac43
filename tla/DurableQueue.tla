---------------------------- MODULE DurableQueue ----------------------------
(***************************************************************************)
(* What the mirrored queues promise the firmware: a bounded FIFO whose     *)
(* contents survive a reset, up to the newest Slack messages.              *)
(*                                                                         *)
(* A call that returned success is on flash, whole, or short of at most    *)
(* the newest Slack messages.  A call under way leaves some prefix of the  *)
(* queue there, so that a reset inside it may cost the newest items, or    *)
(* bring back the one just acknowledged, and nothing else.  A call that    *)
(* returned failure says nothing about flash, and two calls at once (torn) *)
(* leave anything on it; but the queue in RAM stays a FIFO through both,   *)
(* until the next reset.  A boot may find less than there is on flash, the *)
(* oldest messages first, or lose it all.                                  *)
(***************************************************************************)
EXTENDS Naturals, Sequences, SequencesExt

CONSTANTS
  Item,       (* the messages that can be queued                           *)
  Capacity,   (* the most messages the queue holds                         *)
  Slack       (* the most a call that returned success may leave out       *)

VARIABLES
  queue,      (* the messages accepted and not yet acknowledged            *)
  flash,      (* what a reset would bring back                             *)
  settled,    (* no call is under way                                      *)
  saved,      (* the last call: success, "whole" or "short", or "failed";  *)
              (* or the last boot, if it restored less than all: "unread"  *)
  torn        (* since the last reset, two calls overlapped                *)

dqVars == <<queue, flash, settled, saved, torn>>

DQInit ==
  /\ queue = <<>>
  /\ flash = <<>>
  /\ settled = TRUE
  /\ saved = "whole"
  /\ torn = FALSE

\* A call has taken effect in RAM and is to be made durable.
DQBegin ==
  /\ settled' = FALSE
  /\ torn' = (torn \/ ~settled)
  /\ UNCHANGED <<flash, saved>>

\* A producer's message is accepted at the tail.
DQPut(x) ==
  /\ Len(queue) < Capacity
  /\ queue' = Append(queue, x)
  /\ DQBegin

\* The consumer acknowledges the head.
DQTake ==
  /\ queue # <<>>
  /\ queue' = Tail(queue)
  /\ DQBegin

\* What may be on flash next: what is there; what a lone call has written so far, a prefix of
\* the queue; anything, once calls have overlapped.
Written(f) ==
  \/ f = flash
  \/ ~settled /\ \E n \in 0 .. Len(queue) : f = SubSeq(queue, 1, n)
  \/ torn /\ f \in Seq(Item) /\ Len(f) <= Capacity

DQWrite ==
  /\ ~settled
  /\ Written(flash')
  /\ UNCHANGED <<queue, settled, saved, torn>>

\* The call under way returns.
DQReturn(outcome) ==
  /\ ~settled /\ ~torn
  /\ Written(flash')
  /\ outcome = "whole" => flash' = queue
  /\ outcome = "short" => IsPrefix(flash', queue) /\ Len(queue) - Len(flash') <= Slack
  /\ settled' = TRUE
  /\ saved' = outcome
  /\ UNCHANGED <<queue, torn>>

\* Calls that overlapped write and return.
DQTornStep ==
  /\ torn
  /\ Written(flash')
  /\ settled' \in BOOLEAN /\ saved' \in {saved, "whole", "short", "failed"}
  /\ UNCHANGED <<queue, torn>>

\* A reset, at rest or in the middle of a call.
DQCrash ==
  /\ Written(flash') \/ flash' = <<>>
  /\ IsPrefix(queue', flash')
  /\ settled' = TRUE
  /\ saved' = IF queue' = flash' THEN "whole" ELSE "unread"
  /\ torn' = FALSE

DQNext ==
  \/ \E x \in Item : DQPut(x)
  \/ DQTake
  \/ DQWrite
  \/ \E outcome \in {"whole", "short", "failed"} : DQReturn(outcome)
  \/ DQTornStep
  \/ DQCrash

DQSpec == DQInit /\ [][DQNext]_dqVars

=============================================================================
