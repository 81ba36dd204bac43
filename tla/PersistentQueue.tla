-------------------------- MODULE PersistentQueue --------------------------
(***************************************************************************)
(* PersistentQueueMirror<T> (middleware/persistent_queue_mirror.hpp): a    *)
(* FreeRTOS queue in RAM, the std::vector shadow_ beside it, and the       *)
(* snapshot file on SPIFFS that both are rebuilt from at boot.             *)
(*                                                                         *)
(* The FreeRTOS queue is safe to share between tasks.  The vector and the  *)
(* file are not, and the mirror takes no lock, so enqueue and ack are      *)
(* split where another task, or a reset, can come between:                 *)
(*                                                                         *)
(*   enqueue: idle -> push -> fits -> grow -> open -> header -> records    *)
(*   ack:     idle -> erase        -> shift -> open -> header -> records   *)
(*                                                                         *)
(* "grow" and "shift" are the vector's push_back and erase in progress:    *)
(* they read the vector (view) and write it back, so that two of them at   *)
(* once lose an update.                                                    *)
(*                                                                         *)
(* fwrite hands a record to stdio, which holds it back, as SPIFFS does     *)
(* after it (buffer).  What a full buffer cannot write makes an fwrite     *)
(* fail and the call return false; what the last fflush and fclose cannot  *)
(* write is lost and nobody hears of it.                                   *)
(***************************************************************************)
EXTENDS Naturals, Sequences, SequencesExt

CONSTANTS
  Producer,       (* the tasks that call enqueue                           *)
  Consumer,       (* the one task that peeks and acks: sync_task           *)
  Item,           (* the messages                                          *)
  NoItem,         (* stands in arg[t] when t is not enqueueing             *)
  Capacity,       (* kMeasureQueueLen or kLogQueueLen                      *)
  Buffered        (* how many records stdio and SPIFFS hold back at most   *)

Task == Producer \cup {Consumer}

ASSUME QueueAssumption ==
  /\ Consumer \notin Producer
  /\ NoItem \notin Item
  /\ Capacity \in Nat \ {0}
  /\ Buffered \in Nat \ {0}

VARIABLES
  ram,      (* the FreeRTOS queue                                          *)
  shadow,   (* shadow_                                                     *)
  file,     (* the snapshot: is its header valid, item_count, the records  *)
  held,     (* what the consumer peeked and has yet to ack (length 0 or 1) *)
  pc,       (* where each task is inside the mirror                        *)
  arg,      (* the message each producer is enqueueing                     *)
  view,     (* the vector as a push_back or erase under way has read it    *)
  pos,      (* records each task's persistSnapshot has given to fwrite     *)
  buffer,   (* those of them that have not reached the file                *)
  saved,    (* what became of the last snapshot written or read, see Saved *)
  torn      (* history: since boot, two calls overlapped                   *)

queues == <<ram, shadow, file, held>>
calls == <<pc, arg, view, pos, buffer, saved, torn>>
vars == <<ram, shadow, file, held, pc, arg, view, pos, buffer, saved, torn>>

\* persistSnapshot wrote all of it; returned true too, but lost what was held back; returned
\* false; or loadSnapshot did not read all there was.
Saved == {"whole", "short", "failed", "unread"}

\* No call is under way.
Quiet == \A t \in Task : pc[t] = "idle"

Goto(t, label) == pc' = [pc EXCEPT ![t] = label]

\* A file with no valid header: absent, just truncated, or overwritten out of step.
NoSnapshot == [ok |-> FALSE, count |-> 0, recs |-> <<>>]

\* What loadSnapshot reads back: up to item_count and capacity_ records, stopping at a
\* short read; nothing if the header is not valid.
Loaded(f) ==
  IF f.ok
  THEN [i \in {j \in DOMAIN f.recs : j <= f.count /\ j <= Capacity} |-> f.recs[i]]
  ELSE <<>>

Restorable == Loaded(file)

Init ==
  /\ ram = <<>>
  /\ shadow = <<>>
  /\ file = NoSnapshot
  /\ held = <<>>
  /\ pc = [t \in Task |-> "idle"]
  /\ arg = [t \in Task |-> NoItem]
  /\ view = [t \in Task |-> <<>>]
  /\ pos = [t \in Task |-> 0]
  /\ buffer = [t \in Task |-> <<>>]
  /\ saved = "whole"
  /\ torn = FALSE

-----------------------------------------------------------------------------
(* Mutated operations: bugs this code could have.  No specification below  *)
(* uses them; each is a variant that a checked property must reject.       *)

\* enqueue that makes room by discarding the oldest message.
EnqueueSend_Overwrite(t, x) ==
  /\ pc[t] = "idle"
  /\ ram' = Append(IF Len(ram) < Capacity THEN ram ELSE Tail(ram), x)
  /\ arg' = [arg EXCEPT ![t] = x]
  /\ Goto(t, "push")
  /\ torn' = (torn \/ ~Quiet)
  /\ UNCHANGED <<shadow, file, held, view, pos, buffer, saved>>

\* shadow_.pop_back() for shadow_.erase(shadow_.begin()).
EraseEnd_PopBack(t) ==
  /\ pc[t] = "shift"
  /\ shadow' = SubSeq(view[t], 1, Len(view[t]) - 1)
  /\ view' = [view EXCEPT ![t] = <<>>]
  /\ Goto(t, "open")
  /\ UNCHANGED <<ram, file, held, arg, pos, buffer, saved, torn>>

-----------------------------------------------------------------------------
(* The calls.  enqueue on a full queue and ack on an empty one return      *)
(* false at once and change nothing.                                       *)

EnqueueSend(t, x) ==
  /\ pc[t] = "idle"
  /\ Len(ram) < Capacity
  /\ ram' = Append(ram, x)
  /\ arg' = [arg EXCEPT ![t] = x]
  /\ Goto(t, "push")
  /\ torn' = (torn \/ ~Quiet)
  /\ UNCHANGED <<shadow, file, held, view, pos, buffer, saved>>

\* The consumer looks at the head, to send it.
Peek ==
  /\ pc[Consumer] = "idle"
  /\ held = <<>>
  /\ ram # <<>>
  /\ held' = <<Head(ram)>>
  /\ UNCHANGED <<ram, shadow, file, calls>>

\* The send failed: the item stays in the queue.
KeepHeld ==
  /\ pc[Consumer] = "idle"
  /\ held # <<>>
  /\ held' = <<>>
  /\ UNCHANGED <<ram, shadow, file, calls>>

\* The item was sent (or is not worth sending): take it off the queue.
AckReceive ==
  /\ pc[Consumer] = "idle"
  /\ held # <<>>
  /\ ram # <<>>
  /\ ram' = Tail(ram)
  /\ held' = <<>>
  /\ Goto(Consumer, "erase")
  /\ torn' = (torn \/ ~Quiet)
  /\ UNCHANGED <<shadow, file, arg, view, pos, buffer, saved>>

-----------------------------------------------------------------------------
(* The vector.                                                             *)

\* "shadow queue already full": the item stays in RAM only.
PushCheck(t) ==
  /\ pc[t] = "push"
  /\ Goto(t, IF Len(shadow) < Capacity THEN "fits" ELSE "open")
  /\ UNCHANGED <<queues, arg, view, pos, buffer, saved, torn>>

PushBegin(t) ==
  /\ pc[t] = "fits"
  /\ view' = [view EXCEPT ![t] = shadow]
  /\ Goto(t, "grow")
  /\ UNCHANGED <<queues, arg, pos, buffer, saved, torn>>

PushEnd(t) ==
  /\ pc[t] = "grow"
  /\ shadow' = Append(view[t], arg[t])
  /\ view' = [view EXCEPT ![t] = <<>>]
  /\ Goto(t, "open")
  /\ UNCHANGED <<ram, file, held, arg, pos, buffer, saved, torn>>

EraseBegin(t) ==
  /\ pc[t] = "erase"
  /\ IF shadow # <<>>
     THEN Goto(t, "shift") /\ view' = [view EXCEPT ![t] = shadow]
     ELSE Goto(t, "open") /\ UNCHANGED view
  /\ UNCHANGED <<queues, arg, pos, buffer, saved, torn>>

EraseEnd(t) ==
  /\ pc[t] = "shift"
  /\ shadow' = Tail(view[t])
  /\ view' = [view EXCEPT ![t] = <<>>]
  /\ Goto(t, "open")
  /\ UNCHANGED <<ram, file, held, arg, pos, buffer, saved, torn>>

-----------------------------------------------------------------------------
(* persistSnapshot.                                                        *)

\* fopen(path, "wb") truncates the old snapshot before the new one is written.
Open(t) ==
  /\ pc[t] = "open"
  /\ file' = NoSnapshot
  /\ Goto(t, "header")
  /\ UNCHANGED <<ram, shadow, held, arg, view, pos, buffer, saved, torn>>

\* The header counts as written at once: a file without one restores what a file with a header
\* and no record does, nothing.
WriteHeader(t) ==
  /\ pc[t] = "header"
  /\ file' = [file EXCEPT !.ok = TRUE, !.count = Len(shadow)]
  /\ pos' = [pos EXCEPT ![t] = 0]
  /\ Goto(t, "records")
  /\ UNCHANGED <<ram, shadow, held, arg, view, buffer, saved, torn>>

\* Another task is inside push_back or erase: what is read of the vector is anything.
Disturbed(t) == \E u \in Task \ {t} : pc[u] \in {"grow", "shift"}

WriteRecord(t) ==
  /\ pc[t] = "records"
  /\ pos[t] < Len(shadow) /\ Len(buffer[t]) < Buffered
  /\ \E x \in IF Disturbed(t) THEN Item ELSE {shadow[pos[t] + 1]} :
       buffer' = [buffer EXCEPT ![t] = Append(@, x)]
  /\ pos' = [pos EXCEPT ![t] = @ + 1]
  /\ UNCHANGED <<queues, pc, arg, view, saved, torn>>

\* A record held back goes to this handle's own offset; SPIFFS moves an offset past the end back
\* to the end, and a record written to a file truncated meanwhile leaves no valid header.
Drain(t) ==
  /\ pc[t] = "records" /\ buffer[t] # <<>>
  /\ LET offset == pos[t] - Len(buffer[t])
         x == Head(buffer[t])
     IN file' = IF ~file.ok THEN file
                ELSE IF offset < Len(file.recs)
                THEN [file EXCEPT !.recs[offset + 1] = x]
                ELSE [file EXCEPT !.recs = Append(@, x)]
  /\ buffer' = [buffer EXCEPT ![t] = Tail(@)]
  /\ UNCHANGED <<ram, shadow, held, pc, arg, view, pos, saved, torn>>

\* enqueue or ack returns: true for "whole" and "short".  What is still held back is gone.
Return(t, outcome) ==
  /\ saved' = outcome
  /\ arg' = [arg EXCEPT ![t] = NoItem]
  /\ pos' = [pos EXCEPT ![t] = 0]
  /\ buffer' = [buffer EXCEPT ![t] = <<>>]
  /\ Goto(t, "idle")
  /\ UNCHANGED <<ram, shadow, file, held, view, torn>>

\* Mutated: the write loop ends one record early.
CloseFile_OneShort(t) ==
  /\ pc[t] = "records"
  /\ pos[t] + 1 >= Len(shadow)
  /\ Return(t, IF buffer[t] = <<>> THEN "whole" ELSE "short")

\* After the last fwrite; no result of fflush or fclose is looked at, so what they could not
\* write is missing from a snapshot that persistSnapshot reports as written.
CloseFile(t) ==
  /\ pc[t] = "records"
  /\ pos[t] >= Len(shadow)
  /\ Return(t, IF buffer[t] = <<>> THEN "whole" ELSE "short")

\* fopen fails (the old snapshot stays) or a write fails (the new one stays short).
PersistFails(t) ==
  /\ \/ pc[t] \in {"open", "header"}
     \/ pc[t] = "records" /\ pos[t] < Len(shadow)
  /\ Return(t, "failed")

-----------------------------------------------------------------------------
(* Power loss, esp_restart or deep sleep, then MessageBus::init: the       *)
(* vector is what loadSnapshot reads, and restoreToRam fills the new queue *)
(* from it (it always fits: the queue is empty and as long as capacity_).  *)

\* The boot finds file f, and in it the first records only if a read fails: none if SPIFFS is
\* not mounted or the file not opened.
Boot(f, recs) ==
  /\ file' = f
  /\ shadow' = recs /\ ram' = recs
  /\ saved' = IF recs = Loaded(f) THEN "whole" ELSE "unread"
  /\ held' = <<>>
  /\ pc' = [t \in Task |-> "idle"]
  /\ arg' = [t \in Task |-> NoItem]
  /\ view' = [t \in Task |-> <<>>]
  /\ pos' = [t \in Task |-> 0]
  /\ buffer' = [t \in Task |-> <<>>]
  /\ torn' = FALSE

Reset == Boot(file, Restorable)

ResetUnread ==
  \E n \in 0 .. Len(Restorable) :
    n < Len(Restorable) /\ Boot(file, SubSeq(Restorable, 1, n))

\* format_if_mount_failed: a file system that cannot be mounted is formatted.
ResetFormats == Boot(NoSnapshot, <<>>)

Begin ==
  \/ \E t \in Producer, x \in Item : EnqueueSend(t, x)
  \/ AckReceive

Continue(t) ==
  \/ PushCheck(t) \/ PushBegin(t) \/ PushEnd(t)
  \/ EraseBegin(t) \/ EraseEnd(t)
  \/ Open(t) \/ WriteHeader(t) \/ WriteRecord(t) \/ Drain(t)
  \/ CloseFile(t) \/ PersistFails(t)

Next ==
  \/ Begin
  \/ Peek \/ KeepHeld
  \/ \E t \in Task : Continue(t)
  \/ Reset \/ ResetUnread \/ ResetFormats

Spec == Init /\ [][Next]_vars

-----------------------------------------------------------------------------
(* Properties.                                                             *)

Stage == {"idle", "push", "fits", "grow", "erase", "shift", "open", "header", "records"}

\* Type invariant: the shape of the state, and the RAM queue within its length.
TypeOK ==
  /\ ram \in Seq(Item) /\ Len(ram) <= Capacity
  /\ shadow \in Seq(Item)
  /\ file \in [ok : BOOLEAN, count : Nat, recs : Seq(Item)]
  /\ held \in Seq(Item) /\ Len(held) <= 1
  /\ pc \in [Task -> Stage]
  /\ arg \in [Task -> Item \cup {NoItem}]
  /\ view \in [Task -> Seq(Item)]
  /\ pos \in [Task -> Nat]
  /\ buffer \in [Task -> Seq(Item)] /\ \A t \in Task : Len(buffer[t]) <= Buffered
  /\ saved \in Saved /\ torn \in BOOLEAN

\* sync_task peeks an item, spends seconds sending it, then acks "the head"
\* (sync_task.cpp:244,274): whatever the producers do meanwhile, the head is still that item,
\* so ack never drops a message that was not sent.
HeldIsHead == held # <<>> => ram # <<>> /\ Head(ram) = held[1]

\* What flash restores, given what became of the last snapshot: the queue; after a call that
\* returned true although the last flush failed, all of it but the newest records that were held
\* back; and after a boot that could not read all, at least what the boot restored.
Restores(recs) ==
  /\ saved = "whole" => recs = ram
  /\ saved = "short" => IsPrefix(recs, ram) /\ Len(ram) - Len(recs) <= Buffered
  /\ saved = "unread" => IsPrefix(ram, recs)

\* As long as no two calls have overlapped since boot, the vector of a mirror at rest is the RAM
\* queue, and a snapshot that persistSnapshot reported as written (its return value, hpp:231-236)
\* restores the queue, or all but the last few records if nobody saw the flush fail.
MirrorAtRest == Quiet /\ ~torn => shadow = ram /\ Restores(Restorable)

\* The mirror is a durable queue: the RAM queue is a FIFO however its callers interleave; what a
\* reset inside a call restores is a prefix of it, or the queue before the call; a call that
\* returns true costs at most what was held back, however storage fails; and only overlapping
\* calls can leave anything else on flash.
DQ == INSTANCE DurableQueue
        WITH queue <- ram, flash <- Restorable, settled <- Quiet, Slack <- Buffered

RefinesDurableQueue == DQ!DQSpec

=============================================================================
