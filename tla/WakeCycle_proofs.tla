-------------------------- MODULE WakeCycle_proofs --------------------------
(***************************************************************************)
(* For every queue length, budget, download time and number of cycles:     *)
(* measure_task and sync_task never enter a mirror together while the      *)
(* flush wait holds; without trouble no queued sample is lost, and samples *)
(* arrive in order; each trouble repeats one delivery at most; and a cycle *)
(* has a bounded number of steps, whatever fails in it.                    *)
(***************************************************************************)
EXTENDS WakeCycle, Integers, SequenceTheorems, FiniteSetTheorems, TLAPS

\* What queue k, or its snapshot, can hold.
Stored(k, s) == s \in Seq(Content(k)) /\ Len(s) <= Capacity[k]

\* TypeOK in three parts: the tasks, the mirrors and the history.
ControlTypes ==
  /\ boot \in 1 .. MaxBoots /\ awake \in Nat
  /\ scheduler \in {"trigger", "poll", "arm", "asleep"}
  /\ measure \in {"wait", "begin", "sense", "sample", "log", "done"}
  /\ sync \in {"wait", "read", "warmup", "early", "ota", "flush", "drain", "ack", "logs", "late", "off"}
  /\ failover \in {"wait", "store", "log"}
  /\ notified \subseteq {"measure", "sync"}
  /\ bits \subseteq Bits
  /\ request \in BOOLEAN
  /\ attempts \in 0 .. MaxAttempts

MirrorTypes ==
  /\ DOMAIN queue = Queue /\ DOMAIN flash = Queue
  /\ \A k \in Queue : Stored(k, queue[k]) /\ Stored(k, flash[k])
  /\ calls \in [Queue -> SUBSET Task]
  /\ torn \in [Queue -> BOOLEAN]

HistoryTypes ==
  /\ delivered \in Seq(1 .. MaxBoots) /\ accepted \subseteq 1 .. MaxBoots
  /\ refused \subseteq 1 .. MaxBoots
  /\ failures \in Nat /\ glitches \in Nat /\ overtaken \in Nat

LEMMA TypeParts == TypeOK <=> ControlTypes /\ MirrorTypes /\ HistoryTypes
BY DEF TypeOK, ControlTypes, MirrorTypes, HistoryTypes, Stored

-----------------------------------------------------------------------------
(* What the calls of the message bus do to the mirrors.                    *)

\* Entering mirror k changes that mirror alone.
LEMMA EnterEffect ==
  ASSUME MirrorTypes, NEW t \in Task, NEW k \in Queue, NEW s, Stored(k, s), Enter(t, k, s)
  PROVE  /\ MirrorTypes'
         /\ queue'[k] = s /\ calls'[k] = calls[k] \cup {t}
         /\ torn'[k] = (torn[k] \/ calls[k] # {})
         /\ \A j \in Queue \ {k} : queue'[j] = queue[j] /\ calls'[j] = calls[j] /\ torn'[j] = torn[j]
         /\ UNCHANGED flash
<1>1. /\ queue'[k] = s /\ calls'[k] = calls[k] \cup {t}
      /\ torn'[k] = (torn[k] \/ calls[k] # {})
      /\ \A j \in Queue \ {k} : queue'[j] = queue[j] /\ calls'[j] = calls[j] /\ torn'[j] = torn[j]
      /\ UNCHANGED flash
      /\ DOMAIN queue' = Queue
  BY DEF Enter, MirrorTypes
<1>2. calls' \in [Queue -> SUBSET Task]
  BY DEF Enter, MirrorTypes
<1>3. torn' \in [Queue -> BOOLEAN]
  BY DEF Enter, MirrorTypes
<1>4. \A j \in Queue : Stored(j, queue'[j]) /\ Stored(j, flash'[j])
  BY <1>1 DEF MirrorTypes
<1> QED
  BY <1>1, <1>2, <1>3, <1>4 DEF MirrorTypes, Stored, Content

LEMMA PublishEffect ==
  ASSUME MirrorTypes, NEW t \in Task, NEW k \in Queue, NEW x \in Content(k), Publish(t, k, x)
  PROVE  /\ MirrorTypes'
         /\ \/ Len(queue[k]) >= Capacity[k] /\ UNCHANGED mirrors
            \/ /\ Len(queue[k]) < Capacity[k] /\ Stored(k, Append(queue[k], x))
               /\ Enter(t, k, Append(queue[k], x))
         /\ queue'[k] \in {queue[k], Append(queue[k], x)}
         /\ calls'[k] \in {calls[k], calls[k] \cup {t}}
         /\ calls[k] = {} => torn'[k] = torn[k]
         /\ \A j \in Queue \ {k} : queue'[j] = queue[j] /\ calls'[j] = calls[j] /\ torn'[j] = torn[j]
         /\ UNCHANGED flash
<1>1. /\ queue[k] \in Seq(Content(k)) /\ Len(queue[k]) \in Nat /\ Capacity[k] \in Nat
      /\ \A j \in Queue : torn[j] \in BOOLEAN
  BY WakeCycleAssumption, LenProperties DEF MirrorTypes, Stored
<1>2. CASE Len(queue[k]) < Capacity[k]
  <2>1. Stored(k, Append(queue[k], x))
    BY <1>1, <1>2, AppendProperties DEF Stored
  <2>2. Enter(t, k, Append(queue[k], x))
    BY <1>2 DEF Publish
  <2> QED
    BY <1>1, <1>2, <2>1, <2>2, EnterEffect
<1>3. CASE ~(Len(queue[k]) < Capacity[k])
  <2>1. UNCHANGED <<queue, flash, calls, torn>>
    BY <1>3 DEF Publish, mirrors
  <2>2. MirrorTypes'
    BY <2>1 DEF MirrorTypes, Stored, Content
  <2> QED
    BY <1>1, <1>3, <2>1, <2>2 DEF mirrors
<1> QED
  BY <1>2, <1>3

LEMMA AckEffect ==
  ASSUME MirrorTypes, NEW k \in Queue, queue[k] # <<>>, Ack(k)
  PROVE  /\ MirrorTypes'
         /\ queue'[k] = Tail(queue[k]) /\ calls'[k] = calls[k] \cup {"sync"}
         /\ torn'[k] = (torn[k] \/ calls[k] # {})
         /\ \A j \in Queue \ {k} : queue'[j] = queue[j] /\ calls'[j] = calls[j] /\ torn'[j] = torn[j]
         /\ UNCHANGED flash
<1>1. Stored(k, Tail(queue[k]))
  <2>1. /\ queue[k] \in Seq(Content(k)) /\ Len(queue[k]) <= Capacity[k] /\ Capacity[k] \in Nat
    BY WakeCycleAssumption DEF MirrorTypes, Stored
  <2> QED
    BY <2>1, HeadTailProperties, LenProperties DEF Stored
<1>2. Enter("sync", k, Tail(queue[k])) /\ "sync" \in Task
  BY DEF Ack, Task
<1> QED
  BY <1>1, <1>2, EnterEffect

\* Whatever calls leave behind fits the queue.
LEMMA UnfinishedStored ==
  ASSUME MirrorTypes, NEW k \in Queue, NEW f \in Unfinished(k)
  PROVE  Stored(k, f)
<1>1. /\ queue[k] \in Seq(Content(k)) /\ Len(queue[k]) <= Capacity[k] /\ Len(queue[k]) \in Nat
      /\ Stored(k, flash[k]) /\ Capacity[k] \in Nat
  BY WakeCycleAssumption, LenProperties DEF MirrorTypes, Stored
<1>2. CASE torn[k]
  <2>1. AtHand(k) \subseteq Content(k)
    BY <1>1 DEF AtHand, ToSet, Stored
  <2>2. PICK m \in 0 .. Capacity[k] : f \in [1 .. m -> AtHand(k)]
    BY <1>2 DEF Unfinished, SeqOf
  <2>3. f \in [1 .. m -> Content(k)] /\ m \in Nat
    BY <2>1, <2>2
  <2>4. f \in Seq(Content(k)) /\ Len(f) = m
    BY <2>3
  <2> QED
    BY <1>1, <2>2, <2>4 DEF Stored
<1>3. CASE ~torn[k] /\ f = flash[k]
  BY <1>1, <1>3
<1>4. ASSUME ~torn[k], NEW n \in 0 .. Len(queue[k]), f = SubSeq(queue[k], 1, n)
      PROVE  Stored(k, f)
  <2>1. \A i \in 1 .. n : queue[k][i] \in Content(k)
    BY <1>1, ElementOfSeq
  <2>2. f \in Seq(Content(k)) /\ Len(f) = n
    BY <1>1, <1>4, <2>1, SubSeqProperties
  <2> QED
    BY <1>1, <2>2 DEF Stored
<1> QED
  BY <1>2, <1>3, <1>4 DEF Unfinished

\* A call that returns changes its own mirror alone.
LEMMA ReturnEffect ==
  ASSUME MirrorTypes, NEW t \in Task, NEW k \in Queue, NEW f, Stored(k, f), Return(t, k, f)
  PROVE  /\ MirrorTypes'
         /\ t \in calls[k] /\ calls'[k] = calls[k] \ {t}
         /\ flash'[k] = f
         /\ \A j \in Queue \ {k} : flash'[j] = flash[j] /\ calls'[j] = calls[j]
         /\ UNCHANGED <<queue, torn>>
<1>1. /\ t \in calls[k] /\ calls'[k] = calls[k] \ {t}
      /\ flash'[k] = f
      /\ \A j \in Queue \ {k} : flash'[j] = flash[j] /\ calls'[j] = calls[j]
      /\ UNCHANGED <<queue, torn>>
      /\ DOMAIN flash' = Queue
  BY DEF Return, MirrorTypes
<1>2. calls' \in [Queue -> SUBSET Task]
  BY DEF Return, MirrorTypes
<1>3. \A j \in Queue : Stored(j, queue'[j]) /\ Stored(j, flash'[j])
  BY <1>1 DEF MirrorTypes
<1> QED
  BY <1>1, <1>2, <1>3 DEF MirrorTypes, Stored, Content

\* The two ways to return, in one.
LEMMA ReturnCases ==
  ASSUME MirrorTypes, NEW t \in Task, NEW k \in Queue, CallReturns(t, k) \/ CallFails(t, k)
  PROVE  \E f : /\ Stored(k, f) /\ Return(t, k, f)
               /\ \/ f = queue[k] /\ UNCHANGED glitches
                  \/ f \in Unfinished(k) /\ glitches' = glitches + 1
<1>1. CASE CallReturns(t, k)
  <2>1. Stored(k, queue[k])
    BY DEF MirrorTypes
  <2> QED
    BY <1>1, <2>1 DEF CallReturns
<1>2. CASE CallFails(t, k)
  <2>1. PICK f \in Unfinished(k) : Return(t, k, f)
    BY <1>2 DEF CallFails
  <2>2. Stored(k, f) /\ glitches' = glitches + 1
    BY <1>2, UnfinishedStored DEF CallFails
  <2> QED
    BY <2>1, <2>2
<1> QED
  BY <1>1, <1>2

\* A reset leaves in both queues what it finds on flash.
LEMMA ResetEffect ==
  ASSUME MirrorTypes, ResetChip
  PROVE  /\ MirrorTypes'
         /\ queue' = flash'
         /\ \A k \in Queue : /\ flash'[k] \in Unfinished(k)
                             /\ calls'[k] = {} /\ torn'[k] = FALSE
<1>1. PICK m \in Unfinished("measure"), l \in Unfinished("log") :
        flash' = [k \in Queue |-> IF k = "measure" THEN m ELSE l]
  BY DEF ResetChip
<1>2. \A k \in Queue : flash'[k] \in Unfinished(k) /\ Stored(k, flash'[k])
  BY <1>1, UnfinishedStored DEF Queue
<1>3. /\ queue' = flash' /\ DOMAIN flash' = Queue
      /\ calls' = [k \in Queue |-> {}]
      /\ torn' = [k \in Queue |-> FALSE]
  BY <1>1 DEF ResetChip
<1>4. \A k \in Queue : Stored(k, queue[k])' /\ Stored(k, flash[k])'
  BY <1>2, <1>3 DEF Stored, Content
<1> QED
  BY <1>2, <1>3, <1>4 DEF MirrorTypes

\* A boot with failing reads gets the oldest messages of each snapshot, and a formatted file
\* system holds none.
LEMMA MisreadEffect ==
  ASSUME MirrorTypes, WakeMisreads
  PROVE  /\ MirrorTypes'
         /\ \A k \in Queue : /\ \E n \in 0 .. Len(flash[k]) : queue'[k] = SubSeq(flash[k], 1, n)
                             /\ flash'[k] \in {flash[k], queue'[k]}
         /\ UNCHANGED <<calls, torn>>
<1>1. PICK m \in Unread("measure"), l \in Unread("log") :
        queue' = [k \in Queue |-> IF k = "measure" THEN m ELSE l]
  BY DEF WakeMisreads
<1>2. /\ \A k \in Queue : queue'[k] \in Unread(k)
      /\ DOMAIN queue' = Queue /\ DOMAIN flash' = Queue /\ UNCHANGED <<calls, torn>>
  BY <1>1 DEF Queue, WakeMisreads, MirrorTypes
<1>3. ASSUME NEW k \in Queue PROVE flash'[k] \in {flash[k], queue'[k]}
  BY DEF WakeMisreads
<1>4. ASSUME NEW k \in Queue PROVE Stored(k, queue'[k])
  <2>1. PICK n \in 0 .. Len(flash[k]) : queue'[k] = SubSeq(flash[k], 1, n)
    BY <1>2 DEF Unread
  <2>2. /\ flash[k] \in Seq(Content(k)) /\ Len(flash[k]) \in Nat /\ Len(flash[k]) <= Capacity[k]
        /\ Capacity[k] \in Nat
    BY WakeCycleAssumption, LenProperties DEF MirrorTypes, Stored
  <2>3. \A i \in 1 .. n : flash[k][i] \in Content(k)
    BY <2>2, ElementOfSeq
  <2>4. queue'[k] \in Seq(Content(k)) /\ Len(queue'[k]) = n
    BY <2>1, <2>2, <2>3, SubSeqProperties
  <2> QED
    BY <2>2, <2>4 DEF Stored
<1>5. \A k \in Queue : Stored(k, queue'[k]) /\ Stored(k, flash'[k])
  BY <1>3, <1>4 DEF MirrorTypes
<1> QED
  BY <1>2, <1>3, <1>5 DEF MirrorTypes, Unread, Stored, Content

-----------------------------------------------------------------------------
(* Types.                                                                  *)

\* The sample sync_task is about to ack is still at the head: nobody else takes it.
HasHead == sync = "ack" => queue["measure"] # <<>>

\* A chip that is off runs no sync.
Off == scheduler = "asleep" => sync = "wait" /\ notified = {}

\* Calls that have not overlapped are at most one.
Single == \A k \in Queue : ~torn[k] => \A t, u \in calls[k] : t = u

Base == ControlTypes /\ MirrorTypes /\ HistoryTypes /\ HasHead /\ Off /\ Single

LEMMA BaseInit == Init => Base
<1> SUFFICES ASSUME Init PROVE Base
  OBVIOUS
<1>1. ControlTypes
  <2>1. 1 \in 1 .. MaxBoots /\ 0 \in 0 .. MaxAttempts
    BY WakeCycleAssumption
  <2> QED
    BY <2>1 DEF Init, ControlTypes, Bits
<1>2. \A k \in Queue : <<>> \in Seq(Content(k)) /\ Len(<<>>) <= Capacity[k]
  BY WakeCycleAssumption
<1>3. MirrorTypes
  BY <1>2 DEF Init, MirrorTypes, Stored
<1>4. HistoryTypes /\ HasHead /\ Off /\ Single
  BY DEF Init, HistoryTypes, HasHead, Off, Single
<1> QED
  BY <1>1, <1>3, <1>4 DEF Base

\* What a step can do to the mirrors.
MirrorStep ==
  \/ UNCHANGED mirrors
  \/ \E t \in Task, k \in Queue : \E x \in Content(k) : Publish(t, k, x)
  \/ \E k \in Queue : queue[k] # <<>> /\ Ack(k)
  \/ \E t \in Task, k \in Queue : CallReturns(t, k) \/ CallFails(t, k)
  \/ ResetChip
  \/ WakeMisreads

LEMMA MirrorCases ==
  ASSUME ControlTypes, HasHead, [Next]_vars
  PROVE  MirrorStep
<1> USE DEF MirrorStep, Queue, Task
<1>1. /\ "session" \in Content("log") /\ "swap" \in Content("log")
      /\ \A ok \in BOOLEAN : Sample(boot, ok) \in Content("measure")
  BY DEF Content, Sample, ControlTypes
<1>2. CASE SchedulerStep
  BY <1>2 DEF SchedulerStep, SchedulerRuns, Trigger, StopWaiting, DeepSleep, Wake
<1>3. CASE MeasureStep
  <2>1. CASE MeasureWakes \/ MeasureBegins \/ MeasureEnds
    BY <2>1 DEF MeasureWakes, MeasureBegins, MeasureEnds
  <2>2. CASE SensorNotReady \/ PublishSession
    BY <1>1, <2>2 DEF SensorNotReady, PublishSession
  <2>3. CASE PublishNotReady \/ \E ok \in BOOLEAN : SensorRead(ok)
    BY <1>1, <2>3 DEF PublishNotReady, SensorRead, PublishSample
  <2>4. CASE \E k \in Queue : CallReturns("measure", k) \/ CallFails("measure", k)
    BY <2>4
  <2> QED
    BY <1>3, <2>1, <2>2, <2>3, <2>4 DEF MeasureStep
<1>4. CASE SyncStep
  <2>1. CASE \/ SyncWakes \/ SyncBegins \/ WarmupFails \/ WarmupSucceeds
             \/ EarlyCheck \/ \E d \in AttemptMinutes : OtaAttempt(d)
    BY <2>1 DEF SyncWakes, SyncBegins, WarmupFails, WarmupSucceeds, EarlyCheck, OtaAttempt
  <2>2. CASE OtaSucceeds
    BY <2>2 DEF OtaSucceeds
  <2>3. CASE \/ OtaEnds \/ FlushWaitEnds \/ SendSample \/ SendSampleFails \/ DrainEnds
             \/ SendLogFails \/ LogsEnd \/ SyncEnds
    BY <2>3 DEF OtaEnds, FlushWaitEnds, SendSample, SendSampleFails, SendFails, DrainEnds,
                SendLogFails, LogsEnd, SyncEnds
  <2>4. CASE SkipInvalid \/ AckSample \/ SendLog
    BY <2>4 DEF SkipInvalid, AckSample, SendLog, HasHead
  <2>5. CASE \E k \in Queue : CallReturns("sync", k) \/ CallFails("sync", k)
    BY <2>5
  <2> QED
    BY <1>4, <2>1, <2>2, <2>3, <2>4, <2>5 DEF SyncStep
<1>5. CASE FailoverStep
  <2>1. CASE FailoverReceives \/ FailoverStores
    BY <2>1 DEF FailoverReceives, FailoverStores
  <2>2. CASE FailoverLogs
    BY <1>1, <2>2 DEF FailoverLogs
  <2>3. CASE CallReturns("failover", "log") \/ CallFails("failover", "log")
    BY <2>3
  <2> QED
    BY <1>5, <2>1, <2>2, <2>3 DEF FailoverStep
<1>6. CASE PowerFails \/ Finished \/ UNCHANGED vars
  BY <1>6 DEF PowerFails, Finished, vars, mirrors
<1> QED
  BY <1>2, <1>3, <1>4, <1>5, <1>6 DEF Next

LEMMA MirrorTypesStep ==
  ASSUME MirrorTypes, Single, MirrorStep
  PROVE  MirrorTypes' /\ Single'
<1>0. \A k \in Queue : torn[k] \in BOOLEAN
  BY DEF MirrorTypes
<1>1. CASE UNCHANGED mirrors
  BY <1>1 DEF mirrors, MirrorTypes, Single, Stored, Content
<1>2. ASSUME NEW t \in Task, NEW k \in Queue, NEW x \in Content(k), Publish(t, k, x)
      PROVE  MirrorTypes' /\ Single'
  <2>1. CASE UNCHANGED mirrors
    BY <1>1, <2>1
  <2>2. CASE ~UNCHANGED mirrors
    <3>1. Enter(t, k, Append(queue[k], x)) /\ Stored(k, Append(queue[k], x))
      BY <1>2, <2>2, PublishEffect
    <3>2. /\ MirrorTypes'
          /\ calls'[k] = calls[k] \cup {t} /\ torn'[k] = (torn[k] \/ calls[k] # {})
          /\ \A j \in Queue \ {k} : calls'[j] = calls[j] /\ torn'[j] = torn[j]
      BY <3>1, EnterEffect
    <3>3. ~torn'[k] => calls[k] = {}
      BY <1>0, <3>2
    <3> QED
      BY <3>2, <3>3 DEF Single
  <2> QED
    BY <2>1, <2>2
<1>3. ASSUME NEW k \in Queue, queue[k] # <<>>, Ack(k) PROVE MirrorTypes' /\ Single'
  <2>1. /\ MirrorTypes'
        /\ calls'[k] = calls[k] \cup {"sync"} /\ torn'[k] = (torn[k] \/ calls[k] # {})
        /\ \A j \in Queue \ {k} : calls'[j] = calls[j] /\ torn'[j] = torn[j]
    BY <1>3, AckEffect
  <2>2. ~torn'[k] => calls[k] = {}
    BY <1>0, <2>1
  <2> QED
    BY <2>1, <2>2 DEF Single
<1>4. ASSUME NEW t \in Task, NEW k \in Queue, CallReturns(t, k) \/ CallFails(t, k)
      PROVE  MirrorTypes' /\ Single'
  <2>1. PICK f : Stored(k, f) /\ Return(t, k, f)
    BY <1>4, ReturnCases
  <2>2. /\ MirrorTypes' /\ calls'[k] = calls[k] \ {t} /\ UNCHANGED torn
        /\ \A j \in Queue \ {k} : calls'[j] = calls[j]
    BY <2>1, ReturnEffect
  <2> QED
    BY <2>2 DEF Single
<1>5. CASE ResetChip
  BY <1>5, ResetEffect DEF Single
<1>6. CASE WakeMisreads
  BY <1>6, MisreadEffect DEF Single
<1> QED
  BY <1>1, <1>2, <1>3, <1>4, <1>5, <1>6 DEF MirrorStep

\* A reset stops every task.
LEMMA ResetControl ==
  ASSUME ResetChip
  PROVE  /\ scheduler' = "asleep" /\ measure' = "wait" /\ sync' = "wait" /\ failover' = "wait"
         /\ notified' = {} /\ bits' = {} /\ awake' = 0 /\ request' = FALSE /\ attempts' = 0
         /\ UNCHANGED <<boot, delivered, accepted, refused, glitches>>
BY DEF ResetChip

\* A call that returns stops no task.
LEMMA ReturnControl ==
  ASSUME NEW t, NEW k, CallReturns(t, k) \/ CallFails(t, k)
  PROVE  /\ UNCHANGED <<boot, awake, scheduler, measure, sync, failover, notified, bits, queue, torn>>
         /\ UNCHANGED <<request, attempts, delivered, accepted, refused, failures, overtaken>>
<1>1. PICK f : Return(t, k, f)
  BY DEF CallReturns, CallFails
<1> QED
  BY <1>1 DEF Return, tasks, net

LEMMA ControlStep ==
  ASSUME ControlTypes, [Next]_vars
  PROVE  ControlTypes'
<1> USE DEF ControlTypes, Bits
<1>1. CASE UNCHANGED vars
  BY <1>1 DEF vars
<1>2. CASE SchedulerStep
  <2>1. CASE Trigger \/ StopWaiting
    BY <2>1 DEF Trigger, StopWaiting, net
  <2>2. CASE DeepSleep
    BY <2>2, ResetControl, WakeCycleAssumption DEF DeepSleep
  <2>3. CASE Wake
    BY <2>3, WakeCycleAssumption DEF Wake, net
  <2>4. CASE WakeMisreads
    <3>1. boot' = boot + 1 /\ boot < MaxBoots /\ scheduler' = "trigger"
      BY <2>4 DEF WakeMisreads
    <3>2. /\ UNCHANGED <<awake, measure, sync, failover, notified, bits>>
          /\ UNCHANGED <<request, attempts>>
      BY <2>4 DEF WakeMisreads, net
    <3>3. boot' \in 1 .. MaxBoots
      BY <3>1, WakeCycleAssumption
    <3> QED
      BY <3>1, <3>2, <3>3
  <2> QED
    BY <1>2, <2>1, <2>2, <2>3, <2>4 DEF SchedulerStep, SchedulerRuns
<1>3. CASE MeasureStep
  <2>1. CASE MeasureWakes \/ MeasureBegins \/ MeasureEnds
    BY <2>1 DEF MeasureWakes, MeasureBegins, MeasureEnds, net
  <2>2. CASE SensorNotReady \/ PublishSession \/ PublishNotReady \/ \E ok \in BOOLEAN : SensorRead(ok)
    BY <2>2 DEF SensorNotReady, PublishSession, PublishNotReady, SensorRead, net
  <2>3. CASE \E k \in Queue : CallReturns("measure", k) \/ CallFails("measure", k)
    <3>1. PICK k \in Queue : CallReturns("measure", k) \/ CallFails("measure", k)
      BY <2>3
    <3>2. /\ UNCHANGED <<boot, awake, scheduler, measure, sync, failover, notified, bits>>
          /\ UNCHANGED <<request, attempts>>
      BY <3>1, ReturnControl
    <3> QED
      BY <3>2
  <2> QED
    BY <1>3, <2>1, <2>2, <2>3 DEF MeasureStep
<1>4. CASE SyncStep
  <2>1. CASE SyncWakes \/ SyncBegins \/ WarmupFails \/ WarmupSucceeds \/ EarlyCheck
    BY <2>1 DEF SyncWakes, SyncBegins, WarmupFails, WarmupSucceeds, EarlyCheck, AskFailover, net
  <2>2. CASE \E d \in AttemptMinutes : OtaAttempt(d)
    BY <2>2, WakeCycleAssumption DEF OtaAttempt, tasks
  <2>3. CASE OtaSucceeds
    BY <2>3, ResetControl, WakeCycleAssumption DEF OtaSucceeds
  <2>4. CASE OtaEnds
    BY <2>4, WakeCycleAssumption DEF OtaEnds
  <2>5. CASE FlushWaitEnds \/ SendSample \/ DrainEnds \/ LogsEnd \/ SyncEnds
    BY <2>5 DEF FlushWaitEnds, SendSample, DrainEnds, LogsEnd, SyncEnds, net
  <2>6. CASE SendSampleFails \/ SendLogFails
    BY <2>6 DEF SendSampleFails, SendLogFails, SendFails, AskFailover
  <2>7. CASE SkipInvalid \/ AckSample \/ SendLog
    BY <2>7 DEF SkipInvalid, AckSample, SendLog, tasks, net
  <2>8. CASE \E k \in Queue : CallReturns("sync", k) \/ CallFails("sync", k)
    <3>1. PICK k \in Queue : CallReturns("sync", k) \/ CallFails("sync", k)
      BY <2>8
    <3>2. /\ UNCHANGED <<boot, awake, scheduler, measure, sync, failover, notified, bits>>
          /\ UNCHANGED <<request, attempts>>
      BY <3>1, ReturnControl
    <3> QED
      BY <3>2
  <2> QED
    BY <1>4, <2>1, <2>2, <2>3, <2>4, <2>5, <2>6, <2>7, <2>8 DEF SyncStep
<1>5. CASE FailoverStep
  <2>1. CASE FailoverReceives
    BY <2>1 DEF FailoverReceives
  <2>2. CASE FailoverStores
    BY <2>2 DEF FailoverStores, net
  <2>3. CASE FailoverLogs
    BY <2>3 DEF FailoverLogs, net
  <2>4. CASE CallReturns("failover", "log") \/ CallFails("failover", "log")
    <3>1. /\ UNCHANGED <<boot, awake, scheduler, measure, sync, failover, notified, bits>>
          /\ UNCHANGED <<request, attempts>>
      BY <2>4, ReturnControl
    <3> QED
      BY <3>1
  <2> QED
    BY <1>5, <2>1, <2>2, <2>3, <2>4 DEF FailoverStep
<1>6. CASE PowerFails
  BY <1>6, ResetControl, WakeCycleAssumption DEF PowerFails
<1>7. CASE Finished
  BY <1>1, <1>7 DEF Finished
<1> QED
  BY <1>1, <1>2, <1>3, <1>4, <1>5, <1>6, <1>7 DEF Next

\* What a step can do to the record of deliveries and drops.
LEMMA HistoryCases ==
  ASSUME [Next]_vars
  PROVE  \/ UNCHANGED <<delivered, accepted, refused>>
         \/ \E valid \in BOOLEAN : PublishSample(valid)
         \/ SkipInvalid
         \/ SendSample
<1>1. ASSUME NEW t, NEW k, CallReturns(t, k) \/ CallFails(t, k)
      PROVE  UNCHANGED <<delivered, accepted, refused>>
  BY <1>1, ReturnControl
<1>2. CASE SchedulerStep \/ PowerFails \/ Finished \/ UNCHANGED vars
  BY <1>2, ResetControl DEF SchedulerStep, SchedulerRuns, Trigger, StopWaiting, DeepSleep, Wake,
     WakeMisreads, PowerFails, Finished, vars, history
<1>3. CASE MeasureStep
  BY <1>1, <1>3 DEF MeasureStep, MeasureWakes, MeasureBegins, MeasureEnds, SensorNotReady,
     PublishSession, PublishNotReady, SensorRead, history
<1>4. CASE SyncStep
  BY <1>1, <1>4, ResetControl DEF SyncStep, SyncWakes, SyncBegins, WarmupFails, WarmupSucceeds,
     EarlyCheck, OtaAttempt, OtaSucceeds, OtaEnds, FlushWaitEnds, SendSampleFails, SendFails, AckSample,
     DrainEnds, SendLog, SendLogFails, LogsEnd, SyncEnds, history
<1>5. CASE FailoverStep
  BY <1>1, <1>5 DEF FailoverStep, FailoverReceives, FailoverStores, FailoverLogs, history
<1> QED
  BY <1>2, <1>3, <1>4, <1>5 DEF Next

\* What a step can do to the count of troubles: it never takes one back.
LEMMA TroubleCases ==
  ASSUME HistoryTypes, [Next]_vars
  PROVE  /\ failures' \in Nat /\ glitches' \in Nat /\ overtaken' \in Nat
         /\ failures' >= failures /\ glitches' >= glitches /\ overtaken' >= overtaken
<1> USE DEF HistoryTypes
<1>0. failures \in Nat /\ glitches \in Nat /\ overtaken \in Nat
  OBVIOUS
<1>1. ASSUME NEW t, NEW k, CallReturns(t, k) \/ CallFails(t, k)
      PROVE  UNCHANGED <<failures, overtaken>> /\ glitches' \in {glitches, glitches + 1}
  BY <1>1, ReturnControl DEF CallReturns, CallFails
<1>2. CASE SchedulerStep \/ Finished \/ UNCHANGED vars
  <2>1. CASE WakeMisreads
    BY <1>0, <2>1 DEF WakeMisreads
  <2>2. CASE ~WakeMisreads
    <3>1. UNCHANGED troubles
      BY <1>2, <2>2, ResetControl DEF SchedulerStep, SchedulerRuns, Trigger, StopWaiting, DeepSleep, Wake,
         Finished, vars, history, troubles
    <3> QED
      BY <1>0, <3>1 DEF troubles
  <2> QED
    BY <2>1, <2>2
<1>3. CASE PowerFails
  BY <1>0, <1>3, ResetControl DEF PowerFails
<1>4. CASE MeasureStep
  <2>1. CASE \E k \in Queue : CallReturns("measure", k) \/ CallFails("measure", k)
    BY <1>0, <1>1, <2>1
  <2>2. CASE ~ \E k \in Queue : CallReturns("measure", k) \/ CallFails("measure", k)
    <3>1. UNCHANGED troubles
      BY <1>4, <2>2 DEF MeasureStep, MeasureWakes, MeasureBegins, MeasureEnds, SensorNotReady,
         PublishSession, PublishNotReady, PublishSample, SensorRead, history
    <3> QED
      BY <1>0, <3>1 DEF troubles
  <2> QED
    BY <2>1, <2>2
<1>5. CASE SyncStep
  <2>1. CASE OtaSucceeds \/ FlushWaitEnds
    <3>1. UNCHANGED <<failures, glitches>> /\ overtaken' \in {overtaken, overtaken + 1}
      BY <2>1, ResetControl DEF OtaSucceeds, FlushWaitEnds, GoesAhead
    <3> QED
      BY <1>0, <3>1
  <2>2. CASE \E k \in Queue : CallReturns("sync", k) \/ CallFails("sync", k)
    BY <1>0, <1>1, <2>2
  <2>3. CASE ~(OtaSucceeds \/ FlushWaitEnds)
             /\ ~ \E k \in Queue : CallReturns("sync", k) \/ CallFails("sync", k)
    <3>1. UNCHANGED troubles
      BY <1>5, <2>3 DEF SyncStep, SyncWakes, SyncBegins, WarmupFails, WarmupSucceeds, EarlyCheck,
         OtaAttempt, OtaEnds, SkipInvalid, SendSample, SendSampleFails, SendFails, AckSample,
         DrainEnds, SendLog, SendLogFails, LogsEnd, SyncEnds, history
    <3> QED
      BY <1>0, <3>1 DEF troubles
  <2> QED
    BY <2>1, <2>2, <2>3
<1>6. CASE FailoverStep
  <2>1. CASE CallReturns("failover", "log") \/ CallFails("failover", "log")
    BY <1>0, <1>1, <2>1
  <2>2. CASE FailoverReceives \/ FailoverStores \/ FailoverLogs
    <3>1. UNCHANGED troubles
      BY <2>2 DEF FailoverReceives, FailoverStores, FailoverLogs, history
    <3> QED
      BY <1>0, <3>1 DEF troubles
  <2> QED
    BY <1>6, <2>1, <2>2 DEF FailoverStep
<1> QED
  BY <1>2, <1>3, <1>4, <1>5, <1>6 DEF Next

LEMMA HistoryStep ==
  ASSUME ControlTypes, MirrorTypes, HistoryTypes, [Next]_vars
  PROVE  HistoryTypes'
<1>1. queue["measure"] # <<>> => Head(queue["measure"]).at \in 1 .. MaxBoots
  <2>1. queue["measure"] \in Seq(Content("measure"))
    BY DEF MirrorTypes, Stored, Queue
  <2>2. queue["measure"] # <<>> => Head(queue["measure"]) \in Content("measure")
    BY <2>1, HeadTailProperties
  <2> QED
    BY <2>2 DEF Content
<1>2. delivered' \in Seq(1 .. MaxBoots) /\ accepted' \subseteq 1 .. MaxBoots /\ refused' \subseteq 1 .. MaxBoots
  <2>1. CASE UNCHANGED <<delivered, accepted, refused>>
    BY <2>1 DEF HistoryTypes
  <2>2. CASE \E valid \in BOOLEAN : PublishSample(valid)
    BY <2>2 DEF PublishSample, HistoryTypes, ControlTypes
  <2>3. CASE SkipInvalid
    BY <1>1, <2>3 DEF SkipInvalid, HistoryTypes
  <2>4. CASE SendSample
    <3>1. delivered' = Append(delivered, Head(queue["measure"]).at) /\ UNCHANGED <<accepted, refused>>
      BY <2>4 DEF SendSample
    <3>2. Head(queue["measure"]).at \in 1 .. MaxBoots
      BY <1>1, <2>4 DEF SendSample, Sendable
    <3> QED
      BY <3>1, <3>2, AppendProperties DEF HistoryTypes
  <2> QED
    BY <2>1, <2>2, <2>3, <2>4, HistoryCases
<1> QED
  BY <1>2, TroubleCases DEF HistoryTypes

LEMMA OffStep ==
  ASSUME Off, [Next]_vars
  PROVE  Off'
<1> USE DEF Off
<1>1. CASE ResetChip
  BY <1>1, ResetControl
<1>2. CASE UNCHANGED <<scheduler, sync, notified>>
  BY <1>2
<1>3. ASSUME NEW t, NEW k, CallReturns(t, k) \/ CallFails(t, k) PROVE Off'
  BY <1>2, <1>3, ReturnControl
<1>4. CASE SchedulerStep \/ PowerFails \/ Finished \/ UNCHANGED vars
  BY <1>1, <1>2, <1>4 DEF SchedulerStep, SchedulerRuns, Trigger, StopWaiting, DeepSleep, Wake, WakeMisreads,
     PowerFails, Finished, vars
<1>5. CASE MeasureStep
  BY <1>2, <1>3, <1>5 DEF MeasureStep, MeasureWakes, MeasureBegins, MeasureEnds, SensorNotReady,
     PublishSession, PublishNotReady, SensorRead
<1>6. CASE SyncStep
  BY <1>1, <1>2, <1>3, <1>6 DEF SyncStep, SyncWakes, SyncBegins, WarmupFails, WarmupSucceeds, WarmupEnds,
     EarlyCheck, OtaAttempt, OtaSucceeds, OtaEnds, FlushWaitEnds, SkipInvalid, SendSample,
     SendSampleFails, SendFails, AckSample, DrainEnds, SendLog, SendLogFails, LogsEnd, SyncEnds, tasks
<1>7. CASE FailoverStep
  BY <1>2, <1>3, <1>7 DEF FailoverStep, FailoverReceives, FailoverStores, FailoverLogs
<1> QED
  BY <1>4, <1>5, <1>6, <1>7 DEF Next

\* Only sync_task takes samples off the queue, and never while it waits for a send to be acked.
LEMMA HasHeadStep ==
  ASSUME ControlTypes, MirrorTypes, HasHead, Off, [Next]_vars
  PROVE  HasHead'
<1>1. CASE SendSample
  <2>1. queue["measure"] # <<>> /\ queue' = queue
    BY <1>1 DEF SendSample, Sendable, mirrors
  <2> QED
    BY <2>1 DEF HasHead
<1>2. CASE AckSample \/ SkipInvalid \/ SendLog
  <2>1. sync' # "ack"
    BY <1>2 DEF AckSample, SkipInvalid, SendLog, tasks
  <2> QED
    BY <2>1 DEF HasHead
<1>3. CASE ResetChip
  BY <1>3, ResetControl DEF HasHead
<1>4. ASSUME NEW t \in Task, NEW k \in Queue, NEW x \in Content(k), Publish(t, k, x), sync' = sync
      PROVE  HasHead'
  <2>1. queue["measure"] \in Seq(Content("measure"))
    BY DEF MirrorTypes, Stored, Queue
  <2>2. queue'["measure"] \in {queue["measure"], Append(queue["measure"], x)}
    BY <1>4, PublishEffect DEF Queue
  <2>3. queue["measure"] # <<>> => queue'["measure"] # <<>>
    BY <2>1, <2>2
  <2> QED
    BY <1>4, <2>3 DEF HasHead
<1>5. /\ "session" \in Content("log") /\ "swap" \in Content("log")
      /\ \A ok \in BOOLEAN : Sample(boot, ok) \in Content("measure")
  BY DEF Content, Sample, ControlTypes
<1>6. CASE UNCHANGED <<sync, queue>> \/ (UNCHANGED queue /\ sync' # "ack")
  BY <1>6 DEF HasHead
<1>11. CASE WakeMisreads
  BY <1>11 DEF WakeMisreads, HasHead, Off
<1>7. CASE SchedulerStep \/ PowerFails \/ Finished \/ UNCHANGED vars
  BY <1>3, <1>6, <1>7, <1>11 DEF SchedulerStep, SchedulerRuns, Trigger, StopWaiting, DeepSleep, Wake,
     PowerFails, Finished, vars, mirrors
<1>8. CASE MeasureStep
  BY <1>4, <1>5, <1>6, <1>8, ReturnControl DEF MeasureStep, MeasureWakes, MeasureBegins, MeasureEnds,
     SensorNotReady, PublishSession, PublishNotReady, PublishSample, SensorRead, mirrors, Task, Queue
<1>9. CASE SyncStep
  BY <1>1, <1>2, <1>3, <1>6, <1>9, ReturnControl DEF SyncStep, SyncWakes, SyncBegins, WarmupFails,
     WarmupSucceeds, EarlyCheck, OtaAttempt, OtaSucceeds, OtaEnds, FlushWaitEnds, SendSampleFails,
     SendFails, DrainEnds, SendLogFails, LogsEnd, SyncEnds, mirrors, tasks
<1>10. CASE FailoverStep
  BY <1>4, <1>5, <1>6, <1>10, ReturnControl DEF FailoverStep, FailoverReceives, FailoverStores,
     FailoverLogs, mirrors, Task, Queue
<1> QED
  BY <1>7, <1>8, <1>9, <1>10 DEF Next

LEMMA BaseInvariant == Spec => []Base
<1>1. Base /\ [Next]_vars => Base'
  BY MirrorCases, MirrorTypesStep, ControlStep, HistoryStep, HasHeadStep, OffStep DEF Base
<1> QED
  BY <1>1, BaseInit, PTL DEF Spec

\* The types hold, whatever is constant: no queue or snapshot outgrows its length, and only
\* what was published is in them.
THEOREM TypeCorrect == Spec => []TypeOK
<1>1. Base => TypeOK
  BY TypeParts DEF Base
<1> QED
  BY <1>1, BaseInvariant, PTL

-----------------------------------------------------------------------------
(* Who is where.                                                           *)

\* No task runs.
Asleep == scheduler \in {"trigger", "asleep"}

\* What the bits, the notifications and the minutes awake tell of the tasks.
Positions ==
  /\ Asleep => /\ measure = "wait" /\ sync = "wait" /\ failover = "wait"
               /\ notified = {} /\ ~request /\ awake = 0
  /\ measure \notin {"wait", "begin"} => "MEASURE_RUNNING" \in bits
  /\ sync \notin {"wait", "read"} => "SYNC_RUNNING" \in bits
  /\ "OTA_RUNNING" \in bits => sync = "ota"
  /\ sync # "wait" => "sync" \notin notified
  /\ measure # "wait" => "measure" \notin notified
  /\ attempts > 0 => sync \in {"ota", "late"}
  /\ awake > 0 => sync \in {"ota", "late", "off", "wait"} /\ "sync" \notin notified
  /\ scheduler = "arm" => /\ measure = "wait" /\ "measure" \notin notified
                          /\ sync \in {"wait", "read", "warmup", "ota", "late", "off"}

\* The flush wait: while sync_task drains, the measurement of the cycle is over.
Waited ==
  overtaken = 0 /\ sync \in {"drain", "ack", "logs"} => measure = "wait" /\ "measure" \notin notified

\* A call is under way only where the task's code makes one.
Calls ==
  /\ Asleep => \A k \in Queue : calls[k] = {}
  /\ \A k \in Queue : "measure" \in calls[k] => measure \in {"sample", "log", "done"}
  /\ "sync" \in calls["measure"] => sync = "drain"
  /\ "sync" \in calls["log"] => sync = "logs"
  /\ "failover" \notin calls["measure"]
  /\ overtaken = 0 => ~torn["measure"]

Places == Positions /\ Waited /\ Calls

LEMMA PlacesInit == Init => Places
BY DEF Init, Places, Positions, Waited, Calls, Asleep, Queue

LEMMA PositionsStep ==
  ASSUME ControlTypes, HistoryTypes, Positions, Waited, [Next]_vars
  PROVE  Positions' /\ Waited'
<1> USE DEF Positions, Waited, Asleep
<1>0. awake \in Nat /\ attempts \in Nat /\ overtaken \in Nat
  BY WakeCycleAssumption DEF ControlTypes, HistoryTypes
<1>1. CASE UNCHANGED vars
  BY <1>1 DEF vars
<1>2. CASE ResetChip
  BY <1>2, ResetControl
<1>3. ASSUME NEW t, NEW k, CallReturns(t, k) \/ CallFails(t, k) PROVE Positions' /\ Waited'
  <2>1. /\ UNCHANGED <<awake, scheduler, measure, sync, failover, notified, bits>>
        /\ UNCHANGED <<request, attempts, overtaken>>
    BY <1>3, ReturnControl
  <2> QED
    BY <2>1
<1>4. CASE SchedulerStep
  <2>1. CASE Trigger
    BY <1>0, <2>1 DEF Trigger, net, history, troubles
  <2>2. CASE StopWaiting
    <3>1. measure = "wait" /\ "measure" \notin notified
      BY <2>2 DEF StopWaiting, Settled, Busy, BudgetSpent, ControlTypes
    <3>2. sync \in {"wait", "read", "ota", "late", "off"}
      <4>1. CASE Busy = {}
        BY <4>1 DEF Busy
      <4>2. CASE BudgetSpent
        BY <1>0, <4>2, WakeCycleAssumption DEF BudgetSpent, Budget
      <4> QED
        BY <2>2, <4>1, <4>2 DEF StopWaiting
    <3> QED
      BY <2>2, <3>1, <3>2 DEF StopWaiting, net, history, troubles
  <2>3. CASE DeepSleep
    BY <1>2, <2>3 DEF DeepSleep
  <2>4. CASE Wake \/ WakeMisreads
    BY <2>4 DEF Wake, WakeMisreads, net, history, troubles
  <2> QED
    BY <1>4, <2>1, <2>2, <2>3, <2>4 DEF SchedulerStep, SchedulerRuns
<1>5. CASE MeasureStep
  <2>1. CASE MeasureWakes
    BY <2>1 DEF MeasureWakes, net, history, troubles
  <2>2. CASE MeasureBegins
    BY <2>2 DEF MeasureBegins, net, history, troubles
  <2>3. CASE SensorNotReady \/ PublishSession
    BY <2>3 DEF SensorNotReady, PublishSession, net, history, troubles
  <2>4. CASE PublishNotReady \/ \E ok \in BOOLEAN : SensorRead(ok)
    BY <2>4 DEF PublishNotReady, SensorRead, PublishSample, net, troubles
  <2>5. CASE MeasureEnds
    BY <2>5 DEF MeasureEnds, net, history, troubles
  <2> QED
    BY <1>3, <1>5, <2>1, <2>2, <2>3, <2>4, <2>5 DEF MeasureStep
<1>6. CASE SyncStep
  <2>1. CASE SyncWakes
    BY <1>0, <2>1 DEF SyncWakes, net, history, troubles
  <2>2. CASE SyncBegins
    BY <1>0, <2>2 DEF SyncBegins, net, history, troubles
  <2>3. CASE WarmupFails \/ WarmupSucceeds
    BY <1>0, <2>3 DEF WarmupFails, WarmupSucceeds, WarmupEnds, AskFailover, net, history, troubles
  <2>4. CASE EarlyCheck
    BY <1>0, <2>4 DEF EarlyCheck, net, history, troubles
  <2>5. CASE \E d \in AttemptMinutes : OtaAttempt(d)
    BY <1>0, <2>5 DEF OtaAttempt, tasks, history, troubles
  <2>6. CASE OtaSucceeds
    BY <1>2, <2>6 DEF OtaSucceeds
  <2>7. CASE OtaEnds
    BY <1>0, <2>7 DEF OtaEnds, history, troubles
  <2>8. CASE FlushWaitEnds
    <3>1. overtaken' = 0 => "MEASURE_RUNNING" \notin bits
      BY <1>0, <2>8 DEF FlushWaitEnds, GoesAhead
    <3>2. overtaken' = 0 => measure = "wait" /\ "measure" \notin notified
      BY <2>8, <3>1 DEF FlushWaitEnds, Settled
    <3> QED
      BY <1>0, <2>8, <3>2 DEF FlushWaitEnds, net
  <2>9. CASE SkipInvalid \/ SendLog
    BY <2>9 DEF SkipInvalid, SendLog, tasks, net, history, troubles
  <2>10. CASE SendSample \/ AckSample
    BY <1>0, <2>10 DEF SendSample, AckSample, net, history, troubles
  <2>11. CASE SendSampleFails \/ SendLogFails
    BY <1>0, <2>11 DEF SendSampleFails, SendLogFails, SendFails, AskFailover, history, troubles
  <2>12. CASE DrainEnds \/ LogsEnd
    BY <1>0, <2>12 DEF DrainEnds, LogsEnd, net, history, troubles
  <2>13. CASE SyncEnds
    BY <1>0, <2>13 DEF SyncEnds, net, history, troubles
  <2> QED
    BY <1>3, <1>6, <2>1, <2>2, <2>3, <2>4, <2>5, <2>6, <2>7, <2>8, <2>9, <2>10, <2>11, <2>12, <2>13
       DEF SyncStep
<1>7. CASE FailoverStep
  <2>1. CASE FailoverReceives \/ FailoverStores \/ FailoverLogs
    BY <2>1 DEF FailoverReceives, FailoverStores, FailoverLogs, net, history, troubles
  <2> QED
    BY <1>3, <1>7, <2>1 DEF FailoverStep
<1>8. CASE PowerFails \/ Finished
  BY <1>1, <1>2, <1>8 DEF PowerFails, Finished
<1> QED
  BY <1>1, <1>4, <1>5, <1>6, <1>7, <1>8 DEF Next

LEMMA CallsStep ==
  ASSUME ControlTypes, MirrorTypes, HistoryTypes, HasHead, Positions, Waited, Calls,
         Positions', Waited', [Next]_vars
  PROVE  Calls'
<1> USE DEF Queue, Task
<1>0. /\ overtaken \in Nat /\ overtaken' \in Nat /\ overtaken' >= overtaken
      /\ \A k \in Queue : calls[k] \subseteq Task /\ torn[k] \in BOOLEAN
      /\ \A k \in Queue : "sync" \in calls[k] => sync \in {"drain", "logs"}
      /\ \A k \in Queue : "measure" \in calls[k] => measure \in {"sample", "log", "done"}
  BY TroubleCases DEF HistoryTypes, MirrorTypes, Calls
<1>1. ASSUME UNCHANGED mirrors,
             scheduler' = scheduler \/ ~Asleep' \/ (Asleep /\ Asleep'),
             measure' = measure \/ Free("measure") \/ measure \in {"wait", "begin", "sense"},
             sync' = sync \/ Free("sync") \/ sync \notin {"drain", "logs"}
      PROVE  Calls'
  <2>1. Asleep' => Asleep
    BY <1>1 DEF Asleep
  <2>2. UNCHANGED <<calls, torn>>
    BY <1>1 DEF mirrors
  <2> QED
    BY <1>0, <1>1, <2>1, <2>2 DEF Calls, Free
<1>2. CASE ResetChip
  BY <1>2, ResetEffect, ResetControl DEF Calls
<1>3. ASSUME NEW t \in Task, NEW k \in Queue, CallReturns(t, k) \/ CallFails(t, k) PROVE Calls'
  <2>1. PICK f : Stored(k, f) /\ Return(t, k, f)
    BY <1>3, ReturnCases
  <2>2. /\ calls'[k] = calls[k] \ {t} /\ UNCHANGED torn
        /\ \A j \in Queue \ {k} : calls'[j] = calls[j]
    BY <2>1, ReturnEffect
  <2>3. UNCHANGED <<scheduler, measure, sync, overtaken>>
    BY <1>3, ReturnControl
  <2> QED
    BY <2>2, <2>3 DEF Calls, Asleep
\* A task outside the mirrors publishes on mirror k.
<1>4. ASSUME NEW t \in Task, NEW k \in Queue, NEW x \in Content(k), Publish(t, k, x), ~Asleep',
             UNCHANGED sync,
             \/ t = "measure" /\ measure' \in {"sample", "log", "done"} /\ measure # "wait"
             \/ t = "failover" /\ k = "log" /\ measure' = measure,
             t = "measure" => Free("measure")
      PROVE  Calls'
  <2>1. /\ calls'[k] \in {calls[k], calls[k] \cup {t}}
        /\ calls[k] = {} => torn'[k] = torn[k]
        /\ \A j \in Queue \ {k} : calls'[j] = calls[j] /\ torn'[j] = torn[j]
    BY <1>4, PublishEffect
  <2>2. overtaken' = 0 /\ k = "measure" => calls["measure"] = {}
    BY <1>0, <1>4 DEF Calls, Waited, Free
  <2> QED
    BY <1>0, <1>4, <2>1, <2>2 DEF Calls, Asleep
\* sync_task, outside the mirrors, acks on mirror k.
<1>5. ASSUME NEW k \in Queue, queue[k] # <<>>, Ack(k), Free("sync"), ~Asleep', measure' = measure,
             k = "measure" => sync \in {"drain", "ack"} /\ sync' = "drain",
             k = "log" => sync = "logs" /\ sync' = "logs"
      PROVE  Calls'
  <2>1. /\ calls'[k] = calls[k] \cup {"sync"}
        /\ calls[k] = {} => torn'[k] = torn[k]
        /\ \A j \in Queue \ {k} : calls'[j] = calls[j] /\ torn'[j] = torn[j]
    BY <1>0, <1>5, AckEffect
  <2>2. overtaken' = 0 /\ k = "measure" => calls["measure"] = {}
    BY <1>0, <1>5 DEF Calls, Waited, Free
  <2> QED
    BY <1>0, <1>5, <2>1, <2>2 DEF Calls, Asleep, Free
<1>6. CASE SchedulerStep
  <2>1. CASE Trigger
    BY <1>1, <2>1 DEF Trigger, Asleep
  <2>2. CASE StopWaiting
    BY <1>1, <2>2 DEF StopWaiting, Asleep
  <2>3. CASE DeepSleep
    BY <1>2, <2>3 DEF DeepSleep
  <2>4. CASE Wake
    BY <1>1, <2>4 DEF Wake, Asleep
  <2>5. CASE WakeMisreads
    BY <2>5 DEF WakeMisreads, Calls, Asleep
  <2> QED
    BY <1>6, <2>1, <2>2, <2>3, <2>4, <2>5 DEF SchedulerStep, SchedulerRuns
<1>7. CASE MeasureStep
  <2>1. CASE MeasureWakes \/ MeasureBegins \/ MeasureEnds
    BY <1>1, <2>1 DEF MeasureWakes, MeasureBegins, MeasureEnds
  <2>2. /\ "session" \in Content("log")
        /\ \A ok \in BOOLEAN : Sample(boot, ok) \in Content("measure")
    BY DEF Content, Sample, ControlTypes
  <2>3. ASSUME measure # "wait", scheduler' = scheduler PROVE ~Asleep'
    BY <2>3 DEF Positions, Asleep
  <2>4. measure = "sense" => Free("measure")
    BY DEF Calls, Free
  <2>5. CASE SensorNotReady \/ PublishSession
    BY <1>4, <2>2, <2>3, <2>4, <2>5 DEF SensorNotReady, PublishSession
  <2>6. CASE PublishNotReady \/ \E ok \in BOOLEAN : SensorRead(ok)
    BY <1>4, <2>2, <2>3, <2>4, <2>6 DEF PublishNotReady, SensorRead, PublishSample
  <2> QED
    BY <1>3, <1>7, <2>1, <2>5, <2>6 DEF MeasureStep
<1>8. CASE SyncStep
  <2>1. CASE \/ SyncWakes \/ SyncBegins \/ WarmupFails \/ WarmupSucceeds \/ EarlyCheck \/ OtaEnds
             \/ FlushWaitEnds \/ SyncEnds
    BY <1>1, <2>1 DEF SyncWakes, SyncBegins, WarmupFails, WarmupSucceeds, WarmupEnds, EarlyCheck, OtaEnds,
       FlushWaitEnds, SyncEnds
  <2>2. CASE \E d \in AttemptMinutes : OtaAttempt(d)
    BY <1>1, <2>2 DEF OtaAttempt, tasks
  <2>3. CASE OtaSucceeds
    BY <1>2, <2>3 DEF OtaSucceeds
  <2>4. CASE SendSample \/ SendSampleFails \/ DrainEnds \/ SendLogFails \/ LogsEnd
    BY <1>1, <2>4 DEF SendSample, SendSampleFails, SendFails, DrainEnds, SendLogFails, LogsEnd
  <2>5. ASSUME sync # "wait", scheduler' = scheduler PROVE ~Asleep'
    BY <2>5 DEF Positions, Asleep
  <2>6. sync = "ack" => Free("sync")
    BY DEF Calls, Free
  <2>7. CASE SkipInvalid \/ AckSample
    BY <1>5, <2>5, <2>6, <2>7 DEF SkipInvalid, AckSample, tasks, HasHead
  <2>8. CASE SendLog
    BY <1>5, <2>5, <2>8 DEF SendLog, tasks
  <2> QED
    BY <1>3, <1>8, <2>1, <2>2, <2>3, <2>4, <2>7, <2>8 DEF SyncStep
<1>9. CASE FailoverStep
  <2>1. CASE FailoverReceives \/ FailoverStores
    BY <1>1, <2>1 DEF FailoverReceives, FailoverStores
  <2>2. CASE FailoverLogs
    <3>1. "swap" \in Content("log") /\ ~Asleep'
      BY <2>2 DEF Content, FailoverLogs, Positions, Asleep
    <3> QED
      BY <1>4, <2>2, <3>1 DEF FailoverLogs
  <2> QED
    BY <1>3, <1>9, <2>1, <2>2 DEF FailoverStep
<1>10. CASE PowerFails
  BY <1>2, <1>10 DEF PowerFails
<1>11. CASE Finished \/ UNCHANGED vars
  BY <1>1, <1>11 DEF Finished, vars, mirrors
<1> QED
  BY <1>6, <1>7, <1>8, <1>9, <1>10, <1>11 DEF Next

LEMMA PlacesInvariant == Spec => [](Base /\ Places)
<1>1. Base /\ Base' /\ Places /\ [Next]_vars => Places'
  BY PositionsStep, CallsStep DEF Base, Places
<1> QED
  BY <1>1, PlacesInit, BaseInvariant, PTL DEF Spec

\* While the flush wait is long enough, measure_task and sync_task never enter a mirror
\* together, however long the queues, whatever fails and however often the device resets.
THEOREM MirrorsStayApart == Spec => []MirrorsApart
<1>1. Places => MirrorsApart
  BY DEF Places, Calls, Waited, MirrorsApart, Queue
<1> QED
  BY <1>1, PlacesInvariant, PTL

-----------------------------------------------------------------------------
(* The sample of the cycle, and all the others.                            *)

\* The measurement of the cycle is to come, under way or published; or the cycle does without,
\* for a firmware update.
Measured ==
  /\ measure \in {"log", "done"} => boot \in accepted \cup refused
  /\ ~Asleep /\ measure = "wait" /\ "measure" \notin notified =>
       \/ boot \in accepted \cup refused
       \/ sync \in {"ota", "off"}
       \/ sync = "wait" /\ "sync" \notin notified

LEMMA MeasuredStep ==
  ASSUME ControlTypes, Positions, Positions', Measured, [Next]_vars
  PROVE  Measured'
<1> USE DEF Measured
<1>1. CASE UNCHANGED <<boot, scheduler, measure, sync, notified, accepted, refused>>
  BY <1>1 DEF Asleep
<1>2. CASE Asleep'
  BY <1>2 DEF Positions
<1>3. ASSUME NEW t, NEW k, CallReturns(t, k) \/ CallFails(t, k) PROVE Measured'
  BY <1>1, <1>3, ReturnControl
<1>4. CASE SchedulerStep
  <2>1. CASE Trigger
    BY <2>1 DEF Trigger, history, Positions, Asleep
  <2>2. CASE StopWaiting
    BY <2>2 DEF StopWaiting, history, Asleep
  <2>3. CASE DeepSleep \/ Wake \/ WakeMisreads
    BY <1>2, <2>3, ResetControl DEF DeepSleep, Wake, WakeMisreads, Asleep
  <2> QED
    BY <1>4, <2>1, <2>2, <2>3 DEF SchedulerStep, SchedulerRuns
<1>5. CASE MeasureStep
  <2>1. CASE MeasureWakes
    BY <2>1 DEF MeasureWakes, history, Positions, Asleep
  <2>2. CASE MeasureBegins
    BY <2>2 DEF MeasureBegins, history, Asleep
  <2>3. CASE SensorNotReady \/ PublishSession
    BY <2>3 DEF SensorNotReady, PublishSession, history, Asleep
  <2>4. CASE PublishNotReady \/ \E ok \in BOOLEAN : SensorRead(ok)
    BY <2>4 DEF PublishNotReady, SensorRead, PublishSample, Asleep
  <2>5. CASE MeasureEnds
    BY <2>5 DEF MeasureEnds, history, Asleep
  <2> QED
    BY <1>3, <1>5, <2>1, <2>2, <2>3, <2>4, <2>5 DEF MeasureStep
<1>6. CASE SyncStep
  <2>1. CASE SyncWakes \/ SyncBegins
    BY <2>1 DEF SyncWakes, SyncBegins, history, Positions, Asleep
  <2>7. CASE WarmupFails \/ WarmupSucceeds
    BY <2>7 DEF WarmupFails, WarmupSucceeds, WarmupEnds, history, Positions, Asleep
  <2>8. CASE EarlyCheck
    BY <2>8 DEF EarlyCheck, history, Asleep
  <2>2. CASE OtaEnds \/ FlushWaitEnds \/ AckSample \/ SendSampleFails \/ DrainEnds
    BY <2>2 DEF OtaEnds, FlushWaitEnds, AckSample, SendSampleFails, SendFails, DrainEnds, history, Asleep
  <2>3. CASE SendLogFails \/ LogsEnd \/ SyncEnds
    BY <2>3 DEF SendLogFails, SendFails, LogsEnd, SyncEnds, history, Positions, Asleep
  <2>4. CASE (\E d \in AttemptMinutes : OtaAttempt(d)) \/ SendLog
    BY <1>1, <2>4 DEF OtaAttempt, SendLog, tasks, history
  <2>5. CASE OtaSucceeds
    BY <1>2, <2>5, ResetControl DEF OtaSucceeds, Asleep
  <2>6. CASE SkipInvalid \/ SendSample
    BY <2>6 DEF SkipInvalid, SendSample, tasks, Asleep
  <2> QED
    BY <1>3, <1>6, <2>1, <2>2, <2>3, <2>4, <2>5, <2>6, <2>7, <2>8 DEF SyncStep
<1>7. CASE FailoverStep
  <2>1. CASE FailoverReceives \/ FailoverStores \/ FailoverLogs
    BY <1>1, <2>1 DEF FailoverReceives, FailoverStores, FailoverLogs, history
  <2> QED
    BY <1>3, <1>7, <2>1 DEF FailoverStep
<1>8. CASE PowerFails
  BY <1>2, <1>8, ResetControl DEF PowerFails, Asleep
<1>9. CASE Finished \/ UNCHANGED vars
  BY <1>1, <1>9 DEF Finished, vars
<1> QED
  BY <1>4, <1>5, <1>6, <1>7, <1>8, <1>9 DEF Next

LEMMA MeasuredInvariant == Spec => []Measured
<1>1. Init => Measured
  BY DEF Init, Measured, Asleep
<1>2. Base /\ Places /\ Places' /\ Measured /\ [Next]_vars => Measured'
  BY MeasuredStep DEF Base, Places
<1> QED
  BY <1>1, <1>2, PlacesInvariant, PTL DEF Spec

\* When the drain begins and the flush wait has not timed out, this cycle's sample has been
\* queued or refused: it is never left for the next sync by an accident of scheduling.
THEOREM TopOfHour == Spec => []TopOfHourIncluded
<1>1. Base /\ Places /\ Measured => TopOfHourIncluded
  BY DEF Base, Places, Positions, Waited, Asleep, Measured, TopOfHourIncluded
<1> QED
  BY <1>1, PlacesInvariant, MeasuredInvariant, PTL

\* With nothing under way on it, nothing failed and nothing overlapping, the queue of samples
\* is what a reset would bring back.
AtRest ==
  glitches = 0 /\ ~torn["measure"] /\ calls["measure"] = {} => flash["measure"] = queue["measure"]

LEMMA AtRestStep ==
  ASSUME MirrorTypes, Single, HistoryTypes, HistoryTypes', AtRest, MirrorStep, [Next]_vars
  PROVE  AtRest'
<1> USE DEF AtRest, Queue
<1>0. /\ glitches' = 0 => glitches = 0
      /\ \A k \in Queue : torn[k] \in BOOLEAN
  BY TroubleCases DEF HistoryTypes, MirrorTypes
<1>1. CASE UNCHANGED mirrors
  BY <1>0, <1>1 DEF mirrors
<1>2. ASSUME NEW t \in Task, NEW k \in Queue, NEW x \in Content(k), Publish(t, k, x) PROVE AtRest'
  BY <1>0, <1>1, <1>2, PublishEffect, EnterEffect
<1>3. ASSUME NEW k \in Queue, queue[k] # <<>>, Ack(k) PROVE AtRest'
  BY <1>0, <1>3, AckEffect
<1>4. ASSUME NEW t \in Task, NEW k \in Queue, CallReturns(t, k) PROVE AtRest'
  <2>1. Stored(k, queue[k]) /\ Return(t, k, queue[k])
    BY <1>4 DEF CallReturns, MirrorTypes
  <2> HIDE DEF AtRest, Queue
  <2>2. /\ flash'[k] = queue[k] /\ UNCHANGED <<queue, torn>>
        /\ \A j \in Queue \ {k} : flash'[j] = flash[j] /\ calls'[j] = calls[j]
    BY <2>1, ReturnEffect
  <2> USE DEF AtRest, Queue
  <2>3. CASE k = "measure"
    BY <2>2, <2>3
  <2>4. CASE k = "log"
    BY <1>0, <2>2, <2>4
  <2> QED
    BY <2>3, <2>4
<1>5. ASSUME NEW t \in Task, NEW k \in Queue, CallFails(t, k) PROVE AtRest'
  BY <1>5 DEF CallFails, HistoryTypes
<1>6. CASE ResetChip
  BY <1>6, ResetEffect
<1>7. CASE WakeMisreads
  BY <1>7 DEF WakeMisreads, HistoryTypes
<1> QED
  BY <1>1, <1>2, <1>3, <1>4, <1>5, <1>6, <1>7 DEF MirrorStep

\* The sample sync_task is about to ack has been delivered.
Acking == sync = "ack" => Delivered(Head(queue["measure"]).at)

Kept == AtRest /\ Acking /\ NothingLost

Has(q, b) == \E i \in DOMAIN q : q[i].at = b

LEMMA AppendHas ==
  ASSUME NEW S, NEW q \in Seq(S), NEW x \in S
  PROVE  /\ Has(Append(q, x), x.at)
         /\ \A b : Has(q, b) => Has(Append(q, x), b)
         /\ q # <<>> => Head(Append(q, x)) = Head(q)
<1>1. /\ DOMAIN q = 1 .. Len(q) /\ Len(q) \in Nat
      /\ DOMAIN Append(q, x) = 1 .. Len(q) + 1
      /\ \A i \in 1 .. Len(q) : Append(q, x)[i] = q[i]
      /\ Append(q, x)[Len(q) + 1] = x
  BY AppendProperties, LenProperties
<1>2. Len(q) + 1 \in DOMAIN Append(q, x) /\ \A i \in DOMAIN q : i \in DOMAIN Append(q, x)
  BY <1>1
<1>3. q # <<>> => Head(Append(q, x)) = Head(q)
  BY <1>1
<1> QED
  BY <1>1, <1>2, <1>3 DEF Has

LEMMA TailHas ==
  ASSUME NEW S, NEW q \in Seq(S), q # <<>>, NEW b, Has(q, b)
  PROVE  b = Head(q).at \/ Has(Tail(q), b)
<1>1. PICK i \in 1 .. Len(q) : q[i].at = b
  BY LenProperties DEF Has
<1>2. CASE i = 1
  BY <1>1, <1>2
<1>3. CASE i # 1
  <2>1. i - 1 \in 1 .. Len(Tail(q)) /\ Tail(q)[i - 1] = q[i]
    BY <1>1, <1>3, HeadTailProperties, LenProperties
  <2>2. i - 1 \in DOMAIN Tail(q)
    BY <2>1, HeadTailProperties, LenProperties
  <2> QED
    BY <1>1, <2>1, <2>2 DEF Has
<1> QED
  BY <1>2, <1>3

\* What a step can do to the samples.
SampleStep ==
  \/ UNCHANGED <<queue["measure"], delivered, accepted, refused>> /\ (sync' = "ack" => sync = "ack")
  \/ \E valid \in BOOLEAN : PublishSample(valid) /\ sync' = sync
  \/ SkipInvalid
  \/ SendSample
  \/ AckSample
  \/ ResetChip /\ (Untroubled' => calls["measure"] = {})
  \/ WakeMisreads

LEMMA SampleCases ==
  ASSUME Base, Places, [Next]_vars
  PROVE  SampleStep
<1> USE DEF SampleStep
<1>0. ControlTypes /\ MirrorTypes /\ HistoryTypes /\ Positions /\ Calls
  BY DEF Base, Places
<1>1. ASSUME UNCHANGED queue, UNCHANGED <<delivered, accepted, refused>>, sync' = "ack" => sync = "ack"
      PROVE  SampleStep
  BY <1>1
<1>2. ASSUME NEW t, NEW k, CallReturns(t, k) \/ CallFails(t, k) PROVE SampleStep
  BY <1>1, <1>2, ReturnControl
<1>3. ASSUME NEW t \in Task, NEW x \in Content("log"), Publish(t, "log", x), sync' = sync,
             UNCHANGED <<delivered, accepted, refused>>
      PROVE  SampleStep
  BY <1>0, <1>3, PublishEffect DEF Queue
<1>4. "session" \in Content("log") /\ "swap" \in Content("log")
  BY DEF Content
<1>5. calls["measure"] \subseteq {"measure", "sync"}
  BY <1>0 DEF MirrorTypes, Calls, Queue, Task
<1>6. CASE SchedulerStep
  <2>0. CASE WakeMisreads
    BY <2>0
  <2>1. CASE Trigger \/ StopWaiting \/ Wake
    BY <1>1, <2>1 DEF Trigger, StopWaiting, Wake, mirrors, history
  <2>2. CASE DeepSleep
    <3>1. calls["measure"] = {}
      BY <1>0, <1>5, <2>2 DEF DeepSleep, Positions, Calls, Queue
    <3> QED
      BY <2>2, <3>1 DEF DeepSleep
  <2> QED
    BY <1>6, <2>0, <2>1, <2>2 DEF SchedulerStep, SchedulerRuns
<1>7. CASE MeasureStep
  <2>1. CASE MeasureWakes \/ MeasureBegins \/ MeasureEnds
    BY <1>1, <2>1 DEF MeasureWakes, MeasureBegins, MeasureEnds, mirrors, history
  <2>2. CASE SensorNotReady \/ PublishSession
    BY <1>3, <1>4, <2>2 DEF SensorNotReady, PublishSession, history, Task
  <2>3. CASE PublishNotReady \/ \E ok \in BOOLEAN : SensorRead(ok)
    BY <2>3 DEF PublishNotReady, SensorRead
  <2> QED
    BY <1>2, <1>7, <2>1, <2>2, <2>3 DEF MeasureStep
<1>8. CASE SyncStep
  <2>1. CASE \/ SyncWakes \/ SyncBegins \/ WarmupFails \/ WarmupSucceeds \/ EarlyCheck
             \/ OtaEnds \/ FlushWaitEnds \/ SyncEnds \/ \E d \in AttemptMinutes : OtaAttempt(d)
    BY <1>1, <2>1 DEF SyncWakes, SyncBegins, WarmupFails, WarmupSucceeds, EarlyCheck, OtaEnds,
       FlushWaitEnds, SyncEnds, OtaAttempt, tasks, mirrors, history
  <2>2. CASE SendSampleFails \/ DrainEnds \/ SendLogFails \/ LogsEnd
    BY <1>1, <2>2 DEF SendSampleFails, SendFails, DrainEnds, SendLogFails, LogsEnd, mirrors, history
  <2>3. CASE SendLog
    <3>1. queue["log"] # <<>> /\ Ack("log") /\ UNCHANGED <<sync, delivered, accepted, refused>>
      BY <2>3 DEF SendLog, tasks, history
    <3> QED
      BY <1>0, <3>1, AckEffect DEF Queue
  <2>4. CASE OtaSucceeds
    <3>1. sync \in {"ota", "late"}
      BY <1>0, <2>4 DEF OtaSucceeds, Positions
    <3>2. overtaken' = 0 => "MEASURE_RUNNING" \notin bits
      BY <1>0, <2>4 DEF OtaSucceeds, GoesAhead, HistoryTypes
    <3>3. Untroubled' => calls["measure"] = {}
      BY <1>0, <1>5, <3>1, <3>2 DEF Untroubled, Positions, Calls, Queue
    <3> QED
      BY <2>4, <3>3 DEF OtaSucceeds
  <2> QED
    BY <1>2, <1>8, <2>1, <2>2, <2>3, <2>4 DEF SyncStep
<1>9. CASE FailoverStep
  <2>1. CASE FailoverReceives \/ FailoverStores
    BY <1>1, <2>1 DEF FailoverReceives, FailoverStores, mirrors, history
  <2>2. CASE FailoverLogs
    BY <1>3, <1>4, <2>2 DEF FailoverLogs, history, Task
  <2> QED
    BY <1>2, <1>9, <2>1, <2>2 DEF FailoverStep
<1>10. CASE PowerFails
  BY <1>0, <1>10 DEF PowerFails, Untroubled, HistoryTypes
<1>11. CASE Finished \/ UNCHANGED vars
  BY <1>1, <1>11 DEF Finished, vars
<1> QED
  BY <1>6, <1>7, <1>8, <1>9, <1>10, <1>11 DEF Next

LEMMA KeptStep ==
  ASSUME Base, Places, HistoryTypes', SampleStep, [Next]_vars, AtRest, Acking, NothingLost
  PROVE  Acking' /\ NothingLost'
<1> DEFINE q == queue["measure"]
           Known(b) == Delivered(b) \/ Has(q, b) \/ b \in refused
<1>0. /\ MirrorTypes /\ Single /\ HistoryTypes /\ Calls /\ "measure" \in Queue
      /\ q \in Seq(Content("measure")) /\ delivered \in Seq(1 .. MaxBoots)
      /\ \A b : InQueue(b) <=> Has(q, b)
  BY DEF Base, Places, MirrorTypes, HistoryTypes, Stored, Queue, InQueue, Has
<1>1. /\ NothingLost <=> (Untroubled => \A b \in accepted : Known(b))
      /\ NothingLost' <=> (Untroubled' => \A b \in accepted' : Known(b)')
      /\ Untroubled' => Untroubled
  <2>1. \A b : InQueue(b)' <=> Has(q', b)
    BY DEF InQueue, Has
  <2>2. Untroubled' => Untroubled
    BY <1>0, TroubleCases DEF Untroubled, HistoryTypes
  <2> QED
    BY <1>0, <2>1, <2>2 DEF NothingLost
<1> HIDE DEF q
<1>2. CASE UNCHANGED <<q, delivered, accepted, refused>> /\ (sync' = "ack" => sync = "ack")
  <2>1. \A b : Known(b)' <=> Known(b)
    BY <1>2 DEF Delivered, Has
  <2>2. Acking'
    BY <1>2 DEF Acking, Delivered, q
  <2> QED
    BY <1>1, <1>2, <2>1, <2>2
<1>3. ASSUME NEW valid \in BOOLEAN, PublishSample(valid), sync' = sync PROVE Acking' /\ NothingLost'
  <2>1. Sample(boot, valid) \in Content("measure") /\ Sample(boot, valid).at = boot
    BY DEF Content, Sample, Base, ControlTypes
  <2>2. UNCHANGED delivered
    BY <1>3 DEF PublishSample
  <2>3. CASE Len(q) < Capacity["measure"]
    <3>1. q' = Append(q, Sample(boot, valid)) /\ accepted' = accepted \cup {boot} /\ UNCHANGED refused
      BY <1>0, <1>3, <2>3 DEF PublishSample, Publish, Enter, MirrorTypes, q
    <3>2. /\ Has(q', boot) /\ \A b : Has(q, b) => Has(q', b)
          /\ q # <<>> => Head(q') = Head(q)
      BY <1>0, <2>1, <3>1, AppendHas
    <3>3. Acking'
      BY <1>3, <2>2, <3>2 DEF Acking, Base, HasHead, Delivered, q
    <3> QED
      BY <1>1, <2>2, <3>1, <3>2, <3>3 DEF Delivered
  <2>4. CASE ~(Len(q) < Capacity["measure"])
    <3>1. q' = q /\ accepted' = accepted /\ refused' = refused \cup {boot}
      BY <1>3, <2>4 DEF PublishSample, Publish, mirrors, q
    <3>2. Acking'
      BY <1>3, <2>2, <3>1 DEF Acking, Delivered, q
    <3> QED
      BY <1>1, <2>2, <3>1, <3>2 DEF Delivered, Has
  <2> QED
    BY <2>3, <2>4
<1>4. CASE SkipInvalid \/ AckSample
  <2>1. /\ q # <<>> /\ Ack("measure") /\ sync' = "drain" /\ UNCHANGED <<delivered, accepted>>
        /\ refused \subseteq refused'
        /\ Delivered(Head(q).at) \/ Head(q).at \in refused'
    BY <1>4 DEF SkipInvalid, AckSample, Base, HasHead, Acking, tasks, history, q
  <2>2. q' = Tail(q)
    BY <1>0, <2>1, AckEffect DEF q
  <2>3. \A b : Has(q, b) => b = Head(q).at \/ Has(q', b)
    BY <1>0, <2>1, <2>2, TailHas
  <2> QED
    BY <1>1, <2>1, <2>3 DEF Acking, Delivered
<1>5. CASE SendSample
  <2>1. delivered' = Append(delivered, Head(q).at) /\ q' = q /\ UNCHANGED <<accepted, refused>>
    BY <1>5 DEF SendSample, mirrors, q
  <2>2. Head(q).at \in 1 .. MaxBoots
    <3>1. Head(q) \in Content("measure")
      BY <1>0, <1>5, HeadTailProperties DEF SendSample, Sendable, q
    <3> QED
      BY <3>1 DEF Content
  <2>3. Delivered(Head(q).at)' /\ \A b : Delivered(b) => Delivered(b)'
    <3>1. /\ DOMAIN delivered = 1 .. Len(delivered) /\ Len(delivered) \in Nat
          /\ DOMAIN delivered' = 1 .. Len(delivered) + 1
          /\ \A i \in 1 .. Len(delivered) : delivered'[i] = delivered[i]
          /\ delivered'[Len(delivered) + 1] = Head(q).at
      BY <1>0, <2>1, <2>2, AppendProperties, LenProperties
    <3>2. Len(delivered) + 1 \in DOMAIN delivered' /\ \A i \in DOMAIN delivered : i \in DOMAIN delivered'
      BY <3>1
    <3>3. Delivered(Head(q).at)'
      BY <2>1, <3>1, <3>2 DEF Delivered
    <3> QED
      BY <3>1, <3>2, <3>3 DEF Delivered
  <2>4. Acking'
    BY <2>1, <2>3 DEF Acking, Delivered, q
  <2> QED
    BY <1>1, <2>1, <2>3, <2>4 DEF Has
<1>6. CASE ResetChip /\ (Untroubled' => calls["measure"] = {})
  <2>1. /\ UNCHANGED <<delivered, accepted, refused>> /\ sync' = "wait"
        /\ q' \in Unfinished("measure")
    BY <1>0, <1>6, ResetEffect, ResetControl DEF q
  <2>2. Untroubled' => q' = q
    BY <1>0, <1>1, <1>6, <2>1 DEF Unfinished, Untroubled, AtRest, Calls, q
  <2> QED
    BY <1>1, <2>1, <2>2 DEF Acking, Delivered, Has
<1>7. CASE WakeMisreads
  <2>1. Acking'
    BY <1>7 DEF WakeMisreads, Acking, Base, Off
  <2>2. ~Untroubled'
    BY <1>0, <1>7 DEF WakeMisreads, Untroubled, HistoryTypes
  <2> QED
    BY <1>1, <2>1, <2>2
<1> QED
  BY <1>2, <1>3, <1>4, <1>5, <1>6, <1>7 DEF SampleStep, q

LEMMA KeptInvariant == Spec => []Kept
<1>1. Init => Kept
  BY DEF Init, Kept, AtRest, Acking, NothingLost, Queue
<1>2. Base /\ Base' /\ Places /\ Kept /\ [Next]_vars => Kept'
  BY MirrorCases, AtRestStep, SampleCases, KeptStep DEF Base, Kept
<1> QED
  BY <1>1, <1>2, BaseInvariant, PlacesInvariant, PTL DEF Spec

\* Unless a measurement is overtaken, storage fails or power is lost, every sample that was
\* queued was delivered, or waits, or was invalid: whatever the modules, the network and the
\* updates do, for every queue length and any number of cycles.
THEOREM NothingIsLost == Spec => []NothingLost
<1>1. Kept => NothingLost
  BY DEF Kept
<1> QED
  BY <1>1, KeptInvariant, PTL

-----------------------------------------------------------------------------
(* The order of deliveries.                                                *)

\* The samples of f come in order, after all that was delivered and none after this cycle's.
Chain(f) ==
  /\ \A i, j \in DOMAIN f : i < j => f[i].at <= f[j].at
  /\ \A i \in DOMAIN delivered, j \in DOMAIN f : delivered[i] <= f[j].at
  /\ \A j \in DOMAIN f : f[j].at <= boot

Ordered ==
  glitches = 0 /\ overtaken = 0 =>
    /\ InOrder /\ Chain(queue["measure"]) /\ Chain(flash["measure"])
    /\ \A i \in DOMAIN delivered : delivered[i] <= boot

\* A stretch of a chain is a chain.
LEMMA ChainPart ==
  ASSUME NEW S, NEW f \in Seq(S), NEW g \in Seq(S), NEW d \in Nat, Chain(f),
         Len(g) + d <= Len(f), \A j \in 1 .. Len(g) : g[j] = f[j + d]
  PROVE  Chain(g)
<1>1. /\ DOMAIN f = 1 .. Len(f) /\ DOMAIN g = 1 .. Len(g) /\ Len(f) \in Nat /\ Len(g) \in Nat
  BY LenProperties
<1>2. \A j \in DOMAIN g : j + d \in DOMAIN f /\ g[j] = f[j + d]
  BY <1>1
<1>3. \A i, j \in DOMAIN g : i < j => i + d < j + d
  BY <1>1
<1> QED
  BY <1>2, <1>3 DEF Chain

\* The samples of a prefix, and of the queue without its head.
LEMMA ChainPrefix ==
  ASSUME NEW S, NEW f \in Seq(S), Chain(f), NEW n \in 0 .. Len(f)
  PROVE  Chain(SubSeq(f, 1, n))
<1>1. /\ SubSeq(f, 1, n) \in Seq(S) /\ Len(SubSeq(f, 1, n)) = n
      /\ \A j \in 1 .. n : SubSeq(f, 1, n)[j] = f[j + 0]
  <2>1. \A i \in 1 .. n : f[i] \in S
    BY ElementOfSeq, LenProperties
  <2> QED
    BY <2>1, SubSeqProperties, LenProperties
<1>2. Len(SubSeq(f, 1, n)) + 0 <= Len(f) /\ 0 \in Nat
  BY <1>1, LenProperties
<1> QED
  BY <1>1, <1>2, ChainPart

LEMMA ChainTail ==
  ASSUME NEW S, NEW f \in Seq(S), f # <<>>, Chain(f)
  PROVE  Chain(Tail(f))
<1>1. /\ Tail(f) \in Seq(S) /\ Len(Tail(f)) + 1 <= Len(f)
      /\ \A j \in 1 .. Len(Tail(f)) : Tail(f)[j] = f[j + 1]
  BY HeadTailProperties, LenProperties
<1> QED
  BY <1>1, ChainPart

\* A sample of this cycle joins the chain.
LEMMA ChainAppend ==
  ASSUME NEW S, NEW f \in Seq(S), NEW x \in S, Chain(f), x.at = boot, boot \in Nat,
         \A i \in DOMAIN delivered : delivered[i] <= boot
  PROVE  Chain(Append(f, x))
<1> DEFINE g == Append(f, x)
<1>1. /\ DOMAIN f = 1 .. Len(f) /\ Len(f) \in Nat /\ DOMAIN g = 1 .. Len(f) + 1
      /\ \A j \in DOMAIN f : g[j] = f[j]
      /\ g[Len(f) + 1] = x
  BY AppendProperties, LenProperties
<1> HIDE DEF g
<1>2. \A j \in DOMAIN g : j \in DOMAIN f \/ j = Len(f) + 1
  BY <1>1
<1>3. \A j \in DOMAIN g : g[j].at <= boot
  BY <1>1, <1>2 DEF Chain
<1>4. ASSUME NEW i \in DOMAIN g, NEW j \in DOMAIN g, i < j PROVE g[i].at <= g[j].at
  <2>1. i \in DOMAIN f
    BY <1>1, <1>2, <1>4
  <2>2. CASE j \in DOMAIN f
    BY <1>1, <1>4, <2>1, <2>2 DEF Chain
  <2>3. CASE j = Len(f) + 1
    BY <1>1, <1>3, <2>3
  <2> QED
    BY <1>2, <2>2, <2>3
<1>5. ASSUME NEW i \in DOMAIN delivered, NEW j \in DOMAIN g PROVE delivered[i] <= g[j].at
  <2>1. CASE j \in DOMAIN f
    BY <1>1, <2>1 DEF Chain
  <2>2. CASE j = Len(f) + 1
    BY <1>1, <2>2
  <2> QED
    BY <1>2, <2>1, <2>2
<1> QED
  BY <1>3, <1>4, <1>5 DEF Chain, g

LEMMA BootStep ==
  ASSUME ControlTypes, [Next]_vars
  PROVE  boot' \in Nat /\ boot \in Nat /\ boot <= boot'
<1>0. boot \in Nat
  BY WakeCycleAssumption DEF ControlTypes
<1>1. CASE Wake \/ WakeMisreads
  BY <1>0, <1>1 DEF Wake, WakeMisreads
<1>2. CASE ~Wake /\ ~WakeMisreads
  <2>1. boot' = boot
    <3>1. ASSUME NEW t, NEW k, CallReturns(t, k) \/ CallFails(t, k) PROVE boot' = boot
      BY <3>1, ReturnControl
    <3>2. CASE SchedulerStep \/ PowerFails \/ Finished \/ UNCHANGED vars
      BY <1>2, <3>2, ResetControl DEF SchedulerStep, SchedulerRuns, Trigger, StopWaiting, DeepSleep,
         PowerFails, Finished, vars
    <3>3. CASE MeasureStep
      BY <3>1, <3>3 DEF MeasureStep, MeasureWakes, MeasureBegins, MeasureEnds, SensorNotReady,
         PublishSession, PublishNotReady, SensorRead
    <3>4. CASE SyncStep
      BY <3>1, <3>4, ResetControl DEF SyncStep, SyncWakes, SyncBegins, WarmupFails, WarmupSucceeds,
         EarlyCheck, OtaAttempt, OtaSucceeds, OtaEnds, FlushWaitEnds, SkipInvalid, SendSample,
         SendSampleFails, SendFails, AckSample, DrainEnds, SendLog, SendLogFails, LogsEnd, SyncEnds
    <3>5. CASE FailoverStep
      BY <3>1, <3>5 DEF FailoverStep, FailoverReceives, FailoverStores, FailoverLogs
    <3> QED
      BY <3>2, <3>3, <3>4, <3>5 DEF Next
  <2> QED
    BY <1>0, <2>1
<1> QED
  BY <1>1, <1>2

\* What a step leaves on flash of a mirror that is not torn: what was there, or the oldest
\* messages of the queue.  (A boot that misreads may find less.)
LEMMA FlashCases ==
  ASSUME MirrorTypes, NEW k \in Queue, MirrorStep, ~torn[k], ~WakeMisreads
  PROVE  flash'[k] \in {flash[k], queue[k]} \cup Unfinished(k)
<1>1. CASE UNCHANGED mirrors
  BY <1>1 DEF mirrors
<1>2. ASSUME NEW t \in Task, NEW j \in Queue, NEW x \in Content(j), Publish(t, j, x)
      PROVE  flash'[k] = flash[k]
  BY <1>2, PublishEffect
<1>3. ASSUME NEW j \in Queue, queue[j] # <<>>, Ack(j) PROVE flash'[k] = flash[k]
  BY <1>3, AckEffect
<1>4. ASSUME NEW t \in Task, NEW j \in Queue, CallReturns(t, j) \/ CallFails(t, j)
      PROVE  flash'[k] \in {flash[k], queue[k]} \cup Unfinished(k)
  <2>1. PICK f : /\ Stored(j, f) /\ Return(t, j, f)
                 /\ f = queue[j] \/ f \in Unfinished(j)
    BY <1>4, ReturnCases
  <2>2. flash'[j] = f /\ \A i \in Queue \ {j} : flash'[i] = flash[i]
    BY <2>1, ReturnEffect
  <2> QED
    BY <2>1, <2>2
<1>5. CASE ResetChip
  BY <1>5, ResetEffect
<1> QED
  BY <1>1, <1>2, <1>3, <1>4, <1>5 DEF MirrorStep

LEMMA OrderedStep ==
  ASSUME Base, Base', Places, AtRest, Ordered, SampleStep, MirrorStep, [Next]_vars
  PROVE  Ordered'
<1> DEFINE q == queue["measure"]
           f == flash["measure"]
<1> SUFFICES ASSUME glitches' = 0, overtaken' = 0
             PROVE  /\ \A i, j \in DOMAIN delivered' : i < j => delivered'[i] <= delivered'[j]
                    /\ Chain(q)' /\ Chain(f)'
                    /\ \A i \in DOMAIN delivered' : delivered'[i] <= boot'
  BY DEF Ordered, InOrder
<1>0. /\ MirrorTypes /\ Single /\ HistoryTypes /\ Calls /\ Waited /\ ControlTypes
      /\ q \in Seq(Content("measure")) /\ f \in Seq(Content("measure"))
      /\ delivered \in Seq(1 .. MaxBoots) /\ Len(q) \in Nat
  BY LenProperties DEF Base, Places, MirrorTypes, HistoryTypes, Stored, Queue
<1>1. /\ glitches = 0 /\ overtaken = 0
      /\ \A i, j \in DOMAIN delivered : i < j => delivered[i] <= delivered[j]
      /\ Chain(q) /\ Chain(f)
      /\ \A i \in DOMAIN delivered : delivered[i] <= boot
  <2>1. glitches = 0 /\ overtaken = 0
    BY <1>0, TroubleCases DEF HistoryTypes
  <2> QED
    BY <2>1 DEF Ordered, InOrder
<1>2. boot' \in Nat /\ boot \in Nat /\ boot <= boot'
  BY <1>0, BootStep
<1>3. ~torn["measure"] /\ \A n \in 0 .. Len(q) : Chain(SubSeq(q, 1, n))
  BY <1>0, <1>1, ChainPrefix DEF Calls
<1>11. ~WakeMisreads
  BY <1>1 DEF WakeMisreads
<1>4. Chain(f')
  <2>1. f' \in {f, q} \/ \E n \in 0 .. Len(q) : f' = SubSeq(q, 1, n)
    BY <1>0, <1>3, <1>11, FlashCases DEF Unfinished, Queue
  <2> QED
    BY <1>1, <1>3, <2>1
<1> HIDE DEF q, f
\* Both chains hold in the new state as soon as nothing is delivered.
<1>5. ASSUME UNCHANGED delivered, Chain(q')
      PROVE  /\ \A i, j \in DOMAIN delivered' : i < j => delivered'[i] <= delivered'[j]
             /\ Chain(q)' /\ Chain(f)'
             /\ \A i \in DOMAIN delivered' : delivered'[i] <= boot'
  <2>1. q' \in Seq(Content("measure")) /\ f' \in Seq(Content("measure"))
    BY DEF Base, MirrorTypes, Stored, Content, Queue, q, f
  <2>2. ASSUME NEW g \in Seq(Content("measure")), Chain(g)
        PROVE  \A j \in DOMAIN g : g[j].at <= boot'
    <3>1. \A j \in DOMAIN g : g[j] \in Content("measure")
      BY <2>2, ElementOfSeq, LenProperties
    <3>2. \A j \in DOMAIN g : g[j].at \in Nat
      BY <3>1 DEF Content
    <3> QED
      BY <1>2, <2>2, <3>2 DEF Chain
  <2>3. \A i \in DOMAIN delivered : delivered[i] \in Nat
    <3>1. \A i \in DOMAIN delivered : delivered[i] \in 1 .. MaxBoots
      BY <1>0, ElementOfSeq, LenProperties
    <3> QED
      BY <3>1
  <2> QED
    BY <1>1, <1>2, <1>4, <1>5, <2>1, <2>2, <2>3 DEF Chain
<1>6. CASE UNCHANGED <<q, delivered>>
  BY <1>1, <1>5, <1>6
<1>7. ASSUME NEW valid \in BOOLEAN, PublishSample(valid)
      PROVE  UNCHANGED delivered /\ Chain(q')
  <2>1. /\ Sample(boot, valid) \in Content("measure") /\ Sample(boot, valid).at = boot
        /\ UNCHANGED delivered
    BY <1>0, <1>7 DEF Content, Sample, ControlTypes, PublishSample
  <2>2. q' \in {q, Append(q, Sample(boot, valid))}
    BY <1>0, <1>7, <2>1, PublishEffect DEF PublishSample, Task, Queue, q
  <2> QED
    BY <1>0, <1>1, <1>2, <2>1, <2>2, ChainAppend
<1>8. CASE SkipInvalid \/ AckSample
  <2>1. q # <<>> /\ Ack("measure") /\ UNCHANGED delivered
    BY <1>8 DEF SkipInvalid, AckSample, Base, HasHead, history, q
  <2>2. q' = Tail(q)
    BY <1>0, <2>1, AckEffect DEF Queue, q
  <2> QED
    BY <1>0, <1>1, <1>5, <2>1, <2>2, ChainTail
<1>9. CASE SendSample
  <2>1. /\ delivered' = Append(delivered, Head(q).at) /\ q # <<>>
        /\ sync = "drain" /\ Free("sync") /\ UNCHANGED <<queue, flash, boot>>
    BY <1>9 DEF SendSample, Sendable, mirrors, q
  <2>2. f = q
    <3>1. calls["measure"] = {}
      BY <1>0, <1>1, <2>1 DEF MirrorTypes, Calls, Waited, Free, Queue, Task
    <3> QED
      BY <1>1, <1>3, <3>1 DEF AtRest, q, f
  <2>3. /\ 1 \in DOMAIN q /\ Head(q) = q[1] /\ Head(q).at \in 1 .. MaxBoots /\ DOMAIN q = 1 .. Len(q)
    <3>1. Head(q) \in Content("measure") /\ Head(q) = q[1] /\ Len(q) >= 1
      BY <1>0, <2>1, HeadTailProperties, LenProperties, EmptySeq
    <3> QED
      BY <1>0, <3>1, LenProperties DEF Content
  <2>4. \A j \in DOMAIN q : Head(q).at <= q[j].at
    <3> SUFFICES ASSUME NEW j \in DOMAIN q PROVE q[1].at <= q[j].at
      BY <2>3
    <3>1. CASE j = 1
      BY <2>3, <3>1
    <3>2. CASE j # 1
      <4>1. 1 < j
        BY <1>0, <2>3, <3>2
      <4> QED
        BY <1>1, <2>3, <4>1 DEF Chain
    <3> QED
      BY <3>1, <3>2
  <2>5. /\ DOMAIN delivered = 1 .. Len(delivered) /\ Len(delivered) \in Nat
        /\ DOMAIN delivered' = 1 .. Len(delivered) + 1
        /\ \A i \in DOMAIN delivered : delivered'[i] = delivered[i]
        /\ delivered'[Len(delivered) + 1] = Head(q).at
    BY <1>0, <2>1, <2>3, AppendProperties, LenProperties
  <2>6. /\ \A i \in DOMAIN delivered' : i \in DOMAIN delivered \/ i = Len(delivered) + 1
        /\ \A i \in DOMAIN delivered : delivered[i] <= Head(q).at
    BY <1>1, <2>3, <2>5 DEF Chain
  <2>7. \A i \in DOMAIN delivered', j \in DOMAIN q : delivered'[i] <= q[j].at
    BY <1>1, <2>4, <2>5, <2>6 DEF Chain
  <2>8. \A i \in DOMAIN delivered' : delivered'[i] <= boot
    BY <1>1, <2>3, <2>5, <2>6 DEF Chain
  <2>9. ASSUME NEW i \in DOMAIN delivered', NEW j \in DOMAIN delivered', i < j
        PROVE  delivered'[i] <= delivered'[j]
    <3>1. i \in DOMAIN delivered
      BY <2>5, <2>6, <2>9
    <3>2. CASE j \in DOMAIN delivered
      BY <1>1, <2>5, <2>9, <3>1, <3>2
    <3>3. CASE j = Len(delivered) + 1
      BY <2>5, <2>6, <3>1, <3>3
    <3> QED
      BY <2>6, <3>2, <3>3
  <2>10. Chain(q)' /\ Chain(f)'
    BY <1>1, <2>1, <2>2, <2>7 DEF Chain, q, f
  <2> QED
    BY <2>1, <2>8, <2>9, <2>10
<1>10. CASE ResetChip
  <2>1. q' = f' /\ UNCHANGED delivered
    BY <1>0, <1>10, ResetEffect, ResetControl DEF q, f
  <2> QED
    BY <1>4, <1>5, <2>1
<1> QED
  BY <1>5, <1>6, <1>7, <1>8, <1>9, <1>10, <1>11 DEF SampleStep, q

\* Deep sleeps, updates and power failures never change the order in which samples reach the
\* server: they may repeat one, never overtake one.
THEOREM DeliveredInOrder == Spec => []InOrder
<1>1. Init => Ordered
  BY DEF Init, Ordered, InOrder, Chain, Queue
<1>2. Base /\ Base' /\ Places /\ Kept /\ Ordered /\ [Next]_vars => Ordered'
  BY MirrorCases, SampleCases, OrderedStep DEF Base, Kept
<1>3. Ordered => InOrder
  BY DEF Ordered, InOrder
<1> QED
  BY <1>1, <1>2, <1>3, BaseInvariant, PlacesInvariant, KeptInvariant, PTL DEF Spec

-----------------------------------------------------------------------------
(* How often a sample is delivered.                                        *)

\* b is among the samples d; and the deliveries in d of a sample delivered before.
Among(d, b) == \E i \in DOMAIN d : d[i] = b
Repeats(d) == {i \in DOMAIN d : \E j \in 1 .. i - 1 : d[j] = d[i]}

\* The samples of s that are among d already: what a drain of s would deliver again.
Again(d, s) == {b \in 1 .. MaxBoots : Among(d, b) /\ Has(s, b)}

LEMMA AgainSize ==
  ASSUME NEW d, NEW s
  PROVE  IsFiniteSet(Again(d, s)) /\ Cardinality(Again(d, s)) \in Nat
<1>1. IsFiniteSet(1 .. MaxBoots)
  BY WakeCycleAssumption, FS_Interval
<1>2. Again(d, s) \in SUBSET (1 .. MaxBoots)
  BY DEF Again
<1>3. IsFiniteSet(Again(d, s))
  BY <1>1, <1>2, FS_Subset
<1> QED
  BY <1>3, FS_CardinalityType

LEMMA AgainFewer ==
  ASSUME NEW d, NEW s, NEW r, \A b : Has(r, b) => Has(s, b)
  PROVE  Cardinality(Again(d, r)) <= Cardinality(Again(d, s))
<1>1. Again(d, r) \in SUBSET Again(d, s)
  BY DEF Again
<1> QED
  BY <1>1, AgainSize, FS_Subset

LEMMA RepeatsSize ==
  ASSUME NEW d \in Seq(1 .. MaxBoots)
  PROVE  IsFiniteSet(Repeats(d)) /\ Cardinality(Repeats(d)) \in Nat
<1>1. IsFiniteSet(1 .. Len(d)) /\ DOMAIN d = 1 .. Len(d)
  BY LenProperties, FS_Interval
<1>2. Repeats(d) \in SUBSET (1 .. Len(d))
  BY <1>1 DEF Repeats
<1>3. IsFiniteSet(Repeats(d))
  BY <1>1, <1>2, FS_Subset
<1> QED
  BY <1>3, FS_CardinalityType

\* One more delivery is a repeat, or makes one more sample that could be repeated.
LEMMA OneMoreDelivery ==
  ASSUME NEW d \in Seq(1 .. MaxBoots), NEW b \in 1 .. MaxBoots, NEW s
  PROVE  Cardinality(Repeats(Append(d, b))) + Cardinality(Again(Append(d, b), s))
           <= Cardinality(Repeats(d)) + Cardinality(Again(d, s)) + 1
<1> DEFINE e == Append(d, b)
<1>1. /\ DOMAIN d = 1 .. Len(d) /\ Len(d) \in Nat /\ DOMAIN e = 1 .. Len(d) + 1
      /\ \A i \in 1 .. Len(d) : e[i] = d[i]
      /\ e[Len(d) + 1] = b /\ e \in Seq(1 .. MaxBoots)
  BY AppendProperties, LenProperties
<1>2. /\ Cardinality(Repeats(d)) \in Nat /\ IsFiniteSet(Repeats(d))
      /\ Cardinality(Repeats(e)) \in Nat
      /\ Cardinality(Again(d, s)) \in Nat /\ IsFiniteSet(Again(d, s))
      /\ Cardinality(Again(e, s)) \in Nat
  BY <1>1, RepeatsSize, AgainSize
<1> HIDE DEF e
<1>3. \A c : Among(e, c) <=> Among(d, c) \/ c = b
  <2>1. \A i \in DOMAIN e : i \in DOMAIN d \/ i = Len(d) + 1
    BY <1>1
  <2>2. Len(d) + 1 \in DOMAIN e /\ \A i \in DOMAIN d : i \in DOMAIN e
    BY <1>1
  <2> QED
    BY <1>1, <2>1, <2>2 DEF Among
<1>4. \A i \in DOMAIN d : i \in Repeats(e) <=> i \in Repeats(d)
  BY <1>1 DEF Repeats
<1>5. Len(d) + 1 \in Repeats(e) <=> Among(d, b)
  BY <1>1 DEF Repeats, Among
<1>6. \A i \in Repeats(e) : i \in DOMAIN d \/ i = Len(d) + 1
  BY <1>1 DEF Repeats
<1>7. CASE Among(d, b)
  <2>1. Repeats(e) \subseteq Repeats(d) \cup {Len(d) + 1}
    BY <1>4, <1>6
  <2>2. Again(e, s) = Again(d, s)
    BY <1>3, <1>7 DEF Again
  <2>3. Cardinality(Repeats(e)) <= Cardinality(Repeats(d) \cup {Len(d) + 1})
    BY <1>2, <2>1, FS_AddElement, FS_Subset
  <2>4. Cardinality(Repeats(d) \cup {Len(d) + 1}) \in {Cardinality(Repeats(d)), Cardinality(Repeats(d)) + 1}
    BY <1>2, FS_AddElement, Zenon
  <2>5. Cardinality(Repeats(d) \cup {Len(d) + 1}) \in Nat
    BY <1>2, FS_AddElement, FS_CardinalityType
  <2> QED
    BY <1>2, <2>2, <2>3, <2>4, <2>5 DEF e
<1>8. CASE ~Among(d, b)
  <2>1. Repeats(e) = Repeats(d)
    BY <1>1, <1>4, <1>5, <1>6, <1>8 DEF Repeats
  <2>2. Again(e, s) \subseteq Again(d, s) \cup {b}
    BY <1>3 DEF Again
  <2>3. Cardinality(Again(e, s)) <= Cardinality(Again(d, s) \cup {b})
    BY <1>2, <2>2, FS_AddElement, FS_Subset
  <2>4. Cardinality(Again(d, s) \cup {b}) \in {Cardinality(Again(d, s)), Cardinality(Again(d, s)) + 1}
    BY <1>2, FS_AddElement, Zenon
  <2>5. Cardinality(Again(d, s) \cup {b}) \in Nat
    BY <1>2, FS_AddElement, FS_CardinalityType
  <2> QED
    BY <1>2, <2>1, <2>3, <2>4, <2>5 DEF e
<1> QED
  BY <1>7, <1>8

\* The samples of s are of different cycles, none to come.
Distinct(s) ==
  /\ \A i, j \in DOMAIN s : s[i].at = s[j].at => i = j
  /\ \A i \in DOMAIN s : s[i].at <= boot

\* A stretch of s holds no more than s and is as distinct.
LEMMA Stretch ==
  ASSUME NEW S, NEW s \in Seq(S), NEW r \in Seq(S), NEW o \in Nat,
         Len(r) + o <= Len(s), \A j \in 1 .. Len(r) : r[j] = s[j + o]
  PROVE  /\ \A b : Has(r, b) => Has(s, b)
         /\ Distinct(s) => Distinct(r)
<1>1. /\ DOMAIN s = 1 .. Len(s) /\ DOMAIN r = 1 .. Len(r) /\ Len(s) \in Nat /\ Len(r) \in Nat
  BY LenProperties
<1>2. \A j \in DOMAIN r : j + o \in DOMAIN s /\ r[j] = s[j + o]
  BY <1>1
<1>3. \A i, j \in DOMAIN r : i + o = j + o => i = j
  BY <1>1
<1>4. \A b : Has(r, b) => Has(s, b)
  BY <1>2 DEF Has
<1>5. Distinct(s) => Distinct(r)
  BY <1>2, <1>3 DEF Distinct
<1> QED
  BY <1>4, <1>5

LEMMA StretchPrefix ==
  ASSUME NEW S, NEW s \in Seq(S), NEW n \in 0 .. Len(s)
  PROVE  /\ \A b : Has(SubSeq(s, 1, n), b) => Has(s, b)
         /\ Distinct(s) => Distinct(SubSeq(s, 1, n))
<1>1. /\ SubSeq(s, 1, n) \in Seq(S) /\ Len(SubSeq(s, 1, n)) = n
      /\ \A j \in 1 .. n : SubSeq(s, 1, n)[j] = s[j + 0]
  <2>1. \A i \in 1 .. n : s[i] \in S
    BY ElementOfSeq, LenProperties
  <2> QED
    BY <2>1, SubSeqProperties, LenProperties
<1>2. Len(SubSeq(s, 1, n)) + 0 <= Len(s) /\ 0 \in Nat
  BY <1>1, LenProperties
<1> QED
  BY <1>1, <1>2, Stretch

LEMMA StretchTail ==
  ASSUME NEW S, NEW s \in Seq(S), s # <<>>
  PROVE  /\ \A b : Has(Tail(s), b) => Has(s, b)
         /\ Distinct(s) => Distinct(Tail(s)) /\ ~Has(Tail(s), Head(s).at)
<1>1. /\ Tail(s) \in Seq(S) /\ Len(Tail(s)) + 1 <= Len(s)
      /\ \A j \in 1 .. Len(Tail(s)) : Tail(s)[j] = s[j + 1]
      /\ Head(s) = s[1] /\ Len(s) >= 1
  BY HeadTailProperties, LenProperties, EmptySeq
<1>2. Distinct(s) => ~Has(Tail(s), Head(s).at)
  <2>1. /\ DOMAIN s = 1 .. Len(s) /\ DOMAIN Tail(s) = 1 .. Len(Tail(s))
        /\ Len(s) \in Nat /\ Len(Tail(s)) \in Nat
    BY <1>1, LenProperties
  <2>2. \A j \in DOMAIN Tail(s) : j + 1 \in DOMAIN s /\ Tail(s)[j] = s[j + 1] /\ j + 1 # 1
    BY <1>1, <2>1
  <2>3. 1 \in DOMAIN s
    BY <1>1, <2>1
  <2> QED
    BY <1>1, <2>2, <2>3 DEF Has, Distinct
<1> QED
  BY <1>1, <1>2, Stretch

\* The sample of the cycle is still to be published.
Unpublished ==
  scheduler = "trigger" \/ "measure" \in notified \/ measure \in {"begin", "sense", "sample"}

\* The head of the queue is delivered, and its ack is still to come, or has not returned yet:
\* only a failure can come now, and it would bring the sample back.
OwedQueue == sync = "ack"
OwedFlash == sync = "ack" \/ "sync" \in calls["measure"]

\* The repeats so far, and those to come if s were all that is left.
Repeated(s) == Cardinality(Repeats(delivered)) + Cardinality(Again(delivered, s))

\* Each repeat, made or to come, was paid for by a failure; the sample being acked is on credit.
Tally ==
  overtaken = 0 =>
    /\ Distinct(queue["measure"]) /\ Distinct(flash["measure"])
    /\ \A i \in DOMAIN delivered : delivered[i] <= boot
    /\ Unpublished => ~Among(delivered, boot) /\ ~Has(queue["measure"], boot)
    /\ Repeated(queue["measure"]) <= failures + glitches + (IF OwedQueue THEN 1 ELSE 0)
    /\ Repeated(flash["measure"]) <= failures + glitches + (IF OwedFlash THEN 1 ELSE 0)

\* What a step can do to all that Tally speaks of.
TallyStill ==
  /\ UNCHANGED <<queue["measure"], flash["measure"], delivered>>
  /\ (OwedQueue' <=> OwedQueue) /\ (OwedFlash' <=> OwedFlash)
  /\ \/ boot' = boot /\ (Unpublished' => Unpublished)
     \/ boot' = boot + 1

TallyStep ==
  \/ TallyStill
  \/ \E valid \in BOOLEAN : PublishSample(valid) /\ Unpublished /\ ~Unpublished' /\ UNCHANGED <<boot, sync>>
  \/ SkipInvalid
  \/ SendSample
  \/ AckSample
  \/ \E t \in Task : CallReturns(t, "measure") \/ CallFails(t, "measure")
  \/ /\ ResetChip /\ UNCHANGED boot /\ ~Unpublished'
     /\ overtaken' = 0 => failures' = failures + 1 \/ (~OwedQueue /\ calls["measure"] = {})
  \/ WakeMisreads /\ ~OwedFlash

LEMMA TallyCases ==
  ASSUME Base, Places, [Next]_vars
  PROVE  TallyStep
<1> USE DEF TallyStep, OwedQueue, OwedFlash
<1>0. ControlTypes /\ MirrorTypes /\ HistoryTypes /\ Positions /\ Calls
  BY DEF Base, Places
<1>1. ASSUME UNCHANGED <<mirrors, delivered, boot>>, sync' = "ack" <=> sync = "ack",
             Unpublished' => Unpublished
      PROVE  TallyStep
  BY <1>1 DEF TallyStill, mirrors
<1>2. ASSUME NEW t \in Task, CallReturns(t, "log") \/ CallFails(t, "log") PROVE TallyStep
  <2>1. PICK f : Stored("log", f) /\ Return(t, "log", f)
    BY <1>0, <1>2, ReturnCases DEF Queue
  <2>2. UNCHANGED <<queue["measure"], flash["measure"], calls["measure"]>>
    BY <1>0, <2>1, ReturnEffect DEF Queue
  <2>3. UNCHANGED <<boot, scheduler, measure, sync, notified, delivered>>
    BY <1>2, ReturnControl
  <2> QED
    BY <2>2, <2>3 DEF TallyStill, Unpublished
<1>3. ASSUME NEW t \in Task, NEW x \in Content("log"), Publish(t, "log", x),
             UNCHANGED <<sync, delivered, boot>>, Unpublished' => Unpublished
      PROVE  TallyStep
  BY <1>0, <1>3, PublishEffect DEF Queue, TallyStill
<1>4. "session" \in Content("log") /\ "swap" \in Content("log")
  BY DEF Content
<1>5. calls["measure"] \subseteq {"measure", "sync"}
  BY <1>0 DEF MirrorTypes, Calls, Queue, Task
<1>6. CASE SchedulerStep
  <2>1. CASE Trigger \/ StopWaiting
    BY <1>1, <2>1 DEF Trigger, StopWaiting, history, Unpublished
  <2>2. CASE Wake
    BY <2>2 DEF Wake, history, mirrors, TallyStill
  <2>3. CASE DeepSleep
    <3>1. calls["measure"] = {} /\ sync # "ack"
      BY <1>0, <1>5, <2>3 DEF DeepSleep, Positions, Calls, Queue
    <3>2. ~Unpublished' /\ UNCHANGED boot
      BY <2>3, ResetControl DEF DeepSleep, Unpublished
    <3> QED
      BY <2>3, <3>1, <3>2 DEF DeepSleep
  <2>4. CASE WakeMisreads
    BY <1>0, <2>4 DEF WakeMisreads, Positions, Calls, Asleep, Queue
  <2> QED
    BY <1>6, <2>1, <2>2, <2>3, <2>4 DEF SchedulerStep, SchedulerRuns
<1>7. CASE MeasureStep
  <2>1. CASE MeasureWakes \/ MeasureBegins \/ MeasureEnds
    BY <1>1, <2>1 DEF MeasureWakes, MeasureBegins, MeasureEnds, history, Unpublished
  <2>2. CASE SensorNotReady \/ PublishSession
    BY <1>3, <1>4, <2>2 DEF SensorNotReady, PublishSession, history, Task, Unpublished
  <2>3. CASE PublishNotReady \/ \E ok \in BOOLEAN : SensorRead(ok)
    BY <1>0, <2>3 DEF PublishNotReady, SensorRead, Unpublished, Positions, Asleep
  <2>4. CASE \E k \in Queue : CallReturns("measure", k) \/ CallFails("measure", k)
    BY <1>2, <2>4 DEF Queue, Task
  <2> QED
    BY <1>7, <2>1, <2>2, <2>3, <2>4 DEF MeasureStep
<1>8. CASE SyncStep
  <2>1. CASE SyncWakes \/ SyncBegins \/ WarmupFails \/ WarmupSucceeds \/ EarlyCheck
    BY <1>1, <2>1 DEF SyncWakes, SyncBegins, WarmupFails, WarmupSucceeds, WarmupEnds, EarlyCheck,
       history, Unpublished
  <2>2. CASE OtaEnds \/ FlushWaitEnds \/ SyncEnds \/ \E d \in AttemptMinutes : OtaAttempt(d)
    BY <1>1, <2>2 DEF OtaEnds, FlushWaitEnds, SyncEnds, OtaAttempt, tasks, history, Unpublished
  <2>3. CASE SendSampleFails \/ DrainEnds \/ SendLogFails \/ LogsEnd
    BY <1>1, <2>3 DEF SendSampleFails, SendFails, DrainEnds, SendLogFails, LogsEnd, history, Unpublished
  <2>4. CASE SendLog
    <3>1. queue["log"] # <<>> /\ Ack("log") /\ UNCHANGED <<boot, scheduler, measure, sync, notified, delivered>>
      BY <2>4 DEF SendLog, tasks, history
    <3> QED
      BY <1>0, <3>1, AckEffect DEF Queue, TallyStill, Unpublished
  <2>5. CASE OtaSucceeds
    <3>1. sync \in {"ota", "late"}
      BY <1>0, <2>5, WakeCycleAssumption DEF OtaSucceeds, Positions
    <3>2. overtaken' = 0 => "MEASURE_RUNNING" \notin bits
      BY <1>0, <2>5 DEF OtaSucceeds, GoesAhead, HistoryTypes
    <3>3. overtaken' = 0 => calls["measure"] = {}
      BY <1>0, <1>5, <3>1, <3>2 DEF Positions, Calls, Queue
    <3>4. ~Unpublished' /\ UNCHANGED boot
      BY <2>5, ResetControl DEF OtaSucceeds, Unpublished
    <3> QED
      BY <2>5, <3>1, <3>3, <3>4 DEF OtaSucceeds
  <2>6. CASE \E k \in Queue : CallReturns("sync", k) \/ CallFails("sync", k)
    BY <1>2, <2>6 DEF Queue, Task
  <2> QED
    BY <1>8, <2>1, <2>2, <2>3, <2>4, <2>5, <2>6 DEF SyncStep
<1>9. CASE FailoverStep
  <2>1. CASE FailoverReceives \/ FailoverStores
    BY <1>1, <2>1 DEF FailoverReceives, FailoverStores, history, Unpublished
  <2>2. CASE FailoverLogs
    BY <1>3, <1>4, <2>2 DEF FailoverLogs, history, Task, Unpublished
  <2> QED
    BY <1>2, <1>9, <2>1, <2>2 DEF FailoverStep, Task
<1>10. CASE PowerFails
  BY <1>10, ResetControl DEF PowerFails, Unpublished
<1>11. CASE Finished \/ UNCHANGED vars
  BY <1>1, <1>11 DEF Finished, vars, mirrors, Unpublished
<1> QED
  BY <1>6, <1>7, <1>8, <1>9, <1>10, <1>11 DEF Next

LEMMA RepeatedType ==
  ASSUME HistoryTypes, NEW s
  PROVE  Repeated(s) \in Nat
BY RepeatsSize, AgainSize DEF HistoryTypes, Repeated

\* Fewer samples, and nothing delivered: no more to come.
LEMMA RepeatedFewer ==
  ASSUME HistoryTypes, NEW r, NEW s, \A b : Has(r, b) => Has(s, b)
  PROVE  Repeated(r) <= Repeated(s)
BY RepeatsSize, AgainSize, AgainFewer DEF HistoryTypes, Repeated

LEMMA MoreTrouble ==
  ASSUME HistoryTypes, [Next]_vars
  PROVE  /\ failures + glitches \in Nat /\ failures' + glitches' \in Nat
         /\ failures + glitches <= failures' + glitches'
         /\ overtaken' = 0 => overtaken = 0
BY TroubleCases DEF HistoryTypes

LEMMA TallyNext ==
  ASSUME Base, Base', Places, Acking, Tally, TallyStep, [Next]_vars
  PROVE  Tally'
<1> DEFINE q == queue["measure"]
           f == flash["measure"]
           T == failures + glitches
           R(s) == Cardinality(Repeats(delivered)) + Cardinality(Again(delivered, s))
<1> SUFFICES ASSUME overtaken' = 0
             PROVE  /\ Distinct(q)' /\ Distinct(f)'
                    /\ \A i \in DOMAIN delivered' : delivered'[i] <= boot'
                    /\ Unpublished' => ~Among(delivered', boot') /\ ~Has(q', boot')
                    /\ R(q)' <= T' + (IF OwedQueue' THEN 1 ELSE 0)
                    /\ R(f)' <= T' + (IF OwedFlash' THEN 1 ELSE 0)
  BY DEF Tally, Repeated
<1>0. /\ MirrorTypes /\ Single /\ HistoryTypes /\ Calls /\ ControlTypes /\ HistoryTypes'
      /\ q \in Seq(Content("measure")) /\ f \in Seq(Content("measure"))
      /\ delivered \in Seq(1 .. MaxBoots) /\ Len(q) \in Nat
      /\ "measure" \in Queue
  BY LenProperties DEF Base, Places, MirrorTypes, HistoryTypes, Stored, Queue
<1>1. /\ overtaken = 0 /\ T \in Nat /\ T' \in Nat /\ T <= T'
      /\ boot \in Nat /\ boot' \in Nat /\ boot <= boot'
  BY <1>0, MoreTrouble, BootStep
<1>2. /\ Distinct(q) /\ Distinct(f)
      /\ \A i \in DOMAIN delivered : delivered[i] <= boot
      /\ Unpublished => ~Among(delivered, boot) /\ ~Has(q, boot)
      /\ R(q) <= T + (IF OwedQueue THEN 1 ELSE 0)
      /\ R(f) <= T + (IF OwedFlash THEN 1 ELSE 0)
      /\ ~torn["measure"]
  BY <1>0, <1>1 DEF Tally, Repeated, Calls
<1>3. /\ \A s : R(s) \in Nat
      /\ \A s, r : (\A b : Has(r, b) => Has(s, b)) => R(r) <= R(s)
  BY <1>0, RepeatedType, RepeatedFewer DEF Repeated
<1>4. /\ \A i \in DOMAIN delivered : delivered[i] \in Nat
      /\ \A i \in DOMAIN q : q[i].at \in Nat
      /\ \A i \in DOMAIN f : f[i].at \in Nat
  <2>1. /\ \A i \in DOMAIN delivered : delivered[i] \in 1 .. MaxBoots
        /\ \A i \in DOMAIN q : q[i] \in Content("measure")
        /\ \A i \in DOMAIN f : f[i] \in Content("measure")
    BY <1>0, ElementOfSeq, LenProperties
  <2> QED
    BY <2>1 DEF Content
<1>5. OwedQueue => OwedFlash
  BY DEF OwedQueue, OwedFlash
<1> HIDE DEF q, f, T
<1>6. CASE TallyStill
  <2>1. q' = q /\ f' = f /\ delivered' = delivered
    BY <1>6 DEF TallyStill, q, f
  <2>2. R(q)' = R(q) /\ R(f)' = R(f)
    BY <2>1
  <2>3. \A i \in DOMAIN delivered : delivered[i] <= boot'
    BY <1>1, <1>2, <1>4
  <2>4. Distinct(q)' /\ Distinct(f)'
    BY <1>1, <1>2, <1>4, <2>1 DEF Distinct
  <2>5. Unpublished' => ~Among(delivered, boot') /\ ~Has(q, boot')
    <3>1. CASE boot' = boot + 1
      BY <1>1, <1>2, <1>4, <3>1 DEF Among, Has, Distinct
    <3>2. CASE boot' # boot + 1
      BY <1>2, <1>6, <3>2 DEF TallyStill
    <3> QED
      BY <3>1, <3>2
  <2>6. (OwedQueue' <=> OwedQueue) /\ (OwedFlash' <=> OwedFlash)
    BY <1>6 DEF TallyStill
  <2>7. R(q)' <= T' + (IF OwedQueue' THEN 1 ELSE 0) /\ R(f)' <= T' + (IF OwedFlash' THEN 1 ELSE 0)
    <3> HIDE DEF R
    <3> QED
      BY <1>1, <1>2, <1>3, <2>2, <2>6
  <2> QED
    BY <2>1, <2>3, <2>4, <2>5, <2>7
<1>7. ASSUME NEW valid \in BOOLEAN, PublishSample(valid), Unpublished, ~Unpublished',
             UNCHANGED <<boot, sync>>
      PROVE  /\ Distinct(q)' /\ Distinct(f)'
             /\ \A i \in DOMAIN delivered' : delivered'[i] <= boot'
             /\ R(q)' <= T' + (IF OwedQueue' THEN 1 ELSE 0)
             /\ R(f)' <= T' + (IF OwedFlash' THEN 1 ELSE 0)
  <2> DEFINE x == Sample(boot, valid)
  <2>1. x \in Content("measure") /\ x.at = boot /\ UNCHANGED delivered
    BY <1>0, <1>7 DEF Content, Sample, ControlTypes, PublishSample
  <2>2. /\ q' \in {q, Append(q, x)} /\ f' = f
        /\ calls'["measure"] \in {calls["measure"], calls["measure"] \cup {"measure"}}
    BY <1>0, <1>7, <2>1, PublishEffect DEF PublishSample, Task, q, f
  <2>3. (OwedQueue' <=> OwedQueue) /\ (OwedFlash' <=> OwedFlash)
    BY <1>7, <2>2 DEF OwedQueue, OwedFlash
  <2> HIDE DEF x
  <2>4. /\ DOMAIN q = 1 .. Len(q) /\ DOMAIN Append(q, x) = 1 .. Len(q) + 1
        /\ \A j \in DOMAIN q : Append(q, x)[j] = q[j]
        /\ Append(q, x)[Len(q) + 1] = x
    BY <1>0, <2>1, AppendProperties, LenProperties
  <2>5. \A j \in DOMAIN Append(q, x) : j \in DOMAIN q \/ j = Len(q) + 1
    BY <1>0, <2>4
  <2>6. Distinct(Append(q, x))
    BY <1>1, <1>2, <1>7, <2>1, <2>4, <2>5 DEF Distinct, Has
  <2>7. \A b : Has(Append(q, x), b) => Has(q, b) \/ b = boot
    BY <2>1, <2>4, <2>5 DEF Has
  <2>8. Again(delivered, Append(q, x)) = Again(delivered, q)
    <3>1. ~Among(delivered, boot)
      BY <1>2, <1>7
    <3>2. \A b : Has(q, b) => Has(Append(q, x), b)
      BY <1>0, <2>4 DEF Has
    <3> QED
      BY <2>7, <3>1, <3>2 DEF Again
  <2>9. R(q)' = R(q) /\ R(f)' = R(f)
    BY <2>1, <2>2, <2>8
  <2>10. R(q)' <= T' + (IF OwedQueue' THEN 1 ELSE 0) /\ R(f)' <= T' + (IF OwedFlash' THEN 1 ELSE 0)
    <3> HIDE DEF R
    <3> QED
      BY <1>1, <1>2, <1>3, <2>3, <2>9
  <2>11. Distinct(q)' /\ Distinct(f)'
    BY <1>2, <1>7, <2>2, <2>6 DEF Distinct
  <2> QED
    BY <1>2, <1>7, <2>1, <2>10, <2>11
<1>8. CASE SkipInvalid \/ AckSample
  <2>1. /\ q # <<>> /\ Ack("measure") /\ sync' = "drain" /\ UNCHANGED delivered
        /\ UNCHANGED <<boot, scheduler, measure, notified, failures, glitches>>
        /\ SkipInvalid => sync # "ack"
        /\ AckSample => Among(delivered, Head(q).at)
    BY <1>8 DEF SkipInvalid, AckSample, Base, HasHead, Acking, Delivered, Among, tasks, history,
       troubles, q
  <2>2. q' = Tail(q) /\ f' = f /\ calls'["measure"] = calls["measure"] \cup {"sync"}
    BY <1>0, <2>1, AckEffect DEF q, f
  <2>3. /\ \A b : Has(Tail(q), b) => Has(q, b)
        /\ Distinct(Tail(q)) /\ ~Has(Tail(q), Head(q).at)
    BY <1>0, <1>2, <2>1, StretchTail
  <2>4. ~OwedQueue' /\ OwedFlash'
    BY <2>1, <2>2 DEF OwedQueue, OwedFlash
  <2>5. Distinct(q)' /\ Distinct(f)'
    BY <1>2, <2>1, <2>2, <2>3 DEF Distinct
  <2>6. Unpublished' => ~Among(delivered', boot') /\ ~Has(q', boot')
    BY <1>2, <2>1, <2>2, <2>3 DEF Unpublished
  <2>7. R(f)' = R(f) /\ R(q)' = R(Tail(q)) /\ T' = T
    BY <2>1, <2>2 DEF T
  <2>8. R(Tail(q)) <= T
    <3>1. CASE SkipInvalid
      <4>1. ~OwedQueue
        BY <2>1, <3>1 DEF OwedQueue
      <4>2. R(Tail(q)) <= R(q)
        BY <1>3, <2>3
      <4> HIDE DEF R
      <4> QED
        BY <1>1, <1>2, <1>3, <4>1, <4>2
    <3>2. CASE AckSample
      <4> DEFINE h == Head(q).at
      <4>1. h \in Again(delivered, q)
        <5>1. Head(q) = q[1] /\ 1 \in DOMAIN q /\ Head(q) \in Content("measure")
          BY <1>0, <2>1, HeadTailProperties, LenProperties, EmptySeq
        <5>2. Has(q, h)
          BY <5>1 DEF Has
        <5>3. h \in 1 .. MaxBoots
          BY <5>1 DEF Content
        <5> QED
          BY <2>1, <3>2, <5>2, <5>3 DEF Again
      <4>2. Again(delivered, Tail(q)) \subseteq Again(delivered, q) \ {h}
        BY <2>3 DEF Again
      <4>3. Cardinality(Again(delivered, Tail(q))) <= Cardinality(Again(delivered, q) \ {h})
        BY <4>2, AgainSize, FS_RemoveElement, FS_Subset
      <4>4. Cardinality(Again(delivered, q) \ {h}) = Cardinality(Again(delivered, q)) - 1
        BY <4>1, AgainSize, FS_RemoveElement, Zenon
      <4>5. /\ Cardinality(Again(delivered, q)) \in Nat /\ Cardinality(Again(delivered, Tail(q))) \in Nat
            /\ Cardinality(Repeats(delivered)) \in Nat
        BY <1>0, AgainSize, RepeatsSize
      <4> QED
        BY <1>1, <1>2, <4>3, <4>4, <4>5
    <3> QED
      BY <1>8, <3>1, <3>2
  <2>9. R(q)' <= T' /\ R(f)' <= T' + 1
    <3> HIDE DEF R
    <3> QED
      BY <1>1, <1>2, <1>3, <2>7, <2>8
  <2> QED
    BY <1>1, <1>2, <2>1, <2>4, <2>5, <2>6, <2>9
<1>9. CASE SendSample
  <2>1. /\ delivered' = Append(delivered, Head(q).at) /\ q # <<>>
        /\ sync = "drain" /\ Free("sync") /\ sync' = "ack"
        /\ UNCHANGED <<queue, flash, calls, boot, scheduler, measure, notified, failures, glitches>>
    BY <1>9 DEF SendSample, Sendable, mirrors, troubles, q
  <2>2. /\ 1 \in DOMAIN q /\ Head(q) = q[1] /\ Head(q).at \in 1 .. MaxBoots
    <3>1. Head(q) \in Content("measure") /\ Head(q) = q[1] /\ Len(q) >= 1
      BY <1>0, <2>1, HeadTailProperties, LenProperties, EmptySeq
    <3> QED
      BY <1>0, <3>1, LenProperties DEF Content
  <2>3. ~OwedQueue /\ ~OwedFlash /\ OwedQueue' /\ OwedFlash'
    BY <1>0, <2>1 DEF OwedQueue, OwedFlash, Free
  <2>4. /\ DOMAIN delivered = 1 .. Len(delivered) /\ Len(delivered) \in Nat
        /\ DOMAIN delivered' = 1 .. Len(delivered) + 1
        /\ \A i \in DOMAIN delivered : delivered'[i] = delivered[i]
        /\ delivered'[Len(delivered) + 1] = Head(q).at
    BY <1>0, <2>1, <2>2, AppendProperties, LenProperties
  <2>5. \A i \in DOMAIN delivered' : i \in DOMAIN delivered \/ i = Len(delivered) + 1
    BY <2>4
  <2>6. \A i \in DOMAIN delivered' : delivered'[i] <= boot
    BY <1>2, <2>2, <2>4, <2>5 DEF Distinct
  <2>7. Unpublished' => ~Among(delivered', boot) /\ ~Has(q, boot)
    <3>1. Unpublished' => ~Among(delivered, boot) /\ ~Has(q, boot)
      BY <1>2, <2>1 DEF Unpublished
    <3>2. Has(q, Head(q).at)
      BY <2>2 DEF Has
    <3> QED
      BY <2>4, <2>5, <3>1, <3>2 DEF Among
  <2>8. R(q)' <= R(q) + 1 /\ R(f)' <= R(f) + 1
    <3>1. q' = q /\ f' = f
      BY <2>1 DEF q, f
    <3> QED
      BY <1>0, <2>1, <2>2, <3>1, OneMoreDelivery
  <2>9. T' = T /\ R(q)' \in Nat /\ R(f)' \in Nat
    <3>1. \A s : Repeated(s)' \in Nat
      BY <1>0, RepeatsSize, AgainSize DEF HistoryTypes, Repeated
    <3> QED
      BY <2>1, <3>1 DEF T, Repeated
  <2>10. R(q)' <= T' + 1 /\ R(f)' <= T' + 1
    <3> HIDE DEF R
    <3> QED
      BY <1>1, <1>2, <1>3, <2>3, <2>8, <2>9
  <2>11. Distinct(q)' /\ Distinct(f)' /\ q' = q
    BY <1>2, <2>1 DEF Distinct, q, f
  <2> QED
    BY <2>1, <2>3, <2>6, <2>7, <2>10, <2>11
\* What calls leave on flash holds no more than the queue or the snapshot before.
<1>10. ASSUME NEW g \in Unfinished("measure")
       PROVE  /\ Distinct(g)
              /\ (\A b : Has(g, b) => Has(q, b)) \/ g = f
              /\ R(g) <= R(q) \/ R(g) <= R(f)
  <2>1. CASE g = f
    <3> HIDE DEF R
    <3> QED
      BY <1>2, <1>3, <2>1
  <2>2. ASSUME NEW n \in 0 .. Len(q), g = SubSeq(q, 1, n) PROVE Distinct(g) /\ \A b : Has(g, b) => Has(q, b)
    BY <1>0, <1>2, <2>2, StretchPrefix
  <2>3. (\A b : Has(g, b) => Has(q, b)) => R(g) <= R(q)
    BY <1>3
  <2>4. g = f \/ \E n \in 0 .. Len(q) : g = SubSeq(q, 1, n)
    BY <1>2, <1>10 DEF Unfinished, q, f
  <2> QED
    BY <2>1, <2>2, <2>3, <2>4
<1>11. ASSUME NEW t \in Task, CallReturns(t, "measure") \/ CallFails(t, "measure")
       PROVE  /\ Distinct(q)' /\ Distinct(f)'
              /\ \A i \in DOMAIN delivered' : delivered'[i] <= boot'
              /\ Unpublished' => ~Among(delivered', boot') /\ ~Has(q', boot')
              /\ R(q)' <= T' + (IF OwedQueue' THEN 1 ELSE 0)
              /\ R(f)' <= T' + (IF OwedFlash' THEN 1 ELSE 0)
  <2>1. PICK g : /\ Stored("measure", g) /\ Return(t, "measure", g)
                 /\ \/ g = q /\ UNCHANGED glitches
                    \/ g \in Unfinished("measure") /\ glitches' = glitches + 1
    BY <1>0, <1>11, ReturnCases DEF q
  <2>2. /\ f' = g /\ q' = q /\ UNCHANGED <<boot, scheduler, measure, notified, sync, delivered, failures>>
    BY <1>0, <1>11, <2>1, ReturnEffect, ReturnControl DEF q, f
  <2>3. (OwedQueue' <=> OwedQueue) /\ (OwedQueue' => OwedFlash')
    BY <2>2 DEF OwedQueue, OwedFlash
  <2>4. Unpublished' => Unpublished
    BY <2>2 DEF Unpublished
  <2>5. R(q)' = R(q) /\ R(f)' = R(g)
    BY <2>2
  <2>6. Distinct(q)' /\ Distinct(f)' /\ R(f)' <= T' + (IF OwedFlash' THEN 1 ELSE 0)
    <3>1. CASE g = q
      <4> HIDE DEF R
      <4> QED
        BY <1>1, <1>2, <1>3, <2>2, <2>3, <2>5, <3>1 DEF Distinct
    <3>2. CASE g # q
      <4>1. g \in Unfinished("measure") /\ T' = T + 1
        <5>1. g \in Unfinished("measure") /\ glitches' = glitches + 1 /\ failures' = failures
          BY <2>1, <2>2, <3>2
        <5>2. T' = T + 1
          BY <1>0, <5>1 DEF T, HistoryTypes
        <5> QED
          BY <5>1, <5>2
      <4>2. Distinct(g) /\ (R(g) <= R(q) \/ R(g) <= R(f))
        BY <1>10, <4>1
      <4>3. R(g) <= T + 1
        <5> HIDE DEF R
        <5> QED
          BY <1>1, <1>2, <1>3, <4>2
      <4> HIDE DEF R
      <4> QED
        BY <1>1, <1>2, <1>3, <2>2, <2>5, <4>1, <4>2, <4>3 DEF Distinct
    <3> QED
      BY <3>1, <3>2
  <2>7. R(q)' <= T' + (IF OwedQueue' THEN 1 ELSE 0)
    <3> HIDE DEF R
    <3> QED
      BY <1>1, <1>2, <1>3, <2>3, <2>5
  <2> QED
    BY <1>2, <2>2, <2>4, <2>6, <2>7
<1>12. CASE /\ ResetChip /\ UNCHANGED boot /\ ~Unpublished'
            /\ overtaken' = 0 => failures' = failures + 1 \/ (~OwedQueue /\ calls["measure"] = {})
  <2>1. /\ UNCHANGED <<delivered, glitches>> /\ sync' = "wait" /\ calls'["measure"] = {}
        /\ q' = f' /\ f' \in Unfinished("measure")
    BY <1>0, <1>12, ResetEffect, ResetControl DEF q, f
  <2>3. Distinct(f') /\ (R(f') <= R(q) \/ R(f') <= R(f))
    BY <1>10, <2>1
  <2>4. R(f') <= T'
    <3>1. CASE failures' = failures + 1
      <4>1. T' = T + 1
        BY <1>0, <2>1, <3>1 DEF T, HistoryTypes
      <4> HIDE DEF R
      <4> QED
        BY <1>1, <1>2, <1>3, <2>3, <4>1
    <3>2. CASE ~OwedQueue /\ calls["measure"] = {}
      <4>1. f' = f
        BY <1>2, <2>1, <3>2 DEF Unfinished, f
      <4>2. ~OwedFlash
        BY <3>2 DEF OwedQueue, OwedFlash
      <4>3. R(f) <= T
        <5> HIDE DEF R
        <5> QED
          BY <1>1, <1>2, <1>3, <4>2
      <4> HIDE DEF R
      <4> QED
        BY <1>1, <1>3, <4>1, <4>3
    <3> QED
      BY <1>12, <3>1, <3>2
  <2>5. ~OwedQueue' /\ ~OwedFlash'
    BY <2>1 DEF OwedQueue, OwedFlash
  <2>6. R(f)' = R(f') /\ R(q)' = R(f')
    BY <2>1
  <2>7. R(q)' <= T' /\ R(f)' <= T'
    BY <2>4, <2>6
  <2>8. Distinct(q)' /\ Distinct(f)'
    BY <1>12, <2>1, <2>3 DEF Distinct
  <2> HIDE DEF R
  <2> QED
    BY <1>1, <1>2, <1>12, <2>1, <2>5, <2>7, <2>8
<1>13. CASE WakeMisreads /\ ~OwedFlash
  <2>1. PICK n \in 0 .. Len(f) : q' = SubSeq(f, 1, n)
    BY <1>0, <1>13, MisreadEffect DEF q, f
  <2>2. f' \in {f, q'} /\ UNCHANGED <<calls, delivered, sync, failures>>
        /\ boot' = boot + 1 /\ glitches' = glitches + 1
    BY <1>0, <1>13, MisreadEffect DEF WakeMisreads, q, f
  <2>3. Distinct(q') /\ \A b : Has(q', b) => Has(f, b)
    BY <1>0, <1>2, <2>1, StretchPrefix
  <2>4. R(q') <= T /\ R(f') <= T
    <3>1. R(q') <= R(f)
      BY <1>3, <2>3
    <3> HIDE DEF R
    <3>2. R(f) <= T
      BY <1>1, <1>2, <1>3, <1>13
    <3> QED
      BY <1>1, <1>3, <2>2, <3>1, <3>2
  <2>5. T' = T + 1
    BY <1>0, <2>2 DEF T, HistoryTypes
  <2>6. R(q)' = R(q') /\ R(f)' = R(f')
    BY <2>2
  <2>7. ~OwedQueue' /\ ~OwedFlash'
    BY <1>13, <2>2 DEF OwedQueue, OwedFlash
  <2>8. R(q)' <= T' /\ R(f)' <= T'
    <3> HIDE DEF R
    <3> QED
      BY <1>1, <1>3, <2>4, <2>5, <2>6
  <2>9. /\ \A i \in DOMAIN delivered : delivered[i] <= boot' /\ delivered[i] # boot'
        /\ \A i \in DOMAIN f : f[i].at <= boot' /\ f[i].at # boot'
    BY <1>1, <1>2, <1>4, <2>2 DEF Distinct
  <2>10. ~Among(delivered, boot') /\ ~Has(q', boot')
    BY <2>3, <2>9 DEF Among, Has
  <2>11. Distinct(q)' /\ Distinct(f)'
    <3>1. \A i \in DOMAIN q' : q'[i].at <= boot'
      BY <2>3, <2>9 DEF Has
    <3> QED
      BY <1>2, <2>2, <2>3, <2>9, <3>1 DEF Distinct
  <2> QED
    BY <1>1, <2>2, <2>7, <2>8, <2>9, <2>10, <2>11
<1> QED
  BY <1>6, <1>7, <1>8, <1>9, <1>11, <1>12, <1>13 DEF TallyStep

\* A sample is delivered twice only when power or storage failed in between: each
\* such failure repeats one delivery at most, for any number of boots, samples and failures.
THEOREM RepeatsAreBounded == Spec => []RepeatsBounded
<1>1. Init => Tally
  <2> SUFFICES ASSUME Init PROVE Tally
    OBVIOUS
  <2>1. delivered = <<>> /\ queue["measure"] = <<>> /\ flash["measure"] = <<>>
    BY DEF Init, Queue
  <2>2. Repeats(<<>>) = {} /\ Again(<<>>, <<>>) = {}
    BY DEF Repeats, Again, Among
  <2>3. Cardinality(Repeats(<<>>)) = 0 /\ Cardinality(Again(<<>>, <<>>)) = 0
    BY <2>2, FS_EmptySet
  <2> QED
    BY <2>1, <2>3 DEF Init, Tally, Repeated, Distinct, Among, Has, OwedQueue, OwedFlash, Queue
<1>2. Base /\ Base' /\ Places /\ Kept /\ Tally /\ [Next]_vars => Tally'
  BY TallyCases, TallyNext DEF Kept
<1>3. Base /\ Kept /\ Tally => RepeatsBounded
  <2> SUFFICES ASSUME Base, Kept, Tally, overtaken = 0
               PROVE  Cardinality(Repeats(delivered)) <= failures + glitches
    BY DEF RepeatsBounded, Repeats
  <2> DEFINE q == queue["measure"]
  <2>1. /\ Cardinality(Repeats(delivered)) \in Nat
        /\ Cardinality(Again(delivered, q)) \in Nat
        /\ failures + glitches \in Nat
    BY RepeatsSize, AgainSize DEF Base, HistoryTypes
  <2>2. /\ ~OwedQueue => Cardinality(Repeats(delivered)) + Cardinality(Again(delivered, q)) <= failures + glitches
        /\ Cardinality(Repeats(delivered)) + Cardinality(Again(delivered, q)) <= failures + glitches + 1
    BY <2>1 DEF Tally, Repeated
  <2>3. OwedQueue => Cardinality(Again(delivered, q)) # 0
    <3> SUFFICES ASSUME OwedQueue PROVE Again(delivered, q) # {}
      BY AgainSize, FS_EmptySet
    <3>1. /\ q \in Seq(Content("measure")) /\ q # <<>> /\ Delivered(Head(q).at)
      BY DEF OwedQueue, Base, HasHead, Kept, Acking, MirrorTypes, Stored, Queue
    <3>2. Head(q) = q[1] /\ 1 \in DOMAIN q /\ Head(q) \in Content("measure")
      BY <3>1, HeadTailProperties, LenProperties, EmptySeq
    <3>3. Head(q).at \in 1 .. MaxBoots
      BY <3>2 DEF Content
    <3>4. Head(q).at \in Again(delivered, q)
      BY <3>1, <3>2, <3>3 DEF Again, Has, Among, Delivered
    <3> QED
      BY <3>4
  <2> HIDE DEF q
  <2> QED
    BY <2>1, <2>2, <2>3
<1> QED
  BY <1>1, <1>2, <1>3, BaseInvariant, PlacesInvariant, KeptInvariant, PTL DEF Spec

-----------------------------------------------------------------------------
(* How long a cycle lasts.                                                 *)

\* The steps each task still has before it, if everything it tries fails as late as it can;
\* a request to failover_task and a message in a queue are steps somebody has yet to take.
SchedulerLeft ==
  CASE scheduler = "trigger" -> 35 + MaxAttempts
    [] scheduler = "poll"    -> 1
    [] OTHER                 -> 0

MeasureLeft ==
  CASE measure = "begin"  -> 11
    [] measure = "sense"  -> 10
    [] measure = "sample" -> 6
    [] measure = "log"    -> 5
    [] measure = "done"   -> 1
    [] OTHER              -> IF "measure" \in notified THEN 12 ELSE 0

SyncLeft ==
  CASE sync = "read"           -> 20 + MaxAttempts
    [] sync = "warmup"         -> 19 + MaxAttempts
    [] sync = "early"          -> 18 + MaxAttempts
    [] sync = "flush"          -> 17 + MaxAttempts
    [] sync = "drain"          -> 16 + MaxAttempts
    [] sync = "ack"            -> 15 + MaxAttempts
    [] sync = "logs"           -> 9 + MaxAttempts
    [] sync \in {"ota", "late"} -> 2 + MaxAttempts - attempts
    [] sync = "off"            -> 1
    [] OTHER                   -> IF "sync" \in notified THEN 21 + MaxAttempts ELSE 0

FailoverLeft ==
  (CASE failover = "store" -> 5 [] failover = "log" -> 4 [] OTHER -> 0) + (IF request THEN 6 ELSE 0)

\* A queued sample is still to be acked, and the ack to return; a queued log likewise.
SamplesLeft == 3 * Len(queue["measure"]) + Cardinality(calls["measure"])
LogsLeft == 2 * Len(queue["log"]) + Cardinality(calls["log"])

StepsLeft ==
  SchedulerLeft + MeasureLeft + SyncLeft + FailoverLeft + SamplesLeft + LogsLeft

UnderWay == scheduler # "asleep"

CycleLimit == 35 + MaxAttempts + 3 * Capacity["measure"] + 2 * Capacity["log"]

\* A task that is not waiting for another.
SomebodyMoves ==
  \/ scheduler \in {"trigger", "arm"}
  \/ scheduler = "poll" /\ Settled /\ Busy = {}
  \/ measure # "wait" \/ "measure" \in notified
  \/ sync \notin {"wait", "flush"}
  \/ sync = "wait" /\ "sync" \in notified
  \/ sync = "flush" /\ Settled /\ "MEASURE_RUNNING" \notin bits

WithinLimit == UnderWay => StepsLeft \in 0 .. CycleLimit

\* What each place is worth, place by place.
Ranks ==
  /\ SchedulerLeft \in Nat /\ MeasureLeft \in Nat /\ SyncLeft \in Nat /\ FailoverLeft \in Nat
  /\ scheduler = "trigger" => SchedulerLeft = 35 + MaxAttempts
  /\ scheduler = "poll" => SchedulerLeft = 1
  /\ scheduler = "arm" => SchedulerLeft = 0
  /\ measure = "wait" => MeasureLeft = IF "measure" \in notified THEN 12 ELSE 0
  /\ measure = "begin" => MeasureLeft = 11
  /\ measure = "sense" => MeasureLeft = 10
  /\ measure = "sample" => MeasureLeft = 6
  /\ measure = "log" => MeasureLeft = 5
  /\ measure = "done" => MeasureLeft = 1
  /\ sync = "wait" => SyncLeft = IF "sync" \in notified THEN 21 + MaxAttempts ELSE 0
  /\ sync = "read" => SyncLeft = 20 + MaxAttempts
  /\ sync = "warmup" => SyncLeft = 19 + MaxAttempts
  /\ sync = "early" => SyncLeft = 18 + MaxAttempts
  /\ sync = "flush" => SyncLeft = 17 + MaxAttempts
  /\ sync = "drain" => SyncLeft = 16 + MaxAttempts
  /\ sync = "ack" => SyncLeft = 15 + MaxAttempts
  /\ sync = "logs" => SyncLeft = 9 + MaxAttempts
  /\ sync \in {"ota", "late"} => SyncLeft = 2 + MaxAttempts - attempts
  /\ sync \in {"ota", "late"} => 2 <= SyncLeft /\ SyncLeft <= 2 + MaxAttempts
  /\ sync = "off" => SyncLeft = 1
  /\ FailoverLeft = (IF failover = "store" THEN 5 ELSE IF failover = "log" THEN 4 ELSE 0)
                      + (IF request THEN 6 ELSE 0)

LEMMA RanksAre == ControlTypes => Ranks
<1> SUFFICES ASSUME ControlTypes PROVE Ranks
  OBVIOUS
<1>0. MaxAttempts \in Nat /\ attempts \in 0 .. MaxAttempts
  BY WakeCycleAssumption DEF ControlTypes
<1>1. /\ SchedulerLeft \in Nat
      /\ scheduler = "trigger" => SchedulerLeft = 35 + MaxAttempts
      /\ scheduler = "poll" => SchedulerLeft = 1
      /\ scheduler = "arm" => SchedulerLeft = 0
  BY <1>0 DEF SchedulerLeft
<1>2. /\ MeasureLeft \in Nat
      /\ measure = "wait" => MeasureLeft = IF "measure" \in notified THEN 12 ELSE 0
      /\ measure = "begin" => MeasureLeft = 11
      /\ measure = "sense" => MeasureLeft = 10
      /\ measure = "sample" => MeasureLeft = 6
      /\ measure = "log" => MeasureLeft = 5
      /\ measure = "done" => MeasureLeft = 1
  BY DEF MeasureLeft
<1>3. /\ sync = "wait" => SyncLeft = IF "sync" \in notified THEN 21 + MaxAttempts ELSE 0
      /\ sync = "read" => SyncLeft = 20 + MaxAttempts
      /\ sync = "warmup" => SyncLeft = 19 + MaxAttempts
      /\ sync = "early" => SyncLeft = 18 + MaxAttempts
      /\ sync = "flush" => SyncLeft = 17 + MaxAttempts
      /\ sync = "drain" => SyncLeft = 16 + MaxAttempts
      /\ sync = "ack" => SyncLeft = 15 + MaxAttempts
      /\ sync = "logs" => SyncLeft = 9 + MaxAttempts
      /\ sync \in {"ota", "late"} => SyncLeft = 2 + MaxAttempts - attempts
      /\ sync = "off" => SyncLeft = 1
  BY <1>0 DEF SyncLeft
<1>4. /\ SyncLeft \in Nat
      /\ sync \in {"ota", "late"} => 2 <= SyncLeft /\ SyncLeft <= 2 + MaxAttempts
  BY <1>0, <1>3 DEF ControlTypes
<1>5. /\ FailoverLeft = (IF failover = "store" THEN 5 ELSE IF failover = "log" THEN 4 ELSE 0)
                          + (IF request THEN 6 ELSE 0)
      /\ FailoverLeft \in Nat
  BY DEF FailoverLeft
<1> QED
  BY <1>1, <1>2, <1>3, <1>4, <1>5 DEF Ranks

LEMMA RanksAlways == Spec => []Ranks
<1>1. Base => Ranks
  BY RanksAre DEF Base
<1> QED
  BY <1>1, BaseInvariant, PTL

\* What waits in the queues, and the calls under way, count for natural numbers.
LEMMA MirrorSizes ==
  ASSUME MirrorTypes
  PROVE  \A k \in Queue : /\ calls[k] \subseteq Task
                          /\ IsFiniteSet(calls[k]) /\ Cardinality(calls[k]) \in Nat
                          /\ Len(queue[k]) \in 0 .. Capacity[k] /\ Capacity[k] \in Nat
<1> SUFFICES ASSUME NEW k \in Queue
             PROVE  /\ calls[k] \subseteq Task
                    /\ IsFiniteSet(calls[k]) /\ Cardinality(calls[k]) \in Nat
                    /\ Len(queue[k]) \in 0 .. Capacity[k] /\ Capacity[k] \in Nat
  OBVIOUS
<1>1. Len(queue[k]) \in 0 .. Capacity[k] /\ Capacity[k] \in Nat
  BY WakeCycleAssumption, LenProperties DEF MirrorTypes, Stored
<1>2. calls[k] \subseteq Task
  BY DEF MirrorTypes
<1>3. IsFiniteSet(Task)
  <2>1. IsFiniteSet({"measure"})
    BY FS_Singleton
  <2>2. IsFiniteSet({"measure"} \cup {"sync"})
    BY <2>1, FS_AddElement
  <2>3. IsFiniteSet(({"measure"} \cup {"sync"}) \cup {"failover"})
    BY <2>2, FS_AddElement
  <2>4. Task = ({"measure"} \cup {"sync"}) \cup {"failover"}
    BY DEF Task
  <2> QED
    BY <2>3, <2>4
<1>4. IsFiniteSet(calls[k]) /\ Cardinality(calls[k]) \in Nat
  BY <1>2, <1>3, FS_Subset, FS_CardinalityType
<1> QED
  BY <1>1, <1>2, <1>4

\* What each mirror counts for.
Weights ==
  /\ SamplesLeft \in Nat /\ LogsLeft \in Nat
  /\ SamplesLeft = 3 * Len(queue["measure"]) + Cardinality(calls["measure"])
  /\ LogsLeft = 2 * Len(queue["log"]) + Cardinality(calls["log"])
  /\ \A k \in Queue : Cardinality(calls[k]) \in Nat /\ Len(queue[k]) \in Nat

LEMMA WeightsAre == MirrorTypes => Weights
<1> SUFFICES ASSUME MirrorTypes PROVE Weights
  OBVIOUS
<1>1. \A k \in Queue : Cardinality(calls[k]) \in Nat /\ Len(queue[k]) \in Nat
  BY MirrorSizes
<1>2. "measure" \in Queue /\ "log" \in Queue
  BY DEF Queue
<1>3. /\ SamplesLeft = 3 * Len(queue["measure"]) + Cardinality(calls["measure"])
      /\ LogsLeft = 2 * Len(queue["log"]) + Cardinality(calls["log"])
  BY DEF SamplesLeft, LogsLeft
<1>4. SamplesLeft \in Nat /\ LogsLeft \in Nat
  BY <1>1, <1>2, <1>3
<1> QED
  BY <1>1, <1>3, <1>4 DEF Weights

LEMMA WeightsAlways == Spec => []Weights
<1>1. Base => Weights
  BY WeightsAre DEF Base
<1> QED
  BY <1>1, BaseInvariant, PTL

\* A step that changes what is left by no more than this.
Change(s, m, y, f, p, q) ==
  /\ SchedulerLeft' <= SchedulerLeft + s
  /\ MeasureLeft' <= MeasureLeft + m
  /\ SyncLeft' <= SyncLeft + y
  /\ FailoverLeft' <= FailoverLeft + f
  /\ SamplesLeft' <= SamplesLeft + p
  /\ LogsLeft' <= LogsLeft + q

LEMMA ChangeLowers ==
  ASSUME Ranks, Ranks', Weights, Weights',
         NEW s \in Int, NEW m \in Int, NEW y \in Int, NEW f \in Int, NEW p \in Int, NEW q \in Int,
         Change(s, m, y, f, p, q), s + m + y + f + p + q < 0
  PROVE  StepsLeft' < StepsLeft
<1>1. /\ SchedulerLeft \in Nat /\ MeasureLeft \in Nat /\ SyncLeft \in Nat
      /\ FailoverLeft \in Nat /\ SamplesLeft \in Nat /\ LogsLeft \in Nat
  BY DEF Ranks, Weights
<1>2. /\ SchedulerLeft' \in Nat /\ MeasureLeft' \in Nat /\ SyncLeft' \in Nat
      /\ FailoverLeft' \in Nat /\ SamplesLeft' \in Nat /\ LogsLeft' \in Nat
  BY DEF Ranks, Weights
<1>3. PICK a1 \in Nat, b1 \in Nat, c1 \in Nat, d1 \in Nat, e1 \in Nat, g1 \in Nat :
        /\ a1 = SchedulerLeft' /\ b1 = MeasureLeft' /\ c1 = SyncLeft'
        /\ d1 = FailoverLeft' /\ e1 = SamplesLeft' /\ g1 = LogsLeft'
  BY <1>2
<1>4. StepsLeft' = a1 + b1 + c1 + d1 + e1 + g1
  BY <1>3 DEF StepsLeft
<1>5. /\ a1 <= SchedulerLeft + s /\ b1 <= MeasureLeft + m /\ c1 <= SyncLeft + y
      /\ d1 <= FailoverLeft + f /\ e1 <= SamplesLeft + p /\ g1 <= LogsLeft + q
  BY <1>3 DEF Change
<1>6. a1 + b1 + c1 + d1 + e1 + g1
        < SchedulerLeft + MeasureLeft + SyncLeft + FailoverLeft + SamplesLeft + LogsLeft
  BY <1>1, <1>5
<1> QED
  BY <1>4, <1>6 DEF StepsLeft

\* What does not move does not count.
LEMMA Stills ==
  /\ UNCHANGED scheduler => SchedulerLeft' = SchedulerLeft
  /\ UNCHANGED <<measure, notified>> => MeasureLeft' = MeasureLeft
  /\ UNCHANGED measure /\ ("measure" \in notified <=> "measure" \in notified')
       => MeasureLeft' = MeasureLeft
  /\ UNCHANGED <<sync, notified, attempts>> => SyncLeft' = SyncLeft
  /\ UNCHANGED <<sync, attempts>> /\ ("sync" \in notified <=> "sync" \in notified')
       => SyncLeft' = SyncLeft
  /\ UNCHANGED <<failover, request>> => FailoverLeft' = FailoverLeft
  /\ queue'["measure"] = queue["measure"] /\ calls'["measure"] = calls["measure"]
       => SamplesLeft' = SamplesLeft
  /\ queue'["log"] = queue["log"] /\ calls'["log"] = calls["log"] => LogsLeft' = LogsLeft
<1>1. UNCHANGED scheduler => SchedulerLeft' = SchedulerLeft
  BY DEF SchedulerLeft
<1>2. UNCHANGED measure /\ ("measure" \in notified <=> "measure" \in notified')
        => MeasureLeft' = MeasureLeft
  BY DEF MeasureLeft
<1>3. UNCHANGED <<sync, attempts>> /\ ("sync" \in notified <=> "sync" \in notified')
        => SyncLeft' = SyncLeft
  BY DEF SyncLeft
<1>4. UNCHANGED <<failover, request>> => FailoverLeft' = FailoverLeft
  BY DEF FailoverLeft
<1>5. queue'["measure"] = queue["measure"] /\ calls'["measure"] = calls["measure"]
        => SamplesLeft' = SamplesLeft
  BY DEF SamplesLeft
<1>6. queue'["log"] = queue["log"] /\ calls'["log"] = calls["log"] => LogsLeft' = LogsLeft
  BY DEF LogsLeft
<1> QED
  BY <1>1, <1>2, <1>3, <1>4, <1>5, <1>6

LEMMA StillMirrors ==
  UNCHANGED mirrors => SamplesLeft' = SamplesLeft /\ LogsLeft' = LogsLeft
BY Stills DEF mirrors

\* One task more, or one fewer, inside a mirror.
LEMMA CallsCount ==
  ASSUME MirrorTypes, NEW k \in Queue, NEW t
  PROVE  /\ Cardinality(calls[k] \cup {t}) \in Nat
         /\ Cardinality(calls[k] \cup {t}) <= Cardinality(calls[k]) + 1
         /\ t \in calls[k] => Cardinality(calls[k] \ {t}) = Cardinality(calls[k]) - 1
<1>1. IsFiniteSet(calls[k]) /\ Cardinality(calls[k]) \in Nat
  BY MirrorSizes
<1>2. Cardinality(calls[k] \cup {t}) \in {Cardinality(calls[k]), Cardinality(calls[k]) + 1}
  BY <1>1, FS_AddElement
<1>3. t \in calls[k] => Cardinality(calls[k] \ {t}) = Cardinality(calls[k]) - 1
  BY <1>1, FS_RemoveElement
<1> QED
  BY <1>1, <1>2, <1>3

\* A message more is one message and one call more.
LEMMA PublishWeighs ==
  ASSUME MirrorTypes, Weights, Weights', NEW t \in Task, NEW k \in Queue, NEW x \in Content(k),
         Publish(t, k, x)
  PROVE  /\ k = "measure" => SamplesLeft' <= SamplesLeft + 4 /\ LogsLeft' = LogsLeft
         /\ k = "log" => LogsLeft' <= LogsLeft + 3 /\ SamplesLeft' = SamplesLeft
<1> DEFINE n == Len(queue[k])         n1 == Len(queue'[k])
           c == Cardinality(calls[k])  c1 == Cardinality(calls'[k])
<1>1. /\ queue'[k] \in {queue[k], Append(queue[k], x)}
      /\ calls'[k] \in {calls[k], calls[k] \cup {t}}
      /\ \A j \in Queue \ {k} : queue'[j] = queue[j] /\ calls'[j] = calls[j]
  BY PublishEffect
<1>2. queue[k] \in Seq(Content(k))
  BY DEF MirrorTypes, Stored
<1>3. n \in Nat /\ n1 \in Nat /\ n1 <= n + 1
  BY <1>1, <1>2, AppendProperties, LenProperties
<1>4. c \in Nat /\ c1 \in Nat /\ c1 <= c + 1
  <2>1. /\ Cardinality(calls[k]) \in Nat /\ Cardinality(calls[k] \cup {t}) \in Nat
        /\ Cardinality(calls[k] \cup {t}) <= Cardinality(calls[k]) + 1
    BY CallsCount, MirrorSizes
  <2>2. CASE calls'[k] = calls[k]
    BY <2>1, <2>2
  <2>3. CASE calls'[k] = calls[k] \cup {t}
    BY <2>1, <2>3
  <2> QED
    BY <1>1, <2>2, <2>3
<1>5. CASE k = "measure"
  <2>1. LogsLeft' = LogsLeft
    BY <1>1, <1>5, Stills DEF Queue
  <2>2. SamplesLeft' = 3 * n1 + c1
    BY <1>5 DEF SamplesLeft
  <2>3. SamplesLeft = 3 * n + c
    BY <1>5 DEF SamplesLeft
  <2> HIDE DEF n, n1, c, c1
  <2>4. SamplesLeft' <= SamplesLeft + 4
    BY <1>3, <1>4, <2>2, <2>3
  <2> QED
    BY <1>5, <2>1, <2>4
<1>6. CASE k = "log"
  <2>1. SamplesLeft' = SamplesLeft
    BY <1>1, <1>6, Stills DEF Queue
  <2>2. LogsLeft' = 2 * n1 + c1
    BY <1>6 DEF LogsLeft
  <2>3. LogsLeft = 2 * n + c
    BY <1>6 DEF LogsLeft
  <2> HIDE DEF n, n1, c, c1
  <2>4. LogsLeft' <= LogsLeft + 3
    BY <1>3, <1>4, <2>2, <2>3
  <2> QED
    BY <1>6, <2>1, <2>4
<1> QED
  BY <1>5, <1>6 DEF Queue

\* A message fewer counts for more than the call that takes it off.
LEMMA AckWeighs ==
  ASSUME MirrorTypes, NEW k \in Queue, queue[k] # <<>>, Ack(k)
  PROVE  /\ k = "measure" => SamplesLeft' <= SamplesLeft - 2 /\ LogsLeft' = LogsLeft
         /\ k = "log" => LogsLeft' <= LogsLeft - 1 /\ SamplesLeft' = SamplesLeft
<1> DEFINE n == Len(queue[k])         n1 == Len(queue'[k])
           c == Cardinality(calls[k])  c1 == Cardinality(calls'[k])
<1>1. /\ queue'[k] = Tail(queue[k]) /\ calls'[k] = calls[k] \cup {"sync"}
      /\ \A j \in Queue \ {k} : queue'[j] = queue[j] /\ calls'[j] = calls[j]
  BY AckEffect
<1>2. queue[k] \in Seq(Content(k))
  BY DEF MirrorTypes, Stored
<1>3. n \in Nat /\ n1 = n - 1
  BY <1>1, <1>2, HeadTailProperties, LenProperties
<1>4. c \in Nat /\ c1 \in Nat /\ c1 <= c + 1
  BY <1>1, CallsCount, MirrorSizes
<1>5. CASE k = "measure"
  <2>1. LogsLeft' = LogsLeft
    BY <1>1, <1>5, Stills DEF Queue
  <2>2. SamplesLeft' = 3 * n1 + c1
    BY <1>5 DEF SamplesLeft
  <2>3. SamplesLeft = 3 * n + c
    BY <1>5 DEF SamplesLeft
  <2> HIDE DEF n, n1, c, c1
  <2>4. SamplesLeft' <= SamplesLeft - 2
    BY <1>3, <1>4, <2>2, <2>3
  <2> QED
    BY <1>5, <2>1, <2>4
<1>6. CASE k = "log"
  <2>1. SamplesLeft' = SamplesLeft
    BY <1>1, <1>6, Stills DEF Queue
  <2>2. LogsLeft' = 2 * n1 + c1
    BY <1>6 DEF LogsLeft
  <2>3. LogsLeft = 2 * n + c
    BY <1>6 DEF LogsLeft
  <2> HIDE DEF n, n1, c, c1
  <2>4. LogsLeft' <= LogsLeft - 1
    BY <1>3, <1>4, <2>2, <2>3
  <2> QED
    BY <1>6, <2>1, <2>4
<1> QED
  BY <1>5, <1>6 DEF Queue

\* A call that returns is one call fewer.
LEMMA ReturnWeighs ==
  ASSUME MirrorTypes, NEW t \in Task, NEW k \in Queue, CallReturns(t, k) \/ CallFails(t, k)
  PROVE  /\ k = "measure" => SamplesLeft' <= SamplesLeft - 1 /\ LogsLeft' = LogsLeft
         /\ k = "log" => LogsLeft' <= LogsLeft - 1 /\ SamplesLeft' = SamplesLeft
<1>1. PICK f : Stored(k, f) /\ Return(t, k, f)
  BY ReturnCases
<1>2. /\ t \in calls[k] /\ calls'[k] = calls[k] \ {t} /\ UNCHANGED queue
      /\ \A j \in Queue \ {k} : calls'[j] = calls[j]
  BY <1>1, ReturnEffect
<1>3. /\ Cardinality(calls[k]) \in Nat /\ Len(queue[k]) \in Nat
      /\ Cardinality(calls'[k]) = Cardinality(calls[k]) - 1
  <2>1. Cardinality(calls[k] \ {t}) = Cardinality(calls[k]) - 1
    BY <1>2, CallsCount
  <2> QED
    BY <1>2, <2>1, MirrorSizes
<1>4. CASE k = "measure"
  <2>1. LogsLeft' = LogsLeft
    BY <1>2, <1>4, Stills DEF Queue
  <2>2. SamplesLeft' = 3 * Len(queue[k]) + Cardinality(calls'[k])
    BY <1>2, <1>4 DEF SamplesLeft
  <2>3. SamplesLeft = 3 * Len(queue[k]) + Cardinality(calls[k])
    BY <1>4 DEF SamplesLeft
  <2> QED
    BY <1>3, <1>4, <2>1, <2>2, <2>3
<1>5. CASE k = "log"
  <2>1. SamplesLeft' = SamplesLeft
    BY <1>2, <1>5, Stills DEF Queue
  <2>2. LogsLeft' = 2 * Len(queue[k]) + Cardinality(calls'[k])
    BY <1>2, <1>5 DEF LogsLeft
  <2>3. LogsLeft = 2 * Len(queue[k]) + Cardinality(calls[k])
    BY <1>5 DEF LogsLeft
  <2> QED
    BY <1>3, <1>5, <2>1, <2>2, <2>3
<1> QED
  BY <1>4, <1>5 DEF Queue

\* What the steps of a cycle are counted from.
Counted == Base /\ Places /\ Ranks /\ Weights

LEMMA CountedInvariant == Spec => []Counted
BY PlacesInvariant, RanksAlways, WeightsAlways, PTL DEF Counted

LEMMA LeftTypes ==
  Counted => /\ SchedulerLeft \in Nat /\ MeasureLeft \in Nat /\ SyncLeft \in Nat
             /\ FailoverLeft \in Nat /\ SamplesLeft \in Nat /\ LogsLeft \in Nat
BY DEF Counted, Ranks, Weights

LEMMA ReturnLowers ==
  ASSUME Counted, Counted', NEW t \in Task, NEW k \in Queue, CallReturns(t, k) \/ CallFails(t, k)
  PROVE  StepsLeft' < StepsLeft
<1> USE DEF Counted, Base
<1>1. /\ UNCHANGED <<scheduler, measure, sync, failover, notified>> /\ UNCHANGED <<request, attempts>>
  BY ReturnControl
<1>2. /\ SchedulerLeft' = SchedulerLeft /\ MeasureLeft' = MeasureLeft /\ SyncLeft' = SyncLeft
      /\ FailoverLeft' = FailoverLeft
  BY <1>1, Stills
<1>3. CASE k = "measure"
  <2>1. SamplesLeft' <= SamplesLeft - 1 /\ LogsLeft' = LogsLeft
    BY <1>3, ReturnWeighs
  <2>2. Change(0, 0, 0, 0, -1, 0)
    BY <1>2, <2>1, LeftTypes DEF Change
  <2> QED
    BY <2>2, ChangeLowers
<1>4. CASE k = "log"
  <2>1. LogsLeft' <= LogsLeft - 1 /\ SamplesLeft' = SamplesLeft
    BY <1>4, ReturnWeighs
  <2>2. Change(0, 0, 0, 0, 0, -1)
    BY <1>2, <2>1, LeftTypes DEF Change
  <2> QED
    BY <2>2, ChangeLowers
<1> QED
  BY <1>3, <1>4 DEF Queue

LEMMA SchedulerLowers ==
  ASSUME Counted, Counted', UnderWay, UnderWay', SchedulerStep
  PROVE  StepsLeft' < StepsLeft
<1> USE DEF Counted, Base
<1>0. MaxAttempts \in Nat
  BY WakeCycleAssumption
<1>1. CASE Trigger
  <2>1. /\ measure = "wait" /\ notified = {} /\ sync = "wait"
        /\ UNCHANGED <<measure, sync, failover>> /\ UNCHANGED <<request, attempts>>
        /\ UNCHANGED mirrors
        /\ scheduler = "trigger" /\ scheduler' = "poll"
    BY <1>1 DEF Trigger, Places, Positions, Asleep, net
  <2>2. /\ SamplesLeft' = SamplesLeft /\ LogsLeft' = LogsLeft /\ FailoverLeft' = FailoverLeft
    BY <2>1, Stills, StillMirrors
  <2>3. MeasureLeft' <= 12 /\ MeasureLeft = 0
    BY <2>1 DEF Ranks
  <2>4. SyncLeft' <= 21 + MaxAttempts /\ SyncLeft = 0
    BY <1>0, <2>1 DEF Ranks
  <2>5. SchedulerLeft' = 1 /\ SchedulerLeft = 35 + MaxAttempts
    BY <2>1 DEF Ranks
  <2>6. Change(-34 - MaxAttempts, 12, 21 + MaxAttempts, 0, 0, 0)
    BY <1>0, <2>2, <2>3, <2>4, <2>5, LeftTypes DEF Change
  <2> QED
    BY <1>0, <2>6, ChangeLowers
<1>2. CASE StopWaiting
  <2>1. SchedulerLeft = 1 /\ SchedulerLeft' = 0
    BY <1>2 DEF StopWaiting, Ranks
  <2>2. /\ MeasureLeft' = MeasureLeft /\ SyncLeft' = SyncLeft /\ FailoverLeft' = FailoverLeft
        /\ SamplesLeft' = SamplesLeft /\ LogsLeft' = LogsLeft
    BY <1>2, Stills, StillMirrors DEF StopWaiting, net
  <2>3. Change(-1, 0, 0, 0, 0, 0)
    BY <2>1, <2>2, LeftTypes DEF Change
  <2> QED
    BY <2>3, ChangeLowers
<1>3. CASE DeepSleep
  BY <1>3, ResetControl DEF DeepSleep, UnderWay
<1>4. CASE Wake \/ WakeMisreads
  BY <1>4 DEF Wake, WakeMisreads, UnderWay
<1> QED
  BY <1>1, <1>2, <1>3, <1>4 DEF SchedulerStep, SchedulerRuns

LEMMA FailoverLowers ==
  ASSUME Counted, Counted', FailoverStep
  PROVE  StepsLeft' < StepsLeft
<1> USE DEF Counted, Base
<1>1. CASE FailoverReceives \/ FailoverStores
  <2>1. Change(0, 0, 0, -1, 0, 0)
    <3>1. FailoverLeft' = FailoverLeft - 1
      BY <1>1 DEF FailoverReceives, FailoverStores, net, Ranks
    <3>2. /\ SchedulerLeft' = SchedulerLeft /\ MeasureLeft' = MeasureLeft
          /\ SyncLeft' = SyncLeft /\ SamplesLeft' = SamplesLeft /\ LogsLeft' = LogsLeft
      BY <1>1, Stills, StillMirrors DEF FailoverReceives, FailoverStores, net
    <3> QED
      BY <3>1, <3>2, LeftTypes DEF Change
  <2> QED
    BY <2>1, ChangeLowers
<1>2. CASE FailoverLogs
  <2>1. Publish("failover", "log", "swap") /\ "failover" \in Task /\ "log" \in Queue
        /\ "swap" \in Content("log")
    BY <1>2 DEF FailoverLogs, Task, Queue, Content
  <2>2. LogsLeft' <= LogsLeft + 3 /\ SamplesLeft' = SamplesLeft
    BY <2>1, PublishWeighs
  <2>3. FailoverLeft' = FailoverLeft - 4
    BY <1>2 DEF FailoverLogs, net, Ranks
  <2>4. /\ SchedulerLeft' = SchedulerLeft /\ MeasureLeft' = MeasureLeft /\ SyncLeft' = SyncLeft
    BY <1>2, Stills DEF FailoverLogs, net
  <2>5. Change(0, 0, 0, -4, 0, 3)
    BY <2>2, <2>3, <2>4, LeftTypes DEF Change
  <2> QED
    BY <2>5, ChangeLowers
<1>3. CASE CallReturns("failover", "log") \/ CallFails("failover", "log")
  BY <1>3, ReturnLowers DEF Task, Queue
<1> QED
  BY <1>1, <1>2, <1>3 DEF FailoverStep

LEMMA MeasureLowers ==
  ASSUME Counted, Counted', MeasureStep
  PROVE  StepsLeft' < StepsLeft
<1> USE DEF Counted, Base
<1>0. /\ "measure" \in Task /\ "measure" \in Queue /\ "log" \in Queue
      /\ "session" \in Content("log")
      /\ \A ok \in BOOLEAN : Sample(boot, ok) \in Content("measure")
  BY DEF Task, Queue, Content, Sample, ControlTypes
<1>1. CASE MeasureWakes \/ MeasureBegins \/ MeasureEnds
  <2>1. MeasureLeft' <= MeasureLeft - 1
    BY <1>1 DEF MeasureWakes, MeasureBegins, MeasureEnds, Ranks, Places, Positions
  <2>2. /\ SchedulerLeft' = SchedulerLeft /\ SyncLeft' = SyncLeft /\ FailoverLeft' = FailoverLeft
        /\ SamplesLeft' = SamplesLeft /\ LogsLeft' = LogsLeft
    BY <1>1, Stills, StillMirrors DEF MeasureWakes, MeasureBegins, MeasureEnds, net
  <2>3. Change(0, -1, 0, 0, 0, 0)
    BY <2>1, <2>2, LeftTypes DEF Change
  <2> QED
    BY <2>3, ChangeLowers
<1>2. CASE SensorNotReady \/ PublishSession
  <2>1. MeasureLeft' = MeasureLeft - 4
    BY <1>2 DEF SensorNotReady, PublishSession, Ranks, Places, Positions
  <2>2. /\ SchedulerLeft' = SchedulerLeft /\ SyncLeft' = SyncLeft /\ FailoverLeft' = FailoverLeft
    BY <1>2, Stills DEF SensorNotReady, PublishSession, net
  <2>3. LogsLeft' <= LogsLeft + 3 /\ SamplesLeft' = SamplesLeft
    BY <1>0, <1>2, PublishWeighs DEF SensorNotReady, PublishSession
  <2>4. Change(0, -4, 0, 0, 0, 3)
    BY <2>1, <2>2, <2>3, LeftTypes DEF Change
  <2> QED
    BY <2>4, ChangeLowers
<1>3. CASE PublishNotReady \/ \E ok \in BOOLEAN : SensorRead(ok)
  <2>1. MeasureLeft' = MeasureLeft - 5
    <3>1. CASE PublishNotReady
      BY <3>1 DEF PublishNotReady, Ranks
    <3>2. CASE \E ok \in BOOLEAN : SensorRead(ok)
      <4>1. measure = "sense" /\ measure' = "log"
        BY <3>2 DEF SensorRead
      <4> QED
        BY <4>1 DEF Ranks
    <3> QED
      BY <1>3, <3>1, <3>2
  <2>2. /\ SchedulerLeft' = SchedulerLeft /\ SyncLeft' = SyncLeft /\ FailoverLeft' = FailoverLeft
    BY <1>3, Stills DEF SensorRead, PublishNotReady, net
  <2>3. \E ok \in BOOLEAN : Publish("measure", "measure", Sample(boot, ok))
    BY <1>3 DEF SensorRead, PublishNotReady, PublishSample
  <2>4. SamplesLeft' <= SamplesLeft + 4 /\ LogsLeft' = LogsLeft
    BY <1>0, <2>3, PublishWeighs
  <2>5. Change(0, -5, 0, 0, 4, 0)
    BY <2>1, <2>2, <2>4, LeftTypes DEF Change
  <2> QED
    BY <2>5, ChangeLowers
<1>4. CASE \E k \in Queue : CallReturns("measure", k) \/ CallFails("measure", k)
  BY <1>0, <1>4, ReturnLowers
<1> QED
  BY <1>1, <1>2, <1>3, <1>4 DEF MeasureStep

LEMMA SyncLowers ==
  ASSUME Counted, Counted', UnderWay', SyncStep
  PROVE  StepsLeft' < StepsLeft
<1> USE DEF Counted, Base
<1>0. /\ MaxAttempts \in Nat /\ attempts \in 0 .. MaxAttempts /\ attempts' \in 0 .. MaxAttempts
      /\ "measure" \in Queue /\ "log" \in Queue
  BY WakeCycleAssumption DEF ControlTypes, Queue
\* A step on the way, with nothing given to another task.
<1>1. CASE \/ SyncWakes \/ SyncBegins \/ WarmupSucceeds \/ EarlyCheck
           \/ \E d \in AttemptMinutes : OtaAttempt(d)
           \/ OtaEnds \/ FlushWaitEnds \/ SendSample \/ DrainEnds \/ LogsEnd \/ SyncEnds
  <2>1. SyncLeft' <= SyncLeft - 1
    <3>1. CASE SyncWakes \/ SyncBegins \/ WarmupSucceeds \/ EarlyCheck
      <4>1. \/ sync = "wait" /\ "sync" \in notified /\ sync' = "read"
            \/ sync = "read" /\ sync' = "warmup"
            \/ sync = "read" /\ sync' = "wait" /\ "sync" \notin notified'
            \/ sync = "warmup" /\ sync' = "early"
            \/ sync = "early" /\ sync' \in {"ota", "flush"}
        BY <3>1 DEF SyncWakes, SyncBegins, WarmupSucceeds, WarmupEnds, EarlyCheck, Places, Positions
      <4>2. CASE sync = "early" /\ sync' \in {"ota", "flush"}
        BY <1>0, <4>2 DEF Ranks
      <4>3. CASE sync = "warmup" /\ sync' = "early"
        BY <1>0, <4>3 DEF Ranks
      <4>4. CASE sync = "wait" /\ "sync" \in notified /\ sync' = "read"
        BY <1>0, <4>4 DEF Ranks
      <4>5. CASE sync = "read" /\ sync' = "warmup"
        BY <1>0, <4>5 DEF Ranks
      <4>6. CASE sync = "read" /\ sync' = "wait" /\ "sync" \notin notified'
        BY <1>0, <4>6 DEF Ranks
      <4> QED
        BY <4>1, <4>2, <4>3, <4>4, <4>5, <4>6
    <3>2. CASE \E d \in AttemptMinutes : OtaAttempt(d)
      <4>1. sync \in {"ota", "late"} /\ sync' = sync /\ attempts' = attempts + 1
        BY <3>2 DEF OtaAttempt, tasks
      <4> QED
        BY <1>0, <4>1 DEF Ranks
    <3>3. CASE OtaEnds
      <4>1. sync \in {"ota", "late"} /\ sync' = "off"
        BY <3>3 DEF OtaEnds
      <4> QED
        BY <1>0, <4>1 DEF Ranks
    <3>4. CASE FlushWaitEnds \/ SendSample \/ DrainEnds
      BY <1>0, <3>4 DEF FlushWaitEnds, SendSample, DrainEnds, Ranks
    <3>5. CASE LogsEnd
      <4>1. sync = "logs" /\ sync' = "late"
        BY <3>5 DEF LogsEnd
      <4>2. SyncLeft = 9 + MaxAttempts /\ SyncLeft' <= 2 + MaxAttempts /\ SyncLeft' \in Nat
        BY <4>1 DEF Ranks
      <4> QED
        BY <1>0, <4>2
    <3>6. CASE SyncEnds
      BY <1>0, <3>6 DEF SyncEnds, Ranks, Places, Positions
    <3> QED
      BY <1>1, <3>1, <3>2, <3>3, <3>4, <3>5, <3>6
  <2>2. /\ SchedulerLeft' = SchedulerLeft /\ MeasureLeft' = MeasureLeft /\ FailoverLeft' = FailoverLeft
        /\ SamplesLeft' = SamplesLeft /\ LogsLeft' = LogsLeft
    <3>1. CASE \/ SyncWakes \/ SyncBegins \/ WarmupSucceeds \/ EarlyCheck
               \/ \E d \in AttemptMinutes : OtaAttempt(d)
      BY <3>1, Stills, StillMirrors
         DEF SyncWakes, SyncBegins, WarmupSucceeds, EarlyCheck, OtaAttempt, net, tasks
    <3>2. CASE OtaEnds \/ FlushWaitEnds \/ SendSample \/ DrainEnds \/ LogsEnd \/ SyncEnds
      BY <3>2, Stills, StillMirrors
         DEF OtaEnds, FlushWaitEnds, SendSample, DrainEnds, LogsEnd, SyncEnds, net
    <3> QED
      BY <1>1, <3>1, <3>2
  <2>3. Change(0, 0, -1, 0, 0, 0)
    BY <2>1, <2>2, LeftTypes DEF Change
  <2> QED
    BY <2>3, ChangeLowers
\* A failure asks for the other module.
<1>2. CASE WarmupFails \/ SendSampleFails \/ SendLogFails
  <2>1. SyncLeft' <= SyncLeft - 7
    <3>1. \/ sync = "warmup" /\ sync' = "wait" /\ "sync" \notin notified'
          \/ sync = "drain" /\ sync' = "logs"
          \/ sync = "logs" /\ sync' = "late"
      BY <1>2 DEF WarmupFails, WarmupEnds, SendSampleFails, SendLogFails, SendFails, Places, Positions
    <3>2. CASE sync = "warmup" /\ sync' = "wait" /\ "sync" \notin notified'
      BY <1>0, <3>2 DEF Ranks
    <3>3. CASE sync = "drain" /\ sync' = "logs"
      BY <1>0, <3>3 DEF Ranks
    <3>4. CASE sync = "logs" /\ sync' = "late"
      <4>1. SyncLeft = 9 + MaxAttempts /\ SyncLeft' <= 2 + MaxAttempts /\ SyncLeft' \in Nat
        BY <3>4 DEF Ranks
      <4> QED
        BY <1>0, <4>1
    <3> QED
      BY <3>1, <3>2, <3>3, <3>4
  <2>2. FailoverLeft' <= FailoverLeft + 6
    BY <1>2 DEF WarmupFails, SendSampleFails, SendLogFails, SendFails, AskFailover, Ranks
  <2>3. /\ SchedulerLeft' = SchedulerLeft /\ MeasureLeft' = MeasureLeft
        /\ SamplesLeft' = SamplesLeft /\ LogsLeft' = LogsLeft
    BY <1>2, Stills, StillMirrors DEF WarmupFails, SendSampleFails, SendLogFails, SendFails
  <2>4. Change(0, 0, -7, 6, 0, 0)
    BY <2>1, <2>2, <2>3, LeftTypes DEF Change
  <2> QED
    BY <2>4, ChangeLowers
\* A message is taken off its queue.
<1>3. CASE SkipInvalid \/ AckSample
  <2>1. queue["measure"] # <<>> /\ Ack("measure")
    BY <1>3 DEF SkipInvalid, AckSample, HasHead
  <2>2. SamplesLeft' <= SamplesLeft - 2 /\ LogsLeft' = LogsLeft
    BY <1>0, <2>1, AckWeighs
  <2>3. SyncLeft' <= SyncLeft + 1
    <3>1. CASE SkipInvalid
      <4>1. SyncLeft' = SyncLeft
        BY <3>1, Stills DEF SkipInvalid, tasks, net
      <4> QED
        BY <4>1 DEF Ranks
    <3>2. CASE AckSample
      BY <1>0, <3>2 DEF AckSample, Ranks
    <3> QED
      BY <1>3, <3>1, <3>2
  <2>4. /\ SchedulerLeft' = SchedulerLeft /\ MeasureLeft' = MeasureLeft /\ FailoverLeft' = FailoverLeft
    BY <1>3, Stills DEF SkipInvalid, AckSample, tasks, net
  <2>5. Change(0, 0, 1, 0, -2, 0)
    BY <2>2, <2>3, <2>4, LeftTypes DEF Change
  <2> QED
    BY <2>5, ChangeLowers
<1>4. CASE SendLog
  <2>1. LogsLeft' <= LogsLeft - 1 /\ SamplesLeft' = SamplesLeft
    BY <1>0, <1>4, AckWeighs DEF SendLog
  <2>2. /\ SchedulerLeft' = SchedulerLeft /\ MeasureLeft' = MeasureLeft
        /\ SyncLeft' = SyncLeft /\ FailoverLeft' = FailoverLeft
    BY <1>4, Stills DEF SendLog, tasks, net
  <2>3. Change(0, 0, 0, 0, 0, -1)
    BY <2>1, <2>2, LeftTypes DEF Change
  <2> QED
    BY <2>3, ChangeLowers
<1>5. CASE OtaSucceeds
  BY <1>5, ResetControl DEF OtaSucceeds, UnderWay
<1>6. CASE \E k \in Queue : CallReturns("sync", k) \/ CallFails("sync", k)
  BY <1>6, ReturnLowers DEF Task
<1> QED
  BY <1>1, <1>2, <1>3, <1>4, <1>5, <1>6 DEF SyncStep

LEMMA StepLowers ==
  ASSUME Counted, Counted', UnderWay, UnderWay', [Next]_vars
  PROVE  UNCHANGED vars \/ StepsLeft' < StepsLeft
<1>1. CASE PowerFails
  BY <1>1, ResetControl DEF PowerFails, UnderWay
<1>2. CASE Finished
  BY <1>2 DEF Finished
<1> QED
  BY <1>1, <1>2, SchedulerLowers, MeasureLowers, SyncLowers, FailoverLowers DEF Next

LEMMA StartsWithin ==
  ASSUME Counted, scheduler = "trigger"
  PROVE  StepsLeft \in 0 .. CycleLimit
<1> USE DEF Counted, Base
<1>0. MaxAttempts \in Nat
  BY WakeCycleAssumption
<1>1. /\ measure = "wait" /\ sync = "wait" /\ failover = "wait" /\ notified = {} /\ ~request
      /\ \A k \in Queue : calls[k] = {}
  BY DEF Places, Positions, Calls, Asleep
<1>2. SchedulerLeft = 35 + MaxAttempts /\ MeasureLeft = 0 /\ SyncLeft = 0 /\ FailoverLeft = 0
  BY <1>1 DEF Ranks
<1>3. \A k \in Queue : Cardinality(calls[k]) = 0
  BY <1>1, FS_EmptySet
<1>4. SamplesLeft = 3 * Len(queue["measure"]) /\ LogsLeft = 2 * Len(queue["log"])
  BY <1>3 DEF SamplesLeft, LogsLeft, Queue
<1>5. /\ Len(queue["measure"]) \in 0 .. Capacity["measure"] /\ Capacity["measure"] \in Nat
      /\ Len(queue["log"]) \in 0 .. Capacity["log"] /\ Capacity["log"] \in Nat
  BY MirrorSizes DEF Queue
<1>6. StepsLeft = 35 + MaxAttempts + 3 * Len(queue["measure"]) + 2 * Len(queue["log"])
  BY <1>0, <1>2, <1>4, <1>5 DEF StepsLeft
<1> DEFINE m == Len(queue["measure"])  l == Len(queue["log"])
           cm == Capacity["measure"]   cl == Capacity["log"]
<1>7. /\ m \in 0 .. cm /\ cm \in Nat /\ l \in 0 .. cl /\ cl \in Nat
      /\ StepsLeft = 35 + MaxAttempts + 3 * m + 2 * l
      /\ CycleLimit = 35 + MaxAttempts + 3 * cm + 2 * cl
  BY <1>5, <1>6 DEF CycleLimit
<1> HIDE DEF m, l, cm, cl
<1> QED
  BY <1>0, <1>7

\* A task whose bit the scheduler sees is in the middle of its work.
Held ==
  /\ "MEASURE_RUNNING" \in bits => measure \notin {"wait", "begin"}
  /\ "SYNC_RUNNING" \in bits => sync \notin {"wait", "read"}

LEMMA HeldStep ==
  ASSUME Base, Places, Held, [Next]_vars
  PROVE  Held'
<1> USE DEF Held
<1>1. CASE UNCHANGED vars
  BY <1>1 DEF vars
<1>2. CASE ResetChip
  BY <1>2, ResetControl
<1>3. ASSUME NEW t, NEW k, CallReturns(t, k) \/ CallFails(t, k) PROVE Held'
  <2>1. UNCHANGED <<measure, sync, bits>>
    BY <1>3, ReturnControl
  <2> QED
    BY <2>1
<1>4. CASE Trigger \/ StopWaiting \/ Wake \/ WakeMisreads
  BY <1>4 DEF Trigger, StopWaiting, Wake, WakeMisreads
<1>5. CASE MeasureWakes \/ MeasureBegins \/ MeasureEnds
  BY <1>5 DEF MeasureWakes, MeasureBegins, MeasureEnds
<1>6. CASE SensorNotReady \/ PublishNotReady \/ PublishSession \/ \E ok \in BOOLEAN : SensorRead(ok)
  BY <1>6 DEF SensorNotReady, PublishNotReady, PublishSession, SensorRead
<1>7. CASE SyncWakes \/ SyncBegins \/ WarmupFails \/ WarmupSucceeds \/ EarlyCheck
  BY <1>7 DEF SyncWakes, SyncBegins, WarmupFails, WarmupSucceeds, EarlyCheck
<1>8. CASE (\E d \in AttemptMinutes : OtaAttempt(d)) \/ OtaEnds \/ FlushWaitEnds \/ SkipInvalid
  BY <1>8 DEF OtaAttempt, OtaEnds, FlushWaitEnds, SkipInvalid, tasks
<1>9. CASE SendSample \/ SendSampleFails \/ AckSample \/ DrainEnds
  BY <1>9 DEF SendSample, SendSampleFails, SendFails, AckSample, DrainEnds
<1>10. CASE SendLog \/ SendLogFails \/ LogsEnd \/ SyncEnds
  BY <1>10 DEF SendLog, SendLogFails, SendFails, LogsEnd, SyncEnds, tasks
<1>11. CASE FailoverReceives \/ FailoverStores \/ FailoverLogs
  BY <1>11 DEF FailoverReceives, FailoverStores, FailoverLogs
<1>12. CASE DeepSleep \/ OtaSucceeds \/ PowerFails
  BY <1>2, <1>12 DEF DeepSleep, OtaSucceeds, PowerFails
<1>13. CASE Finished
  BY <1>1, <1>13 DEF Finished
<1>14. CASE SchedulerStep \/ PowerFails \/ Finished
  BY <1>4, <1>12, <1>13, <1>14 DEF SchedulerStep, SchedulerRuns
<1>15. CASE MeasureStep
  BY <1>3, <1>5, <1>6, <1>15 DEF MeasureStep
<1>16. CASE SyncStep
  BY <1>3, <1>7, <1>8, <1>9, <1>10, <1>12, <1>16 DEF SyncStep
<1>17. CASE FailoverStep
  BY <1>3, <1>11, <1>17 DEF FailoverStep
<1> QED
  BY <1>1, <1>14, <1>15, <1>16, <1>17 DEF Next

\* While the chip sleeps nothing but the alarm does anything.
LEMMA OnlyWakes ==
  ASSUME Counted, ~UnderWay, [Next]_vars
  PROVE  Wake \/ WakeMisreads \/ UNCHANGED vars
<1>1. /\ scheduler = "asleep" /\ measure = "wait" /\ sync = "wait" /\ failover = "wait"
      /\ notified = {} /\ ~request /\ attempts = 0
      /\ \A k \in Queue : calls[k] = {}
  <2>1. attempts \in Nat
    BY WakeCycleAssumption DEF Counted, Base, ControlTypes
  <2> QED
    BY <2>1 DEF Counted, Places, Positions, Calls, Asleep, UnderWay
<1>2. ASSUME NEW t \in Task, NEW k \in Queue, CallReturns(t, k) \/ CallFails(t, k) PROVE FALSE
  <2>1. PICK f : Return(t, k, f)
    BY <1>2 DEF CallReturns, CallFails
  <2> QED
    BY <1>1, <2>1 DEF Return
<1>3. ~MeasureStep
  BY <1>1, <1>2 DEF MeasureStep, MeasureWakes, MeasureBegins, SensorNotReady, PublishNotReady,
                    SensorRead, PublishSession, MeasureEnds, Task
<1>4. ~SyncStep
  <2>1. ~(\/ SyncWakes \/ SyncBegins \/ WarmupFails \/ WarmupSucceeds \/ EarlyCheck
          \/ \E d \in AttemptMinutes : OtaAttempt(d))
    BY <1>1 DEF SyncWakes, SyncBegins, WarmupFails, WarmupSucceeds, WarmupEnds, EarlyCheck, OtaAttempt
  <2>2. ~(OtaSucceeds \/ OtaEnds \/ FlushWaitEnds \/ SkipInvalid \/ SendSample \/ SendSampleFails)
    BY <1>1 DEF OtaSucceeds, OtaEnds, FlushWaitEnds, SkipInvalid, SendSample, SendSampleFails
  <2>3. ~(AckSample \/ DrainEnds \/ SendLog \/ SendLogFails \/ LogsEnd \/ SyncEnds)
    BY <1>1 DEF AckSample, DrainEnds, SendLog, SendLogFails, LogsEnd, SyncEnds
  <2> QED
    BY <1>2, <2>1, <2>2, <2>3 DEF SyncStep, Task
<1>5. ~FailoverStep
  BY <1>1, <1>2 DEF FailoverStep, FailoverReceives, FailoverStores, FailoverLogs, Task, Queue
<1>6. ~PowerFails /\ ~(Trigger \/ StopWaiting \/ DeepSleep)
  BY <1>1 DEF PowerFails, Trigger, StopWaiting, DeepSleep
<1> QED
  BY <1>3, <1>4, <1>5, <1>6 DEF Next, SchedulerStep, SchedulerRuns, Finished

LEMMA CountedLeft == Counted => StepsLeft \in Nat
BY DEF Counted, Ranks, Weights, StepsLeft

LEMMA CountedThen == (Counted => StepsLeft \in Nat)'
BY CountedLeft, PTL

LEMMA StartWithin == Counted /\ scheduler = "trigger" => WithinLimit
BY StartsWithin DEF WithinLimit

LEMMA StartThen == (Counted /\ scheduler = "trigger" => WithinLimit)'
BY StartWithin, PTL

LEMMA LimitStep ==
  ASSUME Counted, Counted', WithinLimit, [Next]_vars
  PROVE  UnderWay' => scheduler' = "trigger" \/ StepsLeft' \in 0 .. CycleLimit
<1> SUFFICES ASSUME UnderWay' PROVE scheduler' = "trigger" \/ StepsLeft' \in 0 .. CycleLimit
  OBVIOUS
<1>1. CASE ~UnderWay
  BY <1>1, OnlyWakes DEF Wake, WakeMisreads, UnderWay, vars
<1>2. CASE UnderWay
  <2>1. StepsLeft \in 0 .. CycleLimit /\ CycleLimit \in Nat
    <3>1. Capacity["measure"] \in Nat /\ Capacity["log"] \in Nat /\ MaxAttempts \in Nat
      BY WakeCycleAssumption DEF Queue
    <3> QED
      BY <1>2, <3>1 DEF WithinLimit, CycleLimit
  <2>2. CASE UNCHANGED vars
    <3>1. StepsLeft' = StepsLeft
      BY <2>2, Stills, StillMirrors DEF vars, mirrors, StepsLeft
    <3> QED
      BY <2>1, <3>1
  <2>3. CASE StepsLeft' < StepsLeft
    <3>1. StepsLeft' \in Nat
      BY CountedThen
    <3> QED
      BY <2>1, <2>3, <3>1
  <2> QED
    BY <1>2, <2>2, <2>3, StepLowers
<1> QED
  BY <1>1, <1>2

\* A cycle is short: from the trigger to deep sleep it is at most CycleLimit steps of all tasks
\* together, whatever fails, is retried or is handed to failover_task.  This is the part of
\* CycleEnds that needs no fairness.
THEOREM CyclesAreShort ==
  Spec => []WithinLimit /\ [][UnderWay /\ UnderWay' => StepsLeft' < StepsLeft]_vars
<1>1. Init => scheduler = "trigger"
  BY DEF Init
<1>2. Counted /\ WithinLimit /\ Counted' /\ [Next]_vars => WithinLimit'
  <2>1. UnderWay' /\ StepsLeft' \in 0 .. CycleLimit => WithinLimit'
    BY DEF WithinLimit, CycleLimit
  <2>2. ~UnderWay' => WithinLimit'
    BY DEF WithinLimit
  <2> QED
    BY <2>1, <2>2, LimitStep, StartThen
<1>3. Counted /\ Counted' /\ [Next]_vars => [UnderWay /\ UnderWay' => StepsLeft' < StepsLeft]_vars
  BY StepLowers
<1> QED
  BY <1>1, <1>2, <1>3, StartWithin, CountedInvariant, PTL DEF Spec

\* Nobody waits for ever: until the chip sleeps there is always a task that waits for no other,
\* though the scheduler waits for measure_task and sync_task, and sync_task for measure_task.
THEOREM SomebodyAlwaysMoves == Spec => [](UnderWay => SomebodyMoves)
<1>1. Init => Held
  BY DEF Init, Held
<1>2. Base /\ Places /\ Held /\ [Next]_vars => Held'
  BY HeldStep
<1>3. Base /\ Places /\ Held /\ UnderWay => SomebodyMoves
  BY DEF Base, ControlTypes, Places, Positions, Held, UnderWay, SomebodyMoves, Settled, Busy
<1> QED
  BY <1>1, <1>2, <1>3, PlacesInvariant, PTL DEF Spec

=============================================================================
