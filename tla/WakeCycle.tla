----------------------------- MODULE WakeCycle -----------------------------
(***************************************************************************)
(* One boot after another of the logger: scheduler_task notifies           *)
(* measure_task, and at the top of the hour sync_task; waits for their     *)
(* RUNNING bits to clear, within a budget; and puts the chip to deep       *)
(* sleep, which is a reset.  failover_task runs beside them and nobody     *)
(* waits for it.                                                           *)
(*                                                                         *)
(* The two mirrored queues do what PersistentQueue shows they may do (its  *)
(* RefinesDurableQueue): a call changes the RAM queue at once and flash    *)
(* when it returns; a reset inside it, or a write, flush or close that     *)
(* fails, leaves a prefix of the queue or what was there; two overlapping  *)
(* calls leave anything (torn); and a boot that cannot read brings back    *)
(* the oldest messages or none.                                            *)
(*                                                                         *)
(* Time is counted in minutes and only OTA downloads make it pass: all the *)
(* rest of a cycle is PreOtaMinutes (config.hpp puts it at about 3).       *)
(***************************************************************************)
EXTENDS Naturals, Sequences, FiniteSets, SequencesExt

CONSTANTS
  MaxBoots,         (* bound: the cycles explored                          *)
  Capacity,         (* [measure, log]: kMeasureQueueLen, kLogQueueLen      *)
  AwakeBudget,      (* kAwakeBudgetMs, in minutes                          *)
  OtaAwakeBudget,   (* kOtaAwakeBudgetMs, in minutes                       *)
  PreOtaMinutes,    (* the cycle before an OTA download, in minutes        *)
  AttemptMinutes,   (* how long a download attempt may take                *)
  MaxAttempts,      (* kOtaMaxAttempts                                     *)
  SendInvalid,      (* the pressure build also sends invalid samples       *)
  MaxTrouble        (* bound: power failures, failed snapshots, written or *)
                    (* read, and slow measurements in one behaviour        *)

Queue == {"measure", "log"}
Task == {"measure", "sync", "failover"}

ASSUME WakeCycleAssumption ==
  /\ MaxBoots \in Nat \ {0}
  /\ Capacity \in [Queue -> Nat \ {0}]
  /\ AwakeBudget \in Nat \ {0} /\ OtaAwakeBudget \in Nat
  /\ PreOtaMinutes \in Nat /\ AttemptMinutes \subseteq Nat /\ MaxAttempts \in Nat
  /\ SendInvalid \in BOOLEAN /\ MaxTrouble \in Nat

VARIABLES
  boot,       (* the cycle under way; also the time stamp of its sample    *)
  awake,      (* minutes since the scheduler began to wait                 *)
  scheduler, measure, sync, failover,    (* where each task is             *)
  notified,   (* tasks with a notification pending                         *)
  bits,       (* the bits of AppState that a task waits for                *)
  queue,      (* both RAM queues                                           *)
  flash,      (* both snapshots, as the last call to return left them      *)
  calls,      (* the tasks inside enqueue or ack of each mirror            *)
  torn,       (* since boot, two calls on this mirror overlapped           *)
  request,    (* failover_q holds a request                                *)
  attempts,   (* OTA download attempts made by the checkAndUpdate running  *)
  delivered,  (* history: the samples the server accepted, in order        *)
  accepted,   (* history: the samples publishMeasurement queued            *)
  refused,    (* history: samples dropped: queue full, or invalid          *)
  failures,   (* history: power failures so far                            *)
  glitches,   (* history: snapshots that failed so far, heard of or not    *)
  overtaken   (* history: measurements that sync_task did not wait for     *)

tasks == <<scheduler, measure, sync, failover, notified>>
mirrors == <<queue, flash, calls, torn>>
net == <<request, attempts>>
troubles == <<failures, glitches, overtaken>>
history == <<delivered, accepted, refused, troubles>>
vars == <<boot, awake, scheduler, measure, sync, failover, notified, bits, queue, flash, calls,
          torn, request, attempts, delivered, accepted, refused, failures, glitches, overtaken>>

\* A measurement of cycle b, and the two kinds of log.
Sample(b, valid) == [at |-> b, valid |-> valid]
Content(k) == IF k = "measure" THEN [at : 1 .. MaxBoots, valid : BOOLEAN]
                               ELSE {"session", "swap"}

Init ==
  /\ boot = 1 /\ awake = 0
  /\ scheduler = "trigger" /\ measure = "wait" /\ sync = "wait" /\ failover = "wait"
  /\ notified = {}
  /\ bits = {}
  /\ queue = [k \in Queue |-> <<>>]
  /\ flash = [k \in Queue |-> <<>>]
  /\ calls = [k \in Queue |-> {}]
  /\ torn = [k \in Queue |-> FALSE]
  /\ request = FALSE /\ attempts = 0
  /\ delivered = <<>> /\ accepted = {} /\ refused = {}
  /\ failures = 0 /\ glitches = 0 /\ overtaken = 0

-----------------------------------------------------------------------------
(* The message bus.                                                        *)

\* The bound on what goes wrong is not yet reached.
MayFail == failures + glitches + overtaken < MaxTrouble

Free(t) == \A k \in Queue : t \notin calls[k]

\* A call by t on mirror k has changed the RAM queue to s.
Enter(t, k, s) ==
  /\ queue' = [queue EXCEPT ![k] = s]
  /\ calls' = [calls EXCEPT ![k] = @ \cup {t}]
  /\ torn' = [torn EXCEPT ![k] = @ \/ calls[k] # {}]
  /\ UNCHANGED flash

\* Mutated: xQueueSendToFront.
Publish_Front(t, k, x) ==
  IF Len(queue[k]) < Capacity[k] THEN Enter(t, k, <<x>> \o queue[k]) ELSE UNCHANGED mirrors

\* enqueue: a full queue refuses the message and nothing else happens.
Publish(t, k, x) ==
  IF Len(queue[k]) < Capacity[k] THEN Enter(t, k, Append(queue[k], x)) ELSE UNCHANGED mirrors

\* publishMeasurement of this cycle's sample.
PublishSample(valid) ==
  /\ Publish("measure", "measure", Sample(boot, valid))
  /\ IF Len(queue["measure"]) < Capacity["measure"]
     THEN accepted' = accepted \cup {boot} /\ UNCHANGED refused
     ELSE refused' = refused \cup {boot} /\ UNCHANGED accepted
  /\ UNCHANGED <<delivered, troubles>>

Ack(k) == Enter("sync", k, Tail(queue[k]))

\* The messages that overlapping calls may mix up.
AtHand(k) == ToSet(queue[k]) \cup ToSet(flash[k])

\* What the calls under way on mirror k may leave on flash if they get no further.
Unfinished(k) ==
  IF torn[k] THEN SeqOf(AtHand(k), Capacity[k])
  ELSE {flash[k]} \cup IF calls[k] = {} THEN {}
                       ELSE {SubSeq(queue[k], 1, n) : n \in 0 .. Len(queue[k])}

Return(t, k, contents) ==
  /\ t \in calls[k]
  /\ calls' = [calls EXCEPT ![k] = @ \ {t}]
  /\ flash' = [flash EXCEPT ![k] = contents]
  /\ UNCHANGED <<boot, awake, tasks, bits, queue, torn, net, delivered, accepted, refused, failures,
                 overtaken>>

\* The whole snapshot is written: enqueue or ack returns.
CallReturns(t, k) == Return(t, k, queue[k]) /\ UNCHANGED glitches

\* fopen, fwrite, the last fflush or fclose failed.  Of the last two enqueue and ack know
\* nothing; of the first two they tell callers that do not look at it.
CallFails(t, k) ==
  /\ MayFail
  /\ glitches' = glitches + 1
  /\ \E f \in Unfinished(k) : Return(t, k, f)

\* Everything in RAM is gone and the chip is off, or starting again: MessageBus::init is to fill
\* the queues with what is on flash.
ResetChip ==
  /\ scheduler' = "asleep"
  /\ measure' = "wait" /\ sync' = "wait" /\ failover' = "wait"
  /\ notified' = {} /\ bits' = {} /\ awake' = 0
  /\ \E m \in Unfinished("measure"), l \in Unfinished("log") :
       flash' = [k \in Queue |-> IF k = "measure" THEN m ELSE l]
  /\ queue' = flash'
  /\ calls' = [k \in Queue |-> {}]
  /\ torn' = [k \in Queue |-> FALSE]
  /\ request' = FALSE /\ attempts' = 0
  /\ UNCHANGED <<boot, delivered, accepted, refused, glitches>>

-----------------------------------------------------------------------------
(* scheduler_task.                                                         *)

\* measure every cycle; sync as well when the RTC reads minute 0.
Trigger ==
  /\ scheduler = "trigger"
  /\ \E top \in BOOLEAN : notified' = IF top THEN {"measure", "sync"} ELSE {"measure"}
  /\ scheduler' = "poll"
  /\ UNCHANGED <<boot, awake, measure, sync, failover, bits, mirrors, net, history>>

\* measure_task sets its bit as soon as it is notified, long before the 100 ms are over that
\* the scheduler waits.  sync_task reads the RTC first, and may be late.
Settled == "measure" \notin notified /\ measure # "begin"

\* Mutated: busy_mask without BIT_MEASURE_RUNNING.
Busy_NotMeasure == {"SYNC_RUNNING", "OTA_RUNNING"} \cap bits

Busy == {"MEASURE_RUNNING", "SYNC_RUNNING", "OTA_RUNNING"} \cap bits

Budget == IF "OTA_RUNNING" \in bits THEN OtaAwakeBudget ELSE AwakeBudget

\* The slowest sensor is done in four minutes, long before either budget is spent.
BudgetSpent == awake >= Budget /\ "MEASURE_RUNNING" \notin bits

\* Work done, or the budget is spent: leave the loop, read the time, set the alarm.
StopWaiting ==
  /\ scheduler = "poll"
  /\ Settled
  /\ Busy = {} \/ BudgetSpent
  /\ scheduler' = "arm"
  /\ UNCHANGED <<boot, awake, measure, sync, failover, notified, bits, mirrors, net, history>>

DeepSleep ==
  /\ scheduler = "arm"
  /\ ResetChip
  /\ UNCHANGED <<failures, overtaken>>

\* The RTC alarm pulls INT low and the chip boots.  It may never do: nobody looks at what
\* setMinuteAlarm returned.
Wake ==
  /\ scheduler = "asleep"
  /\ boot < MaxBoots
  /\ boot' = boot + 1
  /\ scheduler' = "trigger"
  /\ UNCHANGED <<awake, measure, sync, failover, notified, bits, mirrors, net, history>>

\* What is read of snapshot k when a read fails; nothing, when the file does not open.
Unread(k) == {SubSeq(flash[k], 1, n) : n \in 0 .. Len(flash[k])}

\* The boot does not read all of both snapshots, or formats a file system it cannot mount.
WakeMisreads ==
  /\ scheduler = "asleep"
  /\ boot < MaxBoots
  /\ MayFail
  /\ \E m \in Unread("measure"), l \in Unread("log") :
       queue' = [k \in Queue |-> IF k = "measure" THEN m ELSE l]
  /\ flash' \in {flash, [k \in Queue |-> <<>>]}
  /\ flash' = flash \/ queue' = flash'
  /\ boot' = boot + 1
  /\ scheduler' = "trigger"
  /\ glitches' = glitches + 1
  /\ UNCHANGED <<awake, measure, sync, failover, notified, bits, calls, torn, net, delivered, accepted,
                 refused, failures, overtaken>>

\* The bound on cycles is reached.
Finished ==
  /\ scheduler = "asleep"
  /\ boot = MaxBoots
  /\ UNCHANGED vars

PowerFails ==
  /\ MayFail
  /\ scheduler # "asleep"
  /\ ResetChip
  /\ failures' = failures + 1
  /\ UNCHANGED overtaken

-----------------------------------------------------------------------------
(* measure_task.                                                           *)

\* A measurement does not start while an OTA download is marked as running.
MeasureWakes ==
  /\ measure = "wait"
  /\ "measure" \in notified
  /\ notified' = notified \ {"measure"}
  /\ measure' = IF "OTA_RUNNING" \in bits THEN "wait" ELSE "begin"
  /\ UNCHANGED <<boot, awake, scheduler, sync, failover, bits, mirrors, net, history>>

MeasureBegins ==
  /\ measure = "begin"
  /\ bits' = bits \cup {"MEASURE_RUNNING"}
  /\ measure' = "sense"
  /\ UNCHANGED <<boot, awake, scheduler, sync, failover, notified, mirrors, net, history>>

\* ensureReady failed: the log goes first, then an invalid sample.
SensorNotReady ==
  /\ measure = "sense"
  /\ Publish("measure", "log", "session")
  /\ measure' = "sample"
  /\ UNCHANGED <<boot, awake, scheduler, sync, failover, notified, bits, net, history>>

PublishNotReady ==
  /\ measure = "sample"
  /\ Free("measure")
  /\ PublishSample(FALSE)
  /\ measure' = "done"
  /\ UNCHANGED <<boot, awake, scheduler, sync, failover, notified, bits, net>>

\* Mutated: the bit is cleared as soon as the sensor is done with.
SensorRead_ClearsRunning(ok) ==
  /\ measure = "sense"
  /\ bits' = bits \ {"MEASURE_RUNNING"}
  /\ PublishSample(ok)
  /\ measure' = "log"
  /\ UNCHANGED <<boot, awake, scheduler, sync, failover, notified, net>>

\* read3 returned: the sample goes first, then the log.
SensorRead(ok) ==
  /\ measure = "sense"
  /\ PublishSample(ok)
  /\ measure' = "log"
  /\ UNCHANGED <<boot, awake, scheduler, sync, failover, notified, bits, net>>

PublishSession ==
  /\ measure = "log"
  /\ Free("measure")
  /\ Publish("measure", "log", "session")
  /\ measure' = "done"
  /\ UNCHANGED <<boot, awake, scheduler, sync, failover, notified, bits, net, history>>

MeasureEnds ==
  /\ measure = "done"
  /\ Free("measure")
  /\ bits' = bits \ {"MEASURE_RUNNING"}
  /\ measure' = "wait"
  /\ UNCHANGED <<boot, awake, scheduler, sync, failover, notified, mirrors, net, history>>

-----------------------------------------------------------------------------
(* sync_task.                                                              *)

SyncWakes ==
  /\ sync = "wait"
  /\ "sync" \in notified
  /\ notified' = notified \ {"sync"}
  /\ sync' = "read"
  /\ UNCHANGED <<boot, awake, scheduler, measure, failover, bits, mirrors, net, history>>

\* Mutated: BIT_SYNC_RUNNING is not set.
SyncBegins_NoBit ==
  /\ sync = "read"
  /\ sync' \in {"warmup", "wait"}
  /\ UNCHANGED <<boot, awake, scheduler, measure, failover, notified, bits, mirrors, net, history>>

\* An RTC that cannot be read costs the cycle its sync.
SyncBegins ==
  /\ sync = "read"
  /\ \/ sync' = "warmup" /\ bits' = bits \cup {"SYNC_RUNNING"}
     \/ sync' = "wait" /\ UNCHANGED bits
  /\ UNCHANGED <<boot, awake, scheduler, measure, failover, notified, mirrors, net, history>>

\* Powering a module on takes seconds, setting the alarm and going to sleep a fraction of one:
\* a warm-up that began too late to be seen by the scheduler never ends.
WarmupEnds == sync = "warmup" /\ scheduler = "poll"

\* xQueueOverwrite on failover_q: the latest request replaces an unread one.
AskFailover == request' = TRUE

\* Both modules failed: the preferred one is to be given up, and the sync is over.
WarmupFails ==
  /\ WarmupEnds
  /\ AskFailover
  /\ bits' = bits \ {"SYNC_RUNNING"}
  /\ sync' = "wait"
  /\ UNCHANGED <<boot, awake, scheduler, measure, failover, notified, mirrors, attempts, history>>

\* A module came online.
WarmupSucceeds ==
  /\ WarmupEnds
  /\ sync' = "early"
  /\ UNCHANGED <<boot, awake, scheduler, measure, failover, notified, bits, mirrors, net, history>>

\* After the time sync, the early version check: an update goes before the data.
EarlyCheck ==
  /\ sync = "early"
  /\ \/ sync' = "ota" /\ bits' = bits \cup {"OTA_RUNNING"}
     \/ sync' = "flush" /\ UNCHANGED bits
  /\ UNCHANGED <<boot, awake, scheduler, measure, failover, notified, mirrors, net, history>>

\* A new version is there and a download attempt runs, for d minutes.
OtaAttempt(d) ==
  /\ sync \in {"ota", "late"}
  /\ attempts < MaxAttempts
  /\ attempts' = attempts + 1
  /\ awake' = IF attempts = 0 THEN PreOtaMinutes + d ELSE awake + d
  /\ UNCHANGED <<boot, tasks, bits, mirrors, request, history>>

\* sync_task does not wait, or no longer, for a measurement that may still be running.
GoesAhead ==
  IF "MEASURE_RUNNING" \in bits THEN MayFail /\ overtaken' = overtaken + 1 ELSE UNCHANGED overtaken

\* esp_restart into the new image; it waits for no task.
OtaSucceeds ==
  /\ attempts > 0
  /\ GoesAhead
  /\ ResetChip
  /\ UNCHANGED failures

\* No update, or every attempt failed.
OtaEnds ==
  /\ sync \in {"ota", "late"}
  /\ attempts \in {0, MaxAttempts}
  /\ attempts' = 0
  /\ bits' = bits \ {"OTA_RUNNING"}
  /\ sync' = "off"
  /\ UNCHANGED <<boot, awake, scheduler, measure, failover, notified, mirrors, request, history>>

\* Mutated: sync_task does not wait for the measurement.
FlushWaitEnds_AtOnce ==
  /\ sync = "flush"
  /\ sync' = "drain"
  /\ UNCHANGED <<boot, awake, scheduler, measure, failover, notified, bits, mirrors, net, history>>

\* Wait for the measurement of this cycle, up to kMeasureFlushWaitMs.  (measure_task has the
\* higher priority and has long set its bit: warming up a module takes seconds.)
FlushWaitEnds ==
  /\ sync = "flush"
  /\ Settled
  /\ GoesAhead
  /\ sync' = "drain"
  /\ UNCHANGED <<boot, awake, scheduler, measure, failover, notified, bits, mirrors, net, delivered,
                 accepted, refused, failures, glitches>>

\* An invalid sample is taken off the queue unsent.
SkipInvalid ==
  /\ sync = "drain"
  /\ Free("sync")
  /\ ~SendInvalid
  /\ queue["measure"] # <<>>
  /\ ~Head(queue["measure"]).valid
  /\ Ack("measure")
  /\ refused' = refused \cup {Head(queue["measure"]).at}
  /\ UNCHANGED <<boot, awake, tasks, bits, net, delivered, accepted, troubles>>

\* Mutated: the drain goes on after a failed send.
SendFails_TriesAgain(next) ==
  /\ AskFailover
  /\ UNCHANGED <<boot, awake, scheduler, measure, sync, failover, notified, bits, mirrors, attempts,
                 history>>

\* All the retries of a send failed: ask for the other module, leave the item queued.
SendFails(next) ==
  /\ AskFailover
  /\ sync' = next
  /\ UNCHANGED <<boot, awake, scheduler, measure, failover, notified, bits, mirrors, attempts,
                 history>>

Sendable == queue["measure"] # <<>> /\ (SendInvalid \/ Head(queue["measure"]).valid)

SendSample ==
  /\ sync = "drain"
  /\ Free("sync")
  /\ Sendable
  /\ delivered' = Append(delivered, Head(queue["measure"]).at)
  /\ sync' = "ack"
  /\ UNCHANGED <<boot, awake, scheduler, measure, failover, notified, bits, mirrors, net,
                 accepted, refused, troubles>>

SendSampleFails ==
  /\ sync = "drain"
  /\ Free("sync")
  /\ Sendable
  /\ SendFails("logs")

AckSample ==
  /\ sync = "ack"
  /\ Ack("measure")
  /\ sync' = "drain"
  /\ UNCHANGED <<boot, awake, scheduler, measure, failover, notified, bits, net, history>>

\* The queue is empty or the sync window is over.
DrainEnds ==
  /\ sync = "drain"
  /\ Free("sync")
  /\ sync' = "logs"
  /\ UNCHANGED <<boot, awake, scheduler, measure, failover, notified, bits, mirrors, net, history>>

\* A log was sent and is acked; what the server made of it is not recorded here.
SendLog ==
  /\ sync = "logs"
  /\ Free("sync")
  /\ queue["log"] # <<>>
  /\ Ack("log")
  /\ UNCHANGED <<boot, awake, tasks, bits, net, history>>

SendLogFails ==
  /\ sync = "logs"
  /\ Free("sync")
  /\ queue["log"] # <<>>
  /\ SendFails("late")

LogsEnd ==
  /\ sync = "logs"
  /\ Free("sync")
  /\ sync' = "late"
  /\ UNCHANGED <<boot, awake, scheduler, measure, failover, notified, bits, mirrors, net, history>>

\* Power off the module.
SyncEnds ==
  /\ sync = "off"
  /\ bits' = bits \ {"SYNC_RUNNING"}
  /\ sync' = "wait"
  /\ UNCHANGED <<boot, awake, scheduler, measure, failover, notified, mirrors, net, history>>

-----------------------------------------------------------------------------
(* failover_task.                                                          *)

FailoverReceives ==
  /\ failover = "wait"
  /\ Free("failover")
  /\ request
  /\ request' = FALSE
  /\ failover' = "store"
  /\ UNCHANGED <<boot, awake, scheduler, measure, sync, notified, bits, mirrors, attempts, history>>

\* The other module is now the preferred one, in NVS.
FailoverStores ==
  /\ failover = "store"
  /\ failover' = "log"
  /\ UNCHANGED <<boot, awake, scheduler, measure, sync, notified, bits, mirrors, net, history>>

FailoverLogs ==
  /\ failover = "log"
  /\ Publish("failover", "log", "swap")
  /\ failover' = "wait"
  /\ UNCHANGED <<boot, awake, scheduler, measure, sync, notified, bits, net, history>>

-----------------------------------------------------------------------------

SchedulerRuns == Trigger \/ StopWaiting \/ DeepSleep

SchedulerStep == SchedulerRuns \/ Wake \/ WakeMisreads

MeasureStep ==
  \/ MeasureWakes \/ MeasureBegins \/ SensorNotReady \/ PublishNotReady
  \/ \E ok \in BOOLEAN : SensorRead(ok)
  \/ PublishSession \/ MeasureEnds
  \/ \E k \in Queue : CallReturns("measure", k) \/ CallFails("measure", k)

SyncStep ==
  \/ SyncWakes \/ SyncBegins \/ WarmupFails \/ WarmupSucceeds
  \/ EarlyCheck \/ \E d \in AttemptMinutes : OtaAttempt(d)
  \/ OtaSucceeds \/ OtaEnds
  \/ FlushWaitEnds \/ SkipInvalid \/ SendSample \/ SendSampleFails \/ AckSample \/ DrainEnds
  \/ SendLog \/ SendLogFails \/ LogsEnd \/ SyncEnds
  \/ \E k \in Queue : CallReturns("sync", k) \/ CallFails("sync", k)

FailoverStep ==
  \/ FailoverReceives \/ FailoverStores \/ FailoverLogs
  \/ CallReturns("failover", "log") \/ CallFails("failover", "log")

Next == SchedulerStep \/ MeasureStep \/ SyncStep \/ FailoverStep \/ PowerFails \/ Finished

Spec == Init /\ [][Next]_vars

\* Every task gets to run, and no call hangs: sends, downloads and AT commands time out.  A chip
\* that sleeps need not wake up.
FairSpec == Spec /\ WF_vars(SchedulerRuns) /\ WF_vars(MeasureStep) /\ WF_vars(SyncStep)

-----------------------------------------------------------------------------
(* Properties.                                                             *)

Bits == {"SYNC_RUNNING", "OTA_RUNNING", "MEASURE_RUNNING"}

\* Type invariant: the shape of the state, and both queues within their lengths.
TypeOK ==
  /\ boot \in 1 .. MaxBoots /\ awake \in Nat
  /\ scheduler \in {"trigger", "poll", "arm", "asleep"}
  /\ measure \in {"wait", "begin", "sense", "sample", "log", "done"}
  /\ sync \in {"wait", "read", "warmup", "early", "ota", "flush", "drain", "ack", "logs", "late", "off"}
  /\ failover \in {"wait", "store", "log"}
  /\ notified \subseteq {"measure", "sync"}
  /\ bits \subseteq Bits
  /\ DOMAIN queue = Queue /\ DOMAIN flash = Queue
  /\ \A k \in Queue : \A q \in {queue[k], flash[k]} :
       q \in Seq(Content(k)) /\ Len(q) <= Capacity[k]
  /\ calls \in [Queue -> SUBSET Task]
  /\ torn \in [Queue -> BOOLEAN]
  /\ request \in BOOLEAN
  /\ delivered \in Seq(1 .. MaxBoots) /\ accepted \subseteq 1 .. MaxBoots
  /\ refused \subseteq 1 .. MaxBoots
  /\ attempts \in 0 .. MaxAttempts /\ failures \in Nat /\ glitches \in Nat /\ overtaken \in Nat

InQueue(b) == \E i \in DOMAIN queue["measure"] : queue["measure"][i].at = b
Delivered(b) == \E i \in DOMAIN delivered : delivered[i] = b

\* Nothing has gone wrong that can reach the measurement queue: no call on it was cut short or
\* failed, and sync_task has not run beside a measurement.
Untroubled == failures = 0 /\ glitches = 0 /\ overtaken = 0

\* Whatever resets come between, samples reach the server in the order they were taken.
InOrder ==
  glitches = 0 /\ overtaken = 0 => \A i, j \in DOMAIN delivered : i < j => delivered[i] <= delivered[j]

\* A sample arrives twice only by a reset between its send and the end of its ack
\* (sync_task.cpp:266-275), or by an ack whose snapshot failed: deep sleep and the OTA restart
\* never come there, and one failure repeats one sample.
RepeatsBounded ==
  overtaken = 0 => Cardinality({i \in DOMAIN delivered : \E j \in 1 .. i - 1 : delivered[j] = delivered[i]})
             <= failures + glitches

\* Unless a measurement is overtaken, storage fails or power is lost, no sample that was queued
\* is lost: it was delivered, it waits in the queue, or it was invalid and skipped; across deep
\* sleeps, budget overruns, OTA restarts.
NothingLost ==
  Untroubled => \A b \in accepted : Delivered(b) \/ InQueue(b) \/ b \in refused

\* The flush wait (sync_task.cpp:215-226) does its job: unless it has timed out, this cycle's
\* sample has been published when the drain begins.
TopOfHourIncluded == sync = "drain" /\ overtaken = 0 => boot \in accepted \cup refused

\* measure_task and sync_task are never inside the same mirror at once, though nothing locks
\* it: the flush wait is all that keeps their calls apart.  (failover_task is not kept apart
\* from either of them on the log mirror.)
MirrorsApart ==
  overtaken = 0 => /\ ~torn["measure"]
                   /\ ~({"measure", "sync"} \subseteq calls["log"])

\* Every cycle that begins ends in deep sleep, whatever fails on the way; and but for downloads,
\* which may outlast it, without the awake budget: the tasks come to an end by themselves.
CycleEnds == scheduler = "trigger" ~> scheduler = "asleep"

=============================================================================
