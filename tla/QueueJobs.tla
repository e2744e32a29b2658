------------------------------- MODULE QueueJobs ------------------------------
(***************************************************************************)
(* The two queue consumers (queue_sqs.rs, queue_rabbitmq.rs) in front of   *)
(* the S3 job worker.  The job id is the message id, so that deliveries of *)
(* one message are runs of one job.                                        *)
(*                                                                         *)
(* SQS counts receives and shows a message again when its visibility       *)
(* timeout is over, whether or not the first receiver is still at work; it *)
(* dead-letters a message received too often, if the consumer managed to   *)
(* set the redrive policy up.  The consumer deletes a message that         *)
(* succeeded or was received MaxTries times; deleting may fail.            *)
(*                                                                         *)
(* RabbitMQ keeps a delivery unacknowledged until the consumer acks it or  *)
(* the channel is lost.  The consumer publishes a failed message anew, to  *)
(* the retry queue or the dead-letter queue, and then acks the original:   *)
(* losing the channel in between leaves two copies.  After losing it the   *)
(* consumer returns and nothing starts it again but a new process.         *)
(***************************************************************************)
EXTENDS S3Job

CONSTANTS MaxTries,    \* SQS_MAX_RECEIVE_ATTEMPTS, RABBITMQ_MAX_RETRIES
          MaxOverlap,  \* bound: runs of one SQS message at once
          MaxLosses    \* bound: lost channels and restarts

ASSUME QueueAssumption == MaxTries \in Nat \ {0} /\ MaxLosses \in Nat

VARIABLES
  copy,       \* the copies of a message in its broker: where, and its count
  completed,  \* history: the jobs counted in QueueMetrics.completed
  failures,   \* history: per job, failed runs as counted in QueueMetrics.failed
  link,       \* the RabbitMQ consumer has its channel
  losses,     \* how often it lost the channel or the process stopped
  redrive     \* ensure_redrive_policy succeeded

queueVars == <<copy, completed, failures, link, losses, redrive>>
vars == <<workerVars, queueVars>>

Via(broker) == {j \in Jobs : conf[j].via = broker}
Messages    == Via("sqs") \cup Via("rabbitmq")

(* "out": received and hidden (SQS), delivered and unacknowledged (RabbitMQ). *)
Copy   == [at : {"none", "queue", "out", "retry", "dlq"}, tries : 0..MaxTries]
NoCopy == [at |-> "none", tries |-> 0]
Gone(j) == \A s \in Slots : copy[j, s].at = "none"
Capped(n) == IF n <= MaxTries THEN n ELSE MaxTries

QueueInit ==
  /\ WorkerInit
  /\ copy = [r \in Runs |-> IF Id(r) \in Messages /\ r[2] = 1
                            THEN [NoCopy EXCEPT !.at = "queue"] ELSE NoCopy]
  /\ completed = {}
  /\ failures = [j \in Jobs |-> 0]
  /\ link = TRUE
  /\ losses = 0
  /\ redrive \in IF Via("sqs") = {} THEN {FALSE} ELSE BOOLEAN

Move(r, place)  == copy' = [copy EXCEPT ![r].at = place]
CountFailure(j) == failures' = [failures EXCEPT ![j] = Capped(@ + 1)]
Lowest(S)       == {s \in S : \A t \in S : s <= t}
Finished(r)     == run' = [run EXCEPT ![r] = Idle]
KeepWorker      == UNCHANGED <<conf, bucket, row, spool, staged>>

------------------------------------------------------------------------------
(* The S3 worker, and the jobs that come over HTTP.                         *)

Work   == \E r \in Runs : RunStep(r) /\ UNCHANGED queueVars
Direct == \E j \in Jobs : SubmitDirect(j) /\ UNCHANGED queueVars

------------------------------------------------------------------------------
(* SQS: one copy of a message, and as many runs as it was received.         *)

Sqs(j) == <<j, 1>>
MaxedOut_never(j) == FALSE
MaxedOut(j) == redrive /\ copy[Sqs(j)].tries = MaxTries

SqsReceive(j) ==
  LET n    == Capped(copy[Sqs(j)].tries + 1)
      free == {s \in Slots : At(<<j, s>>, "idle")} IN
  /\ j \in Via("sqs") /\ copy[Sqs(j)].at = "queue" /\ ~MaxedOut(j)
  /\ Cardinality(Slots \ free) < MaxOverlap
  /\ copy' = [copy EXCEPT ![Sqs(j)] = [at |-> "out", tries |-> n]]
  /\ \E s \in Lowest(free) : Submit(<<j, s>>, n)
  /\ UNCHANGED <<completed, failures, link, losses, redrive>>

SqsDeadLetter(j) ==
  /\ j \in Via("sqs") /\ copy[Sqs(j)].at = "queue" /\ MaxedOut(j)
  /\ Move(Sqs(j), "dlq")
  /\ UNCHANGED <<workerVars, completed, failures, link, losses, redrive>>

SqsVisible(j) ==
  /\ j \in Via("sqs") /\ copy[Sqs(j)].at = "out"
  /\ Move(Sqs(j), "queue")
  /\ UNCHANGED <<workerVars, completed, failures, link, losses, redrive>>

(* delete_message: best effort, and a receipt of an earlier delivery may be *)
(* void.                                                                    *)
DeleteMessage(j) ==
  copy' \in {copy} \cup IF copy[Sqs(j)].at \in {"queue", "out"}
                        THEN {[copy EXCEPT ![Sqs(j)].at = "none"]} ELSE {}

SqsSettle(r) ==
  /\ Id(r) \in Via("sqs")
  /\ \/ /\ At(r, "ok")
        /\ completed' = completed \cup {Id(r)}
        /\ DeleteMessage(Id(r))
        /\ UNCHANGED failures
     \/ /\ At(r, "err")
        /\ CountFailure(Id(r))
        /\ IF run[r].tries >= MaxTries THEN DeleteMessage(Id(r)) ELSE UNCHANGED copy
        /\ UNCHANGED completed
     \/ /\ At(r, "poison")
        /\ DeleteMessage(Id(r))
        /\ UNCHANGED <<completed, failures>>
  /\ Finished(r)
  /\ KeepWorker /\ UNCHANGED <<link, losses, redrive>>

------------------------------------------------------------------------------
(* RabbitMQ: a run per delivered copy.                                      *)

Deliver(r) ==
  /\ Id(r) \in Via("rabbitmq") /\ link /\ copy[r].at = "queue"
  /\ Move(r, "out")
  /\ Submit(r, copy[r].tries)
  /\ UNCHANGED <<completed, failures, link, losses, redrive>>

Target_always(r) == IF At(r, "poison") THEN "dlq" ELSE "retry"
Target_early(r) == IF At(r, "poison") \/ run[r].tries + 2 >= MaxTries THEN "dlq" ELSE "retry"
Target(r) == IF At(r, "poison") \/ run[r].tries + 1 >= MaxTries THEN "dlq" ELSE "retry"

Publish_unchecked(r) ==
  /\ Id(r) \in Via("rabbitmq") /\ run[r].pc \in {"err", "poison"} /\ link
  /\ IF At(r, "err") THEN CountFailure(Id(r)) ELSE UNCHANGED failures
  /\ Goto(r, "ack")
  /\ KeepWorker /\ UNCHANGED <<copy, completed, link, losses, redrive>>

(* A failed message goes out again under the count it came with: the broker *)
(* counts when it takes the message from the retry queue.  The copies of    *)
(* one message in the dead-letter queue are not told apart.                 *)
Publish(r) ==
  /\ Id(r) \in Via("rabbitmq") /\ run[r].pc \in {"err", "poison"} /\ link
  /\ LET same == {s \in Slots : Target(r) = "dlq" /\ copy[Id(r), s].at = "dlq"}
         free == IF same # {} THEN same ELSE {s \in Slots : copy[Id(r), s].at = "none"} IN
     \E f \in Lowest(free) :
        copy' = [copy EXCEPT ![<<Id(r), f>>] = [at |-> Target(r), tries |-> run[r].tries]]
  /\ IF At(r, "err") THEN CountFailure(Id(r)) ELSE UNCHANGED failures
  /\ Goto(r, "ack")
  /\ KeepWorker /\ UNCHANGED <<completed, link, losses, redrive>>

Ack_requeues(r) ==
  /\ Id(r) \in Via("rabbitmq") /\ run[r].pc \in {"ok", "ack"} /\ link
  /\ copy' = [copy EXCEPT ![r] = IF At(r, "ok") THEN NoCopy ELSE [@ EXCEPT !.at = "queue"]]
  /\ completed' = IF At(r, "ok") THEN completed \cup {Id(r)} ELSE completed
  /\ Finished(r)
  /\ KeepWorker /\ UNCHANGED <<failures, link, losses, redrive>>

Ack(r) ==
  /\ Id(r) \in Via("rabbitmq") /\ run[r].pc \in {"ok", "ack"} /\ link
  /\ copy' = [copy EXCEPT ![r] = NoCopy]
  /\ completed' = IF At(r, "ok") THEN completed \cup {Id(r)} ELSE completed
  /\ Finished(r)
  /\ KeepWorker /\ UNCHANGED <<failures, link, losses, redrive>>

(* Without the channel the handler counts its job and gives up.             *)
Abandon(r) ==
  /\ Id(r) \in Via("rabbitmq") /\ run[r].pc \in Results /\ ~link
  /\ completed' = IF At(r, "ok") THEN completed \cup {Id(r)} ELSE completed
  /\ IF At(r, "err") THEN CountFailure(Id(r)) ELSE UNCHANGED failures
  /\ Finished(r)
  /\ KeepWorker /\ UNCHANGED <<copy, link, losses, redrive>>

(* The time-to-live is over: back to the work queue.                        *)
Expire(r) ==
  /\ Id(r) \in Via("rabbitmq") /\ copy[r].at = "retry"
  /\ copy' = [copy EXCEPT ![r] = [at |-> "queue", tries |-> @.tries + 1]]
  /\ UNCHANGED <<workerVars, completed, failures, link, losses, redrive>>

------------------------------------------------------------------------------
(* The broker takes unacknowledged deliveries back, their counts unchanged. *)

Requeue ==
  copy' = [r \in Runs |-> IF Id(r) \in Via("rabbitmq") /\ copy[r].at = "out"
                          THEN [copy[r] EXCEPT !.at = "queue"] ELSE copy[r]]

LoseChannel ==
  /\ link /\ losses < MaxLosses /\ Via("rabbitmq") # {}
  /\ link' = FALSE
  /\ losses' = losses + 1
  /\ Requeue
  /\ UNCHANGED <<workerVars, completed, failures, redrive>>

Restart ==
  /\ losses < MaxLosses
  /\ losses' = losses + 1
  /\ link' = TRUE
  /\ Requeue
  /\ StopRuns
  /\ UNCHANGED <<completed, failures, redrive>>

Next ==
  \/ Work \/ Direct
  \/ \E r \in Runs : \/ SqsSettle(r)
                     \/ Deliver(r) \/ Publish(r) \/ Ack(r) \/ Abandon(r) \/ Expire(r)
  \/ \E j \in Jobs : SqsReceive(j) \/ SqsDeadLetter(j) \/ SqsVisible(j)
  \/ LoseChannel \/ Restart

(* A handler's task goes on to its end; the consumers take what the broker  *)
(* offers and the brokers' timers run out.                                  *)
Handle(r) == \/ RunStep(r) /\ UNCHANGED queueVars
             \/ SqsSettle(r) \/ Publish(r) \/ Ack(r) \/ Abandon(r)
Fairness ==
  /\ \A r \in Runs : WF_vars(Handle(r)) /\ WF_vars(Deliver(r) \/ Expire(r))
  /\ \A j \in Jobs : WF_vars(SqsReceive(j) \/ SqsDeadLetter(j) \/ SqsVisible(j))

Spec == QueueInit /\ [][Next]_vars /\ Fairness

------------------------------------------------------------------------------
TypeOK ==
  /\ WorkerTypeOK
  /\ copy \in [Runs -> Copy]
  /\ completed \subseteq Jobs
  /\ failures \in [Jobs -> 0..MaxTries]
  /\ link \in BOOLEAN /\ redrive \in BOOLEAN
  /\ losses \in 0..MaxLosses

(* A message leaves its broker only when its job is done and its output is  *)
(* in the bucket; the SQS consumer also drops what it cannot read and what  *)
(* failed at its last receive.  Publishing before acking (queue_rabbitmq.rs *)
(* 226-271) is what makes this true across lost channels and restarts.      *)
MessageNeverLost ==
  \A j \in Messages : Gone(j) =>
    \/ j \in completed /\ bucket[conf[j].key].output # "none"
    \/ /\ conf[j].via = "sqs"
       /\ \/ conf[j].body = "garbage"
          \/ copy[Sqs(j)].tries = MaxTries /\ failures[j] > 0

(* However runs of the jobs on one key overlap, fail half-way or are        *)
(* repeated, the archive exists: as input, parked under errori/, or as an   *)
(* uploaded output (zip_worker_s3.rs 264-324).                              *)
InputNeverLost ==
  \A k \in Objects : bucket[k].input \/ bucket[k].parked \/ bucket[k].output # "none"

(* A RabbitMQ message is given up, that is, in the dead-letter queue, only  *)
(* when MaxTries runs of its job failed or it could not be read             *)
(* (queue_rabbitmq.rs 238-253).                                             *)
GivenUpAfterRetries ==
  \A r \in Runs : Id(r) \in Via("rabbitmq") /\ copy[r].at = "dlq" =>
    conf[Id(r)].body = "garbage" \/ failures[Id(r)] = MaxTries

(* While the consumer keeps its channel, the retries of a RabbitMQ message  *)
(* never make its job run twice at the same time, although a retry may come *)
(* back before its original is acked (queue_rabbitmq.rs 253-271).           *)
OneRunPerMessage ==
  losses = 0 => \A j \in Via("rabbitmq") :
    Cardinality({s \in Slots : run[j, s].pc \in {"waiting"} \cup Inside}) <= 1

(* Then, if no other job works on the same archive, an input is consumed    *)
(* only against a complete output: no run saw its files touched by another. *)
ConsumedIsWhole ==
  losses = 0 => \A j \in Jobs :
    LET k == conf[j].key IN
    /\ k \in Objects
    /\ conf[j].via # "sqs" /\ \A i \in Jobs \ {j} : conf[i].key # k
    /\ ~bucket[k].input /\ ~bucket[k].parked
    => bucket[k].output = "whole"

(* The row /status shows agrees with what became of the message: done when  *)
(* it was acked, failed when it is in the dead-letter queue or waits to be  *)
(* retried (zip_worker_s3.rs 267-333, queue_rabbitmq.rs 226-271).           *)
StatusFollows ==
  losses = 0 => \A j \in Via("rabbitmq") : conf[j].body = "job" =>
    /\ Gone(j) => row[j] = "done"
    /\ (\A s \in Slots : copy[j, s].at \in {"none", "retry", "dlq"}) /\ ~Gone(j)
         => row[j] = "failed"

(* Every message is settled in the end: done, dropped or dead-lettered, if  *)
(* SQS has its redrive policy and the RabbitMQ consumer keeps its channel.  *)
Settled(j) == \A s \in Slots : copy[j, s].at \in {"none", "dlq"}
MessagesSettle ==
  \A j \in Jobs : /\ conf[j].via = "sqs" => redrive
                  /\ conf[j].via = "rabbitmq" => <>[]link
                  => <>[]Settled(j)

(* What the documentation says of a retry (README, "retry esponenziale") and *)
(* of parking ("so a manual/retry sweep can pick it up without re-uploading", *)
(* zip_worker_s3.rs 304-305): a message that waits for its retry has an      *)
(* input to retry on.                                                        *)
RetryFindsInput ==
  \A r \in Runs : copy[r].at = "retry" /\ conf[Id(r)].body = "job" /\ Key(r) \in Objects
                 => bucket[Key(r)].input
==============================================================================
