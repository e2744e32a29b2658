--------------------------- MODULE QueueJobs_proofs ---------------------------
(***************************************************************************)
(* Proofs about QueueJobs for every set of jobs and archives, every        *)
(* deployment, and every bound on attempts, copies and losses.             *)
(***************************************************************************)
EXTENDS QueueJobs, FiniteSetTheorems, TLAPS

(* A message that waits for a retry has an attempt left, and a run knows a  *)
(* count its broker has reached.                                            *)
CountsFit ==
  /\ \A r \in Runs : run[r].tries <= MaxTries
  /\ \A r \in Runs : copy[r].at = "retry" => copy[r].tries < MaxTries
  /\ \A r \in Runs : Id(r) \in Via("sqs") => run[r].tries <= copy[Sqs(Id(r))].tries

(* A run past its upload has its output in the bucket, a run about to       *)
(* delete a parked input has its copy.                                      *)
UploadedFirst ==
  \A r \in Runs :
    /\ run[r].pc \in {"audit", "consume", "report", "ok"} => bucket[Key(r)].output # "none"
    /\ At(r, "unpark") => bucket[Key(r)].parked

LEMMA RunParts == \A r \in Runs : Id(r) \in Jobs /\ r[2] \in Slots /\ r = <<Id(r), r[2]>>
  BY DEF Runs, Id

LEMMA FirstSlot == \A j \in Jobs : Sqs(j) \in Runs /\ Id(Sqs(j)) = j
  BY S3Assumption DEF Sqs, Runs, Id

LEMMA ConfType ==
  ASSUME conf \in Deployments
  PROVE  /\ conf \in [Jobs -> Request]
         /\ \A r \in Runs : Key(r) \in Keys
  <1>1. conf \in [Jobs -> Request]
    BY S3Assumption
  <1> QED
    BY <1>1, RunParts DEF Key, Request

------------------------------------------------------------------------------
(* Inputs survive.  The worker's part of the types, and UploadedFirst, for  *)
(* the steps of a run.                                                      *)

LEMMA RunStepTypes ==
  ASSUME WorkerTypeOK, NEW r \in Runs, RunStep(r)
  PROVE  WorkerTypeOK' /\ \A q \in Runs : run'[q].tries = run[q].tries
  <1> USE DEF WorkerTypeOK, Goto, Write, At
  <1> DEFINE Kept == run' \in [Runs -> [pc : PCs, torn : BOOLEAN, tries : Nat]]
                     /\ \A q \in Runs : run'[q].tries = run[q].tries
  <1>k. Id(r) \in Jobs /\ Key(r) \in Keys
    BY RunParts, ConfType
  <1>p. ASSUME NEW pc \in PCs, Goto(r, pc) PROVE Kept
    BY <1>p
  <1>pcs. Inside \subseteq PCs /\ Results \subseteq PCs
    BY DEF PCs
  <1>1. CASE Enter(r)
    BY <1>1, <1>k, <1>p, <1>pcs DEF Enter, Inside
  <1>2. CASE Download(r)
    <2>1. Kept
      BY <1>2 DEF Download, PCs, Inside
    <2> QED
      BY <1>2, <2>1, <1>k DEF Download
  <1>3. CASE Open(r)
    BY <1>3, <1>k, <1>p, <1>pcs DEF Open, Inside
  <1>4. CASE Process(r)
    <2>1. PICK content \in {"absent", "damaged", "whole"} :
            staged' = [staged EXCEPT ![Key(r)] = content]
      BY <1>4 DEF Process
    <2>2. staged' \in [Keys -> {"absent", "partial", "damaged", "whole"}]
      BY <2>1, <1>k
    <2>3. Kept
      BY <1>4, <1>p, <1>pcs DEF Process, Inside
    <2> QED
      BY <1>4, <2>2, <2>3 DEF Process
  <1>5. CASE Upload(r)
    <2>1. bucket' \in [Keys -> Object]
      BY <1>5, <1>k DEF Upload, Object
    <2> QED
      BY <1>5, <2>1, <1>k, <1>p, <1>pcs DEF Upload, Inside
  <1>6. CASE Audit(r)
    BY <1>6, <1>k, <1>p, <1>pcs DEF Audit, Inside
  <1>7. CASE Consume(r)
    <2>1. bucket' \in [Keys -> Object]
      BY <1>7, <1>k DEF Consume, Object
    <2> QED
      BY <1>7, <2>1, <1>k, <1>p, <1>pcs DEF Consume, Inside
  <1>8. CASE Report(r)
    BY <1>8, <1>k, <1>p, <1>pcs DEF Report, Return, Results
  <1>9. CASE Fail(r)
    BY <1>9, <1>k, <1>p, <1>pcs DEF Fail, Inside
  <1>10. CASE Park(r)
    <2>1. bucket' \in [Keys -> Object]
      BY <1>10, <1>k DEF Park, Object
    <2> QED
      BY <1>10, <2>1, <1>k, <1>p, <1>pcs DEF Park, Inside
  <1>11. CASE Unpark(r)
    <2>1. bucket' \in [Keys -> Object]
      BY <1>11, <1>k DEF Unpark, Object
    <2> QED
      BY <1>11, <2>1, <1>k, <1>p, <1>pcs DEF Unpark, Inside
  <1>12. CASE Mark(r)
    BY <1>12, <1>k, <1>p, <1>pcs DEF Mark, Return, Results
  <1> QED
    BY <1>1, <1>2, <1>3, <1>4, <1>5, <1>6, <1>7, <1>8, <1>9, <1>10, <1>11, <1>12 DEF RunStep

(* Outputs and parked copies stay.                                          *)
Grows ==
  \A k \in Keys : /\ bucket[k].output # "none" => bucket'[k].output # "none"
                  /\ bucket[k].parked => bucket'[k].parked

LEMMA RunStepSaves ==
  ASSUME WorkerTypeOK, UploadedFirst, NEW r \in Runs, RunStep(r)
  PROVE  UploadedFirst' /\ Grows /\ (InputNeverLost => InputNeverLost')
  <1> USE DEF WorkerTypeOK, At
  <1>k. Id(r) \in Jobs /\ Key(r) \in Keys /\ Objects \subseteq Keys
    BY RunParts, ConfType, S3Assumption
  <1>c. conf' = conf /\ \A q \in Runs : Key(q)' = Key(q) /\ Key(q) \in Keys
    BY ConfType DEF RunStep, Enter, Download, Open, Process, Upload, Audit, Consume, Report,
                    Fail, Park, Unpark, Mark, Key
  <1>d. CASE Download(r)
    <2>1. bucket' = bucket /\ run'[r].pc = "open" /\ \A q \in Runs \ {r} : run'[q].pc = run[q].pc
      BY <1>d DEF Download
    <2> QED
      BY <2>1, <1>c DEF UploadedFirst, Grows, InputNeverLost
  <1>g. ASSUME NEW pc, Goto(r, pc), Grows,
               pc \in {"audit", "consume", "report", "ok"} => bucket'[Key(r)].output # "none",
               pc = "unpark" => bucket'[Key(r)].parked
        PROVE  UploadedFirst'
    <2>1. run'[r].pc = pc /\ \A q \in Runs \ {r} : run'[q].pc = run[q].pc
      BY <1>g DEF Goto
    <2> QED
      BY <2>1, <1>g, <1>c DEF UploadedFirst, Grows
  <1>s. ASSUME bucket' = bucket PROVE Grows /\ (InputNeverLost => InputNeverLost')
    BY <1>s DEF Grows, InputNeverLost
  <1>1. CASE Enter(r)
    BY <1>1, <1>g, <1>s DEF Enter
  <1>3. CASE Open(r)
    BY <1>3, <1>g, <1>s DEF Open
  <1>4. CASE Process(r)
    BY <1>4, <1>g, <1>s DEF Process
  <1>5. CASE Upload(r)
    <2>1. \A k \in Keys : /\ bucket'[k].input = bucket[k].input
                          /\ bucket'[k].parked = bucket[k].parked
                          /\ k # Key(r) => bucket'[k] = bucket[k]
      BY <1>5, <1>k DEF Upload, Object
    <2>2. bucket'[Key(r)].output # "none"
      BY <1>5, <1>k DEF Upload, Object
    <2>3. Grows
      BY <2>1, <2>2 DEF Grows
    <2>4. InputNeverLost => InputNeverLost'
      BY <2>1, <2>2, <1>k DEF InputNeverLost
    <2> QED
      BY <1>5, <1>g, <2>2, <2>3, <2>4 DEF Upload
  <1>6. CASE Audit(r)
    BY <1>6, <1>g, <1>s DEF Audit, UploadedFirst
  <1>7. CASE Consume(r)
    <2>1. bucket[Key(r)].output # "none"
      BY <1>7 DEF Consume, UploadedFirst
    <2>2. \A k \in Keys : /\ bucket'[k].output = bucket[k].output
                          /\ bucket'[k].parked = bucket[k].parked
                          /\ k # Key(r) => bucket'[k] = bucket[k]
      BY <1>7, <1>k DEF Consume, Object
    <2>3. Grows
      BY <2>2 DEF Grows
    <2>4. InputNeverLost => InputNeverLost'
      BY <2>1, <2>2, <1>k DEF InputNeverLost
    <2> QED
      BY <1>7, <1>g, <1>k, <2>1, <2>2, <2>3, <2>4 DEF Consume
  <1>8. CASE Report(r)
    BY <1>8, <1>g, <1>s DEF Report, Return, UploadedFirst
  <1>9. CASE Fail(r)
    BY <1>9, <1>g, <1>s DEF Fail
  <1>10. CASE Park(r)
    <2>1. CASE Goto(r, "mark") /\ UNCHANGED bucket
      BY <2>1, <1>g, <1>s
    <2>2. CASE /\ bucket' = [bucket EXCEPT ![Key(r)].parked = TRUE]
               /\ Goto(r, "unpark")
      <3>1. \A k \in Keys : /\ bucket'[k].output = bucket[k].output
                            /\ bucket'[k].input = bucket[k].input
                            /\ k # Key(r) => bucket'[k] = bucket[k]
        BY <2>2, <1>k DEF Object
      <3>2. bucket'[Key(r)].parked
        BY <2>2, <1>k DEF Object
      <3>3. Grows
        BY <3>1, <3>2 DEF Grows
      <3>4. InputNeverLost => InputNeverLost'
        BY <3>1, <3>2, <1>k DEF InputNeverLost
      <3> QED
        BY <2>2, <1>g, <3>2, <3>3, <3>4
    <2> QED
      BY <1>10, <2>1, <2>2 DEF Park
  <1>11. CASE Unpark(r)
    <2>1. bucket[Key(r)].parked
      BY <1>11 DEF Unpark, UploadedFirst
    <2>2. \A k \in Keys : /\ bucket'[k].output = bucket[k].output
                          /\ bucket'[k].parked = bucket[k].parked
                          /\ k # Key(r) => bucket'[k] = bucket[k]
      BY <1>11, <1>k DEF Unpark, Object
    <2>3. Grows
      BY <2>2 DEF Grows
    <2>4. InputNeverLost => InputNeverLost'
      BY <2>1, <2>2, <1>k DEF InputNeverLost
    <2> QED
      BY <1>11, <1>g, <2>3, <2>4 DEF Unpark
  <1>12. CASE Mark(r)
    BY <1>12, <1>g, <1>s DEF Mark, Return
  <1> QED
    BY <1>d, <1>1, <1>3, <1>4, <1>5, <1>6, <1>7, <1>8, <1>9, <1>10, <1>11, <1>12 DEF RunStep

------------------------------------------------------------------------------
(* Messages survive.  While the consumer has its channel, a RabbitMQ run    *)
(* belongs to an unacknowledged copy; only unreadable messages are poison;  *)
(* only RabbitMQ runs wait for an acknowledgement after a republication.    *)
Deliveries ==
  \A r \in Runs :
    /\ Id(r) \in Via("rabbitmq") /\ link /\ run[r].pc # "idle" => copy[r].at = "out"
    /\ At(r, "poison") => conf[Id(r)].body = "garbage"
    /\ At(r, "ack") => Id(r) \in Via("rabbitmq")

(* A message is done for, or has a copy that no run is about to acknowledge *)
(* as republished.  The second part cannot be weakened to "has a copy": two *)
(* runs could then acknowledge the last two copies.                         *)
Done(j)    == j \in completed /\ bucket[conf[j].key].output # "none"
Dropped(j) == /\ conf[j].via = "sqs"
              /\ \/ conf[j].body = "garbage"
                 \/ copy[Sqs(j)].tries = MaxTries /\ failures[j] > 0
Held(j)    == \E r \in Runs : Id(r) = j /\ copy[r].at # "none" /\ ~At(r, "ack")
MessageHeld == \A j \in Messages : Done(j) \/ Dropped(j) \/ Held(j)

IInv == /\ TypeOK /\ CountsFit /\ UploadedFirst /\ InputNeverLost
        /\ Deliveries /\ MessageHeld

LEMMA HeldSuffices == ASSUME MessageHeld PROVE MessageNeverLost
  <1> SUFFICES ASSUME NEW j \in Messages, Gone(j), ~Done(j)
               PROVE  Dropped(j)
    BY DEF MessageNeverLost, Done, Dropped
  <1>1. ~Held(j)
    BY RunParts DEF Gone, Held
  <1> QED
    BY <1>1 DEF MessageHeld

(* What starting and ending a run do.                                       *)
LEMMA SubmitEffect ==
  ASSUME WorkerTypeOK, NEW r \in Runs, NEW n \in Nat, Submit(r, n)
  PROVE  /\ WorkerTypeOK'
         /\ run[r].pc = "idle"
         /\ run'[r].tries = n
         /\ run'[r].pc \in {"waiting", "err", "poison"}
         /\ run'[r].pc = "poison" => conf[Id(r)].body = "garbage"
         /\ \A q \in Runs \ {r} : run'[q] = run[q]
         /\ UNCHANGED <<conf, bucket>>
  <1>1. conf[Id(r)].body \in {"job", "invalid", "garbage"}
    BY ConfType, RunParts DEF WorkerTypeOK, Request
  <1> QED
    BY <1>1, RunParts DEF Submit, WorkerTypeOK, At, Write, Idle, PCs, Results

LEMMA FinishedEffect ==
  ASSUME WorkerTypeOK, NEW r \in Runs, Finished(r), KeepWorker
  PROVE  /\ WorkerTypeOK'
         /\ run'[r].pc = "idle" /\ run'[r].tries = 0
         /\ \A q \in Runs \ {r} : run'[q] = run[q]
  BY DEF Finished, KeepWorker, WorkerTypeOK, Idle, PCs

(* Steps that leave the bucket alone and put no run behind an upload or     *)
(* into the middle of parking.                                              *)
LEMMA BucketKept ==
  ASSUME UNCHANGED <<conf, bucket>>, UploadedFirst, InputNeverLost,
         \A r \in Runs : run'[r].pc \in
           {run[r].pc, "idle", "waiting", "err", "poison", "ack", "lost"}
  PROVE  UploadedFirst' /\ InputNeverLost'
  <1>1. \A r \in Runs : Key(r)' = Key(r)
    BY DEF Key
  <1> QED
    BY <1>1 DEF UploadedFirst, InputNeverLost, At

------------------------------------------------------------------------------
(* What a message rests on, kept copy by copy.                              *)
CopyKept(q) == copy[q].at # "none" /\ ~At(q, "ack") => (copy[q].at # "none" /\ ~At(q, "ack"))'

LEMMA MessageKept ==
  ASSUME UNCHANGED <<conf, bucket>>, NEW j \in Messages,
         Done(j) \/ Dropped(j) \/ Held(j),
         completed \subseteq completed',
         failures[j] > 0 => failures'[j] > 0,
         copy[Sqs(j)].tries = MaxTries => copy'[Sqs(j)].tries = MaxTries,
         \A q \in Runs : Id(q) = j => CopyKept(q)
  PROVE  (Done(j) \/ Dropped(j) \/ Held(j))'
  <1>1. CASE Done(j)
    BY <1>1 DEF Done
  <1>2. CASE Dropped(j)
    BY <1>2 DEF Dropped, Sqs
  <1>3. CASE Held(j)
    BY <1>3 DEF Held, CopyKept
  <1> QED
    BY <1>1, <1>2, <1>3

LEMMA InitIInv == QueueInit => IInv
  <1> SUFFICES ASSUME QueueInit PROVE IInv
    OBVIOUS
  <1> USE DEF QueueInit, WorkerInit
  <1>1. conf \in [Jobs -> Request] /\ \A r \in Runs : Key(r) \in Keys
    BY ConfType
  <1>2. WorkerTypeOK
    BY DEF WorkerTypeOK, Object, Idle, PCs
  <1>3. TypeOK
    <2>1. copy \in [Runs -> Copy]
      BY QueueAssumption DEF Copy, NoCopy
    <2>2. redrive \in BOOLEAN
      OBVIOUS
    <2>3. failures \in [Jobs -> 0..MaxTries] /\ losses \in 0..MaxLosses
      BY QueueAssumption
    <2> QED
      BY <1>2, <2>1, <2>2, <2>3 DEF TypeOK
  <1>4. CountsFit
    BY QueueAssumption, FirstSlot DEF CountsFit, Idle, NoCopy, Via
  <1>5. UploadedFirst /\ Deliveries
    BY DEF UploadedFirst, Deliveries, Idle, At
  <1>6. InputNeverLost
    BY S3Assumption DEF InputNeverLost
  <1>7. MessageHeld
    <2> SUFFICES ASSUME NEW j \in Messages PROVE Held(j)
      BY DEF MessageHeld
    <2>1. j \in Jobs /\ Sqs(j) \in Runs /\ Id(Sqs(j)) = j /\ Sqs(j)[2] = 1
      BY FirstSlot DEF Messages, Via, Sqs
    <2>2. copy[Sqs(j)].at = "queue" /\ ~At(Sqs(j), "ack")
      BY <2>1 DEF NoCopy, At, Idle
    <2> QED
      BY <2>1, <2>2 DEF Held
  <1> QED
    BY <1>3, <1>4, <1>5, <1>6, <1>7 DEF IInv

LEMMA RunStepMoves ==
  ASSUME WorkerTypeOK, NEW r \in Runs, RunStep(r)
  PROVE  /\ conf' = conf
         /\ \A q \in Runs \ {r} : run'[q].pc = run[q].pc
         /\ run[r].pc \in {"waiting"} \cup Inside
         /\ run'[r].pc \in Inside \cup {"ok", "err"}
  <1> DEFINE Moved == /\ \A q \in Runs \ {r} : run'[q].pc = run[q].pc
                      /\ run'[r].pc \in Inside \cup {"ok", "err"}
  <1>a. conf' = conf /\ run[r].pc \in {"waiting"} \cup Inside
    BY DEF RunStep, Enter, Download, Open, Process, Upload, Audit, Consume, Report,
           Fail, Park, Unpark, Mark, At, Inside
  <1>g. ASSUME NEW pc \in Inside \cup {"ok", "err"}, Goto(r, pc) PROVE Moved
    BY <1>g DEF Goto, WorkerTypeOK
  <1>d. CASE Download(r)
    <2>1. Moved
      BY <1>d DEF Download, WorkerTypeOK, At, Inside
    <2> QED
      BY <2>1, <1>a
  <1>o. CASE ~Download(r)
    <2>1. \E pc \in Inside \cup {"ok", "err"} : Goto(r, pc)
      BY <1>o DEF RunStep, Enter, Open, Process, Upload, Audit, Consume, Report,
                  Fail, Park, Unpark, Mark, Return, Inside
    <2>2. Moved
      BY <2>1, <1>g
    <2> QED
      BY <2>2, <1>a
  <1> QED
    BY <1>d, <1>o

(* A run goes a step further: nothing about messages changes.               *)
LEMMA WorkKeeps ==
  ASSUME IInv, NEW r \in Runs, RunStep(r), UNCHANGED queueVars
  PROVE  IInv'
  <1> USE DEF IInv, TypeOK, queueVars
  <1>1. WorkerTypeOK' /\ \A q \in Runs : run'[q].tries = run[q].tries
    BY RunStepTypes
  <1>2. UploadedFirst' /\ InputNeverLost' /\ Grows
    BY RunStepSaves
  <1>3. /\ conf' = conf
        /\ \A q \in Runs \ {r} : run'[q].pc = run[q].pc
        /\ run[r].pc \in {"waiting"} \cup Inside
        /\ run'[r].pc \in Inside \cup {"ok", "err"}
    BY RunStepMoves
  <1>4. TypeOK'
    BY <1>1
  <1>5. CountsFit'
    BY <1>1, <1>3 DEF CountsFit, Via
  <1>6. Deliveries'
    BY <1>3 DEF Deliveries, Via, At, Inside
  <1>7. MessageHeld'
    <2> SUFFICES ASSUME NEW j \in Messages PROVE (Done(j) \/ Dropped(j) \/ Held(j))'
      BY <1>3 DEF MessageHeld, Messages, Via
    <2>1. conf[j].key \in Keys
      BY ConfType DEF WorkerTypeOK, Messages, Via, Request
    <2>2. CASE Done(j)
      BY <2>1, <2>2, <1>2, <1>3 DEF Done, Grows
    <2>3. CASE Dropped(j)
      BY <2>3, <1>3 DEF Dropped, Sqs
    <2>4. CASE Held(j)
      <3>1. PICK q \in Runs : Id(q) = j /\ copy[q].at # "none" /\ ~At(q, "ack")
        BY <2>4 DEF Held
      <3>2. ~At(q, "ack")'
        BY <3>1, <1>3 DEF At, Inside
      <3> QED
        BY <3>1, <3>2 DEF Held
    <2> QED
      BY <2>2, <2>3, <2>4 DEF MessageHeld
  <1> QED
    BY <1>2, <1>4, <1>5, <1>6, <1>7

LEMMA DirectKeeps ==
  ASSUME IInv, NEW j \in Jobs, SubmitDirect(j), UNCHANGED queueVars
  PROVE  IInv'
  <1> DEFINE r == Sqs(j)
  <1> USE DEF IInv, TypeOK, queueVars
  <1>1. r \in Runs /\ Id(r) = j /\ Submit(r, 0) /\ conf[j].via = "direct"
    BY FirstSlot DEF SubmitDirect, Sqs
  <1> HIDE DEF r
  <1>2. /\ WorkerTypeOK'
        /\ run'[r].tries = 0
        /\ run'[r].pc \in {"waiting", "err", "poison"}
        /\ run'[r].pc = "poison" => conf[Id(r)].body = "garbage"
        /\ \A q \in Runs \ {r} : run'[q] = run[q]
        /\ UNCHANGED <<conf, bucket>>
    BY <1>1, SubmitEffect
  <1>3. UploadedFirst' /\ InputNeverLost'
    BY <1>2, BucketKept
  <1>4. CountsFit'
    BY <1>1, <1>2, QueueAssumption DEF CountsFit, Via
  <1>5. Deliveries'
    BY <1>1, <1>2 DEF Deliveries, Via, At
  <1>6. MessageHeld'
    <2>1. \A q \in Runs : CopyKept(q)
      BY <1>2 DEF CopyKept, At
    <2>2. Messages' = Messages
      BY <1>2 DEF Messages, Via
    <2> QED
      BY <1>2, <2>1, <2>2, MessageKept DEF MessageHeld
  <1> QED
    BY <1>2, <1>3, <1>4, <1>5, <1>6

------------------------------------------------------------------------------
(* The SQS consumer.                                                        *)

LEMMA FailureCounted ==
  ASSUME failures \in [Jobs -> 0..MaxTries], NEW j \in Jobs, CountFailure(j)
  PROVE  /\ failures' \in [Jobs -> 0..MaxTries]
         /\ failures'[j] > 0
         /\ \A i \in Jobs : failures[i] > 0 => failures'[i] > 0
  BY QueueAssumption DEF CountFailure, Capped

LEMMA SqsReceiveKeeps ==
  ASSUME IInv, NEW j \in Jobs, SqsReceive(j)
  PROVE  IInv'
  <1> USE DEF IInv, TypeOK
  <1> DEFINE n == Capped(copy[Sqs(j)].tries + 1)
  <1>1. /\ Sqs(j) \in Runs /\ Id(Sqs(j)) = j
        /\ \A q \in Runs : Sqs(Id(q)) \in Runs /\ (Id(q) # j => Sqs(Id(q)) # Sqs(j))
    BY FirstSlot, RunParts
  <1>2. copy[Sqs(j)] \in Copy /\ n \in 0..MaxTries /\ copy[Sqs(j)].tries <= n
    BY <1>1, QueueAssumption DEF Copy, Capped
  <1>3. PICK s \in Slots : Submit(<<j, s>>, n)
    BY DEF SqsReceive, Lowest
  <1> DEFINE r == <<j, s>>
  <1>4. r \in Runs /\ Id(r) = j
    BY DEF Runs, Id
  <1>5. /\ j \in Via("sqs")
        /\ copy' = [copy EXCEPT ![Sqs(j)] = [at |-> "out", tries |-> n]]
        /\ UNCHANGED <<completed, failures, link, losses, redrive>>
    BY DEF SqsReceive
  <1> HIDE DEF r, n
  <1>6. /\ WorkerTypeOK'
        /\ run'[r].tries = n
        /\ run'[r].pc \in {"waiting", "err", "poison"}
        /\ run'[r].pc = "poison" => conf[Id(r)].body = "garbage"
        /\ \A q \in Runs \ {r} : run'[q] = run[q]
        /\ UNCHANGED <<conf, bucket>>
    <2>1. n \in Nat
      BY <1>2, QueueAssumption
    <2>2. Submit(r, n)
      BY <1>3 DEF r
    <2> QED
      BY <1>4, <2>1, <2>2, SubmitEffect
  <1>7. /\ copy' \in [Runs -> Copy]
        /\ copy'[Sqs(j)].at = "out" /\ copy'[Sqs(j)].tries = n
        /\ \A q \in Runs : q # Sqs(j) => copy'[q] = copy[q]
    BY <1>1, <1>2, <1>5 DEF Copy
  <1>8. UploadedFirst' /\ InputNeverLost'
    BY <1>6, BucketKept
  <1>9. CountsFit'
    <2>1. \A q \in Runs : run'[q].tries <= MaxTries
      BY <1>2, <1>6, QueueAssumption DEF CountsFit
    <2>2. \A q \in Runs : copy'[q].at = "retry" => copy'[q].tries < MaxTries
      BY <1>7 DEF CountsFit
    <2>3. \A q \in Runs : Id(q) \in Via("sqs") => run'[q].tries <= copy'[Sqs(Id(q))].tries
      <3> SUFFICES ASSUME NEW q \in Runs, Id(q) \in Via("sqs")
                   PROVE  run'[q].tries <= copy'[Sqs(Id(q))].tries
        OBVIOUS
      <3>1. run[q].tries <= copy[Sqs(Id(q))].tries /\ run[q].tries \in Nat
        BY DEF CountsFit, WorkerTypeOK
      <3>2. CASE Id(q) = j
        BY <3>1, <3>2, <1>2, <1>4, <1>6, <1>7, QueueAssumption DEF Copy
      <3>3. CASE Id(q) # j
        BY <3>1, <3>3, <1>1, <1>4, <1>6, <1>7
      <3> QED
        BY <3>2, <3>3
    <2> QED
      BY <2>1, <2>2, <2>3, <1>6 DEF CountsFit, Via
  <1>10. Deliveries'
    BY <1>1, <1>4, <1>5, <1>6, <1>7 DEF Deliveries, Via, At
  <1>11. MessageHeld'
    <2>1. \A q \in Runs : CopyKept(q)
      BY <1>6, <1>7 DEF CopyKept, At
    <2>2. \A i \in Messages : copy[Sqs(i)].tries = MaxTries => copy'[Sqs(i)].tries = MaxTries
      BY <1>1, <1>2, <1>7, FirstSlot, QueueAssumption DEF Copy, Messages, Via
    <2>3. Messages' = Messages
      BY <1>6 DEF Messages, Via
    <2> QED
      BY <1>5, <1>6, <2>1, <2>2, <2>3, MessageKept DEF MessageHeld
  <1>12. (completed \subseteq Jobs /\ failures \in [Jobs -> 0..MaxTries] /\ link \in BOOLEAN
          /\ redrive \in BOOLEAN /\ losses \in 0..MaxLosses)'
    BY <1>5
  <1> QED
    BY <1>6, <1>7, <1>8, <1>9, <1>10, <1>11, <1>12

(* The message becomes visible again or is dead-lettered.                   *)
LEMMA SqsMoveKeeps ==
  ASSUME IInv, NEW j \in Via("sqs"), NEW place \in {"queue", "dlq"}, Move(Sqs(j), place),
         UNCHANGED <<workerVars, completed, failures, link, losses, redrive>>
  PROVE  IInv'
  <1> USE DEF IInv, TypeOK, workerVars
  <1>1. j \in Jobs /\ Sqs(j) \in Runs /\ Id(Sqs(j)) = j
    BY FirstSlot DEF Via
  <1>2. /\ copy' \in [Runs -> Copy]
        /\ copy'[Sqs(j)].at = place
        /\ \A q \in Runs : copy'[q].tries = copy[q].tries
        /\ \A q \in Runs : q # Sqs(j) => copy'[q] = copy[q]
    BY <1>1 DEF Move, Copy
  <1>3. WorkerTypeOK'
    BY DEF WorkerTypeOK
  <1>4. UploadedFirst' /\ InputNeverLost'
    BY BucketKept
  <1>5. CountsFit'
    BY <1>2, RunParts, FirstSlot DEF CountsFit, Via
  <1>6. Deliveries'
    BY <1>1, <1>2 DEF Deliveries, Via, At
  <1>7. MessageHeld'
    <2>1. \A q \in Runs : CopyKept(q)
      BY <1>2 DEF CopyKept, At
    <2>2. Messages' = Messages /\ Messages \subseteq Jobs
      BY DEF Messages, Via
    <2> QED
      BY <1>2, <2>1, <2>2, FirstSlot, MessageKept DEF MessageHeld
  <1> QED
    BY <1>2, <1>3, <1>4, <1>5, <1>6, <1>7

(* A delivery is settled.  The message is deleted only when its output is   *)
(* in the bucket, after its last attempt, or when nobody can read it.       *)
LEMMA SqsSettleKeeps ==
  ASSUME IInv, NEW r \in Runs, SqsSettle(r)
  PROVE  IInv'
  <1> USE DEF IInv, TypeOK
  <1> DEFINE j == Id(r)
             deleted == [copy EXCEPT ![Sqs(j)].at = "none"]
  <1>1. /\ j \in Jobs /\ Sqs(j) \in Runs /\ Id(Sqs(j)) = j
        /\ \A q \in Runs : Id(q) # j => q # Sqs(j)
    BY RunParts, FirstSlot
  <1>2. /\ j \in Via("sqs") /\ Finished(r) /\ KeepWorker
        /\ UNCHANGED <<link, losses, redrive>>
    BY DEF SqsSettle
  <1>3. /\ WorkerTypeOK'
        /\ run'[r].pc = "idle" /\ run'[r].tries = 0
        /\ \A q \in Runs \ {r} : run'[q] = run[q]
        /\ UNCHANGED <<conf, bucket>>
    BY <1>2, FinishedEffect DEF KeepWorker
  <1>4. copy' \in {copy, deleted}
    BY DEF SqsSettle, DeleteMessage
  <1>5. /\ copy' \in [Runs -> Copy]
        /\ \A q \in Runs : copy'[q].tries = copy[q].tries
        /\ \A q \in Runs : copy'[q].at = copy[q].at \/ copy'[q].at = "none"
        /\ \A q \in Runs : q # Sqs(j) => copy'[q] = copy[q]
    BY <1>1, <1>4 DEF Copy
  <1>6. /\ completed \subseteq completed' /\ completed' \subseteq Jobs
        /\ failures' \in [Jobs -> 0..MaxTries]
        /\ \A i \in Jobs : failures[i] > 0 => failures'[i] > 0
    BY <1>1, FailureCounted DEF SqsSettle
  <1>7. TypeOK'
    BY <1>2, <1>3, <1>5, <1>6
  <1>8. UploadedFirst' /\ InputNeverLost'
    BY <1>3, BucketKept
  <1>9. CountsFit'
    <2>1. \A q \in Runs : run'[q].tries <= run[q].tries
      BY <1>3 DEF WorkerTypeOK
    <2>2. \A q \in Runs : /\ run[q].tries \in Nat /\ run'[q].tries \in Nat
                          /\ Sqs(Id(q)) \in Runs /\ copy[Sqs(Id(q))].tries \in Nat
      BY <1>3, RunParts, FirstSlot, QueueAssumption DEF WorkerTypeOK, Copy
    <2>3. Via("sqs")' = Via("sqs")
      BY <1>3 DEF Via
    <2>4. \A q \in Runs : run'[q].tries <= MaxTries
      BY <2>1, <2>2, QueueAssumption DEF CountsFit
    <2>5. \A q \in Runs : copy'[q].at = "retry" => copy'[q].tries < MaxTries
      BY <1>5 DEF CountsFit
    <2>6. \A q \in Runs : Id(q) \in Via("sqs") => run'[q].tries <= copy'[Sqs(Id(q))].tries
      BY <2>1, <2>2, <1>5 DEF CountsFit
    <2> QED
      BY <2>3, <2>4, <2>5, <2>6 DEF CountsFit
  <1>10. Deliveries'
    BY <1>1, <1>2, <1>3, <1>5 DEF Deliveries, Via, At
  <1>11. MessageHeld'
    <2>1. Messages' = Messages /\ Messages \subseteq Jobs
      BY <1>3 DEF Messages, Via
    <2> SUFFICES ASSUME NEW i \in Messages PROVE (Done(i) \/ Dropped(i) \/ Held(i))'
      BY <2>1 DEF MessageHeld
    <2>2. CASE \A q \in Runs : Id(q) = i => CopyKept(q)
      BY <2>1, <2>2, <1>3, <1>5, <1>6, FirstSlot, MessageKept DEF MessageHeld
    <2>3. ASSUME i # j \/ copy' = copy, NEW q \in Runs, Id(q) = i PROVE CopyKept(q)
      BY <2>3, <1>1, <1>3, <1>5 DEF CopyKept, At
    <2>4. CASE i = j /\ copy' # copy
      <3>1. CASE At(r, "ok") /\ completed' = completed \cup {j}
        <4>1. bucket[Key(r)].output # "none"
          BY <3>1 DEF UploadedFirst, At
        <4> QED
          BY <2>4, <3>1, <4>1, <1>3 DEF Done, Key
      <3>2. CASE At(r, "err") /\ CountFailure(j) /\ run[r].tries >= MaxTries
        <4>1. copy'[Sqs(j)].tries = MaxTries
          <5>1. run[r].tries <= copy[Sqs(j)].tries
            BY <1>2 DEF CountsFit
          <5>2. copy[Sqs(j)].tries \in 0..MaxTries /\ run[r].tries \in Nat
            BY <1>1 DEF Copy, WorkerTypeOK
          <5> QED
            BY <3>2, <5>1, <5>2, <1>1, <1>5, QueueAssumption
        <4>2. failures'[j] > 0
          BY <3>2, <1>1, FailureCounted
        <4> QED
          BY <2>4, <4>1, <4>2, <1>2, <1>3 DEF Dropped, Via, Sqs
      <3>3. CASE At(r, "poison")
        BY <2>4, <3>3, <1>2, <1>3 DEF Deliveries, Dropped, Via
      <3> QED
        BY <2>4, <3>1, <3>2, <3>3 DEF SqsSettle
    <2> QED
      BY <2>2, <2>3, <2>4
  <1> QED
    BY <1>7, <1>8, <1>9, <1>10, <1>11

------------------------------------------------------------------------------
(* The RabbitMQ consumer.                                                   *)

LEMMA RabbitRun ==
  ASSUME NEW r \in Runs, Id(r) \in Via("rabbitmq")
  PROVE  /\ Id(r) \in Jobs /\ conf[Id(r)].via = "rabbitmq"
         /\ \A j \in Via("sqs") : Sqs(j) # r
  BY FirstSlot, RunParts DEF Via

LEMMA DeliverKeeps ==
  ASSUME IInv, NEW r \in Runs, Deliver(r)
  PROVE  IInv'
  <1> USE DEF IInv, TypeOK
  <1>1. /\ Id(r) \in Via("rabbitmq") /\ copy[r].at = "queue"
        /\ copy' = [copy EXCEPT ![r].at = "out"] /\ Submit(r, copy[r].tries)
        /\ UNCHANGED <<completed, failures, link, losses, redrive>>
    BY DEF Deliver, Move
  <1>2. copy[r].tries \in 0..MaxTries /\ copy[r].tries \in Nat
    BY QueueAssumption DEF Copy
  <1>3. /\ WorkerTypeOK'
        /\ run'[r].tries = copy[r].tries
        /\ run'[r].pc \in {"waiting", "err", "poison"}
        /\ run'[r].pc = "poison" => conf[Id(r)].body = "garbage"
        /\ \A q \in Runs \ {r} : run'[q] = run[q]
        /\ UNCHANGED <<conf, bucket>>
    BY <1>1, <1>2, SubmitEffect
  <1>4. /\ copy' \in [Runs -> Copy]
        /\ copy'[r].at = "out"
        /\ \A q \in Runs : copy'[q].tries = copy[q].tries
        /\ \A q \in Runs : q # r => copy'[q] = copy[q]
    BY <1>1 DEF Copy
  <1>5. UploadedFirst' /\ InputNeverLost'
    BY <1>3, BucketKept
  <1>6. CountsFit'
    <2>1. Via("sqs")' = Via("sqs") /\ Id(r) \notin Via("sqs")
      BY <1>1, <1>3 DEF Via
    <2>2. \A q \in Runs : Sqs(Id(q)) \in Runs
      BY RunParts, FirstSlot
    <2> QED
      BY <2>1, <2>2, <1>2, <1>3, <1>4 DEF CountsFit
  <1>7. Deliveries'
    BY <1>1, <1>3, <1>4 DEF Deliveries, Via, At
  <1>8. MessageHeld'
    <2>1. \A q \in Runs : CopyKept(q)
      BY <1>3, <1>4 DEF CopyKept, At
    <2>2. Messages' = Messages /\ Messages \subseteq Jobs
      BY <1>3 DEF Messages, Via
    <2> QED
      BY <1>1, <1>3, <1>4, <2>1, <2>2, FirstSlot, MessageKept DEF MessageHeld
  <1> QED
    BY <1>1, <1>3, <1>4, <1>5, <1>6, <1>7, <1>8

LEMMA PublishKeeps ==
  ASSUME IInv, NEW r \in Runs, Publish(r)
  PROVE  IInv'
  <1> USE DEF IInv, TypeOK
  <1> DEFINE j == Id(r)
  <1>1. /\ j \in Via("rabbitmq") /\ run[r].pc \in {"err", "poison"} /\ link
        /\ IF At(r, "err") THEN CountFailure(j) ELSE UNCHANGED failures
        /\ run' = [run EXCEPT ![r].pc = "ack"]
        /\ UNCHANGED <<conf, bucket, row, spool, staged, completed, link, losses, redrive>>
    BY DEF Publish, Goto, KeepWorker
  <1>2. PICK f \in Slots :
          /\ copy[<<j, f>>].at \in {"dlq", "none"}
          /\ copy' = [copy EXCEPT ![<<j, f>>] = [at |-> Target(r), tries |-> run[r].tries]]
    <2> DEFINE same == {s \in Slots : Target(r) = "dlq" /\ copy[j, s].at = "dlq"}
               free == IF same # {} THEN same ELSE {s \in Slots : copy[j, s].at = "none"}
    <2>1. \E f \in Lowest(free) :
            copy' = [copy EXCEPT ![<<j, f>>] = [at |-> Target(r), tries |-> run[r].tries]]
      BY DEF Publish
    <2>2. Lowest(free) \subseteq {s \in Slots : copy[<<j, s>>].at \in {"dlq", "none"}}
      BY DEF Lowest
    <2> QED
      BY <2>1, <2>2
  <1> DEFINE c == <<j, f>>
  <1>3. /\ c \in Runs /\ Id(c) = j /\ j \in Jobs
        /\ copy[c].at \in {"dlq", "none"}
        /\ copy' = [copy EXCEPT ![c] = [at |-> Target(r), tries |-> run[r].tries]]
    BY <1>2, RunParts DEF Runs, Id
  <1> HIDE DEF c
  <1>4. run[r].tries \in 0..MaxTries /\ run[r].tries \in Nat
    BY QueueAssumption DEF CountsFit, WorkerTypeOK
  <1>5. Target(r) \in {"retry", "dlq"} /\ (Target(r) = "retry" => run[r].tries < MaxTries)
    BY <1>4, QueueAssumption DEF Target
  <1>6. /\ copy' \in [Runs -> Copy]
        /\ copy'[c].at = Target(r) /\ copy'[c].tries = run[r].tries
        /\ \A q \in Runs : q # c => copy'[q] = copy[q]
    BY <1>3, <1>4, <1>5 DEF Copy
  <1>7. /\ run[c].pc = "idle" /\ c # r /\ copy[r].at = "out"
    BY <1>1, <1>3 DEF Deliveries
  <1>8. /\ WorkerTypeOK'
        /\ run'[r].pc = "ack"
        /\ \A q \in Runs : run'[q].tries = run[q].tries
        /\ \A q \in Runs \ {r} : run'[q] = run[q]
    BY <1>1 DEF WorkerTypeOK, PCs, Results
  <1>9. /\ failures' \in [Jobs -> 0..MaxTries]
        /\ \A i \in Jobs : failures[i] > 0 => failures'[i] > 0
    BY <1>1, <1>3, FailureCounted
  <1>10. UploadedFirst' /\ InputNeverLost'
    BY <1>1, <1>8, BucketKept
  <1>11. Via("sqs")' = Via("sqs") /\ \A i \in Via("sqs") : Sqs(i) # c
    BY <1>1, <1>3, FirstSlot DEF Via
  <1>12. CountsFit'
    BY <1>5, <1>6, <1>8, <1>11, RunParts, FirstSlot DEF CountsFit
  <1>13. Deliveries'
    <2>1. Via("rabbitmq")' = Via("rabbitmq")
      BY <1>1 DEF Via
    <2> QED
      BY <2>1, <1>1, <1>3, <1>6, <1>7, <1>8 DEF Deliveries, At
  <1>14. MessageHeld'
    <2>1. Messages' = Messages /\ Messages \subseteq Jobs
      BY <1>1 DEF Messages, Via
    <2> SUFFICES ASSUME NEW i \in Messages PROVE (Done(i) \/ Dropped(i) \/ Held(i))'
      BY <2>1 DEF MessageHeld
    <2>2. CASE i = j
      BY <2>2, <1>3, <1>5, <1>6, <1>7, <1>8 DEF Held, At
    <2>3. CASE i # j
      <3>1. \A q \in Runs : Id(q) = i => CopyKept(q)
        BY <2>3, <1>3, <1>6, <1>8 DEF CopyKept, At
      <3>2. copy'[Sqs(i)] = copy[Sqs(i)]
        BY <2>1, <2>3, <1>3, <1>6, FirstSlot
      <3> QED
        BY <3>1, <3>2, <1>1, <1>9, <2>1, MessageKept DEF MessageHeld
    <2> QED
      BY <2>2, <2>3
  <1> QED
    BY <1>1, <1>6, <1>8, <1>9, <1>10, <1>12, <1>13, <1>14

(* The copy a run acknowledges is one of a finished job, or was published   *)
(* anew: MessageHeld then names another copy.                               *)
LEMMA AckKeeps ==
  ASSUME IInv, NEW r \in Runs, Ack(r)
  PROVE  IInv'
  <1> USE DEF IInv, TypeOK
  <1> DEFINE j == Id(r)
  <1>1. /\ j \in Via("rabbitmq") /\ run[r].pc \in {"ok", "ack"}
        /\ copy' = [copy EXCEPT ![r] = NoCopy]
        /\ completed' = IF At(r, "ok") THEN completed \cup {j} ELSE completed
        /\ Finished(r) /\ KeepWorker
        /\ UNCHANGED <<failures, link, losses, redrive>>
    BY DEF Ack
  <1>2. /\ j \in Jobs /\ conf[j].via = "rabbitmq" /\ \A i \in Via("sqs") : Sqs(i) # r
    BY <1>1, RabbitRun
  <1>3. /\ WorkerTypeOK'
        /\ run'[r].pc = "idle" /\ run'[r].tries = 0
        /\ \A q \in Runs \ {r} : run'[q] = run[q]
        /\ UNCHANGED <<conf, bucket>>
    BY <1>1, FinishedEffect DEF KeepWorker
  <1>4. /\ copy' \in [Runs -> Copy]
        /\ copy'[r].at = "none"
        /\ \A q \in Runs : q # r => copy'[q] = copy[q]
    BY <1>1, QueueAssumption DEF Copy, NoCopy
  <1>5. completed \subseteq completed' /\ completed' \subseteq Jobs
    BY <1>1, <1>2
  <1>6. UploadedFirst' /\ InputNeverLost'
    BY <1>3, BucketKept
  <1>7. CountsFit'
    <2>1. Via("sqs")' = Via("sqs") /\ \A q \in Runs : Sqs(Id(q)) \in Runs
      BY <1>3, RunParts, FirstSlot DEF Via
    <2> QED
      BY <2>1, <1>1, <1>2, <1>3, <1>4, QueueAssumption DEF CountsFit, Via
  <1>8. Deliveries'
    BY <1>1, <1>3, <1>4 DEF Deliveries, Via, At
  <1>9. MessageHeld'
    <2>1. Messages' = Messages /\ Messages \subseteq Jobs
      BY <1>3 DEF Messages, Via
    <2> SUFFICES ASSUME NEW i \in Messages PROVE (Done(i) \/ Dropped(i) \/ Held(i))'
      BY <2>1 DEF MessageHeld
    <2>2. CASE i = j /\ At(r, "ok")
      <3>1. bucket[Key(r)].output # "none"
        BY <2>2 DEF UploadedFirst, At
      <3> QED
        BY <2>2, <3>1, <1>1, <1>3 DEF Done, Key
    <2>3. CASE i = j /\ At(r, "ack")
      <3>1. ~Dropped(i)
        BY <2>3, <1>2 DEF Dropped
      <3>2. CASE Done(i)
        BY <3>2, <1>3, <1>5 DEF Done
      <3>3. CASE Held(i)
        <4>1. PICK q \in Runs : Id(q) = i /\ copy[q].at # "none" /\ ~At(q, "ack")
          BY <3>3 DEF Held
        <4>2. q # r
          BY <4>1, <2>3
        <4> QED
          BY <4>1, <4>2, <1>3, <1>4 DEF Held, At
      <3> QED
        BY <3>1, <3>2, <3>3 DEF MessageHeld
    <2>4. CASE i # j
      <3>1. \A q \in Runs : Id(q) = i => CopyKept(q)
        BY <2>4, <1>3, <1>4 DEF CopyKept, At
      <3>2. copy'[Sqs(i)] = copy[Sqs(i)]
        BY <2>1, <2>4, <1>4, FirstSlot
      <3> QED
        BY <3>1, <3>2, <1>1, <1>3, <1>5, MessageKept DEF MessageHeld
    <2> QED
      BY <2>2, <2>3, <2>4, <1>1 DEF At
  <1> QED
    BY <1>1, <1>3, <1>4, <1>5, <1>6, <1>7, <1>8, <1>9

LEMMA AbandonKeeps ==
  ASSUME IInv, NEW r \in Runs, Abandon(r)
  PROVE  IInv'
  <1> USE DEF IInv, TypeOK
  <1> DEFINE j == Id(r)
  <1>1. /\ completed' = IF At(r, "ok") THEN completed \cup {j} ELSE completed
        /\ IF At(r, "err") THEN CountFailure(j) ELSE UNCHANGED failures
        /\ Finished(r) /\ KeepWorker
        /\ UNCHANGED <<copy, link, losses, redrive>>
    BY DEF Abandon
  <1>2. j \in Jobs
    BY RunParts
  <1>3. /\ WorkerTypeOK'
        /\ run'[r].pc = "idle" /\ run'[r].tries = 0
        /\ \A q \in Runs \ {r} : run'[q] = run[q]
        /\ UNCHANGED <<conf, bucket>>
    BY <1>1, FinishedEffect DEF KeepWorker
  <1>4. /\ completed \subseteq completed' /\ completed' \subseteq Jobs
        /\ failures' \in [Jobs -> 0..MaxTries]
        /\ \A i \in Jobs : failures[i] > 0 => failures'[i] > 0
    BY <1>1, <1>2, FailureCounted
  <1>5. UploadedFirst' /\ InputNeverLost'
    BY <1>3, BucketKept
  <1>6. CountsFit'
    <2>1. Via("sqs")' = Via("sqs")
      BY <1>3 DEF Via
    <2>2. \A q \in Runs : Sqs(Id(q)) \in Runs /\ copy[Sqs(Id(q))].tries \in Nat
      BY RunParts, FirstSlot, QueueAssumption DEF Copy
    <2> QED
      BY <2>1, <2>2, <1>1, <1>3, QueueAssumption DEF CountsFit
  <1>7. Deliveries'
    BY <1>1, <1>3 DEF Deliveries, Via, At
  <1>8. MessageHeld'
    <2>1. \A q \in Runs : CopyKept(q)
      BY <1>1, <1>3 DEF CopyKept, At
    <2>2. Messages' = Messages /\ Messages \subseteq Jobs
      BY <1>3 DEF Messages, Via
    <2> QED
      BY <1>1, <1>3, <1>4, <2>1, <2>2, MessageKept DEF MessageHeld
  <1> QED
    BY <1>1, <1>3, <1>4, <1>5, <1>6, <1>7, <1>8

LEMMA ExpireKeeps ==
  ASSUME IInv, NEW r \in Runs, Expire(r)
  PROVE  IInv'
  <1> USE DEF IInv, TypeOK
  <1>1. /\ Id(r) \in Via("rabbitmq") /\ copy[r].at = "retry"
        /\ copy' = [copy EXCEPT ![r] = [at |-> "queue", tries |-> copy[r].tries + 1]]
        /\ UNCHANGED <<conf, bucket, row, spool, staged, run>>
        /\ UNCHANGED <<completed, failures, link, losses, redrive>>
    BY DEF Expire, workerVars
  <1>2. \A i \in Via("sqs") : Sqs(i) # r
    BY <1>1, RabbitRun
  <1>3. copy[r].tries + 1 \in 0..MaxTries /\ copy[r].tries \in Nat
    BY <1>1, QueueAssumption DEF CountsFit, Copy
  <1>4. /\ copy' \in [Runs -> Copy]
        /\ copy'[r].at = "queue"
        /\ \A q \in Runs : q # r => copy'[q] = copy[q]
    BY <1>1, <1>3 DEF Copy
  <1>5. WorkerTypeOK'
    BY <1>1 DEF WorkerTypeOK
  <1>6. UploadedFirst' /\ InputNeverLost'
    BY <1>1, BucketKept
  <1>7. CountsFit'
    <2>1. Via("sqs")' = Via("sqs") /\ \A q \in Runs : Sqs(Id(q)) \in Runs
      BY <1>1, RunParts, FirstSlot DEF Via
    <2> QED
      BY <2>1, <1>1, <1>2, <1>4 DEF CountsFit
  <1>8. Deliveries'
    BY <1>1, <1>4 DEF Deliveries, Via, At
  <1>9. MessageHeld'
    <2>1. \A q \in Runs : CopyKept(q)
      BY <1>1, <1>4 DEF CopyKept, At
    <2>2. Messages' = Messages /\ Messages \subseteq Jobs
      BY <1>1 DEF Messages, Via
    <2>3. \A i \in Messages : copy[Sqs(i)].tries = MaxTries => copy'[Sqs(i)].tries = MaxTries
      BY <1>1, <1>3, <1>4, <2>2, FirstSlot, QueueAssumption DEF CountsFit
    <2> QED
      BY <1>1, <2>1, <2>2, <2>3, MessageKept DEF MessageHeld
  <1> QED
    BY <1>1, <1>4, <1>5, <1>6, <1>7, <1>8, <1>9

------------------------------------------------------------------------------
(* Lost channels and restarts.                                              *)

LEMMA RequeueEffect ==
  ASSUME copy \in [Runs -> Copy], Requeue
  PROVE  /\ copy' \in [Runs -> Copy]
         /\ \A q \in Runs : copy'[q].tries = copy[q].tries
         /\ \A q \in Runs : copy'[q].at = "none" <=> copy[q].at = "none"
         /\ \A q \in Runs : copy'[q].at = "retry" => copy[q].at = "retry"
  BY DEF Requeue, Copy

LEMMA LoseChannelKeeps ==
  ASSUME IInv, LoseChannel
  PROVE  IInv'
  <1> USE DEF IInv, TypeOK
  <1>1. /\ ~link' /\ link' \in BOOLEAN /\ losses' = losses + 1 /\ losses < MaxLosses
        /\ Requeue
        /\ UNCHANGED <<conf, bucket, row, spool, staged, run>>
        /\ UNCHANGED <<completed, failures, redrive>>
    BY DEF LoseChannel, workerVars
  <1>2. /\ copy' \in [Runs -> Copy]
        /\ \A q \in Runs : copy'[q].tries = copy[q].tries
        /\ \A q \in Runs : copy'[q].at = "none" <=> copy[q].at = "none"
        /\ \A q \in Runs : copy'[q].at = "retry" => copy[q].at = "retry"
    BY <1>1, RequeueEffect
  <1>3. WorkerTypeOK' /\ losses' \in 0..MaxLosses
    BY <1>1, QueueAssumption DEF WorkerTypeOK
  <1>4. UploadedFirst' /\ InputNeverLost'
    BY <1>1, BucketKept
  <1>5. CountsFit'
    BY <1>1, <1>2, RunParts, FirstSlot DEF CountsFit, Via
  <1>6. Deliveries'
    BY <1>1 DEF Deliveries, Via, At
  <1>7. MessageHeld'
    <2>1. \A q \in Runs : CopyKept(q)
      BY <1>1, <1>2 DEF CopyKept, At
    <2>2. Messages' = Messages /\ Messages \subseteq Jobs
      BY <1>1 DEF Messages, Via
    <2> QED
      BY <1>1, <1>2, <2>1, <2>2, FirstSlot, MessageKept DEF MessageHeld
  <1> QED
    BY <1>1, <1>2, <1>3, <1>4, <1>5, <1>6, <1>7

LEMMA RestartKeeps ==
  ASSUME IInv, Restart
  PROVE  IInv'
  <1> USE DEF IInv, TypeOK
  <1>1. /\ link' \in BOOLEAN /\ losses' = losses + 1 /\ losses < MaxLosses
        /\ Requeue /\ StopRuns
        /\ UNCHANGED <<conf, bucket, row, spool, staged>>
        /\ UNCHANGED <<completed, failures, redrive>>
    BY DEF Restart, StopRuns
  <1>2. /\ copy' \in [Runs -> Copy]
        /\ \A q \in Runs : copy'[q].tries = copy[q].tries
        /\ \A q \in Runs : copy'[q].at = "none" <=> copy[q].at = "none"
        /\ \A q \in Runs : copy'[q].at = "retry" => copy[q].at = "retry"
    BY <1>1, RequeueEffect
  <1>3. /\ run' \in [Runs -> [pc : PCs, torn : BOOLEAN, tries : Nat]]
        /\ \A q \in Runs : run'[q].pc \in {"idle", "lost"} /\ run'[q].tries = 0
        /\ \A q \in Runs : run'[q].pc = "lost" => conf[Id(q)].via = "direct"
    BY <1>1 DEF StopRuns, Idle, PCs
  <1>4. WorkerTypeOK' /\ losses' \in 0..MaxLosses
    BY <1>1, <1>3, QueueAssumption DEF WorkerTypeOK
  <1>5. UploadedFirst' /\ InputNeverLost'
    BY <1>1, <1>3, BucketKept
  <1>6. CountsFit'
    <2>1. \A q \in Runs : Sqs(Id(q)) \in Runs /\ copy[Sqs(Id(q))].tries \in Nat
      BY RunParts, FirstSlot, QueueAssumption DEF Copy
    <2> QED
      BY <2>1, <1>1, <1>2, <1>3, QueueAssumption DEF CountsFit
  <1>7. Deliveries'
    BY <1>1, <1>3 DEF Deliveries, Via, At
  <1>8. MessageHeld'
    <2>1. \A q \in Runs : CopyKept(q)
      BY <1>2, <1>3 DEF CopyKept, At
    <2>2. Messages' = Messages /\ Messages \subseteq Jobs
      BY <1>1 DEF Messages, Via
    <2> QED
      BY <1>1, <1>2, <2>1, <2>2, FirstSlot, MessageKept DEF MessageHeld
  <1> QED
    BY <1>1, <1>2, <1>3, <1>4, <1>5, <1>6, <1>7, <1>8

------------------------------------------------------------------------------
LEMMA NextKeeps == IInv /\ [Next]_vars => IInv'
  <1> SUFFICES ASSUME IInv, [Next]_vars PROVE IInv'
    OBVIOUS
  <1>1. CASE Work
    BY <1>1, WorkKeeps DEF Work
  <1>2. CASE Direct
    BY <1>2, DirectKeeps DEF Direct
  <1>3. ASSUME NEW r \in Runs, SqsSettle(r) PROVE IInv'
    BY <1>3, SqsSettleKeeps
  <1>4. ASSUME NEW r \in Runs, Deliver(r) PROVE IInv'
    BY <1>4, DeliverKeeps
  <1>5. ASSUME NEW r \in Runs, Publish(r) PROVE IInv'
    BY <1>5, PublishKeeps
  <1>6. ASSUME NEW r \in Runs, Ack(r) PROVE IInv'
    BY <1>6, AckKeeps
  <1>7. ASSUME NEW r \in Runs, Abandon(r) PROVE IInv'
    BY <1>7, AbandonKeeps
  <1>8. ASSUME NEW r \in Runs, Expire(r) PROVE IInv'
    BY <1>8, ExpireKeeps
  <1>9. ASSUME NEW j \in Jobs, SqsReceive(j) PROVE IInv'
    BY <1>9, SqsReceiveKeeps
  <1>10. ASSUME NEW j \in Jobs, SqsDeadLetter(j) PROVE IInv'
    BY <1>10, SqsMoveKeeps DEF SqsDeadLetter
  <1>11. ASSUME NEW j \in Jobs, SqsVisible(j) PROVE IInv'
    BY <1>11, SqsMoveKeeps DEF SqsVisible
  <1>12. CASE LoseChannel
    BY <1>12, LoseChannelKeeps
  <1>13. CASE Restart
    BY <1>13, RestartKeeps
  <1>14. CASE UNCHANGED vars
    <2>1. UNCHANGED <<conf, bucket, row, spool, staged, run>> /\ UNCHANGED queueVars
      BY <1>14 DEF vars, workerVars
    <2>2. WorkerTypeOK' /\ TypeOK' /\ CountsFit'
      BY <2>1 DEF queueVars, IInv, TypeOK, WorkerTypeOK, CountsFit, Via
    <2>3. UploadedFirst' /\ InputNeverLost'
      BY <2>1, BucketKept DEF IInv
    <2>4. Deliveries' /\ MessageHeld'
      BY <2>1 DEF queueVars, IInv, Deliveries, MessageHeld, Messages, Via, At,
                  Done, Dropped, Held
    <2> QED
      BY <2>2, <2>3, <2>4 DEF IInv
  <1> QED
    BY <1>1, <1>2, <1>3, <1>4, <1>5, <1>6, <1>7, <1>8, <1>9, <1>10, <1>11, <1>12,
       <1>13, <1>14 DEF Next

LEMMA Invariance == Spec => []IInv
  BY InitIInv, NextKeeps, PTL DEF Spec

(* Every variable keeps its type: no handler of either consumer, and no step *)
(* of a run, leaves the states the program can be in.                        *)
THEOREM TypeCorrect == Spec => []TypeOK
  <1>1. IInv => TypeOK
    BY DEF IInv
  <1> QED
    BY <1>1, Invariance, PTL

(* However many runs of however many jobs overlap, fail half-way, are        *)
(* repeated or are cut off by a restart, the archive exists as input, parked *)
(* copy or output: the error branch deletes only what it has copied, and an  *)
(* input is consumed only after its upload (zip_worker_s3.rs 264-324).       *)
THEOREM InputsSurvive == Spec => []InputNeverLost
  <1>1. IInv => InputNeverLost
    BY DEF IInv
  <1> QED
    BY <1>1, Invariance, PTL

(* No message vanishes, whatever channels and processes are lost and however *)
(* publications, acknowledgements and redeliveries interleave: publishing    *)
(* comes before acking (queue_rabbitmq.rs 226-271), and SQS deletes only     *)
(* what is done, unreadable, or at its last attempt (queue_sqs.rs).          *)
THEOREM MessagesSurvive == Spec => []MessageNeverLost
  <1>1. IInv => MessageNeverLost
    BY HeldSuffices DEF IInv
  <1> QED
    BY <1>1, Invariance, PTL

------------------------------------------------------------------------------
(* The limit on attempts.  A RabbitMQ copy, or the run of one, carries a    *)
(* count of failures that did happen; a copy that waits for its retry comes *)
(* from one more.                                                           *)
CountsEarned ==
  \A r \in Runs : Id(r) \in Via("rabbitmq") =>
    /\ copy[r].tries <= failures[Id(r)]
    /\ run[r].tries <= failures[Id(r)]
    /\ copy[r].at = "retry" => copy[r].tries < failures[Id(r)]

LimitInv == CountsEarned /\ GivenUpAfterRetries

(* Enough for every step that neither publishes a message nor brings one    *)
(* back from the retry queue.                                               *)
Quiet(q) ==
  /\ copy'[q].tries <= copy[q].tries
  /\ run'[q].tries <= run[q].tries \/ run'[q].tries <= copy[q].tries
  /\ copy'[q].at \in {"retry", "dlq"} => copy'[q] = copy[q]

LEMMA QuietKeeps ==
  ASSUME TypeOK, TypeOK', LimitInv, conf' = conf,
         \A i \in Jobs : failures[i] <= failures'[i],
         \A q \in Runs : Id(q) \in Via("rabbitmq") => Quiet(q)
  PROVE  LimitInv'
  <1> SUFFICES ASSUME NEW q \in Runs, Id(q) \in Via("rabbitmq")
               PROVE  /\ copy'[q].tries <= failures'[Id(q)]
                      /\ run'[q].tries <= failures'[Id(q)]
                      /\ copy'[q].at = "retry" => copy'[q].tries < failures'[Id(q)]
                      /\ copy'[q].at = "dlq" =>
                           conf[Id(q)].body = "garbage" \/ failures'[Id(q)] = MaxTries
    BY DEF LimitInv, CountsEarned, GivenUpAfterRetries, Via
  <1> DEFINE j == Id(q)
  <1>1. /\ j \in Jobs /\ copy[q].tries \in Nat /\ copy'[q].tries \in Nat
        /\ run[q].tries \in Nat /\ run'[q].tries \in Nat
        /\ failures[j] \in 0..MaxTries /\ failures'[j] \in 0..MaxTries
    BY RunParts, QueueAssumption DEF TypeOK, WorkerTypeOK, Copy
  <1>2. Quiet(q) /\ failures[j] <= failures'[j]
    BY <1>1
  <1>3. /\ copy[q].tries <= failures[j] /\ run[q].tries <= failures[j]
        /\ copy[q].at = "retry" => copy[q].tries < failures[j]
        /\ copy[q].at = "dlq" => conf[j].body = "garbage" \/ failures[j] = MaxTries
    BY DEF LimitInv, CountsEarned, GivenUpAfterRetries
  <1> HIDE DEF j
  <1> QED
    BY <1>1, <1>2, <1>3, QueueAssumption DEF Quiet, j

LEMMA FailureRaised ==
  ASSUME failures \in [Jobs -> 0..MaxTries], NEW j \in Jobs, CountFailure(j)
  PROVE  /\ failures'[j] = Capped(failures[j] + 1)
         /\ \A i \in Jobs : failures[i] <= failures'[i]
  BY QueueAssumption DEF CountFailure, Capped

LEMMA PublishLimits ==
  ASSUME IInv, TypeOK', LimitInv, NEW r \in Runs, Publish(r)
  PROVE  LimitInv'
  <1> USE DEF IInv, TypeOK
  <1> DEFINE j == Id(r)
  <1>1. /\ j \in Via("rabbitmq") /\ run[r].pc \in {"err", "poison"}
        /\ IF At(r, "err") THEN CountFailure(j) ELSE UNCHANGED failures
        /\ run' = [run EXCEPT ![r].pc = "ack"]
        /\ conf' = conf
    BY DEF Publish, Goto, KeepWorker
  <1>2. \A q \in Runs :
          \/ copy'[q] = copy[q]
          \/ Id(q) = j /\ copy'[q] = [at |-> Target(r), tries |-> run[r].tries]
    <2>1. PICK f \in Slots :
            copy' = [copy EXCEPT ![<<j, f>>] = [at |-> Target(r), tries |-> run[r].tries]]
      <3>1. \A S : Lowest(S) \subseteq S
        BY DEF Lowest
      <3> QED
        BY <3>1 DEF Publish
    <2> QED
      BY <2>1 DEF Id
  <1>3. \A q \in Runs : run'[q].tries = run[q].tries
    BY <1>1 DEF WorkerTypeOK
  <1>4. j \in Jobs /\ \A i \in Jobs : failures[i] <= failures'[i]
    BY <1>1, RunParts, FailureRaised, QueueAssumption
  <1>5. /\ run[r].tries \in Nat /\ run[r].tries <= failures[j] /\ run[r].tries <= MaxTries
        /\ failures[j] \in 0..MaxTries /\ failures'[j] \in 0..MaxTries
    BY <1>1, <1>4 DEF LimitInv, CountsEarned, CountsFit, WorkerTypeOK
  <1>6. At(r, "err") => failures'[j] = Capped(failures[j] + 1)
    BY <1>1, <1>4, FailureRaised
  <1>7. At(r, "poison") => conf[j].body = "garbage" /\ Target(r) = "dlq"
    BY DEF Deliveries, Target
  <1>8. /\ Target(r) = "retry" => run[r].tries < failures'[j]
        /\ Target(r) = "dlq" => conf[j].body = "garbage" \/ failures'[j] = MaxTries
    <2>1. CASE At(r, "poison")
      BY <2>1, <1>7
    <2>2. CASE At(r, "err")
      BY <2>2, <1>5, <1>6, QueueAssumption DEF At, Capped, Target
    <2> QED
      BY <2>1, <2>2, <1>1 DEF At
  <1>9. \A q \in Runs :
          \/ copy'[q] = copy[q]
          \/ Id(q) = j /\ copy'[q].at = Target(r) /\ copy'[q].tries = run[r].tries
    BY <1>2
  <1>10. CountsEarned'
    <2> SUFFICES ASSUME NEW q \in Runs, Id(q) \in Via("rabbitmq")
                 PROVE  /\ copy'[q].tries <= failures'[Id(q)]
                        /\ run'[q].tries <= failures'[Id(q)]
                        /\ copy'[q].at = "retry" => copy'[q].tries < failures'[Id(q)]
      BY <1>1 DEF CountsEarned, Via
    <2>1. /\ Id(q) \in Jobs /\ copy[q].tries \in Nat /\ run[q].tries \in Nat
          /\ failures[Id(q)] \in Nat /\ failures'[Id(q)] \in Nat
      BY RunParts, QueueAssumption DEF Copy, WorkerTypeOK
    <2>2. /\ copy[q].tries <= failures[Id(q)] /\ run[q].tries <= failures[Id(q)]
          /\ copy[q].at = "retry" => copy[q].tries < failures[Id(q)]
      BY DEF LimitInv, CountsEarned
    <2> QED
      BY <2>1, <2>2, <1>3, <1>4, <1>5, <1>8, <1>9
  <1>11. GivenUpAfterRetries'
    <2> SUFFICES ASSUME NEW q \in Runs, Id(q) \in Via("rabbitmq"), copy'[q].at = "dlq"
                 PROVE  conf[Id(q)].body = "garbage" \/ failures'[Id(q)] = MaxTries
      BY <1>1 DEF GivenUpAfterRetries, Via
    <2>1. CASE copy'[q] = copy[q]
      <3>1. failures[Id(q)] <= failures'[Id(q)] /\ failures'[Id(q)] \in 0..MaxTries
        BY <1>4, RunParts
      <3> QED
        BY <2>1, <3>1, QueueAssumption DEF LimitInv, GivenUpAfterRetries
    <2>2. CASE Id(q) = j /\ copy'[q].at = Target(r)
      BY <2>2, <1>8
    <2> QED
      BY <2>1, <2>2, <1>9
  <1> QED
    BY <1>10, <1>11 DEF LimitInv

LEMMA ExpireLimits ==
  ASSUME IInv, TypeOK', LimitInv, NEW r \in Runs, Expire(r)
  PROVE  LimitInv'
  <1> USE DEF IInv, TypeOK
  <1>1. /\ Id(r) \in Via("rabbitmq") /\ copy[r].at = "retry"
        /\ copy' = [copy EXCEPT ![r] = [at |-> "queue", tries |-> copy[r].tries + 1]]
        /\ conf' = conf /\ run' = run /\ failures' = failures
    BY DEF Expire, workerVars
  <1>2. /\ copy'[r].at = "queue" /\ copy'[r].tries = copy[r].tries + 1
        /\ \A q \in Runs : q # r => copy'[q] = copy[q]
    BY <1>1
  <1>3. /\ copy[r].tries < failures[Id(r)] /\ copy[r].tries \in Nat
        /\ Id(r) \in Jobs /\ failures[Id(r)] \in Nat
    BY <1>1, RunParts, QueueAssumption DEF LimitInv, CountsEarned, Copy
  <1> QED
    BY <1>1, <1>2, <1>3 DEF LimitInv, CountsEarned, GivenUpAfterRetries, Via

LEMMA LimitKeeps ==
  ASSUME IInv, IInv', LimitInv, [Next]_vars
  PROVE  LimitInv'
  <1> USE DEF IInv, TypeOK
  <1>t. /\ \A q \in Runs : /\ copy[q].tries \in Nat /\ run[q].tries \in Nat
                          /\ copy'[q].tries \in Nat /\ run'[q].tries \in Nat
        /\ \A i \in Jobs : failures[i] \in Nat
    BY QueueAssumption DEF Copy, WorkerTypeOK
  <1>q. ASSUME conf' = conf, failures' = failures \/ \E j \in Jobs : CountFailure(j),
               \A q \in Runs : Id(q) \in Via("rabbitmq") => Quiet(q)
        PROVE  LimitInv'
    <2>1. \A i \in Jobs : failures[i] <= failures'[i]
      BY <1>q, <1>t, FailureRaised
    <2> QED
      BY <1>q, <2>1, QuietKeeps
  <1>c. ASSUME copy' = copy, \A q \in Runs : run'[q].tries <= run[q].tries,
               NEW q \in Runs
        PROVE  Quiet(q)
    BY <1>c, <1>t DEF Quiet
  <1>1. CASE Work
    <2>1. PICK r \in Runs : RunStep(r) /\ UNCHANGED queueVars
      BY <1>1 DEF Work
    <2>2. conf' = conf /\ \A q \in Runs : run'[q].tries = run[q].tries
      BY <2>1, RunStepTypes, RunStepMoves
    <2> QED
      BY <2>1, <2>2, <1>c, <1>q, <1>t DEF queueVars
  <1>2. CASE Direct
    <2>1. PICK j \in Jobs : SubmitDirect(j) /\ UNCHANGED queueVars
      BY <1>2 DEF Direct
    <2>2. Sqs(j) \in Runs /\ Submit(Sqs(j), 0)
      BY <2>1, FirstSlot DEF SubmitDirect, Sqs
    <2>3. /\ run'[Sqs(j)].tries = 0 /\ conf' = conf
          /\ \A q \in Runs \ {Sqs(j)} : run'[q] = run[q]
      BY <2>2, SubmitEffect
    <2>4. \A q \in Runs : run'[q].tries <= run[q].tries
      BY <2>3, <1>t
    <2> QED
      BY <2>1, <2>3, <2>4, <1>c, <1>q DEF queueVars
  <1>3. ASSUME NEW r \in Runs, SqsSettle(r) PROVE LimitInv'
    <2>1. /\ Id(r) \in Jobs /\ Id(r) \in Via("sqs") /\ Finished(r) /\ conf' = conf
          /\ failures' = failures \/ CountFailure(Id(r))
          /\ copy' \in {copy, [copy EXCEPT ![Sqs(Id(r))].at = "none"]}
      BY <1>3, RunParts DEF SqsSettle, KeepWorker, DeleteMessage
    <2>2. \A q \in Runs : Id(q) \in Via("rabbitmq") => copy'[q] = copy[q] /\ run'[q] = run[q]
      BY <2>1, FirstSlot DEF Via, Finished
    <2> QED
      BY <2>1, <2>2, <1>q, <1>t DEF Quiet
  <1>4. ASSUME NEW r \in Runs, Deliver(r) PROVE LimitInv'
    <2>1. /\ copy' = [copy EXCEPT ![r].at = "out"] /\ Submit(r, copy[r].tries)
          /\ failures' = failures
      BY <1>4 DEF Deliver, Move
    <2>2. /\ run'[r].tries = copy[r].tries /\ conf' = conf
          /\ \A q \in Runs \ {r} : run'[q] = run[q]
      BY <2>1, <1>t, SubmitEffect
    <2>3. /\ copy'[r].at = "out" /\ copy'[r].tries = copy[r].tries
          /\ \A q \in Runs \ {r} : copy'[q] = copy[q]
      BY <2>1 DEF Copy
    <2> QED
      BY <2>1, <2>2, <2>3, <1>q, <1>t DEF Quiet
  <1>5. ASSUME NEW r \in Runs, Publish(r) PROVE LimitInv'
    BY <1>5, PublishLimits
  <1>6. ASSUME NEW r \in Runs, Ack(r) PROVE LimitInv'
    <2>1. /\ copy' = [copy EXCEPT ![r] = NoCopy] /\ Finished(r) /\ KeepWorker
          /\ failures' = failures
      BY <1>6 DEF Ack
    <2>2. /\ run'[r].tries = 0 /\ conf' = conf
          /\ \A q \in Runs \ {r} : run'[q] = run[q]
      BY <2>1, FinishedEffect DEF KeepWorker
    <2>3. /\ copy'[r].at = "none" /\ copy'[r].tries = 0
          /\ \A q \in Runs \ {r} : copy'[q] = copy[q]
      BY <2>1 DEF NoCopy
    <2> QED
      BY <2>1, <2>2, <2>3, <1>q, <1>t DEF Quiet
  <1>7. ASSUME NEW r \in Runs, Abandon(r) PROVE LimitInv'
    <2>1. /\ copy' = copy /\ Finished(r) /\ KeepWorker /\ Id(r) \in Jobs
          /\ failures' = failures \/ CountFailure(Id(r))
      BY <1>7, RunParts DEF Abandon
    <2>2. conf' = conf /\ \A q \in Runs : run'[q].tries <= run[q].tries
      BY <2>1, <1>t, FinishedEffect DEF KeepWorker
    <2> QED
      BY <2>1, <2>2, <1>c, <1>q
  <1>8. ASSUME NEW r \in Runs, Expire(r) PROVE LimitInv'
    BY <1>8, ExpireLimits
  <1>9. ASSUME NEW j \in Jobs, SqsReceive(j) PROVE LimitInv'
    <2>1. /\ j \in Via("sqs") /\ failures' = failures
          /\ copy' = [copy EXCEPT ![Sqs(j)] = [at |-> "out", tries |-> Capped(copy[Sqs(j)].tries + 1)]]
          /\ \E s \in Slots : Submit(<<j, s>>, Capped(copy[Sqs(j)].tries + 1))
      BY <1>9 DEF SqsReceive, Lowest
    <2>2. conf' = conf /\ \A q \in Runs : Id(q) # j => run'[q] = run[q]
      BY <2>1 DEF Submit, Id
    <2>3. \A q \in Runs : Id(q) # j => copy'[q] = copy[q]
      BY <2>1, FirstSlot
    <2>4. \A q \in Runs : Id(q) \in Via("rabbitmq") => Quiet(q)
      BY <2>1, <2>2, <2>3, <1>t DEF Quiet, Via
    <2> QED
      BY <2>1, <2>2, <2>4, <1>q
  <1>10. ASSUME NEW j \in Jobs, SqsDeadLetter(j) \/ SqsVisible(j) PROVE LimitInv'
    <2>1. /\ j \in Via("sqs") /\ conf' = conf /\ run' = run /\ failures' = failures
          /\ \A q \in Runs : q # Sqs(j) => copy'[q] = copy[q]
      BY <1>10 DEF SqsDeadLetter, SqsVisible, Move, workerVars
    <2>2. \A q \in Runs : Id(q) \in Via("rabbitmq") => Quiet(q)
      BY <2>1, <1>t, FirstSlot DEF Quiet, Via
    <2> QED
      BY <2>1, <2>2, <1>q
  <1>11. ASSUME Requeue, conf' = conf, failures' = failures,
                \A q \in Runs : run'[q].tries <= run[q].tries
         PROVE  LimitInv'
    <2>1. \A q \in Runs : /\ copy'[q].tries = copy[q].tries
                          /\ copy'[q] = copy[q] \/ copy'[q].at = "queue"
      BY <1>11 DEF Requeue, Copy
    <2>2. \A q \in Runs : Quiet(q)
      BY <2>1, <1>11, <1>t DEF Quiet
    <2> QED
      BY <2>2, <1>11, <1>q
  <1>12. CASE LoseChannel
    BY <1>12, <1>11, <1>t DEF LoseChannel, workerVars
  <1>13. CASE Restart
    BY <1>13, <1>11, <1>t DEF Restart, StopRuns, Idle
  <1>14. CASE UNCHANGED vars
    BY <1>14, <1>c, <1>q, <1>t DEF vars, workerVars, queueVars
  <1> QED
    BY <1>1, <1>2, <1>3, <1>4, <1>5, <1>6, <1>7, <1>8, <1>9, <1>10, <1>12, <1>13, <1>14
       DEF Next

(* The retry limit holds for every limit: a RabbitMQ message that could be   *)
(* read is given up only after MaxTries failures of its job were counted,    *)
(* although lost channels leave copies with old counts behind                *)
(* (queue_rabbitmq.rs 237-266).                                              *)
THEOREM LimitHolds == Spec => []GivenUpAfterRetries
  <1>1. QueueInit => LimitInv
    BY S3Assumption, QueueAssumption, RunParts
       DEF QueueInit, WorkerInit, LimitInv, CountsEarned, GivenUpAfterRetries, Idle, NoCopy
  <1>2. IInv /\ IInv' /\ LimitInv /\ [Next]_vars => LimitInv'
    BY LimitKeeps
  <1>3. LimitInv => GivenUpAfterRetries
    BY DEF LimitInv
  <1> QED
    BY <1>1, <1>2, <1>3, Invariance, PTL DEF Spec

------------------------------------------------------------------------------
(***************************************************************************)
(* While the consumer keeps its channel, a RabbitMQ message has one token: *)
(* the copy that waits in a queue, or the delivery whose run has not yet   *)
(* published it anew.  The token carries the right to run the job and to   *)
(* write its row; a dead-lettered message and a finished one have none.    *)
(***************************************************************************)

Active(r) == \/ copy[r].at \in {"queue", "retry"}
             \/ copy[r].at = "out" /\ ~At(r, "ack")

DeadLettered(j) == \E r \in Runs : Id(r) = j /\ copy[r].at = "dlq"
Idling(j)       == \A r \in Runs : Id(r) = j => ~Active(r)

RowFits(j) ==
  /\ \A r \in Runs : Id(r) = j =>
       /\ copy[r].at \in {"retry", "dlq"} \/ At(r, "err") => row[j] = "failed"
       /\ At(r, "ok") => row[j] = "done"
  /\ Idling(j) /\ ~DeadLettered(j) => row[j] = "done"

TokenOf(j) ==
  /\ \A q, r \in Runs : Id(q) = j /\ Id(r) = j /\ Active(q) /\ Active(r) => q = r
  /\ \A r \in Runs : Id(r) = j => (copy[r].at = "out" <=> ~At(r, "idle"))
  /\ DeadLettered(j) => Idling(j)
  /\ conf[j].body = "job" => RowFits(j)

OneToken == losses = 0 => link /\ \A j \in Via("rabbitmq") : TokenOf(j)

(* What does not concern a message leaves its token where it is.            *)
LEMMA TokenSame ==
  ASSUME NEW j \in Jobs, TokenOf(j), conf' = conf,
         \A q \in Runs : Id(q) = j => copy'[q].at = copy[q].at /\ run'[q].pc = run[q].pc,
         row'[j] = row[j]
  PROVE  TokenOf(j)'
  <1>1. \A q \in Runs : Id(q) = j => (Active(q)' <=> Active(q))
    BY DEF Active, At
  <1>2. (DeadLettered(j)' <=> DeadLettered(j)) /\ (Idling(j)' <=> Idling(j))
    BY <1>1 DEF DeadLettered, Idling
  <1>3. RowFits(j) => RowFits(j)'
    BY <1>2 DEF RowFits, At
  <1> QED
    BY <1>1, <1>2, <1>3 DEF TokenOf, At

(* A run writes the row of its own job only, and ends with its outcome.     *)
LEMMA RunStepRow ==
  ASSUME WorkerTypeOK, NEW r \in Runs, RunStep(r)
  PROVE  /\ \A j \in Jobs : j # Id(r) => row'[j] = row[j]
         /\ At(r, "ok")' => row'[Id(r)] = "done"
         /\ At(r, "err")' => row'[Id(r)] = "failed"
  <1> USE DEF WorkerTypeOK, At
  <1>k. Id(r) \in Jobs
    BY RunParts
  <1>g. ASSUME NEW pc, Goto(r, pc) PROVE run'[r].pc = pc
    BY <1>g DEF Goto
  <1>w. ASSUME NEW s, Write(Id(r), s)
        PROVE  row'[Id(r)] = s /\ \A j \in Jobs : j # Id(r) => row'[j] = row[j]
    BY <1>w, <1>k DEF Write
  <1>1. CASE Enter(r)
    BY <1>1, <1>g, <1>w DEF Enter
  <1>2. CASE Download(r)
    BY <1>2 DEF Download
  <1>3. CASE Report(r)
    BY <1>3, <1>g, <1>w DEF Report, Return
  <1>4. CASE Mark(r)
    BY <1>4, <1>g, <1>w DEF Mark, Return
  <1>5. CASE Open(r) \/ Process(r) \/ Upload(r) \/ Audit(r) \/ Consume(r) \/ Fail(r)
    BY <1>5, <1>g DEF Open, Process, Upload, Audit, Consume, Fail
  <1>6. CASE Park(r) \/ Unpark(r)
    BY <1>6, <1>g DEF Park, Unpark
  <1> QED
    BY <1>1, <1>2, <1>3, <1>4, <1>5, <1>6 DEF RunStep

(* The step of a run that holds the token.                                  *)
LEMMA TokenWorks ==
  ASSUME IInv, NEW r \in Runs, RunStep(r), UNCHANGED queueVars,
         TokenOf(Id(r))
  PROVE  TokenOf(Id(r))'
  <1> DEFINE j == Id(r)
  <1>0. WorkerTypeOK /\ j \in Jobs /\ copy' = copy
    BY RunParts DEF IInv, TypeOK, queueVars
  <1>1. /\ conf' = conf /\ \A q \in Runs \ {r} : run'[q].pc = run[q].pc
        /\ run[r].pc \in {"waiting"} \cup Inside
        /\ run'[r].pc \in Inside \cup {"ok", "err"}
    BY <1>0, RunStepMoves
  <1>2. copy[r].at = "out" /\ Active(r)
    BY <1>1 DEF TokenOf, At, Active, Inside
  <1>3. \A q \in Runs : Id(q) = j /\ q # r =>
          /\ ~Active(q) /\ copy[q].at \notin {"retry", "dlq"}
          /\ ~At(q, "ok") /\ ~At(q, "err")
    BY <1>2 DEF TokenOf, Active, DeadLettered, Idling, At
  <1>4. \A q \in Runs : Id(q) = j => (Active(q)' <=> Active(q))
    BY <1>0, <1>1, <1>2, <1>3 DEF Active, At, Inside
  <1>5. /\ \A q, p \in Runs : Id(q) = j /\ Id(p) = j /\ Active(q)' /\ Active(p)' => q = p
        /\ \A q \in Runs : Id(q) = j => (copy'[q].at = "out" <=> ~At(q, "idle")')
    BY <1>0, <1>1, <1>2, <1>4 DEF TokenOf, At, Inside
  <1>6. DeadLettered(j)' <=> DeadLettered(j)
    BY <1>0 DEF DeadLettered
  <1>7. ~Idling(j)' /\ ~DeadLettered(j)
    BY <1>2, <1>4 DEF Idling, DeadLettered, TokenOf
  <1>8. RowFits(j)'
    <2>1. /\ At(r, "ok")' => row'[j] = "done"
          /\ At(r, "err")' => row'[j] = "failed"
      BY <1>0, RunStepRow
    <2> QED
      BY <1>0, <1>1, <1>2, <1>3, <1>7, <2>1 DEF RowFits, At
  <1> QED
    BY <1>5, <1>6, <1>7, <1>8 DEF TokenOf

(* A delivery: the token goes from the copy in the queue to its run.        *)
LEMMA TokenDelivered ==
  ASSUME IInv, NEW r \in Runs, Deliver(r), TokenOf(Id(r))
  PROVE  TokenOf(Id(r))'
  <1> DEFINE j == Id(r)
  <1>0. /\ WorkerTypeOK /\ j \in Jobs /\ copy \in [Runs -> Copy]
        /\ copy[r].at = "queue" /\ copy[r].tries \in Nat
    BY RunParts, QueueAssumption DEF IInv, TypeOK, Deliver, Copy
  <1>1. /\ copy'[r].at = "out" /\ \A q \in Runs \ {r} : copy'[q] = copy[q]
        /\ Submit(r, copy[r].tries)
    BY <1>0 DEF Deliver, Move, Copy
  <1>2. /\ conf' = conf /\ run'[r].pc \in {"waiting", "err", "poison"}
        /\ conf[j].body = "job" => run'[r].pc = "waiting"
        /\ \A q \in Runs \ {r} : run'[q] = run[q]
    <2>1. conf[j].body = "job" => run'[r].pc = "waiting"
      BY <1>0, <1>1 DEF Submit, WorkerTypeOK
    <2> QED
      BY <1>0, <1>1, <2>1, SubmitEffect
  <1>3. \A q \in Runs : Id(q) = j /\ q # r =>
          /\ ~Active(q) /\ copy[q].at \notin {"retry", "dlq"}
          /\ ~At(q, "ok") /\ ~At(q, "err")
    BY <1>0 DEF TokenOf, Active, DeadLettered, Idling, At
  <1>4. Active(r) /\ Active(r)' /\ \A q \in Runs \ {r} : Active(q)' <=> Active(q)
    BY <1>0, <1>1, <1>2 DEF Active, At
  <1>5. ~Idling(j)' /\ ~DeadLettered(j)'
    BY <1>1, <1>3, <1>4 DEF Idling, DeadLettered
  <1>6. conf[j].body = "job" => RowFits(j)'
    BY <1>1, <1>2, <1>3, <1>5 DEF RowFits, At
  <1>7. \A q \in Runs : Id(q) = j => (copy'[q].at = "out" <=> ~At(q, "idle")')
    BY <1>1, <1>2 DEF TokenOf, At
  <1>8. \A q, p \in Runs : Id(q) = j /\ Id(p) = j /\ Active(q)' /\ Active(p)' => q = p
    BY <1>3, <1>4
  <1> QED
    BY <1>2, <1>5, <1>6, <1>7, <1>8 DEF TokenOf

(* A republication: the token goes from the failed run to the new copy, or  *)
(* is gone for good when that copy is a dead letter.                        *)
LEMMA TokenPublished ==
  ASSUME IInv, NEW r \in Runs, Publish(r), TokenOf(Id(r))
  PROVE  TokenOf(Id(r))'
  <1> DEFINE j == Id(r)
  <1>0. /\ WorkerTypeOK /\ j \in Jobs /\ copy \in [Runs -> Copy]
        /\ run[r].pc \in {"err", "poison"} /\ conf' = conf /\ row' = row
        /\ Goto(r, "ack")
    BY RunParts DEF IInv, TypeOK, Publish, KeepWorker
  <1>1. run'[r].pc = "ack" /\ \A q \in Runs \ {r} : run'[q] = run[q]
    BY <1>0 DEF Goto, WorkerTypeOK
  <1>2. copy[r].at = "out" /\ Active(r)
    BY <1>0 DEF TokenOf, Active, At
  <1>3. \A q \in Runs : Id(q) = j /\ q # r =>
          /\ ~Active(q) /\ copy[q].at \notin {"queue", "retry", "dlq"}
          /\ ~At(q, "ok") /\ ~At(q, "err")
    BY <1>2 DEF TokenOf, Active, DeadLettered, Idling, At
  <1>4. PICK f \in Runs : /\ Id(f) = j /\ copy[f].at = "none"
                          /\ copy' = [copy EXCEPT ![f] = [at |-> Target(r), tries |-> run[r].tries]]
    <2> DEFINE same == {s \in Slots : Target(r) = "dlq" /\ copy[<<j, s>>].at = "dlq"}
               free == IF same # {} THEN same ELSE {s \in Slots : copy[<<j, s>>].at = "none"}
    <2>1. \A s \in Slots : <<j, s>> \in Runs /\ Id(<<j, s>>) = j
      BY <1>0 DEF Runs, Id
    <2>2. same = {}
      BY <1>2, <1>3, <2>1
    <2>3. PICK f \in Lowest(free) :
            copy' = [copy EXCEPT ![<<j, f>>] = [at |-> Target(r), tries |-> run[r].tries]]
      BY DEF Publish
    <2>4. f \in Slots /\ copy[<<j, f>>].at = "none"
      BY <2>2, <2>3 DEF Lowest
    <2> QED
      BY <2>1, <2>3, <2>4
  <1>5. /\ f # r /\ copy'[f].at = Target(r) /\ Target(r) \in {"retry", "dlq"}
        /\ \A q \in Runs \ {f} : copy'[q] = copy[q]
    BY <1>0, <1>2, <1>4 DEF Target
  <1>6. /\ ~Active(r)'
        /\ Active(f)' <=> Target(r) = "retry"
        /\ \A q \in Runs : Id(q) = j /\ q # f => ~Active(q)'
    BY <1>1, <1>2, <1>3, <1>5 DEF Active, At
  <1>7. DeadLettered(j)' <=> Target(r) = "dlq"
    BY <1>2, <1>3, <1>4, <1>5 DEF DeadLettered
  <1>8. Idling(j)' <=> Target(r) = "dlq"
    BY <1>4, <1>5, <1>6 DEF Idling
  <1>9. \A q \in Runs : Id(q) = j => (copy'[q].at = "out" <=> ~At(q, "idle")')
    <2>1. At(f, "idle")
      BY <1>4 DEF TokenOf
    <2> QED
      BY <1>1, <1>2, <1>5, <2>1 DEF TokenOf, At
  <1>10. conf[j].body = "job" => RowFits(j)'
    <2> SUFFICES ASSUME conf[j].body = "job" PROVE RowFits(j)'
      OBVIOUS
    <2>1. row[j] = "failed"
      <3>1. At(r, "err")
        BY <1>0 DEF IInv, Deliveries, At
      <3> QED
        BY <3>1 DEF TokenOf, RowFits
    <2>2. \A q \in Runs : Id(q) = j => ~At(q, "ok")'
      BY <1>1, <1>3 DEF At
    <2> QED
      BY <1>0, <1>7, <1>8, <2>1, <2>2 DEF RowFits
  <1>11. \A q, p \in Runs : Id(q) = j /\ Id(p) = j /\ Active(q)' /\ Active(p)' => q = p
    BY <1>6
  <1> QED
    BY <1>0, <1>7, <1>8, <1>9, <1>10, <1>11 DEF TokenOf

(* An acknowledgement: of a done job, whose token ends, or of a copy that   *)
(* was published anew and has none.                                         *)
LEMMA TokenAcked ==
  ASSUME IInv, NEW r \in Runs, Ack(r), TokenOf(Id(r))
  PROVE  TokenOf(Id(r))'
  <1> DEFINE j == Id(r)
  <1>0. /\ WorkerTypeOK /\ j \in Jobs /\ copy \in [Runs -> Copy]
        /\ run[r].pc \in {"ok", "ack"} /\ Finished(r) /\ KeepWorker
        /\ conf' = conf /\ row' = row
    BY RunParts DEF IInv, TypeOK, Ack, KeepWorker
  <1>1. run'[r].pc = "idle" /\ \A q \in Runs \ {r} : run'[q] = run[q]
    BY <1>0, FinishedEffect
  <1>2. copy'[r].at = "none" /\ \A q \in Runs \ {r} : copy'[q] = copy[q]
    BY <1>0 DEF Ack, NoCopy
  <1>3. copy[r].at = "out"
    BY <1>0 DEF TokenOf, At
  <1>4. ~Active(r)' /\ \A q \in Runs \ {r} : Active(q)' <=> Active(q)
    BY <1>1, <1>2 DEF Active, At
  <1>5. DeadLettered(j)' <=> DeadLettered(j)
    BY <1>2, <1>3 DEF DeadLettered
  <1>6. Idling(j) => Idling(j)'
    BY <1>4 DEF Idling
  <1>7. \A q \in Runs : Id(q) = j => (copy'[q].at = "out" <=> ~At(q, "idle")')
    BY <1>1, <1>2 DEF TokenOf, At
  <1>8. ASSUME RowFits(j) PROVE RowFits(j)'
    <2>1. \A q \in Runs : Id(q) = j =>
            /\ (copy[q].at \in {"retry", "dlq"} \/ At(q, "err"))' => row[j] = "failed"
            /\ At(q, "ok")' => row[j] = "done"
      BY <1>1, <1>2, <1>8 DEF RowFits, At
    <2>2. CASE At(r, "ok")
      BY <1>0, <2>1, <2>2, <1>8 DEF RowFits
    <2>3. CASE At(r, "ack")
      <3>1. Idling(j)' => Idling(j)
        BY <1>4, <2>3, <1>3 DEF Idling, Active, At
      <3> QED
        BY <1>0, <1>5, <2>1, <3>1, <1>8 DEF RowFits
    <2> QED
      BY <1>0, <2>2, <2>3 DEF At
  <1> QED
    BY <1>0, <1>4, <1>5, <1>6, <1>7, <1>8 DEF TokenOf

(* The retry queue gives the token back to the work queue.                  *)
LEMMA TokenExpires ==
  ASSUME IInv, NEW r \in Runs, Expire(r), TokenOf(Id(r))
  PROVE  TokenOf(Id(r))'
  <1> DEFINE j == Id(r)
  <1>0. /\ j \in Jobs /\ copy \in [Runs -> Copy] /\ copy[r].at = "retry"
        /\ conf' = conf /\ row' = row /\ run' = run
    BY RunParts DEF IInv, TypeOK, Expire, workerVars
  <1>1. copy'[r].at = "queue" /\ \A q \in Runs \ {r} : copy'[q] = copy[q]
    BY <1>0 DEF Expire
  <1>2. Active(r) /\ \A q \in Runs : Active(q)' <=> Active(q)
    BY <1>0, <1>1 DEF Active, At
  <1>3. /\ DeadLettered(j)' <=> DeadLettered(j)
        /\ Idling(j)' <=> Idling(j)
    BY <1>0, <1>1, <1>2 DEF DeadLettered, Idling
  <1>4. RowFits(j) => RowFits(j)'
    BY <1>0, <1>1, <1>3 DEF RowFits, At
  <1> QED
    BY <1>0, <1>1, <1>2, <1>3, <1>4 DEF TokenOf, At

(* Starting a run writes the row of its job and touches no other run.       *)
LEMMA SubmitOthers ==
  ASSUME WorkerTypeOK, NEW r \in Runs, NEW n \in Nat, Submit(r, n)
  PROVE  /\ conf' = conf
         /\ \A j \in Jobs : j # Id(r) => row'[j] = row[j]
         /\ \A q \in Runs : Id(q) # Id(r) => run'[q] = run[q]
  BY RunParts DEF Submit, Write, WorkerTypeOK

LEMMA TokenKeeps ==
  ASSUME IInv, OneToken, [Next]_vars
  PROVE  OneToken'
  <1> USE DEF IInv, TypeOK
  <1>0. losses \in Nat /\ \A q \in Runs : Id(q) \in Jobs
    BY QueueAssumption, RunParts
  <1> DEFINE Rabbits == \A j \in Via("rabbitmq") : TokenOf(j)
  <1>v. ASSUME conf' = conf PROVE Via("rabbitmq")' = Via("rabbitmq")
    BY <1>v DEF Via
  (* A step that moves the token of one message only, or of none.           *)
  <1>o. ASSUME losses' = 0 => losses = 0 /\ link' = link, conf' = conf,
               NEW i, losses = 0 /\ i \in Via("rabbitmq") => TokenOf(i)',
               losses = 0 => \A j \in Via("rabbitmq") : j # i =>
                 /\ row'[j] = row[j]
                 /\ \A q \in Runs : Id(q) = j =>
                      copy'[q].at = copy[q].at /\ run'[q].pc = run[q].pc
        PROVE  OneToken'
    <2> SUFFICES ASSUME losses' = 0, NEW j \in Via("rabbitmq")
                 PROVE  link' /\ TokenOf(j)'
      BY <1>o, <1>v DEF OneToken
    <2>1. losses = 0 /\ link' /\ TokenOf(j) /\ j \in Jobs
      BY <1>o DEF OneToken, Via
    <2>2. CASE j = i
      BY <1>o, <2>1, <2>2
    <2>3. CASE j # i
      BY <1>o, <2>1, <2>3, TokenSame
    <2> QED
      BY <2>1, <2>2, <2>3
  <1>t. ASSUME NEW r \in Runs, losses = 0, Id(r) \in Via("rabbitmq")
        PROVE  TokenOf(Id(r))
    BY <1>t DEF OneToken
  <1>1. CASE Work
    <2>1. PICK r \in Runs : RunStep(r) /\ UNCHANGED queueVars
      BY <1>1 DEF Work
    <2>2. /\ conf' = conf /\ losses' = losses /\ link' = link /\ copy' = copy
          /\ \A q \in Runs \ {r} : run'[q].pc = run[q].pc
          /\ \A j \in Jobs : j # Id(r) => row'[j] = row[j]
      BY <2>1, RunStepMoves, RunStepRow DEF queueVars
    <2>3. losses = 0 /\ Id(r) \in Via("rabbitmq") => TokenOf(Id(r))'
      BY <2>1, <1>t, TokenWorks
    <2> QED
      BY <2>2, <2>3, <1>o DEF Via
  <1>2. CASE Direct
    <2>1. PICK j \in Jobs : SubmitDirect(j) /\ UNCHANGED queueVars
      BY <1>2 DEF Direct
    <2>2. Sqs(j) \in Runs /\ Id(Sqs(j)) = j /\ Submit(Sqs(j), 0) /\ j \notin Via("rabbitmq")
      BY <2>1, FirstSlot DEF SubmitDirect, Sqs, Via
    <2>3. /\ conf' = conf /\ \A q \in Runs : Id(q) # j => run'[q] = run[q]
          /\ \A i \in Jobs : i # j => row'[i] = row[i]
      BY <2>2, SubmitOthers
    <2> QED
      BY <2>1, <2>2, <2>3, <1>o DEF queueVars, Via
  <1>3. ASSUME NEW r \in Runs, SqsSettle(r) PROVE OneToken'
    <2>1. /\ Id(r) \notin Via("rabbitmq") /\ Finished(r) /\ conf' = conf /\ row' = row
          /\ losses' = losses /\ link' = link
          /\ copy' \in {copy, [copy EXCEPT ![Sqs(Id(r))].at = "none"]}
      BY <1>3 DEF SqsSettle, KeepWorker, DeleteMessage, Via
    <2>2. \A q \in Runs : Id(q) # Id(r) => copy'[q] = copy[q] /\ run'[q] = run[q]
      BY <2>1, <1>0, FirstSlot DEF Finished
    <2> QED
      BY <2>1, <2>2, <1>o
  <1>4. ASSUME NEW r \in Runs, Deliver(r) PROVE OneToken'
    <2>1. /\ copy' = [copy EXCEPT ![r].at = "out"] /\ Submit(r, copy[r].tries)
          /\ losses' = losses /\ link' = link /\ Id(r) \in Via("rabbitmq")
          /\ copy[r].tries \in Nat
      BY <1>4, QueueAssumption DEF Deliver, Move, Copy
    <2>2. /\ conf' = conf /\ \A q \in Runs : Id(q) # Id(r) => run'[q] = run[q]
          /\ \A j \in Jobs : j # Id(r) => row'[j] = row[j]
      BY <2>1, SubmitOthers
    <2>3. \A q \in Runs : Id(q) # Id(r) => copy'[q] = copy[q]
      BY <2>1
    <2>4. losses = 0 => TokenOf(Id(r))'
      BY <1>4, <2>1, <1>t, TokenDelivered
    <2> QED
      BY <2>1, <2>2, <2>3, <2>4, <1>o DEF Via
  <1>5. ASSUME NEW r \in Runs, Publish(r) PROVE OneToken'
    <2>1. /\ Goto(r, "ack") /\ conf' = conf /\ row' = row /\ losses' = losses /\ link' = link
          /\ Id(r) \in Via("rabbitmq")
          /\ \E f : copy' = [copy EXCEPT ![<<Id(r), f>>] = [at |-> Target(r), tries |-> run[r].tries]]
      BY <1>5 DEF Publish, KeepWorker
    <2>2. \A q \in Runs : Id(q) # Id(r) => copy'[q] = copy[q] /\ run'[q] = run[q]
      BY <2>1 DEF Id, Goto, WorkerTypeOK
    <2>3. losses = 0 => TokenOf(Id(r))'
      BY <1>5, <2>1, <1>t, TokenPublished
    <2> QED
      BY <2>1, <2>2, <2>3, <1>o
  <1>6. ASSUME NEW r \in Runs, Ack(r) PROVE OneToken'
    <2>1. /\ Finished(r) /\ conf' = conf /\ row' = row /\ losses' = losses /\ link' = link
          /\ Id(r) \in Via("rabbitmq") /\ copy' = [copy EXCEPT ![r] = NoCopy]
      BY <1>6 DEF Ack, KeepWorker
    <2>2. \A q \in Runs : Id(q) # Id(r) => copy'[q] = copy[q] /\ run'[q] = run[q]
      BY <2>1 DEF Finished
    <2>3. losses = 0 => TokenOf(Id(r))'
      BY <1>6, <2>1, <1>t, TokenAcked
    <2> QED
      BY <2>1, <2>2, <2>3, <1>o
  <1>7. ASSUME NEW r \in Runs, Abandon(r) PROVE OneToken'
    <2>1. losses # 0 /\ losses' = losses
      BY <1>7 DEF Abandon, OneToken
    <2> QED
      BY <2>1 DEF OneToken
  <1>8. ASSUME NEW r \in Runs, Expire(r) PROVE OneToken'
    <2>1. /\ conf' = conf /\ row' = row /\ run' = run /\ losses' = losses /\ link' = link
          /\ Id(r) \in Via("rabbitmq") /\ \A q \in Runs : q # r => copy'[q] = copy[q]
      BY <1>8 DEF Expire, workerVars
    <2>2. losses = 0 => TokenOf(Id(r))'
      BY <1>8, <2>1, <1>t, TokenExpires
    <2> QED
      BY <2>1, <2>2, <1>o
  <1>9. ASSUME NEW j \in Jobs, SqsReceive(j) PROVE OneToken'
    <2>1. /\ j \notin Via("rabbitmq") /\ losses' = losses /\ link' = link
          /\ \A q \in Runs : Id(q) # j => copy'[q] = copy[q]
          /\ \E s \in Slots : Submit(<<j, s>>, Capped(copy[Sqs(j)].tries + 1))
      BY <1>9, FirstSlot DEF SqsReceive, Lowest, Via
    <2>2. PICK s \in Slots : Submit(<<j, s>>, Capped(copy[Sqs(j)].tries + 1))
      BY <2>1
    <2>3. <<j, s>> \in Runs /\ Id(<<j, s>>) = j /\ Capped(copy[Sqs(j)].tries + 1) \in Nat
      BY QueueAssumption, FirstSlot DEF Runs, Id, Capped, Copy
    <2>4. /\ conf' = conf /\ \A q \in Runs : Id(q) # j => run'[q] = run[q]
          /\ \A i \in Jobs : i # j => row'[i] = row[i]
      BY <2>2, <2>3, SubmitOthers
    <2> QED
      BY <2>1, <2>4, <1>o DEF Via
  <1>10. ASSUME NEW j \in Jobs, SqsDeadLetter(j) \/ SqsVisible(j) PROVE OneToken'
    <2>1. /\ j \notin Via("rabbitmq") /\ losses' = losses /\ link' = link
          /\ conf' = conf /\ run' = run /\ row' = row
          /\ \A q \in Runs : Id(q) # j => copy'[q] = copy[q]
      BY <1>10, FirstSlot DEF SqsDeadLetter, SqsVisible, Move, workerVars, Via
    <2> QED
      BY <2>1, <1>o
  <1>11. CASE LoseChannel \/ Restart
    <2>1. losses' = losses + 1
      BY <1>11 DEF LoseChannel, Restart
    <2> QED
      BY <2>1, <1>0 DEF OneToken
  <1>12. CASE UNCHANGED vars
    <2>1. /\ losses' = losses /\ link' = link /\ conf' = conf /\ row' = row
          /\ copy' = copy /\ run' = run
      BY <1>12 DEF vars, workerVars, queueVars
    <2> QED
      BY <2>1, <1>o DEF OneToken, Via, TokenOf, Active, DeadLettered, Idling, RowFits, At
  <1> QED
    BY <1>1, <1>2, <1>3, <1>4, <1>5, <1>6, <1>7, <1>8, <1>9, <1>10, <1>11, <1>12 DEF Next

LEMMA InitToken == QueueInit => OneToken
  <1> SUFFICES ASSUME QueueInit, NEW j \in Via("rabbitmq") PROVE TokenOf(j)
    BY DEF OneToken, QueueInit
  <1>1. j \in Messages /\ j \in Jobs /\ Sqs(j) \in Runs /\ Id(Sqs(j)) = j
    BY FirstSlot DEF Messages, Via
  <1>2. \A r \in Runs : /\ At(r, "idle") /\ ~At(r, "ok") /\ ~At(r, "err")
                        /\ copy[r].at \in {"none", "queue"}
                        /\ Id(r) = j => (copy[r].at = "queue" <=> r = Sqs(j))
    BY <1>1, RunParts DEF QueueInit, WorkerInit, Idle, NoCopy, At, Sqs
  <1>3. ~DeadLettered(j) /\ ~Idling(j)
    BY <1>1, <1>2 DEF DeadLettered, Idling, Active
  <1>4. RowFits(j)
    BY <1>2, <1>3 DEF RowFits
  <1>5. \A q, r \in Runs : Id(q) = j /\ Id(r) = j /\ Active(q) /\ Active(r) => q = r
    BY <1>2 DEF Active
  <1> QED
    BY <1>2, <1>3, <1>4, <1>5 DEF QueueInit, TokenOf

LEMMA TokenAlways == Spec => []OneToken
  <1>1. IInv /\ OneToken /\ [Next]_vars => OneToken'
    BY TokenKeeps
  <1> QED
    BY <1>1, InitToken, Invariance, PTL DEF Spec

(* While the channel holds, the job of a RabbitMQ message never runs twice  *)
(* at a time, however many copies of the message there are: the run holds   *)
(* the token (queue_rabbitmq.rs 253-271).                                   *)
THEOREM NeverRunTwice == Spec => []OneRunPerMessage
  <1>1. ASSUME TypeOK, OneToken PROVE OneRunPerMessage
    <2> SUFFICES ASSUME losses = 0, NEW j \in Via("rabbitmq")
                 PROVE  Cardinality({s \in Slots : run[<<j, s>>].pc \in {"waiting"} \cup Inside}) <= 1
      BY DEF OneRunPerMessage
    <2> DEFINE busy == {s \in Slots : run[<<j, s>>].pc \in {"waiting"} \cup Inside}
    <2>1. TokenOf(j) /\ j \in Jobs
      BY <1>1 DEF OneToken, Via
    <2>2. \A s \in busy : <<j, s>> \in Runs /\ Id(<<j, s>>) = j /\ Active(<<j, s>>)
      BY <2>1 DEF Runs, Id, TokenOf, Active, At, Inside
    <2>3. ASSUME NEW s \in busy, NEW t \in busy PROVE s = t
      <3>1. <<j, s>> = <<j, t>>
        BY <2>1, <2>2 DEF TokenOf
      <3> QED
        BY <3>1
    <2> HIDE DEF busy
    <2>4. CASE busy = {}
      <3>1. Cardinality(busy) = 0
        BY <2>4, FS_EmptySet, Zenon
      <3> QED
        BY <3>1 DEF busy
    <2>5. CASE busy # {}
      <3>1. PICK s \in busy : TRUE
        BY <2>5
      <3>2. busy = {s}
        BY <2>3, <3>1
      <3>3. Cardinality(busy) = 1
        BY <3>2, FS_Singleton, Zenon
      <3> QED
        BY <3>3 DEF busy
    <2> QED
      BY <2>4, <2>5
  <1> QED
    BY <1>1, TypeCorrect, TokenAlways, PTL

(* While the channel holds, the row that /status shows agrees with what     *)
(* became of the message: only the token's run writes it                    *)
(* (zip_worker_s3.rs 267-333, queue_rabbitmq.rs 226-271).                   *)
THEOREM RowsFollow == Spec => []StatusFollows
  <1>1. ASSUME OneToken PROVE StatusFollows
    <2> SUFFICES ASSUME losses = 0, NEW j \in Via("rabbitmq"), conf[j].body = "job"
                 PROVE  /\ Gone(j) => row[j] = "done"
                        /\ (\A s \in Slots : copy[<<j, s>>].at \in {"none", "retry", "dlq"}) /\ ~Gone(j)
                             => row[j] = "failed"
      BY DEF StatusFollows
    <2>1. RowFits(j) /\ j \in Jobs
      BY <1>1 DEF OneToken, TokenOf, Via
    <2>2. \A r \in Runs : Id(r) = j => r[2] \in Slots /\ r = <<j, r[2]>>
      BY RunParts
    <2>3. \A s \in Slots : <<j, s>> \in Runs /\ Id(<<j, s>>) = j
      BY <2>1 DEF Runs, Id
    <2>4. ASSUME Gone(j) PROVE row[j] = "done"
      <3>1. \A r \in Runs : Id(r) = j => copy[r].at = "none"
        BY <2>2, <2>4 DEF Gone
      <3> QED
        BY <2>1, <3>1 DEF RowFits, Idling, Active, DeadLettered
    <2>5. ASSUME \A s \in Slots : copy[<<j, s>>].at \in {"none", "retry", "dlq"}, ~Gone(j)
          PROVE  row[j] = "failed"
      <3>1. PICK s \in Slots : copy[<<j, s>>].at \in {"retry", "dlq"}
        BY <2>5 DEF Gone
      <3> QED
        BY <2>1, <2>3, <3>1 DEF RowFits
    <2> QED
      BY <2>4, <2>5
  <1> QED
    BY <1>1, TokenAlways, PTL

------------------------------------------------------------------------------
(***************************************************************************)
(* Outputs.  A job that shares its archive with no other, and that no      *)
(* queue runs twice at a time, writes its output undisturbed.              *)
(***************************************************************************)

Busy(r) == run[r].pc \in {"waiting"} \cup Inside
Sole(j) == conf[j].via # "sqs" /\ \A i \in Jobs \ {j} : conf[i].key # conf[j].key

(* A direct request is run once, in the first slot.                         *)
DirectOnce == \A r \in Runs : conf[Id(r)].via = "direct" /\ r[2] # 1 => At(r, "idle")

CleanJob(j) ==
  /\ bucket[conf[j].key].output # "damaged"
  /\ \A r \in Runs : Id(r) = j =>
       /\ At(r, "upload") => staged[conf[j].key] \in {"absent", "whole"}
       /\ Busy(r) => ~ run[r].torn

Undisturbed == DirectOnce /\ (losses = 0 => \A j \in Jobs : Sole(j) => CleanJob(j))

(* Such a job has one run at work at most.                                  *)
LEMMA OneAtWork ==
  ASSUME TypeOK, OneToken, DirectOnce, losses = 0, NEW j \in Jobs, Sole(j),
         NEW q \in Runs, NEW r \in Runs, Key(q) = Key(r), Id(r) = j, Busy(q), Busy(r)
  PROVE  q = r
  <1>1. Id(q) = j
    BY RunParts DEF Sole, Key
  <1>2. CASE conf[j].via = "rabbitmq"
    <2>1. TokenOf(j)
      BY <1>2 DEF OneToken, Via
    <2>2. Active(q) /\ Active(r)
      BY <1>1, <2>1 DEF TokenOf, Active, Busy, At, Inside
    <2> QED
      BY <1>1, <2>1, <2>2 DEF TokenOf
  <1>3. CASE conf[j].via = "direct"
    <2>1. q[2] = 1 /\ r[2] = 1
      BY <1>1, <1>3 DEF DirectOnce, Busy, At, Inside
    <2> QED
      BY <1>1, <2>1, RunParts
  <1>4. conf[j].via \in {"sqs", "rabbitmq", "direct"}
    BY ConfType DEF TypeOK, WorkerTypeOK, Request
  <1> QED
    BY <1>2, <1>3, <1>4 DEF Sole

(* A run touches the files of its own key and the runs of its own job.      *)
LEMMA RunStepLocal ==
  ASSUME WorkerTypeOK, NEW r \in Runs, RunStep(r)
  PROVE  /\ \A k \in Keys : k # Key(r) => bucket'[k] = bucket[k] /\ staged'[k] = staged[k]
         /\ \A q \in Runs : Id(q) # Id(r) => run'[q] = run[q]
  <1> USE DEF WorkerTypeOK
  <1>g. ASSUME NEW pc, Goto(r, pc) PROVE \A q \in Runs : q # r => run'[q] = run[q]
    BY <1>g DEF Goto
  <1>1. \A q \in Runs : Id(q) # Id(r) => run'[q] = run[q]
    <2>1. CASE Download(r)
      BY <2>1 DEF Download
    <2>2. CASE ~Download(r)
      BY <2>2, <1>g DEF RunStep, Enter, Open, Process, Upload, Audit, Consume, Report,
                        Fail, Park, Unpark, Mark, Return
    <2> QED
      BY <2>1, <2>2
  <1>2. \A k \in Keys : k # Key(r) => staged'[k] = staged[k]
    BY DEF RunStep, Enter, Download, Open, Process, Upload, Audit, Consume, Report,
           Fail, Park, Unpark, Mark, Return
  <1>3. \A k \in Keys : k # Key(r) => bucket'[k] = bucket[k]
    BY DEF RunStep, Enter, Download, Open, Process, Upload, Audit, Consume, Report,
           Fail, Park, Unpark, Mark, Return
  <1> QED
    BY <1>1, <1>2, <1>3

(* The step of the one run at work on its archive.                          *)
LEMMA CleanWorks ==
  ASSUME TypeOK, OneToken, DirectOnce, losses = 0,
         NEW r \in Runs, RunStep(r), Sole(Id(r)), CleanJob(Id(r))
  PROVE  CleanJob(Id(r))'
  <1> DEFINE j == Id(r)
             k == Key(r)
  <1>0. /\ WorkerTypeOK /\ j \in Jobs /\ k \in Keys /\ k = conf[j].key
        /\ bucket[k] \in Object
        /\ staged[k] \in {"absent", "partial", "damaged", "whole"}
    BY RunParts, ConfType DEF TypeOK, WorkerTypeOK, Key
  <1> USE DEF WorkerTypeOK
  <1>1. conf' = conf /\ Busy(r) /\ \A q \in Runs \ {r} : run'[q].pc = run[q].pc
    BY <1>0, RunStepMoves DEF Busy
  <1>2. \A q \in Runs : q # r /\ Key(q) = k => ~Busy(q)
    BY <1>1, OneAtWork, RunParts
  <1>3. \A q \in Runs : q # r /\ Id(q) = j => ~Busy(q) /\ ~Busy(q)' /\ ~At(q, "upload")'
    BY <1>1, <1>2 DEF Busy, At, Key, Inside
  <1>4. ~ run[r].torn /\ ~Disturbed(r) /\ bucket[k].output # "damaged"
    BY <1>0, <1>1, <1>2 DEF CleanJob, Disturbed, Busy, At, Inside
  (* What is left to show is about the run itself and the output.           *)
  <1>5. ASSUME bucket'[k].output # "damaged", ~ run'[r].torn,
               run'[r].pc = "upload" => staged'[k] \in {"absent", "whole"}
        PROVE  CleanJob(j)'
    BY <1>0, <1>1, <1>3, <1>5 DEF CleanJob, At
  <1>g. ASSUME NEW pc, Goto(r, pc) PROVE run'[r].pc = pc /\ run'[r].torn = run[r].torn
    BY <1>g, <1>0 DEF Goto
  <1>6. CASE Enter(r) \/ Open(r) \/ Audit(r) \/ Report(r) \/ Fail(r) \/ Mark(r)
    <2>1. bucket' = bucket
      BY <1>6 DEF Enter, Open, Audit, Report, Fail, Mark
    <2>2. \E pc : pc # "upload" /\ Goto(r, pc)
      BY <1>6 DEF Enter, Open, Audit, Report, Fail, Mark, Return
    <2> QED
      BY <2>1, <2>2, <1>g, <1>4, <1>5
  <1>7. CASE Download(r)
    <2>1. run'[r] = [run[r] EXCEPT !.pc = "open", !.torn = FALSE] /\ bucket' = bucket
      BY <1>7 DEF Download
    <2>2. run[r] \in [pc : PCs, torn : BOOLEAN, tries : Nat]
      BY <1>0
    <2>3. run'[r].pc = "open" /\ ~ run'[r].torn
      BY <2>1, <2>2
    <2> QED
      BY <2>1, <2>3, <1>4, <1>5
  <1>8. CASE Process(r)
    <2>1. staged'[k] \in {"absent", "whole"}
      BY <1>0, <1>4, <1>8 DEF Process
    <2> QED
      BY <2>1, <1>8, <1>g, <1>4, <1>5 DEF Process
  <1>9. CASE Upload(r)
    <2>1. staged[k] = "whole"
      BY <1>0, <1>9 DEF Upload, CleanJob
    <2>2. bucket'[k].output = "whole"
      BY <2>1, <1>9, <1>0 DEF Upload, Object
    <2> QED
      BY <2>2, <1>9, <1>g, <1>4, <1>5 DEF Upload
  <1>10. CASE Consume(r)
    <2>1. bucket'[k].output = bucket[k].output
      BY <1>10, <1>0 DEF Consume, Object
    <2> QED
      BY <2>1, <1>10, <1>g, <1>4, <1>5 DEF Consume
  <1>11. CASE Park(r)
    <2>1. bucket'[k].output = bucket[k].output
      BY <1>11, <1>0 DEF Park, Object
    <2> QED
      BY <2>1, <1>11, <1>g, <1>4, <1>5 DEF Park
  <1>12. CASE Unpark(r)
    <2>1. bucket'[k].output = bucket[k].output
      BY <1>12, <1>0 DEF Unpark, Object
    <2> QED
      BY <2>1, <1>12, <1>g, <1>4, <1>5 DEF Unpark
  <1> QED
    BY <1>6, <1>7, <1>8, <1>9, <1>10, <1>11, <1>12 DEF RunStep

(* The callers' steps start and end runs and leave files alone.             *)
LEMMA CleanCalls ==
  ASSUME Undisturbed, UNCHANGED <<conf, bucket, staged>>, losses' = losses,
         \A q \in Runs : \/ run'[q] = run[q]
                         \/ /\ run'[q].pc \notin Inside
                            /\ run'[q].pc = "waiting" => ~ run'[q].torn
                            /\ conf[Id(q)].via = "direct" => q[2] = 1
  PROVE  Undisturbed'
  <1>1. DirectOnce'
    BY DEF Undisturbed, DirectOnce, At
  <1>2. ASSUME NEW j \in Jobs, CleanJob(j) PROVE CleanJob(j)'
    BY <1>2 DEF CleanJob, Busy, At, Inside
  <1>3. \A j \in Jobs : Sole(j)' <=> Sole(j)
    BY DEF Sole
  <1> QED
    BY <1>1, <1>2, <1>3 DEF Undisturbed

LEMMA UndisturbedKeeps ==
  ASSUME IInv, OneToken, Undisturbed, [Next]_vars
  PROVE  Undisturbed'
  <1> USE DEF IInv, TypeOK
  <1>0. losses \in Nat /\ \A q \in Runs : Id(q) \in Jobs
    BY QueueAssumption, RunParts
  <1>s. ASSUME NEW r \in Runs, NEW n \in Nat, Submit(r, n)
        PROVE  /\ UNCHANGED <<conf, bucket, staged>>
               /\ \A q \in Runs \ {r} : run'[q] = run[q]
               /\ run'[r].pc \notin Inside /\ ~ run'[r].torn
    <2>1. run'[r].torn = FALSE
      BY <1>s DEF Submit, WorkerTypeOK, Idle
    <2> QED
      BY <1>s, <2>1, SubmitEffect DEF Submit, Inside
  <1>f. ASSUME NEW r \in Runs, Finished(r), KeepWorker, losses' = losses,
               Id(r) \in Via("sqs") \cup Via("rabbitmq")
        PROVE  Undisturbed'
    <2>1. run'[r].pc = "idle" /\ \A q \in Runs \ {r} : run'[q] = run[q]
      BY <1>f, FinishedEffect
    <2> QED
      BY <2>1, <1>f, CleanCalls DEF KeepWorker, Via, Inside
  <1>1. CASE Work
    <2>1. PICK r \in Runs : RunStep(r) /\ UNCHANGED queueVars
      BY <1>1 DEF Work
    <2>2. /\ conf' = conf /\ losses' = losses
          /\ Busy(r) /\ \A q \in Runs \ {r} : run'[q].pc = run[q].pc
      BY <2>1, RunStepMoves DEF queueVars, Busy
    <2>3. DirectOnce'
      BY <2>2 DEF Undisturbed, DirectOnce, Busy, At, Inside
    <2>4. ASSUME losses = 0, NEW j \in Jobs, Sole(j) PROVE CleanJob(j)'
      <3>1. CleanJob(j)
        BY <2>4 DEF Undisturbed
      <3>2. CASE j = Id(r)
        BY <2>1, <2>4, <3>1, <3>2, CleanWorks DEF Undisturbed
      <3>3. CASE j # Id(r)
        <4>1. conf[j].key # Key(r) /\ conf[j].key \in Keys
          BY <2>4, <3>3, <1>0, ConfType DEF Sole, Key, WorkerTypeOK, Request
        <4>2. /\ bucket'[conf[j].key] = bucket[conf[j].key]
              /\ staged'[conf[j].key] = staged[conf[j].key]
              /\ \A q \in Runs : Id(q) = j => run'[q] = run[q]
          BY <2>1, <3>3, <4>1, RunStepLocal
        <4> QED
          BY <2>2, <3>1, <4>2 DEF CleanJob, Busy, At
      <3> QED
        BY <3>2, <3>3
    <2>5. \A j \in Jobs : Sole(j)' <=> Sole(j)
      BY <2>2 DEF Sole
    <2> QED
      BY <2>2, <2>3, <2>4, <2>5 DEF Undisturbed
  <1>2. CASE Direct
    <2>1. PICK j \in Jobs : SubmitDirect(j) /\ UNCHANGED queueVars
      BY <1>2 DEF Direct
    <2>2. Sqs(j) \in Runs /\ Sqs(j)[2] = 1 /\ Submit(Sqs(j), 0)
      BY <2>1, FirstSlot DEF SubmitDirect, Sqs
    <2> QED
      BY <2>1, <2>2, <1>s, CleanCalls DEF queueVars
  <1>3. ASSUME NEW r \in Runs, SqsSettle(r) PROVE Undisturbed'
    BY <1>3, <1>f DEF SqsSettle
  <1>4. ASSUME NEW r \in Runs, Deliver(r) PROVE Undisturbed'
    <2>1. /\ Submit(r, copy[r].tries) /\ copy[r].tries \in Nat /\ losses' = losses
          /\ conf[Id(r)].via = "rabbitmq"
      BY <1>4, QueueAssumption DEF Deliver, Copy, Via
    <2> QED
      BY <2>1, <1>s, CleanCalls
  <1>5. ASSUME NEW r \in Runs, Publish(r) PROVE Undisturbed'
    <2>1. /\ Goto(r, "ack") /\ KeepWorker /\ losses' = losses
          /\ conf[Id(r)].via = "rabbitmq"
      BY <1>5 DEF Publish, Via
    <2>2. run'[r].pc = "ack" /\ \A q \in Runs \ {r} : run'[q] = run[q]
      BY <2>1 DEF Goto, WorkerTypeOK
    <2> QED
      BY <2>1, <2>2, CleanCalls DEF KeepWorker, Inside
  <1>6. ASSUME NEW r \in Runs, Ack(r) \/ Abandon(r) PROVE Undisturbed'
    BY <1>6, <1>f DEF Ack, Abandon
  <1>7. ASSUME NEW r \in Runs, Expire(r) PROVE Undisturbed'
    BY <1>7, CleanCalls DEF Expire, workerVars
  <1>8. ASSUME NEW j \in Jobs, SqsReceive(j) PROVE Undisturbed'
    <2>1. /\ conf[j].via = "sqs" /\ losses' = losses
          /\ \E s \in Slots : Submit(<<j, s>>, Capped(copy[Sqs(j)].tries + 1))
      BY <1>8 DEF SqsReceive, Lowest, Via
    <2>2. PICK s \in Slots : Submit(<<j, s>>, Capped(copy[Sqs(j)].tries + 1))
      BY <2>1
    <2>3. <<j, s>> \in Runs /\ Id(<<j, s>>) = j /\ Capped(copy[Sqs(j)].tries + 1) \in Nat
      BY QueueAssumption, FirstSlot DEF Runs, Id, Capped, Copy
    <2> QED
      BY <2>1, <2>2, <2>3, <1>s, CleanCalls
  <1>9. ASSUME NEW j \in Jobs, SqsDeadLetter(j) \/ SqsVisible(j) PROVE Undisturbed'
    BY <1>9, CleanCalls DEF SqsDeadLetter, SqsVisible, workerVars
  <1>10. CASE LoseChannel \/ Restart
    <2>1. losses' # 0 /\ conf' = conf
      BY <1>10, <1>0 DEF LoseChannel, Restart, StopRuns, workerVars
    <2>2. \A q \in Runs : At(q, "idle") => At(q, "idle")'
      BY <1>10 DEF LoseChannel, Restart, StopRuns, workerVars, Idle, At
    <2> QED
      BY <2>1, <2>2 DEF Undisturbed, DirectOnce
  <1>11. CASE UNCHANGED vars
    BY <1>11, CleanCalls DEF vars, workerVars, queueVars
  <1> QED
    BY <1>1, <1>2, <1>3, <1>4, <1>5, <1>6, <1>7, <1>8, <1>9, <1>10, <1>11 DEF Next

(* While the channel holds, a job alone on its archive (and not on SQS,     *)
(* which may run it twice at a time) consumes its input only against a      *)
(* complete output: no run finds its files touched by another               *)
(* (zip_worker_s3.rs 264-324).                                              *)
THEOREM ConsumedAgainstWhole == Spec => []ConsumedIsWhole
  <1>1. QueueInit => Undisturbed
    <2> SUFFICES ASSUME QueueInit PROVE Undisturbed
      OBVIOUS
    <2>1. \A r \in Runs : At(r, "idle")
      BY DEF QueueInit, WorkerInit, Idle, At
    <2>2. \A j \in Jobs : bucket[conf[j].key].output = "none"
      BY ConfType DEF QueueInit, WorkerInit, Request
    <2> QED
      BY <2>1, <2>2 DEF Undisturbed, DirectOnce, CleanJob, Busy, At, Inside
  <1>2. IInv /\ OneToken /\ Undisturbed /\ [Next]_vars => Undisturbed'
    BY UndisturbedKeeps
  <1>3. IInv /\ Undisturbed => ConsumedIsWhole
    <2> SUFFICES ASSUME IInv, Undisturbed, losses = 0, NEW j \in Jobs,
                        conf[j].key \in Objects, Sole(j),
                        ~ bucket[conf[j].key].input, ~ bucket[conf[j].key].parked
                 PROVE  bucket[conf[j].key].output = "whole"
      BY DEF ConsumedIsWhole, Sole
    <2>1. bucket[conf[j].key].output \notin {"none", "damaged"}
      BY DEF IInv, InputNeverLost, Undisturbed, CleanJob
    <2>2. bucket[conf[j].key] \in Object
      BY S3Assumption DEF IInv, TypeOK, WorkerTypeOK
    <2> QED
      BY <2>1, <2>2 DEF Object
  <1> QED
    BY <1>1, <1>2, <1>3, Invariance, TokenAlways, PTL DEF Spec
==============================================================================
