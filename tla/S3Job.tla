-------------------------------- MODULE S3Job ---------------------------------
(***************************************************************************)
(* Jobs of the S3 worker (zip_worker_s3.rs): download the archive to       *)
(* DATA_DIR/s3_<job id>.in, process it into the output file of its name,   *)
(* upload that file, write the audit record, delete the input if asked to, *)
(* mark the job's row.  A job that fails anywhere copies its input under   *)
(* errori/ and deletes the original.  Every call to the bucket may fail,   *)
(* and the worker goes on as the code does.  The row of a job, which the   *)
(* worker writes and /status reads, is taken to be written when the code   *)
(* writes it; the audit record is a step that may fail, its text is left   *)
(* out, and so is the webhook, whose failures change nothing.              *)
(*                                                                         *)
(* A job id may have several runs at once (a queue may deliver its message *)
(* again while the first run is going).  They share the spooled input,     *)
(* which belongs to the id, and so do runs on one key the output file: a   *)
(* run can lose its file to another one's clean-up or read what the other  *)
(* is still writing.                                                       *)
(*                                                                         *)
(* The module has no next-state relation of its own: QueueJobs starts the  *)
(* runs of queue messages and takes their results.                         *)
(***************************************************************************)
EXTENDS Naturals, FiniteSets

CONSTANTS Jobs,        \* job ids: messages of a queue, HTTP requests, sweep jobs
          Keys,        \* archives; a key stands for the input object and the names made from it
          Objects,     \* the keys that have an input object at the start
          Slots,       \* bound: runs of one id, and copies of its message
          Permits,     \* S3_MAX_CONCURRENT_JOBS
          Deployments  \* what each job is: [Jobs -> Request]

Request == [via : {"sqs", "rabbitmq", "direct"}, key : Keys,
            consume : BOOLEAN,                 \* delete_input_on_success, as honoured
            body : {"job", "invalid", "garbage"}]

ASSUME S3Assumption ==
  /\ Permits \in Nat \ {0}
  /\ Objects \subseteq Keys
  /\ Slots \subseteq Nat /\ 1 \in Slots
  /\ Deployments \subseteq [Jobs -> Request]

VARIABLES
  conf,     \* the deployment; never changes
  bucket,   \* per key: input object, copy under errori/, output object
  row,      \* state in the s3_jobs table
  spool,    \* the ids whose s3_<id>.in exists
  staged,   \* local output file of a key
  run       \* the runs: program counter, whether its spool was torn, its delivery

workerVars == <<conf, bucket, row, spool, staged, run>>

Runs    == Jobs \X Slots
Id(r)   == r[1]
Key(r)  == conf[Id(r)].key

Inside  == {"download", "open", "process", "upload", "audit", "consume", "report",
            "park", "unpark", "mark"}                      \* with a permit
Results == {"ok", "err", "poison", "ack"}                   \* taken by the caller
PCs     == {"idle", "waiting", "lost"} \cup Inside \cup Results

Idle   == [pc |-> "idle", torn |-> FALSE, tries |-> 0]
Object == [input : BOOLEAN, parked : BOOLEAN, output : {"none", "damaged", "whole"}]

WorkerTypeOK ==
  /\ conf \in Deployments
  /\ bucket \in [Keys -> Object]
  /\ row \in [Jobs -> {"none", "queued", "running", "done", "failed"}]
  /\ spool \subseteq Jobs
  /\ staged \in [Keys -> {"absent", "partial", "damaged", "whole"}]
  /\ run \in [Runs -> [pc : PCs, torn : BOOLEAN, tries : Nat]]

WorkerInit ==
  /\ conf \in Deployments
  /\ bucket = [k \in Keys |-> [input |-> k \in Objects, parked |-> FALSE, output |-> "none"]]
  /\ row = [j \in Jobs |-> "none"]
  /\ spool = {}
  /\ staged = [k \in Keys |-> "absent"]
  /\ run = [r \in Runs |-> Idle]

------------------------------------------------------------------------------
(* The tracker inserts a row for every run and patches it.                  *)

At(r, pc)   == run[r].pc = pc
Goto(r, pc) == run' = [run EXCEPT ![r].pc = pc]

Write(j, s) == row' = [row EXCEPT ![j] = s]

(* run_queue_job refuses an invalid message before it registers the job.    *)
Submit(r, tries) ==
  LET body == conf[Id(r)].body IN
  /\ At(r, "idle")
  /\ run' = [run EXCEPT ![r] =
               [Idle EXCEPT !.tries = tries,
                            !.pc = CASE body = "job"     -> "waiting"
                                     [] body = "invalid" -> "err"
                                     [] body = "garbage" -> "poison"]]
  /\ IF body = "job" THEN Write(Id(r), "queued") ELSE UNCHANGED row
  /\ UNCHANGED <<conf, bucket, spool, staged>>

(* anonymize_s3 and submit_batch: the object was seen in the bucket, the job *)
(* gets an id of its own and its result goes nowhere.                        *)
SubmitDirect(j) ==
  /\ conf[j].via = "direct" /\ bucket[conf[j].key].input
  /\ Submit(<<j, 1>>, 0)

------------------------------------------------------------------------------
(* run_job, a permit of the job semaphore first.                            *)

Enter(r) ==
  /\ At(r, "waiting")
  /\ Cardinality({q \in Runs : run[q].pc \in Inside}) < Permits
  /\ Write(Id(r), "running")
  /\ Goto(r, "download")
  /\ UNCHANGED <<conf, bucket, spool, staged>>

(* Creating the spool truncates what another run of the id has under way.   *)
Download(r) ==
  /\ At(r, "download") /\ bucket[Key(r)].input
  /\ spool' = spool \cup {Id(r)}
  /\ run' = [q \in Runs |->
               IF q = r THEN [run[q] EXCEPT !.pc = "open", !.torn = FALSE]
               ELSE IF Id(q) = Id(r) /\ run[q].pc \in {"open", "process"}
               THEN [run[q] EXCEPT !.torn = TRUE]
               ELSE run[q]]
  /\ UNCHANGED <<conf, bucket, row, staged>>

Open(r) ==
  /\ At(r, "open") /\ Id(r) \in spool
  /\ staged' = [staged EXCEPT ![Key(r)] = "partial"]
  /\ Goto(r, "process")
  /\ UNCHANGED <<conf, bucket, row, spool>>

(* A file that was removed meanwhile stays removed.  What a torn spool or a *)
(* second writer leaves behind is anybody's guess.                          *)
Disturbed(r) == \/ run[r].torn
                \/ \E q \in Runs \ {r} : Key(q) = Key(r) /\ At(q, "process")

Process(r) ==
  /\ At(r, "process")
  /\ \E content \in IF staged[Key(r)] = "absent" THEN {"absent"}
                    ELSE IF Disturbed(r) THEN {"damaged", "whole"} ELSE {"whole"} :
        staged' = [staged EXCEPT ![Key(r)] = content]
  /\ Goto(r, "upload")
  /\ UNCHANGED <<conf, bucket, row, spool>>

Upload(r) ==
  /\ At(r, "upload") /\ staged[Key(r)] # "absent"
  /\ bucket' = [bucket EXCEPT ![Key(r)].output =
                  IF staged[Key(r)] = "whole" THEN "whole" ELSE "damaged"]
  /\ staged' = [staged EXCEPT ![Key(r)] = "absent"]
  /\ Goto(r, "audit")
  /\ UNCHANGED <<conf, row, spool>>

Audit(r) ==
  /\ At(r, "audit")
  /\ Goto(r, "consume")
  /\ UNCHANGED <<conf, bucket, row, spool, staged>>

Consume(r) ==
  /\ At(r, "consume")
  /\ bucket' \in {bucket} \cup
       IF conf[Id(r)].consume THEN {[bucket EXCEPT ![Key(r)].input = FALSE]} ELSE {}
  /\ Goto(r, "report")
  /\ UNCHANGED <<conf, row, spool, staged>>

(* run_job returns: its guard removes the spool, its permit is free.        *)
Return(r, result) == /\ spool' = spool \ {Id(r)}
                     /\ Goto(r, result)

Report(r) ==
  /\ At(r, "report")
  /\ Write(Id(r), "done")
  /\ Return(r, "ok")
  /\ UNCHANGED <<conf, bucket, staged>>

------------------------------------------------------------------------------
(* The error branch.  Any step up to the audit record may fail.             *)

Fail_pastProcessing(r) ==
  /\ run[r].pc \in {"download", "open", "process", "upload", "audit"}
  /\ Goto(r, IF At(r, "process") THEN "upload" ELSE "park")
  /\ UNCHANGED <<conf, bucket, row, spool, staged>>

Fail(r) ==
  /\ run[r].pc \in {"download", "open", "process", "upload", "audit"}
  /\ Goto(r, "park")
  /\ UNCHANGED <<conf, bucket, row, spool, staged>>

Park_unchecked(r) ==
  /\ At(r, "park")
  /\ bucket' \in {bucket, [bucket EXCEPT ![Key(r)].parked = @ \/ bucket[Key(r)].input]}
  /\ Goto(r, "unpark")
  /\ UNCHANGED <<conf, row, spool, staged>>

Park(r) ==
  /\ At(r, "park")
  /\ \/ /\ bucket[Key(r)].input
        /\ bucket' = [bucket EXCEPT ![Key(r)].parked = TRUE]
        /\ Goto(r, "unpark")
     \/ Goto(r, "mark") /\ UNCHANGED bucket      \* nothing to copy, or the copy failed
  /\ UNCHANGED <<conf, row, spool, staged>>

Unpark(r) ==
  /\ At(r, "unpark")
  /\ bucket' \in {bucket, [bucket EXCEPT ![Key(r)].input = FALSE]}
  /\ Goto(r, "mark")
  /\ UNCHANGED <<conf, row, spool, staged>>

Mark_silent(r) ==
  /\ At(r, "mark")
  /\ Return(r, "err")
  /\ UNCHANGED <<conf, bucket, row, staged>>

Mark(r) ==
  /\ At(r, "mark")
  /\ Write(Id(r), "failed")
  /\ Return(r, "err")
  /\ UNCHANGED <<conf, bucket, staged>>

RunStep(r) ==
  \/ Enter(r) \/ Download(r) \/ Open(r) \/ Process(r) \/ Upload(r) \/ Audit(r)
  \/ Consume(r) \/ Report(r) \/ Fail(r) \/ Park(r) \/ Unpark(r) \/ Mark(r)

(* The process stops: files stay, the runs are gone.  Nobody resumes a job  *)
(* that did not come from a queue.                                          *)
StopRuns ==
  /\ run' = [r \in Runs |-> IF conf[Id(r)].via = "direct" /\ ~At(r, "idle")
                            THEN [Idle EXCEPT !.pc = "lost"] ELSE Idle]
  /\ UNCHANGED <<conf, bucket, row, spool, staged>>
==============================================================================
