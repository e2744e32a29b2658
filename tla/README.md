# Verification of anonimizzazione_volti

This directory holds TLA+ models of the Rust service in `src/src/src/` (face
anonymization of camera archives), the TLC configurations that check them on
small instances and machine-checked proofs (TLAPS) about the models for every
value of their parameters. Line numbers in the modules, in `PROJECT.json` and
below refer to the files of `src/src/src/`; `README` in a comment of a module, and
`README.md` and `.env.example` in section 5, are those of `src/src/`.

## 1. Inventory

The service is one process (tokio runtime plus blocking threads) over one
SQLite file, one data directory and, optionally, an S3 bucket set and a queue.

| Component | State it keeps | Operations | Hard parts |
|---|---|---|---|
| Camera database (`db.rs`) | `cameras` row per id: state, learning clock, ROI, frame geometry; `detections`; `s3_jobs` | one statement or transaction per method | no lock spans two statements; callers keep rows they read earlier |
| Operator and background loop (`main.rs`) | catch-up and nightly pass | reset, full-frame ROI, finalize, re-extract, prune | stale lists and rows against concurrent jobs |
| Archive processor (`zip_worker.rs`) | per-image gate, JoinSet per job, shared error counter, output file | schedule, work, drain, finish, abort | cancellation of async tasks does not stop blocking workers; gate replaced while in use; shared counter |
| ONNX session pool (`models.rs`) | idle sessions, live count, condition variable | acquire, load, release | load outside the mutex, failed loads, lost wake-ups |
| HTTP server (`main.rs`) | `job_lock`, spooled uploads | `/anonymize` and `/anonymize/batch` (both try_lock), clean-up, ingest deadline | clients that go away, byte budget over several archives, same output names |
| Settings (`config.rs`) | effective snapshot, overrides file and its temporary file | patch, reset one or all, persist, restart | concurrent patches on one temporary file, order of swap and persist |
| Job worker (`zip_worker_s3.rs`) | tracker row per job, temporary file, objects | submit, run, park, audit, notify | redelivery while running, failure after upload, parking before retry |
| Queue consumers (`queue_sqs.rs`, `queue_rabbitmq.rs`) | messages and their attempt counts | receive, settle, retry, dead-letter | at-least-once delivery, visibility timeout, crash between publish and ack |
| Retraining (`training.rs`, `ModelStore`) | crop set, classifier pool, state file, backups | count, train, validate, compare, swap, clear, persist, prune, restore at start-up | crops arriving meanwhile, crash between steps, workers on the old pool |
| Retention (`retention.rs`) | output files | age rule, size rule | files in use |
| Per-frame pipeline (`pipeline.rs`) | none | choose regions by camera state, suppress, classify, mask, blur or mosaic | fallbacks on every error, unsigned sliding sums, edges |
| ROI geometry (`roi.rs`) | none | DBSCAN, hull, simplify, IoU, decide | floating point |
| Start-up (`model_loader.rs`) | model cache | download with retries, verify, load, refuse | a start refused half-way leaves its downloads |
| EXIF, samples, evaluation tools, scripts | none of the service's | sequential I/O and parsing | not modelled |

How they interact. The HTTP handlers, the S3 worker and the queue consumers all
call one `ZipProcessor`; a job reads or creates one row per camera
(`camera_for`) and processes all frames of that camera under this snapshot; a
frame's worker borrows ONNX sessions from the pools; drained frames write
geometry and detections back to the database; the nightly pass turns detections
into polygons and activates cameras; the operator overrides both. What makes
each part correct is stated by its properties in section 3, and
`PROJECT.json` lists the hazards, at their lines, with the properties that
cover them.

## 2. Plan

In order of importance; what is done is described in section 3.

1. `SessionPool`, refining `BoundedSlots` -- done, proved.
2. `CameraFsm`: rows, detections, jobs, operator, nightly pass -- done, proved.
3. `ZipJob`: gate, tasks, drain, cancellation, counter -- done; all its safety proved,
   and every semaphore of the gate shown to implement `BoundedSlots`.
4. `S3Job` and `QueueJobs`: job worker and both consumers -- done; all their safety
   proved. Left: an abstract specification of a consumer (a message is offered until
   it is settled, once).
5. `OutputFiles`: requests, the job worker and retention on one data directory --
   done; all its invariants proved but `LockHolderGoesOn`, of which `LockNotLeaked` is
   the part without ENABLED. Left: the entries of merged
   archives.
6. `Classifier`: nightly retraining, swap, state file, prune, restart -- done, proved.
7. `RuntimeSettings`: patch, reset, persist, restart -- done, proved.
8. `FramePipeline`, `Geometry`, `BoxBlur`: a frame through `process_image` -- done,
   proved. Left: DBSCAN and `decide_roi` in `roi.rs`, against a reference over
   bounded inputs, and the mask's feathered edge.
9. `backoff_ms`, the classes of `safe_job_id`, `ArchiveLimits`: pure operators
   against reference definitions.

Compositions: `CameraFsm` composes the database with its four kinds of callers;
`QueueJobs` extends `S3Job`, whose runs it starts and settles, and takes the outcome
of a `ZipJob` as an abstract step; `OutputFiles` composes requests, object-store jobs
and retention; `FramePipeline` extends `Geometry`.

## 3. What is modelled

A convention used in all modules: a definition named `Op_fault` is `Op` with one
plausible bug. No action uses it; it serves to show that the property checked
would notice that bug.

### SessionPool (`models.rs:31-136`), BoundedSlots

State: `idle` and `live` are the fields of `PoolState`; `pc` is where a thread
stands in `acquire`, in its use of a session or outside. One action is one
critical section of the mutex: `PopIdle`, `BeginLoad` (counts the session before
the load), `Block` are the three outcomes of one turn of the loop; `LoadOk` and
`LoadErr` re-lock after the file load; `Release` is the drop of the guard.
`MoveAndNotify` is `notify_one`: it wakes some blocked thread, which then
competes with callers that barge in; `SpuriousWakeup` is allowed at any time.
Sessions are interchangeable, so the idle vector is its length.

* `LiveAccounting`: `live` is exactly what is idle, loading or lent, and never
  exceeds the capacity.
* `NoLostWakeup`: while somebody is blocked, every free session has a woken
  thread on its way.
* `RefinesSlots`: the pool implements `BoundedSlots`, an abstract resource of
  `Cap` slots; a thread holds a slot from `BeginLoad` or `PopIdle` on.
* `AcquireReturns` (liveness): every `acquire` returns. Fairness: a thread that
  can take its next step in the pool does (it is a running OS thread, a load
  ends, a worker drops its session); not assumed: that anybody calls, that a
  spurious wake-up occurs, or that the condition variable is fair.

Run `session_pool`: four threads on two sessions, two calls each, so that
threads block, barge and recycle sessions. A larger number of threads adds no
new kind of step; the proofs cover it.

### CameraFsm (`db.rs`, `main.rs:1758-2235`, `zip_worker.rs:321-692`)

State: `row` and `dets` are the two tables (a detection is its capture day),
`job` the running jobs with what they cached, `night` the background loop with
the rows it has read and not handled yet, `op` a full-frame-ROI request between
its read and its write, `today` the calendar. `born` and `forced` are history.
One action is one SQL statement or transaction with the memory work around it.
A statement that fails and is only logged is the same action without its write.
`CameraFor` is the first frame of a camera in a job, `StartFrame` a task
(`set_state` when the cached state is INITIAL), `DrainSized`/`DrainFailed` one
turn of `drain_results`, `PersistDetections` the chunked insert, `AbortJob` a
cap violation or a disconnect. `ListRows`, `FinalizeOne`, `ReextractOne`,
`PruneDetections`, `WakeUp` are the background loop, whose catch-up pass does
not prune. `Restart` keeps the tables only. ROI extraction is abstracted to "a
polygon in the listed geometry, or nothing"; `decide_roi` to its three outcomes.

* `RowCoherent`: ACTIVE has polygon and geometry, LEARNING has a clock, INITIAL
  has neither polygon nor clock -- under every interleaving.
* `RoiInFrame`: a deployed polygon is in the recorded geometry although its
  writer used an older read. It follows that `GeometryChanged` (`roi.rs:184`)
  cannot be reached in this code.
* `GeometryFixed`: geometry is recorded once.
* `NoEarlyActivation`: ACTIVE without the operator's force only after the window.
* `LearningDataKept`: pruning keeps what a learning camera needs up to the pass
  after its window. The horizon is measured from `today`, the data from the
  clock; a horizon of the ROI window alone fails (the mutant).

Bounds of `camera_fsm`: one camera (no statement touches two rows), two geometries,
one polygon shape and the full-frame one, two concurrent jobs of one frame over
four days with a learning and an ROI window of one day each; the calendar starts with
the first row, since nothing before it depends on the day. Pruning then keeps two
days back: on the last day it removes the first day's detections, also while a camera
that was reset since is learning and has detections to keep. The background loop may
wake at any time, so no schedule is assumed. Of a listed row the model keeps the fields
the pass reads (`Listed`). Longer calendars and more jobs are left to the proofs.

### ZipJob (`zip_worker.rs:166-692, 766-1028, 1650-1795`)

State: `gate` holds every semaphore made so far (a generation each) with its
free permits, `desired` what `effective_concurrency()` answers, `errors` the
counter of the processor, `job` the phase of a job and its outcome, `entry` the
fate of every archive entry: to do, read, spawned, on a worker, finished in the
JoinSet (payload, degraded payload, error only, panicked), over, or orphaned on
a worker nobody awaits. `Refresh` and `Acquire` are `acquire_permit`: the gate is
looked up first, the permit awaited afterwards on the semaphore then found.
`Skip` is an unreadable entry or camera, `Spawn` the JoinSet, `StartWork` and
`FinishWork` the task, `Drain` one turn of `drain_results`, `Finish` and
`FinishFails` the end. `Abandon` is a limit violation or a dropped request;
`Cancel` the cancellation of each task, whose worker, if started, becomes an
orphan. `.7z` and `.rar` archives take the same path after extraction.

* `PermitsConserved`: on every path of every entry, permits held and free in a
  semaphore add up to its size.
* `NothingLost`: a finished job has every entry in its archive or its report.
* `JobsEnd` (liveness): every started job ends. Fairness: the runtime polls ready
  tasks and blocking workers end; neither starting nor abandoning is assumed.

Bounds: two jobs of two entries and a capacity of one or two that changes once
(`zip_job`; the error counter is switched off there by `MaxErrors = 0`, which
no property of that run reads). With two entries and one permit, a job needs
its first permit back before it can drain, which is the deadlock
`JobsEnd` is about. The process really stops when all jobs are over, hence
`CHECK_DEADLOCK FALSE`; that nobody stops earlier is `JobsEnd`.

### S3Job and QueueJobs (`zip_worker_s3.rs`, `queue_sqs.rs`, `queue_rabbitmq.rs`)

`S3Job` is the worker: `run_job` and `process_one` step by step between their
awaits (`Enter` takes a permit of the job semaphore, then `Download`, `Open`,
`Process`, `Upload`, `Audit`, `Consume`, `Report`), any of which up to the audit
may `Fail`; the error branch is `Park` (copy to `errori/`), `Unpark` (delete the
original), `Mark`. State: `bucket` (per key: input, parked copy, output), `row`
(the `s3_jobs` state), `spool` (the temporary input, which belongs to the job
id), `staged` (the local output file, which belongs to the key) and the program
counter of every run. Two runs of one id tear each other's spool, two runs on
one key write one staged file: what such a run uploads may be damaged.

`QueueJobs` adds the brokers and the consumers. The state of a broker is the list
of copies of each message with their place and count; the brokers' own steps
(visibility timeout, redrive, retry expiry, redelivery) are external, modelled
from what the code asks of them. `SqsSettle` is the end of `handle_message`,
`Publish`/`Ack` that of `handle_delivery`, with the channel or the process lost
at any point between (`LoseChannel`, `Restart`). The RabbitMQ retry count relies
on a broker that keeps counting in `x-death` when a client republishes it.

* `MessageNeverLost`: a message leaves its broker only as completed, with its
  output uploaded, or, in SQS, dropped at its last receive or as unreadable.
* `InputNeverLost`: the archive always exists as input, parked or as an output.
* `GivenUpAfterRetries`: dead-lettered by RabbitMQ only after the full number of
  failed runs, duplicates of the message included.
* `OneRunPerMessage`, `ConsumedIsWhole`, `StatusFollows`: while no channel or process
  is lost, the retries of a RabbitMQ message never overlap, an input of a single
  job is consumed only against a whole output, and its row tells what became of
  its message. After a loss these do not hold: two copies of a message may run at
  once, as with an SQS message whose visibility timeout is too short.
* `MessagesSettle` (liveness): every message ends completed, dropped or
  dead-lettered, if SQS has its redrive policy (its set-up is best effort) and
  the RabbitMQ consumer eventually keeps its channel (nothing restarts it).
  Fairness: a handler's task goes on, consumers take what is offered, the brokers'
  timers expire. Failures, losses and deletions that fail are never forced.
* `RetryFindsInput`: what the documentation says of retries; violated (run
  `queue_retry`, section 5).

Bounds: a set of deployments of two jobs each: one message of either broker alone,
beside a request on the same archive, two requests on one archive, messages that
cannot succeed (unreadable, invalid, without object). Two attempts, one lost
channel or restart, two overlapping SQS runs, three copies (two that live after
a loss and one being published). A second attempt is the first that a limit, a
count or a leftover can affect; a second loss only adds a further copy.
`queue_settle` leaves out the overlapping SQS runs and the shared archives, which
only multiply its states. The system really stops when all is settled, hence
`CHECK_DEADLOCK FALSE`; that nothing stops earlier is `MessagesSettle`.

### RuntimeSettings (`config.rs:921-1157`, `main.rs:1709-1744`)

State: `inner` is the ArcSwap, `file` and `tmp` the inodes the two file names are
bound to, `text` what each inode holds, `req` the progress of each request,
`base` the environment. `Compute` is `load_full` and `apply_runtime_patch` on a
copy, `Swap` the store, `OpenTmp`, `WriteTmp`, `Rename` the `fs::write` (truncate,
then write) and the rename, any of which may `Fail`; `ResetAll`, `Remove`,
`Restore` are `reset_to_env` with `clear_all`. `Stop` may come anywhere; `Start`
reads the overrides, is refused if they cannot be loaded, or falls back to the
environment when there is no such file. Two knobs that matter together and one
for all the others stand for the sixteen. Environments are those `from_env` accepts: it
clamps every knob but `FP_CROP_CONF_MAX`, so their cap may be any number above the
threshold.

* `EffectiveValid`: the configuration in force always satisfies the cross-field
  rule, although requests compute from snapshots that others replace.
* `AnswersSurvive`: while requests come one at a time, the overrides file can be
  loaded wherever the process stops, and brings back what an accepted request set or
  what a later one was about to set when it failed; never a rejected patch.
* `OkMeansBoth`: while requests come one at a time, an ok answer means that memory
  and disk agree.
  Both are stated with `Reloaded`: a configuration that was saved comes back as it is,
  but for a cap that the environment set beyond the clamp. That one comes back clamped,
  and if the threshold is at the clamp's end too the start is refused (section 5).
* `OverridesLoadable` is the comment's claim without that restriction; it is
  violated by two requests at once (run `settings_race`, section 5).

Bounds of `settings` and `settings_race`: two requests, three starts, knobs over
1..3, patches on both sides of the cross-field rule, beyond a clamp, of a wrong
type and with an unknown key. One of the three environments of `settings` has its cap
beyond the clamp and its threshold at the end of it, so that restarts with a clamped
cap and refused ones both occur; `settings_race` needs the other two only. Two requests are enough for every race on the one
temporary file: a third would only add another writer of the same kind.

### OutputFiles (`main.rs:800-1075, 1148-1365`, `zip_worker.rs:375-480, 880-995`, `zip_worker_s3.rs:340-420`, `retention.rs`)

The files of the data directory. State: `lock` is `job_lock`; `act` the progress and
the locals of every actor (a request or an object-store job): the upload it is at,
its outputs, failed archives, bytes received, open file; `spools` the uploads on
disk; `dir` and `ino` the output names and the inodes they lead to, because
`File::create` truncates the file another actor may be reading or writing under
the same name; `ret` the list a retention pass works through. `Begin` is
`try_lock`; `Receive`, `Spooled`, `TooMuch`, `IngestTimeout`, `EndOfForm` are
`spool_next_archive_field` and the checks around it, `Abandon` with
`cleanup_batch_outputs`; `Reject`, `Create`, `Finish`, `GiveUp` the outcomes of
`process_archive_file`; `MergeInto`, `MergeCopy`, `MergeFail`, `DropParts` the merge;
`Answer` and `Stream` the response, which is outside the lock, or the upload
of a job, followed by `RemoveLocal`. `Disconnect` drops the handler at any of its awaits: its
guards run, a blocking merge goes on (`detached`), and an upload in transfer has
no guard yet. `RetentionList`, `RetentionRemove`, `RetentionEnd` are one pass.

* `DeliveredIsOwn`: what is delivered is the whole result of the actor's own
  archives, unless another actor used the same name meanwhile (`crossed`) or the
  archives of the batch share a name among themselves.
  Retention is not an exception: a file removed by it is missed, never replaced.
* `AbortLeavesNothing`: after an abandoned upload no name leads to an output of the
  batch, but for one copy. The merge of a batch whose client has gone runs on without
  the lock and opens its parts by name; if the next batch has written a part of the
  same name by then, that part goes into the merged archive, which the next batch does
  not remove when it aborts. It is `crossed` in this case, as is everybody who shares
  a name with another (section 5).
* `OnlyCutUploadLeft`: a handler that is over leaves no spooled upload, but for
  the one whose transfer its client cut off.
* `BudgetUntilSpent`: a batch goes over its total only from a state in which it has
  used all of it (section 5).
* `LockHolderGoesOn`: the request that holds the lock always has a step that needs
  no client, so a stalled client cannot hold the lock; this assumes a positive
  `REQUEST_TIMEOUT_SECS`, since 0 switches the deadline off.

Bounds of `outputs`: a batch of two archives, an object-store job whose archive has
the base name of the batch's second one, and a request with an empty form, which
competes for the lock (a request with an archive is a batch of one but for its cap);
sizes of one or two bytes against a total of two, so that the budget is met exactly;
one retention pass by size over two instants (the age rule, off in this run,
removes by name in the same way, and needs a longer clock). A second batch, which the
copy by an abandoned merge takes, is too large for this run: the theorems (section 4)
hold for any number of batches. Actors stop for good, hence `CHECK_DEADLOCK FALSE`.

### Classifier (`training.rs`, `python/retrain.py`, `models.rs:75-215`, `model_loader.rs:142-265`, `main.rs:220-312`)

State: `pool` is the live pool's model, `files` the models in the cache, `state` the
state file (readable, absent or torn), `crops` the false-positive crops on disk,
`night` the retraining under way, `wk` the pool a worker holds, `warm` the models of
which a session is loaded. `Count` to `Audit` are the steps of `nightly_retrain`
in their order, each with its failures; a frame takes a pool (`TakePool`) and
acquires from it later (`Acquire`, `AcquireFails`); `SaveCrop` comes at any time.
`Stop` may come anywhere; `StartWithUrl` and `StartRestored` are the two ways of
start-up, `StartRefused` one that ends before the service is up; `Fetched` is what
`ensure_model` leaves in the cache. Of the training script, `ReadData` models which
crops it trains on: it counts its data again (`Enough`), cuts the larger class down to
`MaxRatio` times the smaller by sampling (`Cap`, `Capped`) and takes part of the
shuffled samples of both classes for validation only (`HoldoutSizes`, `Split`).
`night.data` is what remains, `night.rest` what it was given and left out, `night.late`
what frames have saved since. `Export` yields a model file or raises; the training and
its metric are abstract.

* `StateRestorable`: a readable state file whose last write succeeded names a model
  that is there, wherever a night was cut off.
* `OnlyOldPoolsFail`: a worker fails for want of the model file only with a pool that
  was swapped out; the live pool can always load.
* `ComparedBeforeSwap`: no candidate replaces a deployed model without having been
  measured against it; the gate's escape for a missing file is never taken.
* `CropsAccounted`: a crop is deleted only when the night's candidate is the live
  model, and was given to its training or saved since. Given does not mean learned: the
  documentation's claim is false for crops over the cap and for held-out ones
  (section 5). What holds is that, if holdout and ratio are such that
  `Holdout * (1 + MaxRatio) <= 50` (10 percent and 4 by default), the crops are never
  all left out: the cap keeps the real faces from filling the training part.

Bounds of `classifier`: two workers, two nights, two starts, three crops, measurements
below, at and above the minimum. Two nights are needed for a night to meet the
model, the state file and the leftovers of an earlier one. The ratio is 1 and the
holdout 25 percent, so that three crops suffice to exceed the cap (with two real faces),
to be held out, and to meet the boundary `25 * (1 + 1) = 50`; eight real faces are
enough that without the cap two crops could be held out whole, which is the mutant.

### FramePipeline, Geometry (`pipeline.rs`, `models.rs:300-340`, `roi.rs:20-140`)

`FramePipeline` is one frame through `process_image`: `WholeFrame` (INITIAL), `Detect`
with suppression, the region list of LEARNING, and for ACTIVE one detection after
the other: `SkipOutside` (ROI), `Reject` and `ClassifierFails`, `MaskFace` with any
mask the segmenter, the keypoints or the box can give, `Heads` and `HeadsFail` for the
person fallback. The models are external: the detector returns any selection of the
given faces, the others answer as they like or fail. The image is the set `blurred`
of replaced pixels; `Region` and `Applied` are what blur and mosaic replace,
with their different treatment of a region's far edge and of regions one pixel
wide. `Geometry` holds suppression, `convex_hull`, `contains` and the two masks, on
integers cleared of denominators; the loops of the code are recursive functions, so
that the proofs can reason about them.

* `FacesReplaced`: of every face the detector finds, the face or the better one it
  was suppressed for is replaced in the frame that is returned, unless it is
  outside the ROI, rejected by the classifier, or can have a mask that is one pixel
  wide or high, which the blur passes over (`Thin`, section 5). "Replaced" is stated
  with definitions of its own (triangles of keypoints, the pixels at the box's
  centre), not with the code's hull and mask.
* `OnlyFacesReplaced`: every replaced pixel belongs to a recorded detection whose
  centre is not outside the ROI.

Bounds of `frame`: a 7 x 6 frame; six faces, at most three at once, with and without
keypoints, overlapping in a chain, at the edge, in a corner with an ellipse one pixel
high, in profile; three persons; two convex ROIs or none; both operations. The least height of a head and the
least side of a crop are 4 instead of 8, so that both cases occur in such a frame.

### BoxBlur (`pipeline.rs:120-260`)

One line of `box_blur_region`, in the pass over rows (window over the whole row) or
over columns (window within the region): `Seed` adds the first window sample by
sample, `Slide` writes an average and moves the window, in wrapping arithmetic.
`SlidingIsExact`: sum and count are at every pixel those of the pixel's own window,
the count is never zero, and every average is the one computed from scratch.
Run `blur`: all lines of six samples out of {0, 1, 5}, radii 2 and 3, every
region, words of 64 values; the proof covers every size.

## 4. What is proved

All proofs are for arbitrary values of the constants under the named assumptions
`PoolAssumption` (a finite set of threads, natural bounds), `FsmAssumption`
(positive windows and frame bound, a natural calendar, distinct
marker values), `ZipAssumption` (a finite set of jobs, positive capacities, natural
bounds), `S3Assumption` (a permit, deployments that are well formed, slots
that are numbers and contain the first), `QueueAssumption` (at least one attempt),
`SettingsAssumption` (a clamp, environments that satisfy the cross-field rule and are
within the clamp but for their cap, a finite set of requests), `OutputAssumption` (actors of one kind each, finitely
many of them and of uploads, archives with natural sizes), `ClassifierAssumption`
(a finite set of crops, at least two samples of each class, a positive ratio, a holdout
of 5 to 50 percent, natural bounds, positive measurements), `FrameAssumption` (a frame of at least 2 x 2
pixels, boxes inside it that are not empty, finitely many keypoints on the grid, ROI
rings that are convex) and `BlurAssumption` (lines as prefix sums below
the word size). The sets said to be finite are those whose members are counted: holders
of permits, names and open files. The jobs, archives and copies of `QueueJobs` need
not be.

`SessionPool_proofs`: the inductive invariant is `TypeOK /\ LiveAccounting /\
NoLostWakeup`. The proof reduces every step to two facts about cardinalities,
adding and removing one thread from a finite set, and one lemma
(`NotifyEffect`) about what `notify_one` does to the three thread sets.
`Refinement` maps steps to `Take`, `Give` or stuttering.

`CameraFsm_proofs`: the properties are not inductive alone, because writers act
on old reads. The strengthening says what a reader's copy may differ in:
`ReadersAgree` (the geometry in the nightly list and in the pending operator
request is still the row's), `ListRead` (only a pass that has read holds rows),
`RowsKnown` (a camera without a row has neither fields nor history, and a job's
camera has a row) and `Aged` (a row was created on a day of the calendar up to today
and its clock is not earlier; listed cameras have rows; a clock listed for
finalization is not earlier than the creation; cameras listed for re-extraction
and never forced have served their window).
`NoEarlyActivation` follows from `Aged`: the stale
clock of a listed row is at least the row's creation day, and re-extraction only
handles rows that were ACTIVE, hence old enough, when listed. The action
properties follow from the same invariant step by step.

`ZipJob_proofs`: the invariant `IInv` adds four facts to types and permit conservation.
`GatesInOrder`: semaphores are made one after the other, at most one for every change
of the capacity, so that a job that finds the newest out of date finds room for the
next. `OneReading`: a job reads one entry at a time, with one permit, hence a job that
leaves in the middle gives back one permit itself (`Abandon`), and its tasks, one by one,
those they still have (`Cancel`). `Pending`: a job waits for a permit only with an entry
to spend it on. `Reported` says where entries can be in each phase of their job;
`NothingLost` is its case of a finished job. Conservation is counting: an entry that
takes, keeps or gives back a permit changes the set of holders of one semaphore by one
member or none (`TakeConserves`, `MoveConserves`, `ReturnConserves`). `GateRefinesSlots` maps
the holders of semaphore `g` to the slots of `BoundedSlots`, `L` being the size it has
once it is made; as that size never changes (`SizesNeverChange`), every behaviour satisfies
the theorem's hypothesis for one `L`.

`QueueJobs_proofs`: `InputNeverLost` rests on `UploadedFirst` (a run past its
upload has its output in the bucket, a run about to delete a parked input has its
copy), which no other run can undo because outputs and parked copies only grow.
`MessageNeverLost` is not inductive: that every unfinished message has a copy does
not say that the copy survives the next ack. `MessageHeld` says it has one that no
run is about to ack as republished; a run that publishes goes to its ack only
after it has put such a copy into the queue, and `Deliveries` (with its channel, a
run works on an unacknowledged copy) keeps the new copy apart from every run's own.
For SQS, `CountsFit` relates the count a run was started with to the broker's:
a run at its last attempt may delete the message because the broker has counted
that far. The retry limit has an invariant of its own, `CountsEarned`: a count on a
RabbitMQ copy never exceeds the failures that were counted for its job, and a copy
that waits for its retry stands for one more. Copies left by lost channels carry
smaller counts, hence never bring the limit forward. All steps but publishing and
expiry are dealt with by one lemma (`QuietKeeps`).
The three properties of executions without a loss follow from `OneToken`: as long as
nothing is lost, a RabbitMQ message has one token, which is with the broker or with the
one run that works on it, because a run that has published its retry does nothing but
ack the original afterwards; the job's row fits the place of the token. For
`ConsumedIsWhole`, `Undisturbed` adds that a job alone on its archive, having one run at
work at most, finds its temporary file and its staged output as it left them.

`RuntimeSettings_proofs`: `EffectiveValid` is inductive with the types and with
`SafeInv`, by which every configuration a request is about to swap in is valid. The
two sequential properties need `SeqInv`, which says of a run in which no two
requests have overlapped (`OneByOne`) where the one request that may be under way
stands, what the temporary file and the overrides hold at that point, and that memory
is ahead of the disk by its own configuration only. `PatchedWhole` says what a start
makes of a whole file: `Reloaded` of what was saved, accepted if that is valid. Nothing
is assumed of the environment's cap but what `from_env` checks.

`OutputFiles_proofs`: most actions end their actor or move one that is at work to
another stage; `EndKeeps` and `MoveKeeps` carry the proof for each kind. The invariant
ties three things: a request at work holds the lock (`OneRequestAtATime`),
every upload on disk belongs to such a request or was cut (`Owned` and
`OnlyCutUploadLeft`), and a batch's cap is within what remains of its total
(`CapWithin`). That no two requests ever work at once follows for any number of them.
The converse, `LockNotLeaked`, is that whoever holds the lock is at work: in each stage of
`Busy` the guard of `IngestTimeout`, `Reject`, `GiveUp`, `Close`, `MergeInto`,
`MergeFail`, `DropParts` or `Answer` holds, none of which waits for the client. It is the
part of `LockHolderGoesOn` that does not speak of ENABLED.

`DeliveredIsOwn` and `AbortLeavesNothing` rest on a second invariant, `FInv`, about names,
inodes and the files that actors have open. `Apart`: no inode has two names. `Named`: a file
that is open has either lost its name or still has the one it was opened under.
`Marked`: two actors that depend on one name are both crossed, from the moment the
second begins to; `OnlyCrossedShare` says the same of files that are open. So what
an actor that is not crossed has written is as it left it, or has been removed by
retention, but is never replaced (`Untouched`): each part holds its own archive, the
merged file holds them all once it is whole, and the file it sends is whole. `Located`
says under which names the archives of a request that may still abort can be found;
trying to prove it without its exception is what showed the copy by an abandoned merge.
That there is a new inode to create is counted (`UnusedInode`): there are more inodes
than names and open files. Actions are of three kinds, each with its lemmas: those that
write no file and move their actor on or end it, those that write into an open file,
and those that open one.

`Classifier_proofs`: the four properties need each other. `Older` and `Candidate` say
that a night's candidate is newer than anything deployed, saved or held before, so that
discarding it never removes a model in use; `Present` that the live model's file is
there and, before pruning, that a successful write named the candidate; `Given` that
a crop the training was not given is known to be late. That a night learns on some crop
(`LearnsSome`) is arithmetic: with `n` crops used and at most `MaxRatio * n` faces
(`CapBound`), the rounded holdout is less than `n` (`HoldoutBound`) if
`Holdout * (1 + MaxRatio) <= 50`, since `n` is at least two.

`FramePipeline_proofs` holds the geometry, the frame and the sliding window.

* *Recursion.* The operators compute by recursive functions over sequences. That they
  have the values their equations say (`Recursion`), and what follows by induction
  over them, is proved from a least counterexample (`Least`, `Induct`).
* *Suppression.* `NmsStands`: for a list in descending order of confidence, every
  detection has one among the survivors that stands for it, and survivors are
  detections of the list.
* *Hull.* `HullSurrounds`: every edge of `convex_hull` joins two different points and has
  all points on its left. The loop invariant is `Wraps`: consecutive turns of a chain are
  left turns and no point seen so far lies to the right of an edge; a point that a push
  drops is left of the new edge because slopes are transitive (`SlopesTransitive`,
  `LeftOfDropped`). No general position is assumed: equal and collinear points are
  covered. `HullConvex`: unless all points are on one line, any three vertices turn left,
  within a chain (`ChainTurns`) and across both (`OppositeSide`).
* *ROI.* That ROI rings are convex, which `FrameAssumption` asks, is what `roi.rs` and
  `main.rs` guarantee: a hull is convex, choosing vertices of it in their cyclic order and
  scaling keeps it so (`ThinnedIsConvex`), and the whole frame is a rectangle
  (`WholeFrameIsConvex`). Which vertices the simplification chooses does not matter.
* *Mask.* `MaskCoversHull`: the polygon mask contains every pixel that lies strictly
  inside a triangle of keypoints. Growing a ring about its mean moves each edge outward
  (`GrownSide`, `GrownLeft`), because the mean is on its left too, and what lies strictly
  inside is left of all edges, so that the area is not 0 and the half-plane test accepts
  it. `MiddleInEllipse` says the same of the ellipse and the pixels at the box's
  centre.
* *Gate.* `ConvexEncloses` and `EnclosedNotOutside`: in a convex ring the ray
  of `contains` crosses an odd number of edges if the point is strictly inside, and
  an even number if a line through two vertices separates it from all of them. The
  height of a point is passed upward as often as downward (`ChangesAreEven`). In a convex
  ring around the point it is passed upward at least once (`AroundHeights`, `SomeRise`) and
  at most once, since no two opposite corners of a quadrilateral are both below a
  height that the other two are above (`FourHeights`); of the two edges only the
  one that goes up is to the right of the point (`CrossesIs`).
* *Frame.* The inductive invariant `FrameInv` says that suppression loses no face
  (`AllStoodFor`), that a face already looked at was rejected, is outside the ROI, or has
  the pixels of one of its masks among those replaced (`LookedAtSoFar`), and that what is
  replaced is within reach of what is kept, which has passed the gate (`WithinKept`).
  `FacesReplaced` and `OnlyFacesReplaced` follow from it and from the geometry. What
  `FacesReplaced` demands of a face is stated without the code's hull, mask and parity;
  its exception `Thin` speaks of the masks the code can give, and `OnlyFacesReplaced`
  of the code's expanded boxes and masks (`Reach`): it bounds what is replaced by what
  the code means to replace for a recorded detection, not by the face itself.
* *Sliding window.* The invariant relates the running sum to the prefix sums of the
  line; that prefix sums are monotone and below the word size makes every wrapping step
  exact, and `first < last` keeps the count positive.

Only model-checked are: liveness (`AcquireReturns`, `JobsEnd`, `MessagesSettle`), which
needs fairness; `LockHolderGoesOn`, which is about ENABLED (its safety part is
`LockNotLeaked`); both are beyond the provers; and the two properties that the code
violates. Every other property of a run is a theorem.

## 5. Divergences

Where the code does something else than its documentation or comments say. The first
two have a run whose counterexample shows it; the others were met while
modelling, and the properties are stated so as to leave them out.

* A retried message finds no input (run `queue_retry`): the worker parks the input
  and deletes the original before the consumer publishes the retry
  (`zip_worker_s3.rs:306-324`).
* Two settings requests at once and a stop can leave overrides that refuse the next
  start (run `settings_race`): all patches share one temporary file, without a lock
  (`config.rs:1013-1015`, against the comment at 1011-1012).
* A camera reset by the operator during a nightly pass is activated from the stale
  list: the row is updated by id, whatever its state is by now (`db.rs:355`, against
  `README.md:270`, a reset restarts learning). `RowCoherent` and
  `NoEarlyActivation` hold of the result.
* Memory of a job: scheduling does not drain, so finished frames accumulate until the
  last entry is scheduled (`zip_worker.rs:510`, against 390-391).
* Workers of a cancelled job run on without their permits (`zip_worker.rs:574`,
  against `zip_worker_s3.rs:8-10`).
* The error counter is one for all jobs of the process, and each job zeroes it
  (`zip_worker.rs:396`, against `README.md:203`).
* The SQS consumer deletes a message at the count at which the redrive policy would
  dead-letter it on the next receive, so the dead-letter queue stays empty
  (`queue_sqs.rs:280`, against `.env.example:307`).
* Retention lists, then removes by name: a file rewritten in between is removed
  although it is new (`retention.rs:15-17` says that recently modified outputs are
  never touched).
* An aborted batch can leave a copy of an output behind: the merge of an earlier batch
  whose client has gone runs on without the lock and opens its parts by name, which the
  later batch may have written meanwhile (`zip_worker.rs:927-958`, against `README.md:916`:
  outputs already produced by an aborted batch are deleted immediately).
  `AbortLeavesNothing` makes this exception.
* A batch that has used its total budget exactly has a remaining 0, which `min_cap`
  takes for "unlimited" (`main.rs:1324`).
* `from_env` takes `FP_CROP_CONF_MAX` as it is (`config.rs:737`; only 820, above the
  threshold), a patch and the overrides file are clamped to 0.01..0.99 (1117), against
  "values are clamped the same way `from_env` clamps them" (1108-1109) and "restores
  exactly this state on reboots" (1149-1150). With `FP_CROP_CONF_MAX=1.0` any patch that
  leaves the cap alone is answered ok, runs with 1.0 and comes back with 0.99 after a
  restart; with a threshold of 0.99 the restart is refused. `AnswersSurvive` and
  `OkMeansBoth` make this exception, and the run `settings` contains both cases.
* "The new model already learned on them" (`README.md:616-618`, `training.rs:304-306`)
  is not true of all crops that are cleared after a swap: the script leaves out what
  exceeds four times the number of real faces (`retrain.py:85-97`), holds 10 percent
  (by default) of all samples out of training (121-123), and does not know of crops saved
  since it listed them. With `RETRAIN_HOLDOUT_FRACTION` at its upper limit of 0.5, eight
  real faces and two crops, both crops may be held out, and the swapped model has learned
  on none. All of them are deleted (`training.rs:307, 392-413`). `CropsAccounted` says
  what is true instead.
* The candidate and the deployed model are compared "on the same deterministic holdout"
  (`README.md:614-616`, `training.rs:224-227`). The samples are listed anew for each of
  the two validations (360-361): crops saved between them change the set, and it
  is taken from all images, those the candidate was trained on included.
* The crops are cleared before the state file is written (`training.rs:307-311`). A stop
  in between, or a `CLASSIFIER_MODEL_URL` at the next start (which deploys the
  downloaded model again, `main.rs:225-268`), leaves neither the crops nor the model that
  learned on them in use.
* Two archives of a batch with the same base name write the same output, so the first
  one's images are lost; entries of equal name in different archives are merged with
  the first one winning, with a warning in the log only (`zip_worker.rs:433, 952`).
* A mask one pixel wide or high is left as it is by the blur. A face whose keypoints are
  nearly collinear can have such a mask, and so can a box of 3 x 2 pixels when the
  segmenter finds no silhouette in it: its ellipse covers one row. The face is recorded
  as anonymized all the same and suppresses the head fallback
  (`pipeline.rs:128-130, 455-460`, against 91-92 and 858-860). `FacesReplaced` makes this
  exception.

## 6. What is not modelled

* `zip_worker.rs`: the decompression of `.7z` and `.rar` into scratch directories, the
  arithmetic of the archive limits, image decoding and encoding, the entries of merged
  archives.
* `pipeline.rs`, `models.rs`: tensors and the decoding of model outputs, letterboxing,
  averages of the mosaic, the feathering of masks (numerical code without control).
* `roi.rs`: DBSCAN, simplification, polygon IoU by sampling, areas; what they may
  return is an abstract choice in `CameraFsm`.
* `main.rs`: authorization, read-only endpoints, headers, the ledger of jobs.
* `zip_worker_s3.rs`: failures of row writes, the audit text, the webhook, presigned
  URLs, key filters of a sweep. A panic inside the ONNX loader (it would leak one unit of
  `live`) and SQL busy timeouts beyond "the statement failed and was logged".
* The rest of start-up (URL policy, checksums, execution providers; two model URLs with
  the same last segment share a file of the cache, so that one replaces the other), EXIF
  parsing, sample collection, the offline evaluation tools, `prepare_seed.py`, the training
  itself and its metric, container
  files and the settings page: sequential I/O, parsing or numerical code without state
  of the service.
* What no property tells apart, although the models contain it: an SQS message deleted
  at its last receive from one that is dead-lettered (both settle), an upload cut off by
  its client from a whole one that a decoder accepts, and the lost fields of a job row
  that two runs write back whole.
* Failed and torn writes of the classifier's state file are excused by `StateRestorable`
  (`unsaved`), not shown to be repaired. With a segmenter `FacesReplaced` demands the
  pixels at the box's centre only: which silhouette is found is up to the model, and all
  the code adds to it is the ellipse of the box.
