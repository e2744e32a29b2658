------------------------------ MODULE CameraFsm ------------------------------
(***************************************************************************)
(* The camera lifecycle: the `cameras` and `detections` tables of db.rs    *)
(* and everybody who writes them -- the frames of running jobs             *)
(* (zip_worker.rs), the operator's reset and full-frame-ROI endpoints and  *)
(* the nightly ROI pass (main.rs).                                         *)
(*                                                                         *)
(* One action is one statement (or one transaction) on the database, with  *)
(* the in-memory work around it.  Nobody holds a lock across statements:   *)
(* jobs keep the row they read at their first frame, the nightly pass      *)
(* keeps the list of rows it read at its start, the operator's ROI request *)
(* keeps the geometry it read, and all of them write later,                *)
(* unconditionally.                                                        *)
(***************************************************************************)
EXTENDS Naturals, FiniteSets

CONSTANTS Cameras,       \* camera ids
          Jobs,          \* job slots running concurrently
          Geoms,         \* frame geometries (width, height)
          Shapes,        \* polygons the extractor can produce
          Full,          \* the operator's full-frame polygon
          NULL,          \* SQL NULL, and "no value" in memory
          LearningDays,  \* cfg.learning_days
          WindowDays,    \* cfg.roi_reextract_window_days
          MaxDay,        \* bound: last day of the modelled calendar
          MaxFrames      \* bound: frames of one camera in one job

ASSUME FsmAssumption ==
  /\ LearningDays \in Nat \ {0}
  /\ WindowDays \in Nat \ {0}
  /\ MaxDay \in Nat
  /\ MaxFrames \in Nat \ {0}
  /\ Full \notin Shapes
  /\ NULL \notin Nat \cup Geoms \cup Cameras \cup [geom : Geoms, shape : Shapes \cup {Full}]

VARIABLES
  row,       \* the cameras table, one row per id
  dets,      \* the detections table: the capture days present, per camera
  job,       \* running jobs: cached row, frames to start, frames to drain
  night,     \* the background loop: its phase and the rows it read
  op,        \* a full-frame-ROI request between its read and its write
  today,     \* the calendar day (Utc::now)
  born,      \* history: the day the row was created
  forced     \* history: cameras the operator ever activated

vars == <<row, dets, job, night, op, today, born, forced>>
hist == <<born, forced>>

Days   == 0..MaxDay
States == {"NONE", "INITIAL", "LEARNING", "ACTIVE"}   \* NONE: no such row
Roi    == [geom : Geoms, shape : Shapes \cup {Full}]
Row    == [state : States, started : Days \cup {NULL},
           roi : Roi \cup {NULL}, geom : Geoms \cup {NULL}]
NoRow  == [state |-> "NONE", started |-> NULL, roi |-> NULL, geom |-> NULL]

(* Of the row a job has read, only whether it was INITIAL tells here.      *)
Job    == {k \in [cam : Cameras \cup {NULL}, initial : BOOLEAN,
                  todo : 0..MaxFrames, done : 0..MaxFrames,
                  sized : BOOLEAN, found : SUBSET Days] : k.todo + k.done <= MaxFrames}
NoJob  == [cam |-> NULL, initial |-> FALSE, todo |-> 0, done |-> 0,
           sized |-> FALSE, found |-> {}]

(* The background loop: list holds the rows the current pass has read and  *)
(* not handled yet; read is set once it has read them.                     *)
Night  == [pc : {"finalize", "reextract", "prune", "sleep"}, read : BOOLEAN,
           catchUp : BOOLEAN, list : UNION {[S -> Row] : S \in SUBSET Cameras}]
NoList == [c \in {} |-> NoRow]
(* It starts with a catch-up pass, which does not prune.                   *)
Boot   == [pc |-> "finalize", read |-> FALSE, catchUp |-> TRUE, list |-> NoList]

Request == [cam : Cameras, geom : Geoms]

Init ==
  /\ row = [c \in Cameras |-> NoRow]
  /\ dets = [c \in Cameras |-> {}]
  /\ job = [j \in Jobs |-> NoJob]
  /\ night = Boot
  /\ op = NULL
  /\ today = 0
  /\ born = [c \in Cameras |-> NULL]
  /\ forced = {}

------------------------------------------------------------------------------
(* Statements of db.rs on the cameras table.  Each names the row a camera  *)
(* has afterwards.                                                         *)

CreatedRow == [NoRow EXCEPT !.state = "LEARNING", !.started = today]

LearningRow_unstamped(r) == [r EXCEPT !.state = "LEARNING"]
LearningRow(r) == [r EXCEPT !.state = "LEARNING", !.started = today]

InitialRow_forgetsFrame(r) == [NoRow EXCEPT !.state = "INITIAL"]
InitialRow(r) == [r EXCEPT !.state = "INITIAL", !.started = NULL, !.roi = NULL]

ActiveRow(r, p) == [r EXCEPT !.state = "ACTIVE", !.roi = p]

SizedRow_lastWins(r, g) == [r EXCEPT !.geom = g]
SizedRow(r, g) == IF r.geom = NULL THEN [r EXCEPT !.geom = g] ELSE r

------------------------------------------------------------------------------
(* Jobs.  The first frame of a camera in a job reads or creates its row;   *)
(* all its frames in that job are processed under that snapshot.           *)

CameraFor(j, c, n) ==
  /\ job[j] = NoJob
  /\ LET r == IF row[c].state = "NONE" THEN CreatedRow ELSE row[c] IN
     /\ row' = [row EXCEPT ![c] = r]
     /\ born' = [born EXCEPT ![c] = IF @ = NULL THEN today ELSE @]
     /\ job' = [job EXCEPT ![j] =
          [cam |-> c, initial |-> (r.state = "INITIAL"), todo |-> n, done |-> 0,
           sized |-> FALSE, found |-> {}]]
  /\ UNCHANGED <<dets, night, op, today, forced>>

(* image_task: a frame processed as INITIAL first moves the camera to      *)
(* LEARNING; a failed statement is only logged.                            *)
StartFrame(j) ==
  /\ job[j].todo > 0
  /\ job' = [job EXCEPT ![j].todo = @ - 1, ![j].done = @ + 1]
  /\ \/ job[j].initial /\ row' = [row EXCEPT ![job[j].cam] = LearningRow(@)]
     \/ UNCHANGED row
  /\ UNCHANGED <<dets, night, op, today, hist>>

(* One frame fewer to drain.  After the last one only the detections tell. *)
Drained(k) ==
  IF k.todo = 0 /\ k.done = 1 THEN [NoJob EXCEPT !.cam = k.cam, !.found = k.found]
  ELSE [k EXCEPT !.done = @ - 1]

(* A sized frame, with the days of the detections it carries.             *)
Sized(k, days) == [k EXCEPT !.sized = TRUE, !.found = @ \cup days]

(* drain_results takes one finished frame.  Undecodable frames carry no    *)
(* size; only the first sized frame of the job tries to set the camera's   *)
(* geometry, and a failure of that statement is not retried.  Frames       *)
(* processed as LEARNING or ACTIVE may carry detections.                   *)
DrainSized(j, g, hit) ==
  LET c == job[j].cam IN
  /\ job[j].done > 0
  /\ job' = [job EXCEPT ![j] =
       Drained(Sized(@, IF hit THEN {today} ELSE {}))]
  /\ hit => ~job[j].initial
  /\ \/ ~job[j].sized /\ row' = [row EXCEPT ![c] = SizedRow(@, g)]
     \/ UNCHANGED row
  /\ UNCHANGED <<dets, night, op, today, hist>>

DrainFailed(j) ==
  /\ job[j].done > 0
  /\ job' = [job EXCEPT ![j] = Drained(@)]
  /\ UNCHANGED <<row, dets, night, op, today, hist>>

(* All frames drained: insert_detections, in chunks; a failing chunk loses *)
(* itself and the rest.                                                    *)
PersistDetections(j) ==
  LET c == job[j].cam IN
  /\ job[j].cam # NULL /\ job[j].todo = 0 /\ job[j].done = 0
  /\ \E stored \in SUBSET job[j].found : dets' = [dets EXCEPT ![c] = @ \cup stored]
  /\ job' = [job EXCEPT ![j] = NoJob]
  /\ UNCHANGED <<row, night, op, today, hist>>

(* A cap violation, or the client going away, drops the job's tasks.       *)
AbortJob(j) ==
  /\ job[j].cam # NULL
  /\ job' = [job EXCEPT ![j] = NoJob]
  /\ UNCHANGED <<row, dets, night, op, today, hist>>

------------------------------------------------------------------------------
(* The operator: op_reset is one statement, op_set_roi reads the row for   *)
(* its geometry and then activates.                                        *)

ResetToInitial(c) ==
  /\ row[c].state # "NONE"
  /\ row' = [row EXCEPT ![c] = InitialRow(@)]
  /\ UNCHANGED <<dets, job, night, op, today, hist>>

ResetToLearning(c) ==
  /\ row[c].state # "NONE"
  /\ row' = [row EXCEPT ![c] = LearningRow(@)]
  /\ UNCHANGED <<dets, job, night, op, today, hist>>

ReadForFullRoi(c) ==
  /\ op = NULL
  /\ row[c].geom # NULL
  /\ op' = [cam |-> c, geom |-> row[c].geom]
  /\ UNCHANGED <<row, dets, job, night, today, hist>>

SetFullRoi ==
  /\ op # NULL
  /\ row' = [row EXCEPT ![op.cam] = ActiveRow(@, [geom |-> op.geom, shape |-> Full])]
  /\ forced' = forced \cup {op.cam}
  /\ op' = NULL
  /\ UNCHANGED <<dets, job, night, today, born>>

------------------------------------------------------------------------------
(* The background loop.                                                    *)

(* Of a listed row finalization looks at the clock and the geometry,       *)
(* re-extraction at the polygon and the geometry.                          *)
Listed(r) == IF night.pc = "finalize" THEN [r EXCEPT !.roi = NULL] ELSE [r EXCEPT !.started = NULL]

(* Both passes list the rows once and then work through that list.  A      *)
(* failing query ends the pass, and roi_reextract_enabled = false skips    *)
(* the second one: nothing is listed.                                      *)
ListRows ==
  /\ night.pc \in {"finalize", "reextract"} /\ ~night.read
  /\ LET wanted == IF night.pc = "finalize" THEN "LEARNING" ELSE "ACTIVE" IN
     \E cs \in {{c \in Cameras : row[c].state = wanted}, {}} :
        night' = [night EXCEPT !.read = TRUE, !.list = [c \in cs |-> Listed(row[c])]]
  /\ UNCHANGED <<row, dets, job, op, today, hist>>

Turn(pass, c) == night.pc = pass /\ c \in DOMAIN night.list
Handled(c) == [night EXCEPT !.list = [d \in DOMAIN @ \ {c} |-> @[d]]]

WindowElapsed(r) == r.started # NULL /\ today >= r.started + LearningDays

(* Extraction yields a polygon in the listed geometry, or nothing: too few *)
(* points, or an area outside the allowed range.                           *)
Candidates(g, points) == IF points = {} THEN {} ELSE [geom : {g}, shape : Shapes]

FinalizeOne_anyAge(c) ==
  /\ Turn("finalize", c)
  /\ night' = Handled(c)
  /\ \/ /\ night.list[c].started # NULL /\ night.list[c].geom # NULL
        /\ \E p \in Candidates(night.list[c].geom, dets[c]) :
              row' = [row EXCEPT ![c] = ActiveRow(@, p)]
     \/ UNCHANGED row
  /\ UNCHANGED <<dets, job, op, today, hist>>

FinalizeOne_anyGeometry(c) ==
  /\ Turn("finalize", c)
  /\ night' = Handled(c)
  /\ \/ /\ WindowElapsed(night.list[c])
        /\ \E p \in Candidates(night.list[c].geom, dets[c]) :
              row' = [row EXCEPT ![c] = ActiveRow(@, p)]
     \/ UNCHANGED row
  /\ UNCHANGED <<dets, job, op, today, hist>>

FinalizeOne(c) ==
  /\ Turn("finalize", c)
  /\ night' = Handled(c)
  /\ \/ /\ WindowElapsed(night.list[c]) /\ night.list[c].geom # NULL
        /\ \E p \in Candidates(night.list[c].geom, dets[c]) :
              row' = [row EXCEPT ![c] = ActiveRow(@, p)]
     \/ UNCHANGED row
  /\ UNCHANGED <<dets, job, op, today, hist>>

(* decide_roi: without a deployed polygon, or when the geometry changed,   *)
(* the candidate is adopted; an identical one (IoU 1) is not; any other    *)
(* may or may not reach the IoU threshold.                                 *)
Adopts(current, p) ==
  IF current = NULL \/ current.geom # p.geom THEN {TRUE}
  ELSE IF current.shape = p.shape THEN {FALSE} ELSE BOOLEAN

ReextractOne(c) ==
  LET recent == {d \in dets[c] : d + WindowDays >= today} IN
  /\ Turn("reextract", c)
  /\ night' = Handled(c)
  /\ \/ /\ night.list[c].geom # NULL
        /\ \E p \in Candidates(night.list[c].geom, recent) :
              /\ TRUE \in Adopts(night.list[c].roi, p)
              /\ row' = [row EXCEPT ![c] = ActiveRow(@, p)]
     \/ UNCHANGED row
  /\ UNCHANGED <<dets, job, op, today, hist>>

NextPass ==
  /\ night.read /\ DOMAIN night.list = {}
  /\ night' = [night EXCEPT !.read = FALSE,
        !.pc = CASE night.pc = "finalize" -> "reextract"
                 [] night.pc = "reextract" /\ night.catchUp -> "sleep"
                 [] OTHER -> "prune"]
  /\ UNCHANGED <<row, dets, job, op, today, hist>>

Horizon_noSlack == IF LearningDays > WindowDays THEN LearningDays ELSE WindowDays
Horizon == (IF LearningDays > WindowDays THEN LearningDays ELSE WindowDays) + 1

PruneDetections ==
  /\ night.pc = "prune"
  /\ \/ dets' = [c \in Cameras |-> {d \in dets[c] : d + Horizon >= today}]
     \/ UNCHANGED dets
  /\ night' = [night EXCEPT !.pc = "sleep"]
  /\ UNCHANGED <<row, job, op, today, hist>>

(* The schedule is the operator's: the loop may wake at any moment.        *)
WakeUp ==
  /\ night.pc = "sleep"
  /\ night' = [night EXCEPT !.pc = "finalize", !.catchUp = FALSE]
  /\ UNCHANGED <<row, dets, job, op, today, hist>>

------------------------------------------------------------------------------
(* The environment: the calendar, and a restart of the process, which      *)
(* keeps the database and forgets everything else.  Day 0 is that of the   *)
(* first row: before it nothing depends on the day.                        *)

NewDay ==
  /\ today < MaxDay /\ \E c \in Cameras : row[c].state # "NONE"
  /\ today' = today + 1
  /\ UNCHANGED <<row, dets, job, night, op, hist>>

Restart ==
  /\ job' = [j \in Jobs |-> NoJob]
  /\ night' = Boot
  /\ op' = NULL
  /\ UNCHANGED <<row, dets, today, hist>>

JobStep(j) ==
  \/ \E c \in Cameras, n \in 1..MaxFrames : CameraFor(j, c, n)
  \/ StartFrame(j)
  \/ \E g \in Geoms, hit \in BOOLEAN : DrainSized(j, g, hit)
  \/ DrainFailed(j)
  \/ PersistDetections(j)
  \/ AbortJob(j)

OperatorStep ==
  \/ \E c \in Cameras : ResetToInitial(c) \/ ResetToLearning(c) \/ ReadForFullRoi(c)
  \/ SetFullRoi

NightStep ==
  \/ ListRows
  \/ \E c \in Cameras : FinalizeOne(c) \/ ReextractOne(c)
  \/ NextPass
  \/ PruneDetections
  \/ WakeUp

Next ==
  \/ \E j \in Jobs : JobStep(j)
  \/ OperatorStep
  \/ NightStep
  \/ NewDay
  \/ Restart

Spec == Init /\ [][Next]_vars

------------------------------------------------------------------------------
TypeOK ==
  /\ row \in [Cameras -> Row]
  /\ dets \in [Cameras -> SUBSET Days]
  /\ job \in [Jobs -> Job]
  /\ night \in Night
  /\ op \in Request \cup {NULL}
  /\ today \in Days
  /\ born \in [Cameras -> Days \cup {NULL}]
  /\ forced \in SUBSET Cameras

(* Whatever the interleaving of jobs, operator and nightly pass, a row is  *)
(* coherent: an ACTIVE camera has a polygon to gate with (pipeline.rs:813),*)
(* a LEARNING camera has the clock without which finalize_expired_rois     *)
(* would skip it for ever (main.rs:2050-2052), and an INITIAL camera has   *)
(* neither (reset_to_initial, db.rs:328-331).                              *)
RowCoherent ==
  \A c \in Cameras :
    /\ row[c].state = "ACTIVE" => row[c].roi # NULL /\ row[c].geom # NULL
    /\ row[c].state = "LEARNING" => row[c].started # NULL
    /\ row[c].state \in {"NONE", "INITIAL"} => row[c].roi = NULL /\ row[c].started = NULL

(* A deployed polygon is in the pixel space of the camera's recorded frame *)
(* geometry, although the writers computed it from an older read of the    *)
(* row (roi.rs:184-187 is the guard this makes unreachable).               *)
RoiInFrame ==
  \A c \in Cameras : row[c].roi # NULL => row[c].roi.geom = row[c].geom

(* Unless the operator forced it, no camera is ACTIVE before LEARNING_DAYS *)
(* have passed since its row was created (main.rs:2053-2057), however      *)
(* often it is reset, and however stale the list the nightly pass works    *)
(* from.                                                                   *)
NoEarlyActivation ==
  \A c \in Cameras :
    row[c].state = "ACTIVE" /\ c \notin forced => today >= born[c] + LearningDays

(* Up to the nightly pass that follows the end of its window, no step      *)
(* takes away a detection a LEARNING camera has stored since its clock     *)
(* started: pruning leaves what finalization needs (main.rs:2222-2225).    *)
LearningDataKept ==
  [][\A c \in Cameras :
       row[c].state = "LEARNING" /\ today <= row[c].started + LearningDays + 1 =>
         {d \in dets[c] : d >= row[c].started} \subseteq dets'[c]]_dets

(* The frame geometry of a camera is recorded once, first frame wins, and  *)
(* neither a reset nor a racing job ever changes it (db.rs:314-315).       *)
GeometryFixed ==
  [][\A c \in Cameras : row[c].geom # NULL => row'[c].geom = row[c].geom]_row

==============================================================================
