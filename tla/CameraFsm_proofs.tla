-------------------------- MODULE CameraFsm_proofs --------------------------
(***************************************************************************)
(* Every property the runs of CameraFsm check, proved for any number of    *)
(* cameras and jobs, any window lengths and any length of calendar.        *)
(*                                                                         *)
(* The invariants of the table are not inductive: the nightly pass and the *)
(* operator's request write from rows they read earlier.  IInv adds what   *)
(* those readers still know (ReadersAgree) and how old the cameras are     *)
(* (Aged).                                                                 *)
(***************************************************************************)
EXTENDS CameraFsm, TLAPS

(* A camera without a row has nothing recorded, and no job works on it.    *)
RowsKnown ==
  /\ \A c \in Cameras : row[c].state = "NONE" => row[c] = NoRow /\ born[c] = NULL
  /\ \A j \in Jobs : job[j].cam # NULL => row[job[j].cam].state # "NONE"

(* A geometry somebody has read is still the camera's.                     *)
ReadersAgree ==
  /\ \A c \in DOMAIN night.list :
        night.list[c].geom # NULL => night.list[c].geom = row[c].geom
  /\ op # NULL => op.geom = row[op.cam].geom

(* A learning clock starts no earlier than the row; a camera the current   *)
(* pass has listed for re-extraction has served its window.                *)
Aged ==
  /\ \A c \in Cameras :
        row[c].state # "NONE" =>
          /\ born[c] \in Days /\ born[c] <= today
          /\ row[c].started # NULL => row[c].started >= born[c]
  /\ \A c \in DOMAIN night.list :
        /\ row[c].state # "NONE"
        /\ night.pc = "finalize" /\ night.list[c].started # NULL =>
              night.list[c].started >= born[c]
        /\ night.pc = "reextract" /\ c \notin forced => today >= born[c] + LearningDays

(* Rows are listed only between the start and the end of a pass.           *)
ListRead ==
  DOMAIN night.list # {} => night.read /\ night.pc \in {"finalize", "reextract"}

TableInv == TypeOK /\ RowCoherent /\ RoiInFrame /\ RowsKnown /\ ReadersAgree /\ ListRead
IInv == TableInv /\ Aged /\ NoEarlyActivation

------------------------------------------------------------------------------
USE FsmAssumption

(* What the write statements do to the type of a row.                      *)
LEMMA RowTypes ==
  ASSUME today \in Days
  PROVE  /\ NoRow \in Row
         /\ CreatedRow \in Row
         /\ \A r \in Row : LearningRow(r) \in Row /\ InitialRow(r) \in Row
         /\ \A r \in Row, p \in Roi : ActiveRow(r, p) \in Row
         /\ \A r \in Row, g \in Geoms : SizedRow(r, g) \in Row
  BY DEF Row, States, NoRow, CreatedRow, LearningRow, InitialRow, ActiveRow, SizedRow, Days

LEMMA CandidateType ==
  ASSUME NEW g, g # NULL, g \in Geoms \cup {NULL}, NEW points, NEW p \in Candidates(g, points)
  PROVE  p \in Roi /\ p.geom = g
  BY DEF Candidates, Roi

LEMMA HandledType ==
  ASSUME night \in Night, NEW c
  PROVE  /\ Handled(c) \in Night
         /\ DOMAIN Handled(c).list = DOMAIN night.list \ {c}
         /\ \A d \in DOMAIN night.list \ {c} : Handled(c).list[d] = night.list[d]
         /\ Handled(c).pc = night.pc
  <1> DEFINE l == [d \in DOMAIN night.list \ {c} |-> night.list[d]]
  <1>1. PICK S \in SUBSET Cameras : night.list \in [S -> Row]  BY DEF Night
  <1>2. l \in [S \ {c} -> Row]  BY <1>1
  <1>3. S \ {c} \in SUBSET Cameras  OBVIOUS
  <1>4. l \in UNION {[T -> Row] : T \in SUBSET Cameras}  BY <1>2, <1>3
  <1>5. Handled(c) = [night EXCEPT !.list = l]  BY DEF Handled, Night
  <1> QED BY <1>1, <1>4, <1>5 DEF Night

LEMMA ListType ==
  ASSUME TypeOK
  PROVE  \A c \in DOMAIN night.list : c \in Cameras /\ night.list[c] \in Row
  <1>1. PICK S \in SUBSET Cameras : night.list \in [S -> Row]  BY DEF TypeOK, Night
  <1> QED BY <1>1

(* What a pass keeps of a row.                                             *)
LEMMA ListedType ==
  ASSUME NEW r \in Row
  PROVE  /\ Listed(r) \in Row /\ Listed(r).geom = r.geom
         /\ night.pc = "finalize" => Listed(r).started = r.started
  BY DEF Listed, Row

LEMMA BootType == Boot \in Night
  <1>1. NoList \in [{} -> Row]  BY DEF NoList
  <1>2. NoList \in UNION {[S -> Row] : S \in SUBSET Cameras}  BY <1>1
  <1> QED BY <1>2 DEF Boot, Night

(* What a turn of the nightly pass can write: a polygon in the geometry of *)
(* the listed row.                                                         *)
LEMMA NightWrite ==
  ASSUME TypeOK, NEW c \in Cameras, FinalizeOne(c) \/ ReextractOne(c)
  PROVE  /\ c \in DOMAIN night.list
         /\ night' = Handled(c)
         /\ UNCHANGED <<dets, job, op, today, born, forced>>
         /\ \/ UNCHANGED row
            \/ \E p \in Roi :
                  /\ p.geom = night.list[c].geom /\ p.geom # NULL
                  /\ row' = [row EXCEPT ![c] = ActiveRow(@, p)]
  <1>1. c \in DOMAIN night.list  BY DEF FinalizeOne, ReextractOne, Turn
  <1>2. night.list[c].geom \in Geoms \cup {NULL}  BY <1>1, ListType DEF Row
  <1>3. \A points : \A p \in Candidates(night.list[c].geom, points) :
           night.list[c].geom # NULL =>
             p \in Roi /\ p.geom = night.list[c].geom /\ p.geom # NULL
    BY <1>2, CandidateType
  <1>4. CASE FinalizeOne(c)
    <2>1. CASE UNCHANGED row  BY <1>1, <1>4, <2>1 DEF FinalizeOne, hist
    <2>2. CASE ~ UNCHANGED row
      <3>1. night.list[c].geom # NULL  BY <1>4, <2>2 DEF FinalizeOne
      <3>2. PICK p \in Candidates(night.list[c].geom, dets[c]) :
               row' = [row EXCEPT ![c] = ActiveRow(@, p)]
        BY <1>4, <2>2 DEF FinalizeOne
      <3> QED BY <1>1, <1>3, <1>4, <3>1, <3>2 DEF FinalizeOne, hist
    <2> QED BY <2>1, <2>2
  <1>5. CASE ReextractOne(c)
    <2> DEFINE recent == {d \in dets[c] : d + WindowDays >= today}
    <2>1. CASE UNCHANGED row  BY <1>1, <1>5, <2>1 DEF ReextractOne, hist
    <2>2. CASE ~ UNCHANGED row
      <3>1. night.list[c].geom # NULL  BY <1>5, <2>2 DEF ReextractOne
      <3>2. PICK p \in Candidates(night.list[c].geom, recent) :
               row' = [row EXCEPT ![c] = ActiveRow(@, p)]
        BY <1>5, <2>2 DEF ReextractOne
      <3> QED BY <1>1, <1>3, <1>5, <3>1, <3>2 DEF ReextractOne, hist
    <2> QED BY <2>1, <2>2
  <1> QED BY <1>4, <1>5

(* Counting frames keeps a job within its bound.                           *)
LEMMA JobTypes ==
  ASSUME NEW k \in Job
  PROVE  /\ k.found \subseteq Days /\ k.cam \in Cameras \cup {NULL}
         /\ k.todo > 0 => [k EXCEPT !.todo = @ - 1, !.done = @ + 1] \in Job
         /\ k.done > 0 => Drained(k) \in Job /\ Drained(k).cam = k.cam
         /\ \A days \in SUBSET Days :
               /\ Sized(k, days) \in Job /\ Sized(k, days).done = k.done
               /\ Sized(k, days).cam = k.cam
  <1> DEFINE F == [cam : Cameras \cup {NULL}, initial : BOOLEAN,
                   todo : 0..MaxFrames, done : 0..MaxFrames,
                   sized : BOOLEAN, found : SUBSET Days]
  <1>1. k \in F /\ k.todo + k.done <= MaxFrames  BY DEF Job
  <1>2. /\ k.found \subseteq Days /\ k.cam \in Cameras \cup {NULL}
        /\ k.todo \in 0..MaxFrames /\ k.done \in 0..MaxFrames
    BY <1>1
  <1>3. ASSUME k.todo > 0 PROVE [k EXCEPT !.todo = @ - 1, !.done = @ + 1] \in Job
    <2>1. k.todo - 1 \in 0..MaxFrames /\ k.done + 1 \in 0..MaxFrames
      BY <1>1, <1>2, <1>3
    <2>2. (k.todo - 1) + (k.done + 1) <= MaxFrames  BY <1>1, <1>2
    <2>3. [k EXCEPT !.todo = @ - 1, !.done = @ + 1] \in F  BY <1>1, <2>1
    <2> QED BY <1>1, <2>2, <2>3 DEF Job
  <1>4. ASSUME k.done > 0 PROVE Drained(k) \in Job /\ Drained(k).cam = k.cam
    <2>1. CASE k.todo = 0 /\ k.done = 1
      <3> DEFINE e == [NoJob EXCEPT !.cam = k.cam, !.found = k.found]
      <3>1. NoJob \in F /\ NoJob.todo = 0 /\ NoJob.done = 0  BY DEF NoJob
      <3>2. e \in F /\ e.todo = 0 /\ e.done = 0 /\ e.cam = k.cam
        <4> HIDE DEF NoJob
        <4> QED BY <1>2, <3>1
      <3>3. Drained(k) = e  BY <2>1 DEF Drained
      <3>4. 0 + 0 <= MaxFrames  OBVIOUS
      <3> QED BY <3>2, <3>3, <3>4 DEF Job
    <2>2. CASE ~(k.todo = 0 /\ k.done = 1)
      <3> DEFINE e == [k EXCEPT !.done = @ - 1]
      <3>1. k.done - 1 \in 0..MaxFrames  BY <1>2, <1>4
      <3>2. k.todo + (k.done - 1) <= MaxFrames  BY <1>1, <1>2
      <3>3. e \in F /\ e.todo = k.todo /\ e.done = k.done - 1 /\ e.cam = k.cam  BY <1>1, <3>1
      <3>4. Drained(k) = e  BY <2>2 DEF Drained
      <3> QED BY <3>2, <3>3, <3>4 DEF Job
    <2> QED BY <2>1, <2>2
  <1>5. ASSUME NEW days \in SUBSET Days
        PROVE  /\ Sized(k, days) \in Job /\ Sized(k, days).done = k.done
               /\ Sized(k, days).cam = k.cam
    <2> DEFINE s == Sized(k, days)
    <2>1. s \in F /\ s.todo = k.todo /\ s.done = k.done /\ s.cam = k.cam  BY <1>1 DEF Sized
    <2> QED BY <1>1, <2>1 DEF Job
  <1> QED BY <1>2, <1>3, <1>4, <1>5

LEMMA InitIInv == Init => IInv
  <1> SUFFICES ASSUME Init PROVE IInv  OBVIOUS
  <1>2. DOMAIN NoList = {}  BY DEF NoList
  <1>3. TypeOK
    <2>1. 0 \in Days /\ NoRow \in Row  BY DEF Days, NoRow, Row, States
    <2>2. NoJob \in Job  BY DEF NoJob, Job
    <2> QED BY <2>1, <2>2, BootType DEF Init, TypeOK
  <1>4. RowCoherent /\ RoiInFrame  BY DEF Init, RowCoherent, RoiInFrame, NoRow
  <1>5. RowsKnown  BY DEF Init, RowsKnown, NoRow, NoJob
  <1>6. ReadersAgree /\ ListRead /\ Aged
    BY <1>2 DEF Init, ReadersAgree, ListRead, Aged, Boot, NoRow
  <1>7. NoEarlyActivation  BY DEF Init, NoEarlyActivation, NoRow
  <1> QED BY <1>3, <1>4, <1>5, <1>6, <1>7 DEF IInv, TableInv

------------------------------------------------------------------------------
LEMMA StepTypeOK == TypeOK /\ [Next]_vars => TypeOK'
  <1> SUFFICES ASSUME TypeOK, [Next]_vars PROVE TypeOK'  OBVIOUS
  <1>a. NoJob \in Job /\ today \in Days  BY DEF NoJob, Job, TypeOK
  <1>b. \A c \in Cameras, r \in Row : [row EXCEPT ![c] = r] \in [Cameras -> Row]
    BY DEF TypeOK
  <1>c. \A j \in Jobs, k \in Job : [job EXCEPT ![j] = k] \in [Jobs -> Job]
    BY DEF TypeOK
  <1>1. ASSUME NEW j \in Jobs, NEW c \in Cameras, NEW n \in 1..MaxFrames, CameraFor(j, c, n)
        PROVE  TypeOK'
    <2> DEFINE r == IF row[c].state = "NONE" THEN CreatedRow ELSE row[c]
               k == [cam |-> c, initial |-> (r.state = "INITIAL"), todo |-> n, done |-> 0,
                     sized |-> FALSE, found |-> {}]
    <2>1. r \in Row  BY <1>a, RowTypes DEF TypeOK
    <2>2. k \in Job
      <3>1. ASSUME NEW b \in BOOLEAN
            PROVE  [cam |-> c, initial |-> b, todo |-> n, done |-> 0,
                    sized |-> FALSE, found |-> {}] \in Job
        <4> DEFINE e == [cam |-> c, initial |-> b, todo |-> n, done |-> 0,
                         sized |-> FALSE, found |-> {}]
        <4>1. n \in 0..MaxFrames /\ 0 \in 0..MaxFrames /\ n + 0 <= MaxFrames  OBVIOUS
        <4>2. e.todo + e.done <= MaxFrames  BY <4>1
        <4>3. e \in [cam : Cameras \cup {NULL}, initial : BOOLEAN,
                     todo : 0..MaxFrames, done : 0..MaxFrames,
                     sized : BOOLEAN, found : SUBSET Days]  BY <4>1
        <4> QED BY <4>2, <4>3 DEF Job
      <3>2. (r.state = "INITIAL") \in BOOLEAN  OBVIOUS
      <3> HIDE DEF r
      <3> QED BY <3>1, <3>2, Zenon
    <2>3. row' = [row EXCEPT ![c] = r] /\ job' = [job EXCEPT ![j] = k]
      BY <1>1 DEF CameraFor
    <2> QED BY <1>1, <1>a, <1>b, <1>c, <2>1, <2>2, <2>3 DEF CameraFor, TypeOK
  <1>2. ASSUME NEW j \in Jobs, StartFrame(j) PROVE TypeOK'
    <2> DEFINE k == [job[j] EXCEPT !.todo = @ - 1, !.done = @ + 1]
    <2>1. row' \in [Cameras -> Row]
      <3>1. CASE row' = row  BY <3>1 DEF TypeOK
      <3>2. CASE row' = [row EXCEPT ![job[j].cam] = LearningRow(@)]
        <4>1. CASE job[j].cam \in Cameras  BY <1>a, <3>2, <4>1, RowTypes DEF TypeOK
        <4>2. CASE job[j].cam \notin Cameras  BY <3>2, <4>2 DEF TypeOK
        <4> QED BY <4>1, <4>2
      <3> QED BY <1>2, <3>1, <3>2 DEF StartFrame
    <2>2. k \in Job
      <3>1. job[j] \in Job /\ job[j].todo > 0  BY <1>2 DEF StartFrame, TypeOK
      <3> QED BY <3>1, JobTypes
    <2>3. job' = [job EXCEPT ![j] = k]  BY <1>2 DEF StartFrame, TypeOK
    <2> QED BY <1>2, <1>c, <2>1, <2>2, <2>3 DEF StartFrame, TypeOK, hist
  <1>3. ASSUME NEW j \in Jobs, NEW g \in Geoms, NEW hit \in BOOLEAN, DrainSized(j, g, hit)
        PROVE  TypeOK'
    <2> DEFINE days == IF hit THEN {today} ELSE {}
               s == Sized(job[j], days)
               k == Drained(s)
    <2>1. row' \in [Cameras -> Row]
      <3>1. CASE row' = row  BY <3>1 DEF TypeOK
      <3>2. CASE row' = [row EXCEPT ![job[j].cam] = SizedRow(@, g)]
        <4>1. CASE job[j].cam \in Cameras  BY <1>a, <3>2, <4>1, RowTypes DEF TypeOK
        <4>2. CASE job[j].cam \notin Cameras  BY <3>2, <4>2 DEF TypeOK
        <4> QED BY <4>1, <4>2
      <3> QED BY <1>3, <3>1, <3>2 DEF DrainSized
    <2>2. k \in Job
      <3>1. job[j] \in Job  BY DEF TypeOK
      <3>2. days \in SUBSET Days  BY <1>a
      <3>3. s \in Job /\ s.done = job[j].done  BY <3>1, <3>2, JobTypes
      <3>4. s.done > 0  BY <1>3, <3>3 DEF DrainSized
      <3> HIDE DEF s
      <3> QED BY <3>3, <3>4, JobTypes
    <2>3. job' = [job EXCEPT ![j] = k]  BY <1>3 DEF DrainSized
    <2> QED BY <1>3, <1>c, <2>1, <2>2, <2>3 DEF DrainSized, TypeOK, hist
  <1>4. ASSUME NEW j \in Jobs, DrainFailed(j) PROVE TypeOK'
    <2>1. Drained(job[j]) \in Job  BY <1>4, JobTypes DEF DrainFailed, TypeOK
    <2> QED BY <1>4, <1>c, <2>1 DEF DrainFailed, TypeOK, hist
  <1>5. ASSUME NEW j \in Jobs, PersistDetections(j) PROVE TypeOK'
    <2>1. job[j].found \subseteq Days /\ job[j].cam \in Cameras
      BY <1>5, JobTypes DEF PersistDetections, TypeOK
    <2>2. PICK stored \in SUBSET job[j].found :
             dets' = [dets EXCEPT ![job[j].cam] = @ \cup stored]
      BY <1>5 DEF PersistDetections
    <2>3. dets' \in [Cameras -> SUBSET Days]  BY <2>1, <2>2 DEF TypeOK
    <2> QED BY <1>5, <1>a, <1>c, <2>3 DEF PersistDetections, TypeOK, hist
  <1>6. ASSUME NEW j \in Jobs, AbortJob(j) PROVE TypeOK'
    BY <1>6, <1>a, <1>c DEF AbortJob, TypeOK, hist
  <1>7. ASSUME NEW c \in Cameras, ResetToInitial(c) PROVE TypeOK'
    BY <1>7, <1>a, <1>b, RowTypes DEF ResetToInitial, TypeOK, hist
  <1>8. ASSUME NEW c \in Cameras, ResetToLearning(c) PROVE TypeOK'
    BY <1>8, <1>a, <1>b, RowTypes DEF ResetToLearning, TypeOK, hist
  <1>9. ASSUME NEW c \in Cameras, ReadForFullRoi(c) PROVE TypeOK'
    <2>1. row[c].geom \in Geoms  BY <1>9 DEF ReadForFullRoi, TypeOK, Row
    <2> QED BY <1>9, <2>1 DEF ReadForFullRoi, TypeOK, Request, hist
  <1>10. CASE SetFullRoi
    <2>1. op \in Request  BY <1>10 DEF SetFullRoi, TypeOK
    <2>2. [geom |-> op.geom, shape |-> Full] \in Roi  BY <2>1 DEF Request, Roi
    <2> QED BY <1>10, <1>a, <1>b, <2>1, <2>2, RowTypes DEF SetFullRoi, TypeOK, Request
  <1>11. CASE ListRows
    <2>1. PICK cs \in {{c \in Cameras : row[c].state =
                           IF night.pc = "finalize" THEN "LEARNING" ELSE "ACTIVE"}, {}} :
             night' = [night EXCEPT !.read = TRUE, !.list = [c \in cs |-> Listed(row[c])]]
      BY <1>11 DEF ListRows
    <2>2. cs \in SUBSET Cameras  OBVIOUS
    <2>a. \A c \in cs : Listed(row[c]) \in Row  BY <2>2, ListedType DEF TypeOK
    <2>3. [c \in cs |-> Listed(row[c])] \in [cs -> Row]  BY <2>a
    <2>4. [c \in cs |-> Listed(row[c])] \in UNION {[S -> Row] : S \in SUBSET Cameras}  BY <2>2, <2>3
    <2>5. night' \in Night  BY <2>1, <2>4 DEF TypeOK, Night
    <2> QED BY <1>11, <2>5 DEF ListRows, TypeOK, hist
  <1>12. ASSUME NEW c \in Cameras, FinalizeOne(c) \/ ReextractOne(c) PROVE TypeOK'
    <2>1. row' \in [Cameras -> Row]  BY <1>12, <1>a, <1>b, NightWrite, RowTypes DEF TypeOK
    <2>2. night' \in Night  BY <1>12, NightWrite, HandledType DEF TypeOK
    <2> QED BY <1>12, <2>1, <2>2, NightWrite DEF TypeOK
  <1>14. CASE NextPass  BY <1>14 DEF NextPass, TypeOK, Night, hist
  <1>15. CASE PruneDetections  BY <1>15 DEF PruneDetections, TypeOK, Night, hist
  <1>16. CASE WakeUp  BY <1>16 DEF WakeUp, TypeOK, Night, hist
  <1>17. CASE NewDay  BY <1>17 DEF NewDay, TypeOK, Days, hist
  <1>18. CASE Restart
    <2>1. Boot \in Night  BY BootType
    <2> QED BY <1>18, <1>a, <2>1 DEF Restart, TypeOK, hist
  <1>19. CASE UNCHANGED vars  BY <1>19 DEF vars, TypeOK
  <1> QED
    BY <1>1, <1>2, <1>3, <1>4, <1>5, <1>6, <1>7, <1>8, <1>9, <1>10, <1>11, <1>12, <1>14, <1>15, <1>16, <1>17, <1>18, <1>19
    DEF Next, JobStep, OperatorStep, NightStep

------------------------------------------------------------------------------
(* Every step that writes the table is one of five kinds.                  *)
TableStep(c) ==
  \/ /\ row[c].state = "NONE" /\ row' = [row EXCEPT ![c] = CreatedRow]
     /\ born' = [born EXCEPT ![c] = today] /\ today' = today
  \/ row[c].state # "NONE" /\ row' = [row EXCEPT ![c] = LearningRow(@)]
  \/ row[c].state # "NONE" /\ row' = [row EXCEPT ![c] = InitialRow(@)]
  \/ \E g \in Geoms : row[c].state # "NONE" /\ row' = [row EXCEPT ![c] = SizedRow(@, g)]
  \/ \E p \in Roi : p.geom = row[c].geom /\ row' = [row EXCEPT ![c] = ActiveRow(@, p)]

LEMMA TableSteps ==
  ASSUME TableInv, [Next]_vars
  PROVE  row' = row \/ \E c \in Cameras : TableStep(c)
  <1> USE DEF TableInv
  <1>1. ASSUME NEW j \in Jobs, NEW c \in Cameras, NEW n \in 1..MaxFrames, CameraFor(j, c, n)
        PROVE  row' = row \/ TableStep(c)
    <2>1. CASE row[c].state = "NONE"
      <3>1. born[c] = NULL  BY <2>1 DEF RowsKnown
      <3>2. born' = [born EXCEPT ![c] = today]  BY <1>1, <3>1 DEF CameraFor
      <3> QED BY <1>1, <2>1, <3>2 DEF CameraFor, TableStep
    <2>2. CASE row[c].state # "NONE"  BY <1>1, <2>2 DEF CameraFor, TypeOK
    <2> QED BY <2>1, <2>2
  <1>a. ASSUME NEW j \in Jobs, NEW r, row' = [row EXCEPT ![job[j].cam] = r], row' # row
        PROVE  job[j].cam \in Cameras /\ row[job[j].cam].state # "NONE"
    <2>1. job[j].cam \in Cameras \cup {NULL}  BY JobTypes DEF TypeOK
    <2>2. job[j].cam # NULL  BY <1>a DEF TypeOK
    <2> QED BY <2>1, <2>2 DEF RowsKnown
  <1>2. ASSUME NEW j \in Jobs, StartFrame(j), row' # row
        PROVE  job[j].cam \in Cameras /\ TableStep(job[j].cam)
    BY <1>2, <1>a DEF StartFrame, TableStep
  <1>3. ASSUME NEW j \in Jobs, NEW g \in Geoms, NEW hit \in BOOLEAN, DrainSized(j, g, hit),
               row' # row
        PROVE  job[j].cam \in Cameras /\ TableStep(job[j].cam)
    BY <1>3, <1>a DEF DrainSized, TableStep
  <1>4. ASSUME NEW c \in Cameras, ResetToInitial(c) \/ ResetToLearning(c) PROVE TableStep(c)
    BY <1>4 DEF ResetToInitial, ResetToLearning, TableStep
  <1>5. CASE SetFullRoi
    <2>1. op \in Request  BY <1>5 DEF SetFullRoi, TypeOK
    <2>2. [geom |-> op.geom, shape |-> Full] \in Roi /\ op.cam \in Cameras
      BY <2>1 DEF Request, Roi
    <2>3. op.geom = row[op.cam].geom  BY <1>5 DEF SetFullRoi, ReadersAgree
    <2>4. TableStep(op.cam)  BY <1>5, <2>2, <2>3 DEF SetFullRoi, TableStep
    <2> QED BY <2>2, <2>4
  <1>6. ASSUME NEW c \in Cameras, FinalizeOne(c) \/ ReextractOne(c) PROVE row' = row \/ TableStep(c)
    BY <1>6, NightWrite DEF TableStep, ReadersAgree
  <1> QED BY <1>1, <1>2, <1>3, <1>4, <1>5, <1>6
      DEF Next, JobStep, OperatorStep, NightStep, vars, DrainFailed, PersistDetections, AbortJob,
          ReadForFullRoi, ListRows, NextPass, PruneDetections, WakeUp, NewDay, Restart

LEMMA TableStepEffect ==
  ASSUME TableInv, NEW c \in Cameras, TableStep(c)
  PROVE  /\ \A d \in Cameras \ {c} : row'[d] = row[d]
         /\ row'[c].state # "NONE"
         /\ row[c].geom # NULL => row'[c].geom = row[c].geom
         /\ row'[c].state = "ACTIVE" => row'[c].roi # NULL
         /\ row'[c].state = "LEARNING" => row'[c].started # NULL
         /\ row'[c].state = "INITIAL" => row'[c].roi = NULL /\ row'[c].started = NULL
         /\ row'[c].roi # NULL => row'[c].roi.geom = row'[c].geom
  <1> USE DEF TableInv
  <1>1. row \in [Cameras -> Row] /\ today \in Days  BY DEF TypeOK
  <1>2. row[c] \in Row  BY <1>1
  <1>3. /\ row[c].state = "ACTIVE" => row[c].roi # NULL
        /\ row[c].state = "LEARNING" => row[c].started # NULL
        /\ row[c].state \in {"NONE", "INITIAL"} => row[c].roi = NULL /\ row[c].started = NULL
        /\ row[c].roi # NULL => row[c].roi.geom = row[c].geom
        /\ row[c].state = "NONE" => row[c] = NoRow
    BY DEF RowCoherent, RoiInFrame, RowsKnown
  <1>4. CASE /\ row[c].state = "NONE" /\ row' = [row EXCEPT ![c] = CreatedRow]
             /\ born' = [born EXCEPT ![c] = today] /\ today' = today
    BY <1>1, <1>3, <1>4 DEF CreatedRow, NoRow, Days
  <1>5. CASE row[c].state # "NONE" /\ row' = [row EXCEPT ![c] = LearningRow(@)]
    BY <1>1, <1>2, <1>3, <1>5 DEF LearningRow, Row, Days
  <1>6. CASE row[c].state # "NONE" /\ row' = [row EXCEPT ![c] = InitialRow(@)]
    BY <1>1, <1>2, <1>3, <1>6 DEF InitialRow, Row
  <1>7. ASSUME NEW g \in Geoms, row[c].state # "NONE", row' = [row EXCEPT ![c] = SizedRow(@, g)]
        PROVE  /\ \A d \in Cameras \ {c} : row'[d] = row[d]
               /\ row[c].geom # NULL => row' = row
               /\ row[c].geom = NULL =>
                    /\ row'[c].geom = g /\ row'[c].state = row[c].state
                    /\ row'[c].roi = row[c].roi /\ row'[c].started = row[c].started
               /\ row[c].geom = NULL => row[c].roi = NULL
    <2>1. row[c].roi # NULL => row[c].roi.geom \in Geoms  BY <1>2 DEF Row, Roi
    <2> QED BY <1>1, <1>2, <1>3, <1>7, <2>1 DEF SizedRow, Row
  <1>8. ASSUME NEW p \in Roi, p.geom = row[c].geom, row' = [row EXCEPT ![c] = ActiveRow(@, p)]
        PROVE  /\ \A d \in Cameras \ {c} : row'[d] = row[d]
               /\ row'[c].state = "ACTIVE" /\ row'[c].geom = row[c].geom /\ row'[c].roi = p
    BY <1>1, <1>2, <1>8 DEF ActiveRow, Row
  <1>9. \A p \in Roi : p # NULL  BY DEF Roi
  <1> QED BY <1>3, <1>4, <1>5, <1>6, <1>7, <1>8, <1>9 DEF TableStep

(* Rows never disappear and a recorded geometry never changes.             *)
LEMMA RowsPersist ==
  ASSUME TableInv, [Next]_vars, NEW c \in Cameras
  PROVE  /\ row[c].state # "NONE" => row'[c].state # "NONE"
         /\ row[c].geom # NULL => row'[c].geom = row[c].geom
  BY TableSteps, TableStepEffect

LEMMA StepCoherent == TableInv /\ [Next]_vars => RowCoherent' /\ RoiInFrame'
  <1> SUFFICES ASSUME TableInv, [Next]_vars PROVE RowCoherent' /\ RoiInFrame'  OBVIOUS
  <1>1. CASE row' = row  BY <1>1 DEF TableInv, RowCoherent, RoiInFrame
  <1>2. ASSUME NEW c \in Cameras, TableStep(c) PROVE RowCoherent' /\ RoiInFrame'
    <2>1. row' \in [Cameras -> Row]  BY StepTypeOK DEF TableInv, TypeOK
    <2>2. row'[c].roi # NULL => row'[c].geom # NULL
      <3>1. row'[c] \in Row  BY <2>1
      <3>2. row'[c].roi # NULL => row'[c].roi.geom \in Geoms  BY <3>1 DEF Row, Roi
      <3> QED BY <1>2, <3>2, TableStepEffect
    <2> QED BY <1>2, <2>2, TableStepEffect DEF TableInv, RowCoherent, RoiInFrame
  <1> QED BY <1>1, <1>2, TableSteps

LEMMA StepKnown == TableInv /\ [Next]_vars => RowsKnown'
  <1> SUFFICES ASSUME TableInv, [Next]_vars PROVE RowsKnown'  OBVIOUS
  <1> USE DEF TableInv
  <1>0. TypeOK' /\ TypeOK  BY StepTypeOK
  <1>1. ASSUME NEW c \in Cameras, row'[c].state = "NONE"
        PROVE  row'[c] = NoRow /\ born'[c] = NULL
    <2>1. row[c].state = "NONE"  BY <1>1, RowsPersist
    <2>2. row'[c] = row[c]  BY <1>1, TableSteps, TableStepEffect
    <2>3. born'[c] = born[c]
      <3>1. ASSUME NEW j \in Jobs, NEW d \in Cameras, NEW n \in 1..MaxFrames, CameraFor(j, d, n)
            PROVE  born'[c] = born[c]
        <4>1. d # c
          BY <1>0, <1>1, <2>1, <3>1 DEF CameraFor, CreatedRow, NoRow, TypeOK
        <4> QED BY <1>0, <3>1, <4>1 DEF CameraFor, TypeOK
      <3>2. CASE born' = born  BY <3>2
      <3>3. ASSUME NEW d \in Cameras, FinalizeOne(d) \/ ReextractOne(d) PROVE born' = born
        BY <3>3, NightWrite
      <3> QED BY <3>1, <3>2, <3>3
          DEF Next, JobStep, OperatorStep, NightStep, vars, hist, StartFrame, DrainSized, DrainFailed,
              PersistDetections, AbortJob, ResetToInitial, ResetToLearning, ReadForFullRoi,
              SetFullRoi, ListRows, NextPass, PruneDetections, WakeUp, NewDay, Restart
    <2> QED BY <2>1, <2>2, <2>3 DEF RowsKnown
  <1>2. ASSUME NEW j \in Jobs, job'[j].cam # NULL PROVE row'[job'[j].cam].state # "NONE"
    <2>1. job'[j].cam \in Cameras  BY <1>0, <1>2, JobTypes DEF TypeOK
    <2>2. CASE job'[j].cam = job[j].cam  BY <1>2, <2>1, <2>2, RowsPersist DEF RowsKnown
    <2>3. ASSUME NEW i \in Jobs, NEW c \in Cameras, NEW n \in 1..MaxFrames, CameraFor(i, c, n),
                 job'[j].cam # job[j].cam
          PROVE  row'[job'[j].cam].state # "NONE"
      <3>1. job'[j].cam = c  BY <1>0, <2>3 DEF CameraFor, TypeOK
      <3>2. row'[c].state # "NONE"  BY <1>0, <2>3 DEF CameraFor, CreatedRow, NoRow, TypeOK
      <3> QED BY <3>1, <3>2
    <2>4. ASSUME NEW i \in Jobs, StartFrame(i) PROVE job'[j].cam = job[j].cam
      BY <1>0, <2>4 DEF StartFrame, TypeOK, Job
    <2>5. ASSUME NEW i \in Jobs, NEW g \in Geoms, NEW hit \in BOOLEAN, DrainSized(i, g, hit)
          PROVE  job'[j].cam = job[j].cam
      <3> DEFINE days == IF hit THEN {today} ELSE {}
                 s == Sized(job[i], days)
      <3>1. job' = [job EXCEPT ![i] = Drained(s)]  BY <2>5 DEF DrainSized
      <3>2. job[i] \in Job /\ job[i].done > 0  BY <1>0, <2>5 DEF DrainSized, TypeOK
      <3>3. days \in SUBSET Days  BY <1>0 DEF TypeOK
      <3>4. s \in Job /\ s.done > 0 /\ s.cam = job[i].cam  BY <3>2, <3>3, JobTypes
      <3> HIDE DEF s
      <3>5. Drained(s).cam = job[i].cam  BY <3>4, JobTypes
      <3> QED BY <1>0, <3>1, <3>5 DEF TypeOK
    <2>6. ASSUME NEW i \in Jobs, DrainFailed(i) PROVE job'[j].cam = job[j].cam
      <3>1. job' = [job EXCEPT ![i] = Drained(job[i])]  BY <2>6 DEF DrainFailed
      <3>2. Drained(job[i]).cam = job[i].cam  BY <1>0, <2>6, JobTypes DEF DrainFailed, TypeOK
      <3> QED BY <1>0, <3>1, <3>2 DEF TypeOK
    <2>7. ASSUME NEW i \in Jobs, PersistDetections(i) \/ AbortJob(i)
          PROVE  job'[j].cam = job[j].cam
      <3>1. job'[j] = job[j] \/ job'[j] = NoJob
        BY <1>0, <2>7 DEF PersistDetections, AbortJob, TypeOK
      <3> QED BY <1>2, <3>1 DEF NoJob
    <2>8. CASE Restart  BY <1>2, <2>8 DEF Restart, NoJob
    <2>9. ASSUME NEW d \in Cameras, FinalizeOne(d) \/ ReextractOne(d)
          PROVE  job'[j].cam = job[j].cam
      BY <2>9, NightWrite
    <2> QED BY <2>2, <2>3, <2>4, <2>5, <2>6, <2>7, <2>8, <2>9
        DEF Next, JobStep, OperatorStep, NightStep, vars, ResetToInitial, ResetToLearning,
            ReadForFullRoi, SetFullRoi, ListRows, NextPass, PruneDetections, WakeUp, NewDay
  <1> QED BY <1>1, <1>2 DEF RowsKnown

(* How a step changes what the nightly pass has listed: not at all, one    *)
(* camera fewer, everything forgotten, or a fresh reading.                 *)
LEMMA ListSteps ==
  ASSUME TypeOK, ListRead, [Next]_vars
  PROVE  /\ ListRead'
         /\ \/ ListRows
            \/ DOMAIN night'.list = {}
            \/ /\ night'.pc = night.pc
               /\ DOMAIN night'.list \subseteq DOMAIN night.list
               /\ \A c \in DOMAIN night'.list : night'.list[c] = night.list[c]
  <1>1. CASE UNCHANGED night  BY <1>1 DEF ListRead
  <1>2. ASSUME NEW c \in Cameras, FinalizeOne(c) \/ ReextractOne(c)
        PROVE  /\ night'.pc = night.pc /\ night'.read = night.read
               /\ DOMAIN night'.list \subseteq DOMAIN night.list
               /\ \A d \in DOMAIN night'.list : night'.list[d] = night.list[d]
    <2>1. Handled(c).read = night.read  BY DEF Handled, TypeOK, Night
    <2> QED BY <1>2, <2>1, NightWrite, HandledType DEF TypeOK
  <1>3. CASE ListRows
    <2>1. night'.read = TRUE /\ night'.pc = night.pc /\ night.pc \in {"finalize", "reextract"}
      BY <1>3 DEF ListRows, TypeOK, Night
    <2> QED BY <1>3, <2>1 DEF ListRead
  <1>4. CASE NextPass \/ PruneDetections \/ WakeUp
    <2>1. night'.list = night.list
      BY <1>4 DEF NextPass, PruneDetections, WakeUp, TypeOK, Night
    <2>2. DOMAIN night.list = {}
      BY <1>4 DEF NextPass, PruneDetections, WakeUp, ListRead
    <2> QED BY <2>1, <2>2 DEF ListRead
  <1>5. CASE Restart
    <2>1. DOMAIN NoList = {}  BY DEF NoList
    <2> QED BY <1>5, <2>1 DEF Restart, Boot, ListRead
  <1>6. ListRead'
    BY <1>1, <1>2, <1>3, <1>4, <1>5
    DEF ListRead, Next, JobStep, OperatorStep, NightStep, vars, CameraFor, StartFrame, DrainSized,
        DrainFailed, PersistDetections, AbortJob, ResetToInitial, ResetToLearning,
        ReadForFullRoi, SetFullRoi, NewDay
  <1>7. \/ ListRows
        \/ DOMAIN night'.list = {}
        \/ /\ night'.pc = night.pc
           /\ DOMAIN night'.list \subseteq DOMAIN night.list
           /\ \A c \in DOMAIN night'.list : night'.list[c] = night.list[c]
    <2>1. CASE NextPass \/ PruneDetections \/ WakeUp
      BY <2>1 DEF NextPass, PruneDetections, WakeUp, TypeOK, Night, ListRead
    <2>2. CASE Restart
      <3>1. DOMAIN NoList = {}  BY DEF NoList
      <3> QED BY <2>2, <3>1 DEF Restart, Boot
    <2> QED BY <1>1, <1>2, <2>1, <2>2
        DEF Next, JobStep, OperatorStep, NightStep, vars, CameraFor, StartFrame, DrainSized,
            DrainFailed, PersistDetections, AbortJob, ResetToInitial, ResetToLearning,
            ReadForFullRoi, SetFullRoi, NewDay
  <1> QED BY <1>6, <1>7

(* The rows a fresh reading lists are the current ones, all in the state   *)
(* the pass works on.                                                      *)
LEMMA FreshList ==
  ASSUME TypeOK, ListRows
  PROVE  /\ night'.pc = night.pc /\ DOMAIN night'.list \subseteq Cameras
         /\ \A c \in DOMAIN night'.list :
              /\ night'.list[c].geom = row[c].geom
              /\ night.pc = "finalize" => night'.list[c].started = row[c].started
              /\ row[c].state = IF night.pc = "finalize" THEN "LEARNING" ELSE "ACTIVE"
         /\ UNCHANGED <<row, dets, job, op, today, born, forced>>
  <1>1. PICK cs \in {{c \in Cameras : row[c].state =
                         IF night.pc = "finalize" THEN "LEARNING" ELSE "ACTIVE"}, {}} :
           night' = [night EXCEPT !.read = TRUE, !.list = [c \in cs |-> Listed(row[c])]]
    BY DEF ListRows
  <1>2. night'.list = [c \in cs |-> Listed(row[c])] /\ night'.pc = night.pc
    BY <1>1 DEF TypeOK, Night
  <1>3. DOMAIN night'.list = cs  BY <1>2
  <1>4. \A c \in cs : night'.list[c] = Listed(row[c]) /\ c \in Cameras  BY <1>2
  <1> QED BY <1>1, <1>2, <1>3, <1>4, ListedType DEF ListRows, hist, TypeOK

LEMMA StepReaders == TableInv /\ [Next]_vars => ReadersAgree'
  <1> SUFFICES ASSUME TableInv, [Next]_vars PROVE ReadersAgree'  OBVIOUS
  <1> USE DEF TableInv
  <1>1. ASSUME NEW c \in DOMAIN night'.list, night'.list[c].geom # NULL
        PROVE  night'.list[c].geom = row'[c].geom
    <2>1. CASE ListRows  BY <1>1, <2>1, FreshList
    <2>2. CASE c \in DOMAIN night.list /\ night'.list[c] = night.list[c]
      BY <1>1, <2>2, ListType, RowsPersist DEF ReadersAgree
    <2> QED BY <1>1, <2>1, <2>2, ListSteps
  <1>2. ASSUME op' # NULL PROVE op'.geom = row'[op'.cam].geom
    <2>1. CASE op' = op
      <3>1. op \in Request  BY <1>2, <2>1 DEF TypeOK
      <3>2. op.cam \in Cameras /\ op.geom # NULL  BY <3>1 DEF Request
      <3> QED BY <1>2, <2>1, <3>2, RowsPersist DEF ReadersAgree
    <2>2. ASSUME NEW c \in Cameras, ReadForFullRoi(c) PROVE op'.geom = row'[op'.cam].geom
      BY <2>2 DEF ReadForFullRoi
    <2>3. ASSUME NEW c \in Cameras, FinalizeOne(c) \/ ReextractOne(c) PROVE op' = op
      BY <2>3, NightWrite
    <2> QED BY <1>2, <2>1, <2>2, <2>3
        DEF Next, JobStep, OperatorStep, NightStep, vars, CameraFor, StartFrame, DrainSized,
            DrainFailed, PersistDetections, AbortJob, ResetToInitial, ResetToLearning,
            SetFullRoi, ListRows, NextPass, PruneDetections, WakeUp, NewDay, Restart
  <1> QED BY <1>1, <1>2 DEF ReadersAgree

LEMMA StepTableInv == TableInv /\ [Next]_vars => TableInv'
  BY StepTypeOK, StepCoherent, StepKnown, StepReaders, ListSteps DEF TableInv

------------------------------------------------------------------------------
(* Time and history only move forward.                                     *)
LEMMA HistorySteps ==
  ASSUME TypeOK, [Next]_vars
  PROVE  /\ today' >= today
         /\ forced \subseteq forced'
         /\ \/ born' = born
            \/ \E j \in Jobs, c \in Cameras, n \in 1..MaxFrames : CameraFor(j, c, n)
  <1>0. today \in Nat  BY DEF TypeOK, Days
  <1>1. ASSUME NEW j \in Jobs, NEW c \in Cameras, NEW n \in 1..MaxFrames, CameraFor(j, c, n)
        PROVE  today' = today /\ forced' = forced
    BY <1>1 DEF CameraFor
  <1>2. CASE SetFullRoi  BY <1>0, <1>2 DEF SetFullRoi
  <1>3. CASE NewDay  BY <1>0, <1>3 DEF NewDay, hist
  <1>4. ASSUME NEW c \in Cameras, FinalizeOne(c) \/ ReextractOne(c)
        PROVE  UNCHANGED <<today, born, forced>>
    BY <1>4, NightWrite
  <1>5. CASE UNCHANGED <<today, born, forced>>  BY <1>0, <1>5
  <1>6. CASE \E j \in Jobs, c \in Cameras, n \in 1..MaxFrames : CameraFor(j, c, n)
    BY <1>0, <1>1, <1>6
  <1>7. \/ \E j \in Jobs, c \in Cameras, n \in 1..MaxFrames : CameraFor(j, c, n)
        \/ SetFullRoi \/ NewDay
        \/ \E c \in Cameras : FinalizeOne(c) \/ ReextractOne(c)
        \/ UNCHANGED <<today, born, forced>>
    BY DEF Next, JobStep, OperatorStep, NightStep, vars, hist, StartFrame, DrainSized, DrainFailed,
          PersistDetections, AbortJob, ResetToInitial, ResetToLearning, ReadForFullRoi,
          ListRows, NextPass, PruneDetections, WakeUp, Restart
  <1> QED BY <1>2, <1>3, <1>4, <1>5, <1>6, <1>7

LEMMA ClockSteps ==
  ASSUME TableInv, Aged, [Next]_vars, NEW c \in Cameras
  PROVE  \/ row[c].state = "NONE" /\ row'[c].state = "NONE"
         \/ /\ row[c].state = "NONE" /\ row'[c] = CreatedRow
            /\ born'[c] = today /\ today' = today
         \/ /\ row[c].state # "NONE" /\ born'[c] = born[c]
            /\ row'[c].started \in {row[c].started, today, NULL}
  <1> USE DEF TableInv
  <1>1. row \in [Cameras -> Row] /\ row[c] \in Row /\ born \in [Cameras -> Days \cup {NULL}]
    BY DEF TypeOK
  <1>2. ASSUME NEW j \in Jobs, NEW d \in Cameras, NEW n \in 1..MaxFrames, CameraFor(j, d, n)
        PROVE  \/ row[c].state = "NONE" /\ row'[c].state = "NONE"
               \/ /\ row[c].state = "NONE" /\ row'[c] = CreatedRow
                  /\ born'[c] = today /\ today' = today
               \/ row[c].state # "NONE" /\ born'[c] = born[c] /\ row'[c] = row[c]
    <2>1. CASE c # d  BY <1>1, <1>2, <2>1, RowsPersist DEF CameraFor, RowsKnown
    <2>2. CASE c = d /\ row[c].state = "NONE"
      <3>1. born[c] = NULL  BY <2>2 DEF RowsKnown
      <3> QED BY <1>1, <1>2, <2>2, <3>1 DEF CameraFor
    <2>3. CASE c = d /\ row[c].state # "NONE"
      <3>1. born[c] # NULL  BY <2>3 DEF Aged, Days
      <3>2. born'[c] = born[c] /\ row'[c] = row[c]  BY <1>1, <1>2, <2>3, <3>1 DEF CameraFor
      <3> QED BY <2>3, <3>2
    <2> QED BY <2>1, <2>2, <2>3
  <1>3. ASSUME born' = born
        PROVE  \/ row[c].state = "NONE" /\ row'[c].state = "NONE"
               \/ /\ row[c].state # "NONE"
                  /\ row'[c].started \in {row[c].started, today, NULL}
    <2>1. CASE row'[c] = row[c]
      BY <2>1
    <2>2. CASE TableStep(c)
      <3>1. ~ (row[c].state = "NONE" /\ born' = [born EXCEPT ![c] = today])
        <4>1. ASSUME row[c].state = "NONE" PROVE born[c] # today
          <5>1. born[c] = NULL  BY <4>1 DEF RowsKnown
          <5> QED BY <5>1 DEF TypeOK, Days
        <4> QED BY <1>1, <1>3, <4>1
      <3>2. row[c].state # "NONE"
        <4>1. ASSUME row[c].state = "NONE" PROVE row[c].geom = NULL
          BY <4>1 DEF RowsKnown, NoRow
        <4>2. \A p \in Roi : p.geom # NULL  BY DEF Roi
        <4> QED BY <2>2, <3>1, <4>1, <4>2 DEF TableStep
      <3>3. \/ row'[c] = LearningRow(row[c])
            \/ row'[c] = InitialRow(row[c])
            \/ \E g \in Geoms : row'[c] = SizedRow(row[c], g)
            \/ \E p \in Roi : row'[c] = ActiveRow(row[c], p)
        BY <1>1, <2>2, <3>2 DEF TableStep
      <3>4. LearningRow(row[c]).started = today /\ InitialRow(row[c]).started = NULL
        BY <1>1 DEF LearningRow, InitialRow, Row
      <3>5. \A g \in Geoms : SizedRow(row[c], g).started = row[c].started
        BY <1>1 DEF SizedRow, Row
      <3>6. \A p \in Roi : ActiveRow(row[c], p).started = row[c].started
        BY <1>1 DEF ActiveRow, Row
      <3> QED BY <3>2, <3>3, <3>4, <3>5, <3>6
    <2>3. row'[c] = row[c] \/ TableStep(c)  BY TableSteps, TableStepEffect
    <2> QED BY <2>1, <2>2, <2>3, Zenon
  <1> QED BY <1>2, <1>3, HistorySteps

(* Only three writers make a camera ACTIVE.                                *)
LEMMA Activations ==
  ASSUME TableInv, [Next]_vars, NEW c \in Cameras,
         row'[c].state = "ACTIVE", row[c].state # "ACTIVE"
  PROVE  \/ c \in forced'
         \/ c \in DOMAIN night.list /\ night.pc = "finalize" /\ WindowElapsed(night.list[c])
         \/ c \in DOMAIN night.list /\ night.pc = "reextract"
  <1> USE DEF TableInv
  <1>1. row \in [Cameras -> Row] /\ row[c] \in Row  BY DEF TypeOK
  <1>2. ASSUME NEW d, NEW r, row' = [row EXCEPT ![d] = r] PROVE d = c /\ r.state = "ACTIVE"
    BY <1>1, <1>2
  <1>3. ASSUME NEW j \in Jobs, NEW d \in Cameras, NEW n \in 1..MaxFrames, CameraFor(j, d, n)
        PROVE  FALSE
    <2>1. row' = [row EXCEPT ![d] = CreatedRow] \/ row' = row
      BY <1>1, <1>3 DEF CameraFor
    <2>2. CreatedRow.state = "LEARNING"  BY DEF CreatedRow, NoRow
    <2>3. ASSUME row' = [row EXCEPT ![d] = CreatedRow] PROVE FALSE
      <3>1. CreatedRow.state = "ACTIVE"  BY <1>2, <2>3
      <3> QED BY <2>2, <3>1
    <2> QED BY <2>1, <2>3
  <1>4. ASSUME NEW j \in Jobs, StartFrame(j) PROVE FALSE
    <2>1. row' = [row EXCEPT ![job[j].cam] = LearningRow(row[job[j].cam])]
      BY <1>4 DEF StartFrame
    <2>2. job[j].cam = c /\ LearningRow(row[c]).state = "ACTIVE"  BY <1>2, <2>1
    <2> QED BY <1>1, <2>2 DEF LearningRow, Row
  <1>5. ASSUME NEW j \in Jobs, NEW g \in Geoms, NEW hit \in BOOLEAN, DrainSized(j, g, hit)
        PROVE  FALSE
    <2>1. row' # row  OBVIOUS
    <2>2. row' = [row EXCEPT ![job[j].cam] = SizedRow(row[job[j].cam], g)]
      BY <1>5, <2>1 DEF DrainSized
    <2>3. job[j].cam = c /\ SizedRow(row[c], g).state = "ACTIVE"  BY <1>2, <2>2
    <2>4. SizedRow(row[c], g).state = row[c].state  BY <1>1 DEF SizedRow, Row
    <2> QED BY <2>3, <2>4
  <1>6. ASSUME NEW d \in Cameras, ResetToInitial(d) \/ ResetToLearning(d) PROVE FALSE
    <2>1. \/ row' = [row EXCEPT ![d] = InitialRow(row[d])]
          \/ row' = [row EXCEPT ![d] = LearningRow(row[d])]
      BY <1>6 DEF ResetToInitial, ResetToLearning
    <2>2. d = c /\ (InitialRow(row[c]).state = "ACTIVE" \/ LearningRow(row[c]).state = "ACTIVE")
      BY <1>2, <2>1
    <2> QED BY <1>1, <2>2 DEF InitialRow, LearningRow, Row
  <1>7. ASSUME SetFullRoi PROVE c \in forced'
    BY <1>2, <1>7 DEF SetFullRoi
  <1>8. ASSUME NEW d \in Cameras, FinalizeOne(d)
        PROVE  d = c /\ night.pc = "finalize" /\ d \in DOMAIN night.list
               /\ WindowElapsed(night.list[d])
    BY <1>1, <1>2, <1>8 DEF FinalizeOne, Turn
  <1>9. ASSUME NEW d \in Cameras, ReextractOne(d)
        PROVE  d = c /\ night.pc = "reextract" /\ d \in DOMAIN night.list
    BY <1>1, <1>2, <1>9 DEF ReextractOne, Turn
  <1>10. CASE row' = row  BY <1>10
  <1> QED BY <1>3, <1>4, <1>5, <1>6, <1>7, <1>8, <1>9, <1>10
      DEF Next, JobStep, OperatorStep, NightStep, vars, DrainFailed, PersistDetections, AbortJob,
          ReadForFullRoi, ListRows, NextPass, PruneDetections, WakeUp, NewDay, Restart

LEMMA StepNoEarly == IInv /\ [Next]_vars => NoEarlyActivation'
  <1> SUFFICES ASSUME IInv, [Next]_vars, NEW c \in Cameras,
                      row'[c].state = "ACTIVE", c \notin forced'
               PROVE  today' >= born'[c] + LearningDays
    BY DEF NoEarlyActivation
  <1> USE DEF IInv
  <1>0. /\ today \in Nat /\ today' \in Nat /\ today' >= today /\ c \notin forced
        /\ LearningDays \in Nat
    BY HistorySteps, StepTypeOK DEF TableInv, TypeOK, Days
  <1>1. row[c].state # "NONE" /\ born'[c] = born[c] /\ born[c] \in Nat
    <2>1. row'[c].state \notin {"NONE", "LEARNING"}  OBVIOUS
    <2>2. row'[c] # CreatedRow  BY <2>1 DEF CreatedRow, NoRow
    <2>3. row[c].state # "NONE" /\ born'[c] = born[c]  BY <2>1, <2>2, ClockSteps
    <2> QED BY <2>3 DEF Aged, Days
  <1>2. CASE row[c].state = "ACTIVE"  BY <1>0, <1>1, <1>2 DEF NoEarlyActivation
  <1>3. CASE c \in DOMAIN night.list /\ night.pc = "finalize" /\ WindowElapsed(night.list[c])
    <2>1. night.list[c].started # NULL /\ today >= night.list[c].started + LearningDays
      BY <1>3 DEF WindowElapsed
    <2>2. night.list[c].started >= born[c]  BY <1>3, <2>1 DEF Aged
    <2>3. night.list[c].started \in Nat
      BY <1>3, <2>1, ListType DEF TableInv, Row, Days
    <2> QED BY <1>0, <1>1, <2>1, <2>2, <2>3
  <1>4. CASE c \in DOMAIN night.list /\ night.pc = "reextract"
    BY <1>0, <1>1, <1>4 DEF Aged
  <1> QED BY <1>2, <1>3, <1>4, Activations

LEMMA StepAged == IInv /\ [Next]_vars => Aged'
  <1> SUFFICES ASSUME IInv, [Next]_vars PROVE Aged'  OBVIOUS
  <1> USE DEF IInv
  <1>0. today \in Nat /\ today' >= today /\ today' \in Days /\ forced \subseteq forced'
        /\ today \in Days /\ LearningDays \in Nat
    BY HistorySteps, StepTypeOK DEF TableInv, TypeOK, Days
  <1>1. ASSUME NEW c \in Cameras, row'[c].state # "NONE"
        PROVE  /\ born'[c] \in Days /\ born'[c] <= today'
               /\ row'[c].started # NULL => row'[c].started >= born'[c]
    <2>1. CASE row'[c] = CreatedRow /\ born'[c] = today /\ today' = today
      BY <1>0, <2>1 DEF CreatedRow, NoRow
    <2>2. CASE /\ row[c].state # "NONE" /\ born'[c] = born[c]
               /\ row'[c].started \in {row[c].started, today, NULL}
      BY <1>0, <2>2 DEF Aged, Days
    <2> QED BY <1>1, <2>1, <2>2, ClockSteps
  <1>2. ASSUME NEW c \in DOMAIN night'.list
        PROVE  /\ row'[c].state # "NONE"
               /\ night'.pc = "finalize" /\ night'.list[c].started # NULL =>
                     night'.list[c].started >= born'[c]
               /\ night'.pc = "reextract" /\ c \notin forced' =>
                     today' >= born'[c] + LearningDays
    <2>1. CASE ListRows
      <3>1. /\ c \in Cameras /\ night'.pc = night.pc
            /\ night.pc = "finalize" => night'.list[c].started = row[c].started
            /\ row[c].state = IF night.pc = "finalize" THEN "LEARNING" ELSE "ACTIVE"
            /\ row' = row /\ born' = born /\ forced' = forced /\ today' = today
        BY <1>2, <2>1, FreshList DEF TableInv
      <3>2. row[c].started # NULL => row[c].started >= born[c]  BY <3>1 DEF Aged
      <3>3. row[c].state = "ACTIVE" /\ c \notin forced => today >= born[c] + LearningDays
        BY <3>1 DEF NoEarlyActivation
      <3> QED BY <3>1, <3>2, <3>3
    <2>2. CASE /\ night'.pc = night.pc /\ c \in DOMAIN night.list
               /\ night'.list[c] = night.list[c]
      <3>1. c \in Cameras /\ row[c].state # "NONE"  BY <2>2, ListType DEF Aged, TableInv
      <3>2. row'[c].state # "NONE" /\ born'[c] = born[c]  BY <3>1, ClockSteps, RowsPersist
      <3>3. born[c] \in Nat  BY <3>1 DEF Aged, Days
      <3>4. CASE night.pc = "finalize"  BY <2>2, <3>2, <3>4 DEF Aged
      <3>5. CASE night.pc = "reextract"  BY <1>0, <2>2, <3>2, <3>3, <3>5 DEF Aged
      <3> QED BY <2>2, <3>2, <3>4, <3>5
    <2> QED BY <1>2, <2>1, <2>2, ListSteps DEF TableInv
  <1> QED BY <1>1, <1>2 DEF Aged

LEMMA NextIInv == IInv /\ [Next]_vars => IInv'
  BY StepTableInv, StepAged, StepNoEarly DEF IInv

------------------------------------------------------------------------------
(* The invariant holds throughout every behaviour.                         *)
THEOREM Invariance == Spec => []IInv
  <1>1. Init => IInv  BY InitIInv
  <1>2. IInv /\ [Next]_vars => IInv'  BY NextIInv
  <1> QED BY <1>1, <1>2, PTL DEF Spec

(* The tables, the jobs and the background loop keep their types.          *)
THEOREM TypeCorrect == Spec => []TypeOK
  BY Invariance, PTL DEF IInv, TableInv

(* An ACTIVE camera always has a polygon to gate with, a LEARNING camera   *)
(* always has a clock (db.rs:296-362).                                     *)
THEOREM RowsStayCoherent == Spec => []RowCoherent
  BY Invariance, PTL DEF IInv, TableInv

(* No writer deploys a polygon of a geometry that is not the camera's,     *)
(* however old the row it computed it from (main.rs:2062-2220).            *)
THEOREM RoiStaysInFrame == Spec => []RoiInFrame
  BY Invariance, PTL DEF IInv, TableInv

(* The learning window cannot be cut short except by the operator          *)
(* (main.rs:2044-2060).                                                    *)
THEOREM NoCameraActivatedEarly == Spec => []NoEarlyActivation
  BY Invariance, PTL DEF IInv

(* First frame wins: a recorded geometry is final (db.rs:316-326).         *)
THEOREM GeometryNeverChanges == Spec => GeometryFixed
  <1>1. IInv /\ [Next]_vars =>
          [\A c \in Cameras : row[c].geom # NULL => row'[c].geom = row[c].geom]_row
    BY RowsPersist DEF IInv
  <1> QED BY <1>1, Invariance, PTL DEF Spec, GeometryFixed

(* Pruning leaves what finalization needs (main.rs:2222-2235).             *)
THEOREM LearningDataSurvives == Spec => LearningDataKept
  <1>1. IInv /\ [Next]_vars =>
          [\A c \in Cameras :
             row[c].state = "LEARNING" /\ today <= row[c].started + LearningDays + 1 =>
               {d \in dets[c] : d >= row[c].started} \subseteq dets'[c]]_dets
    <2> SUFFICES ASSUME IInv, [Next]_vars, dets' # dets, NEW c \in Cameras,
                        row[c].state = "LEARNING",
                        today <= row[c].started + LearningDays + 1,
                        NEW d \in dets[c], d >= row[c].started
                 PROVE  d \in dets'[c]
      OBVIOUS
    <2>0. TypeOK /\ RowCoherent  BY DEF IInv, TableInv
    <2>1. ASSUME NEW j \in Jobs, PersistDetections(j) PROVE d \in dets'[c]
      BY <2>0, <2>1 DEF PersistDetections, TypeOK
    <2>2. CASE PruneDetections
      <3>1. row[c] \in Row /\ row[c].started # NULL  BY <2>0 DEF TypeOK, RowCoherent
      <3>2. row[c].started \in Nat /\ d \in Nat /\ today \in Nat
        BY <2>0, <3>1 DEF TypeOK, Row, Days
      <3>3. Horizon \in Nat /\ Horizon >= LearningDays + 1  BY DEF Horizon
      <3>4. d + Horizon >= today  BY <3>2, <3>3
      <3>5. dets' = [e \in Cameras |-> {x \in dets[e] : x + Horizon >= today}]
        BY <2>2 DEF PruneDetections
      <3> QED BY <3>4, <3>5
    <2>3. ASSUME NEW e \in Cameras, FinalizeOne(e) \/ ReextractOne(e) PROVE FALSE
      BY <2>0, <2>3, NightWrite
    <2> QED BY <2>1, <2>2, <2>3
        DEF Next, JobStep, OperatorStep, NightStep, vars, CameraFor, StartFrame, DrainSized,
            DrainFailed, AbortJob, ResetToInitial, ResetToLearning, ReadForFullRoi,
            SetFullRoi, ListRows, NextPass, WakeUp, NewDay, Restart
  <1> QED BY <1>1, Invariance, PTL DEF Spec, LearningDataKept
=============================================================================
