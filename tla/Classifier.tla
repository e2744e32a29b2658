------------------------------ MODULE Classifier ------------------------------
(***************************************************************************)
(* The false-positive classifier: the nightly retraining (training.rs),    *)
(* the hot-swappable pool (ModelStore, models.rs), its restoration at      *)
(* start-up (main.rs), and the frames that use it meanwhile.               *)
(*                                                                         *)
(* A night reads the crops, trains, validates the candidate, compares it   *)
(* with the deployed model, and then backs up, swaps, clears the crops,    *)
(* writes the state file and prunes old models: separate steps, between    *)
(* which frames are processed, crops are saved and the process may stop.   *)
(* A pool loads its sessions from its file when they are first needed.     *)
(* Of the training script (python/retrain.py) the model keeps which crops  *)
(* it trains on, which it leaves out, and that it exports a file or raises.*)
(***************************************************************************)
EXTENDS Integers, FiniteSets

CONSTANTS Workers,      \* frame workers
          MinAccuracy, Eps,   \* RETRAIN_MIN_ACCURACY, RETRAIN_REGRESSION_EPS
          Accuracies,   \* what a validation may measure
          Seeds,        \* how many real faces the seed set may hold
          MinSamples,   \* samples needed of each class (2 in the code)
          MaxRatio,     \* the larger class is capped at this times the smaller (4)
          Holdout,      \* RETRAIN_HOLDOUT_FRACTION, in percent (5 to 50, default 10)
          Crops,        \* bound: the false-positive crops that frames may save
          MaxNights,    \* bound: retrainings
          MaxStarts,    \* bound: starts of the service
          Torn, None

Url    == 0
Models == 0..MaxNights     \* the downloaded model and one candidate per night

ASSUME ClassifierAssumption ==
  /\ Accuracies \subseteq Nat \ {0} /\ MinAccuracy \in Nat /\ Eps \in Nat
  /\ Seeds \subseteq Nat /\ MinSamples \in Nat \ {0, 1}
  /\ MaxRatio \in Nat \ {0} /\ Holdout \in 5..50
  /\ IsFiniteSet(Crops) /\ MaxNights \in Nat /\ MaxStarts \in Nat
  /\ None \notin Models /\ Torn \notin [onnx : Models, acc : Int] /\ None \notin [onnx : Models, acc : Int]

VARIABLES
  url,        \* CLASSIFIER_MODEL_URL: "none", "plain", or "prunable" when the
              \* downloaded file has a name that prune_stale matches
  up, starts,
  pool,       \* the model of the live pool, or None
  warm,       \* models of which a pool of this process holds a session
  files,      \* models in the cache directory
  state,      \* classifier_state.json: a record, None, or Torn
  crops,      \* false-positive crops on disk
  saved,      \* history: the crops ever saved
  night,      \* the retraining under way
  wk,         \* each worker's pool, and whether its last acquire failed
  unsaved     \* ghost: the last write of the state file did not succeed

vars == <<url, up, starts, pool, warm, files, state, crops, saved, night, wk, unsaved>>

Stages == {"off", "counted", "trained", "validate", "gate", "backup", "swap",
           "clear", "write", "prune", "audit"}
(* A night's crops: those trained on, those given to the script and left out, *)
(* and those saved since it read the others.                                 *)
NoNight == [pc |-> "off", cand |-> Url, data |-> {}, rest |-> {}, late |-> {},
            acc |-> 0, base |-> 0, nights |-> 0]

Init ==
  /\ url \in {"none", "plain", "prunable"}
  /\ up = FALSE /\ starts = 0
  /\ pool = None /\ warm = {} /\ files = {}
  /\ state = None
  /\ crops = {} /\ saved = {}
  /\ night = NoNight
  /\ wk = [w \in Workers |-> [pool |-> None, pc |-> "idle"]]
  /\ unsaved = FALSE

------------------------------------------------------------------------------
(* Start-up.  With a URL the downloaded model is deployed, whatever was       *)
(* swapped in before, and the state file follows; without one the last       *)
(* swapped model is restored if its file is there and loads.                 *)
Restorable == IF state \in {None, Torn} THEN FALSE ELSE state.onnx \in files

Boot(p) ==
  /\ ~up /\ starts < MaxStarts
  /\ up' = TRUE /\ starts' = starts + 1
  /\ pool' = p
  /\ UNCHANGED <<url, warm, crops, saved, night, wk>>

(* ensure_model: the cached file if it passes its check, else a download      *)
(* that is renamed into place and checked; nothing else runs meanwhile.       *)
Fetched == files \cup {Url}

StartWithUrl ==
  /\ url # "none"
  /\ Boot(Url)
  /\ files' = Fetched
  /\ LET named == IF state \in {None, Torn} THEN None ELSE state.onnx IN
     IF named = Url THEN UNCHANGED <<state, unsaved>>
     ELSE \/ state' = [onnx |-> Url, acc |-> 0] /\ unsaved' = FALSE
          \/ state' \in {state, Torn} /\ unsaved' = TRUE

(* Three attempts to download some model fail, it does not have its checksum, *)
(* or it cannot be loaded: the service does not start, whatever is cached.    *)
StartRefused ==
  /\ ~up /\ starts < MaxStarts
  /\ starts' = starts + 1
  /\ files' \in {files} \cup (IF url = "none" THEN {} ELSE {Fetched})
  /\ UNCHANGED <<url, up, pool, warm, state, crops, saved, night, wk, unsaved>>

StartRestored ==
  /\ url = "none"
  /\ Boot(IF Restorable THEN state.onnx ELSE None)
  /\ UNCHANGED <<files, state, unsaved>>

(* The process stops: pools, workers and the night's progress are gone; a     *)
(* state file being written may be left torn.                                *)
Stop ==
  /\ up /\ up' = FALSE
  /\ pool' = None /\ warm' = {}
  /\ night' = [NoNight EXCEPT !.nights = night.nights]
  /\ wk' = [w \in Workers |-> [pool |-> None, pc |-> "idle"]]
  /\ \/ UNCHANGED <<state, unsaved>>
     \/ night.pc = "write" /\ state' = Torn /\ unsaved' = TRUE
  /\ UNCHANGED <<url, starts, files, crops, saved>>

------------------------------------------------------------------------------
(* Frames.                                                                   *)
SaveCrop_uncounted ==
  /\ up
  /\ \E c \in Crops \ saved :
       /\ crops' = crops \cup {c}
       /\ night' = [night EXCEPT !.late = IF night.pc = "off" THEN {} ELSE @ \cup {c}]
  /\ UNCHANGED <<url, up, starts, pool, warm, files, state, saved, wk, unsaved>>

SaveCrop ==
  /\ up
  /\ \E c \in Crops \ saved :
       /\ saved' = saved \cup {c} /\ crops' = crops \cup {c}
       /\ night' = [night EXCEPT !.late = IF night.pc = "off" THEN {} ELSE @ \cup {c}]
  /\ UNCHANGED <<url, up, starts, pool, warm, files, state, wk, unsaved>>

(* classifier_pool() hands out the live pool, which the frame keeps.          *)
TakePool(w) ==
  /\ up /\ wk[w].pc \in {"idle", "classified", "failed"} /\ pool # None
  /\ wk' = [wk EXCEPT ![w] = [pool |-> pool, pc |-> "acquire"]]
  /\ UNCHANGED <<url, up, starts, pool, warm, files, state, crops, saved, night, unsaved>>

(* SessionPool::acquire: an idle session, or a new one loaded from the file.  *)
Acquire(w) ==
  LET p == wk[w].pool IN
  /\ wk[w].pc = "acquire" /\ (p \in warm \/ p \in files)
  /\ warm' = warm \cup {p}
  /\ wk' = [wk EXCEPT ![w].pc = "classified"]
  /\ UNCHANGED <<url, up, starts, pool, files, state, crops, saved, night, unsaved>>

(* Every session is busy or there is none, and the file is gone.              *)
AcquireFails(w) ==
  /\ wk[w].pc = "acquire" /\ wk[w].pool \notin files
  /\ wk' = [wk EXCEPT ![w].pc = "failed"]
  /\ UNCHANGED <<url, up, starts, pool, warm, files, state, crops, saved, night, unsaved>>

------------------------------------------------------------------------------
(* nightly_retrain.  Whatever the outcome, it ends with the audit file.       *)
EndNight == night' = [night EXCEPT !.pc = "audit"]

Enough(reals) == reals >= MinSamples /\ Cardinality(crops) >= MinSamples

Count ==
  /\ up /\ night.pc = "off" /\ night.nights < MaxNights
  /\ \E reals \in Seeds :
       night' = [NoNight EXCEPT !.nights = night.nights + 1,
                                !.pc = IF Enough(reals) THEN "counted" ELSE "audit",
                                !.cand = night.nights + 1]
  /\ UNCHANGED <<url, up, starts, pool, warm, files, state, crops, saved, wk, unsaved>>

(* The script: the larger class is cut down to the cap by sampling, and part  *)
(* of the shuffled samples of both classes only validates the result.  The    *)
(* part is rounded; the fraction is an f32, so a tie may go either way.       *)
Cap(reals) ==
  LET smaller == IF reals < Cardinality(crops) THEN reals ELSE Cardinality(crops) IN
  IF MaxRatio * smaller < 2 THEN 2 ELSE MaxRatio * smaller

Capped_not(n, cap) == n
Capped(n, cap) == IF n > cap THEN cap ELSE n

HoldoutSizes(n) ==
  {IF k = 0 THEN 1 ELSE k : k \in {i \in 0..n : 2 * (100 * i - n * Holdout) \in -100..100}}

Split(reals, used, val) ==
  LET faces == Capped(reals, Cap(reals)) IN
  /\ used \subseteq crops /\ Cardinality(used) = Capped(Cardinality(crops), Cap(reals))
  /\ val \subseteq used
  /\ \E n \in HoldoutSizes(faces + Cardinality(used)) : Cardinality(val) \in (n - faces)..n

(* It reads the data set when it starts ...                                   *)
ReadData ==
  /\ night.pc = "counted"
  /\ \E reals \in Seeds :
       \/ ~Enough(reals) /\ EndNight
       \/ /\ Enough(reals)
          /\ \E used, val \in SUBSET crops :
               /\ Split(reals, used, val)
               /\ night' = [night EXCEPT !.pc = "trained", !.data = used \ val,
                                         !.rest = (crops \ used) \cup val, !.late = {}]
  /\ UNCHANGED <<url, up, starts, pool, warm, files, state, crops, saved, wk, unsaved>>

(* ... and exports a model at the end, or raises.                            *)
Export ==
  /\ night.pc = "trained"
  /\ \/ night' = [night EXCEPT !.pc = "validate"] /\ files' = files \cup {night.cand}
     \/ EndNight /\ files' \in {files, files \cup {night.cand}}
  /\ UNCHANGED <<url, up, starts, pool, warm, state, crops, saved, wk, unsaved>>

Discard == files' = files \ {night.cand}

(* The script's own metric and the Rust-side validation, each against the     *)
(* minimum.  A candidate that cannot be validated is not discarded.           *)
Validate ==
  /\ night.pc = "validate"
  /\ \/ \E acc \in Accuracies :
           /\ acc >= MinAccuracy
           /\ night' = [night EXCEPT !.pc = "gate", !.acc = acc]
           /\ UNCHANGED files
     \/ EndNight /\ Discard
     \/ EndNight /\ UNCHANGED files
  /\ UNCHANGED <<url, up, starts, pool, warm, state, crops, saved, wk, unsaved>>

(* The A/B gate, unless nothing is deployed or its file is gone.             *)
Gate_noFloor ==
  /\ night.pc = "gate"
  /\ IF pool \notin files
     THEN night' = [night EXCEPT !.pc = "backup"] /\ UNCHANGED files
     ELSE \/ \E base \in Accuracies :
                night' = [night EXCEPT !.pc = "backup", !.base = base] /\ UNCHANGED files
          \/ EndNight /\ Discard
  /\ UNCHANGED <<url, up, starts, pool, warm, state, crops, saved, wk, unsaved>>

Gate ==
  /\ night.pc = "gate"
  /\ IF pool \notin files
     THEN night' = [night EXCEPT !.pc = "backup"] /\ UNCHANGED files
     ELSE \/ \E base \in Accuracies :
                IF night.acc < base - Eps
                THEN EndNight /\ Discard
                ELSE night' = [night EXCEPT !.pc = "backup", !.base = base] /\ UNCHANGED files
          \/ EndNight /\ Discard
  /\ UNCHANGED <<url, up, starts, pool, warm, state, crops, saved, wk, unsaved>>

(* What prune_stale matches.                                                 *)
Candidates == IF url = "prunable" THEN files ELSE files \ {Url}

(* The copy kept for a manual rollback may fail, which is only logged; the    *)
(* program never reads it back, so the model does not keep it.                *)
Backup ==
  /\ night.pc = "backup"
  /\ night' = [night EXCEPT !.pc = "swap"]
  /\ UNCHANGED <<url, up, starts, pool, warm, files, state, crops, saved, wk, unsaved>>

Swap_prunesFirst ==
  /\ night.pc = "swap"
  /\ pool' = night.cand
  /\ files' = files \ (Candidates \ {night.cand})
  /\ night' = [night EXCEPT !.pc = "clear"]
  /\ UNCHANGED <<url, up, starts, warm, state, crops, saved, wk, unsaved>>

Swap ==
  /\ night.pc = "swap"
  /\ pool' = night.cand
  /\ night' = [night EXCEPT !.pc = "clear"]
  /\ UNCHANGED <<url, up, starts, warm, files, state, crops, saved, wk, unsaved>>

(* clear_fp_crops removes what it finds; a removal that fails leaves a crop.  *)
Clear ==
  /\ night.pc = "clear"
  /\ crops' \in SUBSET crops
  /\ night' = [night EXCEPT !.pc = "write"]
  /\ UNCHANGED <<url, up, starts, pool, warm, files, state, saved, wk, unsaved>>

Write ==
  /\ night.pc = "write"
  /\ \/ state' = [onnx |-> night.cand, acc |-> night.acc] /\ unsaved' = FALSE
     \/ state' \in {state, Torn} /\ unsaved' = TRUE
  /\ night' = [night EXCEPT !.pc = "prune"]
  /\ UNCHANGED <<url, up, starts, pool, warm, files, crops, saved, wk>>

Prune_all ==
  /\ night.pc = "prune"
  /\ files' = files \ Candidates
  /\ night' = [night EXCEPT !.pc = "audit"]
  /\ UNCHANGED <<url, up, starts, pool, warm, state, crops, saved, wk, unsaved>>

Prune ==
  /\ night.pc = "prune"
  /\ files' = files \ (Candidates \ {night.cand})
  /\ night' = [night EXCEPT !.pc = "audit"]
  /\ UNCHANGED <<url, up, starts, pool, warm, state, crops, saved, wk, unsaved>>

Audit ==
  /\ night.pc = "audit"
  /\ night' = [NoNight EXCEPT !.nights = night.nights]
  /\ UNCHANGED <<url, up, starts, pool, warm, files, state, crops, saved, wk, unsaved>>

Retrain == Count \/ ReadData \/ Export \/ Validate \/ Gate \/ Backup \/ Swap \/ Clear
           \/ Write \/ Prune \/ Audit
Next ==
  \/ StartWithUrl \/ StartRestored \/ StartRefused \/ Stop \/ SaveCrop
  \/ \E w \in Workers : TakePool(w) \/ Acquire(w) \/ AcquireFails(w)
  \/ Retrain

Spec == Init /\ [][Next]_vars

------------------------------------------------------------------------------
TypeOK ==
  /\ url \in {"none", "plain", "prunable"}
  /\ up \in BOOLEAN /\ starts \in 0..MaxStarts
  /\ pool \in Models \cup {None} /\ (~up => pool = None)
  /\ warm \subseteq Models /\ files \subseteq Models
  /\ state \in [onnx : Models, acc : Accuracies \cup {0}] \cup {None, Torn}
  /\ crops \subseteq saved /\ saved \subseteq Crops
  /\ night \in [pc : Stages, cand : Models, data : SUBSET saved,
                 rest : SUBSET saved, late : SUBSET saved,
                 acc : Accuracies \cup {0}, base : Accuracies \cup {0}, nights : 0..MaxNights]
  /\ wk \in [Workers -> [pool : Models \cup {None},
                         pc : {"idle", "acquire", "classified", "failed"}]]
  /\ unsaved \in BOOLEAN

(* A readable state file whose last write succeeded names a model that is    *)
(* still there: a restart finds it, wherever the night was cut off           *)
(* (training.rs 304-314, main.rs 249-272).                                   *)
StateRestorable == ~unsaved /\ state \notin {None, Torn} => state.onnx \in files

(* A frame fails for want of the model file only if it still holds a pool    *)
(* that was swapped out: the live pool can always load a session             *)
(* (models.rs 77-110, 191-215; training.rs 313).                             *)
OnlyOldPoolsFail ==
  \A w \in Workers : wk[w].pc = "failed" => wk[w].pool # pool

(* No candidate replaces a deployed model without having been measured       *)
(* against it and found no worse; the gate's escape for a deployed file that *)
(* is gone is never taken (training.rs 224-268, README 614-616).             *)
ComparedBeforeSwap ==
  night.pc \in {"backup", "swap"} /\ pool # None =>
    night.base # 0 /\ night.acc >= night.base - Eps

(* "On a successful swap the consumed crops are cleared (the new model       *)
(* already learned on them)" (README 616-618).  What is true of it: a crop    *)
(* goes only once the night's candidate is the live model; the script was     *)
(* given it, and trained on it or left it out (over the cap or held out,      *)
(* retrain.py 88-97, 119-127), or it was saved too late for that              *)
(* (training.rs 304-308).  With the default holdout and ratio (10 and 4) the  *)
(* cap also keeps a small class from being held out whole: the model learned  *)
(* on some of what it makes go.                                               *)
CropsAccounted ==
  [][crops \ crops' # {} =>
       /\ night.pc = "clear" /\ pool = night.cand
       /\ crops \ crops' \subseteq night.data \cup night.rest \cup night.late
       /\ Holdout * (1 + MaxRatio) <= 50 => night.data # {}]_crops
==============================================================================
