--------------------------- MODULE Classifier_proofs ---------------------------
(***************************************************************************)
(* Proofs about Classifier, for any number of workers, nights, starts and  *)
(* crops and any thresholds.  The safety properties need each other: the   *)
(* state file stays restorable because the candidate of a night is newer   *)
(* than anything deployed, saved or held before, so that discarding it     *)
(* never removes a model in use, and because pruning keeps the candidate   *)
(* only after it is the live pool and, if the write succeeded, the saved   *)
(* model.                                                                  *)
(***************************************************************************)
EXTENDS Classifier, FiniteSetTheorems, TLAPS

(* Stages in which the candidate is not deployed yet, and in which it is.  *)
Before == {"counted", "trained", "validate", "gate", "backup", "swap"}
After  == {"clear", "write", "prune"}
Named  == state \notin {None, Torn}

(* The parts of the inductive invariant: a process that is down has        *)
(* nothing under way; what was deployed, saved or taken is no newer than   *)
(* the last candidate; a candidate under way is the newest model, deployed *)
(* from the swap on; its file and the live pool's are there; crops that the *)
(* script was not given are known to be late, and it trained on some.       *)
Idle == ~up => night.pc = "off" /\ \A w \in Workers : wk[w].pc = "idle" /\ wk[w].pool = None
Older ==
  /\ pool # None => pool <= night.nights
  /\ Named => state.onnx <= night.nights
  /\ \A w \in Workers : wk[w].pool # None => wk[w].pool <= night.nights
Candidate ==
  /\ night.pc # "off" => night.cand = night.nights
  /\ night.pc \in Before => /\ pool # night.cand
                            /\ Named => state.onnx # night.cand
                            /\ \A w \in Workers : wk[w].pool # night.cand
  /\ night.pc \in After => pool = night.cand
Present ==
  /\ pool # None => pool \in files
  /\ night.pc \in {"validate", "gate", "backup", "swap"} => night.cand \in files
  /\ night.pc = "prune" => unsaved \/ (Named /\ state.onnx = night.cand)
Holding == \A w \in Workers : wk[w].pc # "idle" => wk[w].pool # None
Given ==
  night.pc \in {"trained", "validate", "gate", "backup", "swap", "clear"} =>
    /\ crops \subseteq night.data \cup night.rest \cup night.late
    /\ Holdout * (1 + MaxRatio) <= 50 => night.data # {}
IInv ==
  /\ TypeOK /\ Idle /\ Older /\ Candidate /\ Present /\ Holding /\ Given
  /\ StateRestorable /\ OnlyOldPoolsFail /\ ComparedBeforeSwap

LEMMA InitInv == Init => IInv
<1> SUFFICES ASSUME Init PROVE IInv
  OBVIOUS
<1>1. TypeOK
  <2>1. night \in [pc : Stages, cand : Models, data : SUBSET saved, rest : SUBSET saved, late : SUBSET saved,
                  acc : Accuracies \cup {0}, base : Accuracies \cup {0}, nights : 0..MaxNights]
    BY ClassifierAssumption DEF Init, NoNight, Stages, Models, Url
  <2>2. wk \in [Workers -> [pool : Models \cup {None}, pc : {"idle", "acquire", "classified", "failed"}]]
    BY DEF Init
  <2>3. starts \in 0..MaxStarts /\ saved \subseteq Crops
    BY ClassifierAssumption DEF Init
  <2> QED
    BY <2>1, <2>2, <2>3 DEF Init, TypeOK
<1>2. Idle /\ Older /\ Candidate /\ Present /\ Holding /\ Given
  BY DEF Init, Idle, Older, Candidate, Present, Holding, Given, Named, NoNight, Before, After
<1>3. StateRestorable /\ OnlyOldPoolsFail /\ ComparedBeforeSwap
  BY DEF Init, StateRestorable, OnlyOldPoolsFail, ComparedBeforeSwap, NoNight
<1> QED
  BY <1>1, <1>2, <1>3 DEF IInv

LEMMA StartWithUrlKeeps ==
  ASSUME IInv, StartWithUrl
  PROVE  IInv'
<1> USE DEF IInv, Named
<1>1. TypeOK'
  <2>1. night' \in [pc : Stages, cand : Models, data : SUBSET saved', rest : SUBSET saved', late : SUBSET saved',
                   acc : Accuracies \cup {0}, base : Accuracies \cup {0}, nights : 0..MaxNights]
    BY ClassifierAssumption DEF StartWithUrl, Boot, Fetched, TypeOK, Models, Url, NoNight, Stages
  <2>2. wk' \in [Workers -> [pool : Models \cup {None}, pc : {"idle", "acquire", "classified", "failed"}]]
    BY DEF StartWithUrl, Boot, Fetched, TypeOK
  <2>3. state' \in [onnx : Models, acc : Accuracies \cup {0}] \cup {None, Torn}
    BY ClassifierAssumption DEF StartWithUrl, Boot, Fetched, TypeOK, Models, Url, NoNight, Stages
  <2>4. /\ starts' \in 0..MaxStarts /\ saved' \subseteq Crops /\ crops' \subseteq saved'
    BY ClassifierAssumption DEF StartWithUrl, Boot, Fetched, TypeOK, Models, Url, NoNight, Stages
  <2>5. /\ pool' \in Models \cup {None} /\ files' \subseteq Models /\ warm' \subseteq Models
        /\ up' \in BOOLEAN /\ (~up' => pool' = None) /\ unsaved' \in BOOLEAN
    <3>1. pool' = Url /\ up' = TRUE /\ files' = files \cup {Url} /\ UNCHANGED warm
      BY DEF StartWithUrl, Boot, Fetched
    <3>2. unsaved' \in BOOLEAN
      BY DEF StartWithUrl, TypeOK
    <3> QED
      BY <3>1, <3>2, ClassifierAssumption DEF TypeOK, Models, Url
  <2> QED
    BY <2>1, <2>2, <2>3, <2>4, <2>5 DEF StartWithUrl, Boot, Fetched, TypeOK
<1>2. Idle' /\ Holding'
  BY DEF StartWithUrl, Boot, Fetched, TypeOK, Models, Url, NoNight, Stages, Idle, Holding
<1>3. Older' /\ Candidate'
  BY ClassifierAssumption DEF StartWithUrl, Boot, Fetched, TypeOK, Models, Url, NoNight, Stages, Idle, Older, Candidate, Before, After
<1>4. Present' /\ StateRestorable'
  BY ClassifierAssumption DEF StartWithUrl, Boot, Fetched, TypeOK, Models, Url, NoNight, Stages, Idle, Older, Candidate, Present, Before, After, StateRestorable
<1>5. OnlyOldPoolsFail'
  BY ClassifierAssumption DEF StartWithUrl, Boot, Fetched, TypeOK, Models, Url, NoNight, Stages, Idle, Holding, Candidate, Present, Before, OnlyOldPoolsFail
<1>6. ComparedBeforeSwap'
  BY ClassifierAssumption DEF StartWithUrl, Boot, Fetched, TypeOK, Models, Url, NoNight, Stages, Idle, Present, ComparedBeforeSwap
<1>7. Given'
  BY ClassifierAssumption DEF StartWithUrl, Boot, Fetched, TypeOK, Models, Url, NoNight, Stages, Idle, Given
<1> QED
  BY <1>1, <1>2, <1>3, <1>4, <1>5, <1>6, <1>7

LEMMA StartRestoredKeeps ==
  ASSUME IInv, StartRestored
  PROVE  IInv'
<1> USE DEF IInv, Named
<1>1. TypeOK'
  BY ClassifierAssumption DEF StartRestored, Boot, Restorable, TypeOK, Models, Url, NoNight, Stages
<1>2. Idle' /\ Holding'
  BY DEF StartRestored, Boot, Restorable, TypeOK, Models, Url, NoNight, Stages, Idle, Holding
<1>3. Older' /\ Candidate'
  BY ClassifierAssumption DEF StartRestored, Boot, Restorable, TypeOK, Models, Url, NoNight, Stages, Idle, Older, Candidate, Before, After
<1>4. Present' /\ StateRestorable'
  BY ClassifierAssumption DEF StartRestored, Boot, Restorable, TypeOK, Models, Url, NoNight, Stages, Idle, Older, Candidate, Present, Before, After, StateRestorable
<1>5. OnlyOldPoolsFail'
  BY ClassifierAssumption DEF StartRestored, Boot, Restorable, TypeOK, Models, Url, NoNight, Stages, Idle, Holding, Candidate, Present, Before, OnlyOldPoolsFail
<1>6. ComparedBeforeSwap'
  BY ClassifierAssumption DEF StartRestored, Boot, Restorable, TypeOK, Models, Url, NoNight, Stages, Idle, Present, ComparedBeforeSwap
<1>7. Given'
  BY ClassifierAssumption DEF StartRestored, Boot, Restorable, TypeOK, Models, Url, NoNight, Stages, Idle, Given
<1> QED
  BY <1>1, <1>2, <1>3, <1>4, <1>5, <1>6, <1>7

LEMMA StartRefusedKeeps ==
  ASSUME IInv, StartRefused
  PROVE  IInv'
<1> USE DEF IInv, Named
<1>1. TypeOK'
  BY ClassifierAssumption DEF StartRefused, Fetched, TypeOK, Models, Url, NoNight, Stages
<1>2. Idle' /\ Holding'
  BY DEF StartRefused, Fetched, TypeOK, Models, Url, NoNight, Stages, Idle, Holding
<1>3. Older' /\ Candidate'
  BY ClassifierAssumption DEF StartRefused, Fetched, TypeOK, Models, Url, NoNight, Stages, Idle, Older, Candidate, Before, After
<1>4. Present' /\ StateRestorable'
  BY ClassifierAssumption DEF StartRefused, Fetched, TypeOK, Models, Url, NoNight, Stages, Idle, Older, Candidate, Present, Before, After, StateRestorable
<1>5. OnlyOldPoolsFail'
  BY ClassifierAssumption DEF StartRefused, Fetched, TypeOK, Models, Url, NoNight, Stages, Idle, Holding, Candidate, Present, Before, OnlyOldPoolsFail
<1>6. ComparedBeforeSwap'
  BY ClassifierAssumption DEF StartRefused, Fetched, TypeOK, Models, Url, NoNight, Stages, Idle, Present, ComparedBeforeSwap
<1>7. Given'
  BY ClassifierAssumption DEF StartRefused, Fetched, TypeOK, Models, Url, NoNight, Stages, Idle, Given
<1> QED
  BY <1>1, <1>2, <1>3, <1>4, <1>5, <1>6, <1>7

LEMMA StopKeeps ==
  ASSUME IInv, Stop
  PROVE  IInv'
<1> USE DEF IInv, Named
<1>1. TypeOK'
  <2>1. night' \in [pc : Stages, cand : Models, data : SUBSET saved', rest : SUBSET saved', late : SUBSET saved',
                   acc : Accuracies \cup {0}, base : Accuracies \cup {0}, nights : 0..MaxNights]
    BY ClassifierAssumption DEF Stop, TypeOK, Models, Url, NoNight, Stages
  <2>2. wk' \in [Workers -> [pool : Models \cup {None}, pc : {"idle", "acquire", "classified", "failed"}]]
    BY DEF Stop, TypeOK
  <2>3. state' \in [onnx : Models, acc : Accuracies \cup {0}] \cup {None, Torn}
    BY ClassifierAssumption DEF Stop, TypeOK, Models, Url, NoNight, Stages
  <2>4. /\ starts' \in 0..MaxStarts /\ saved' \subseteq Crops /\ crops' \subseteq saved'
    BY ClassifierAssumption DEF Stop, TypeOK, Models, Url, NoNight, Stages
  <2>5. /\ pool' \in Models \cup {None} /\ files' \subseteq Models /\ warm' \subseteq Models
        /\ up' \in BOOLEAN /\ (~up' => pool' = None) /\ unsaved' \in BOOLEAN
    BY ClassifierAssumption DEF Stop, TypeOK, Models, Url, NoNight, Stages, Idle
  <2> QED
    BY <2>1, <2>2, <2>3, <2>4, <2>5 DEF Stop, TypeOK
<1>2. Idle' /\ Holding'
  BY DEF Stop, TypeOK, Models, Url, NoNight, Stages, Idle, Holding
<1>3. Older' /\ Candidate'
  BY ClassifierAssumption DEF Stop, TypeOK, Models, Url, NoNight, Stages, Idle, Older, Candidate, Before, After
<1>4. Present' /\ StateRestorable'
  BY ClassifierAssumption DEF Stop, TypeOK, Models, Url, NoNight, Stages, Idle, Older, Candidate, Present, Before, After, StateRestorable
<1>5. OnlyOldPoolsFail'
  BY ClassifierAssumption DEF Stop, TypeOK, Models, Url, NoNight, Stages, Idle, Holding, Candidate, Present, Before, OnlyOldPoolsFail
<1>6. ComparedBeforeSwap'
  BY ClassifierAssumption DEF Stop, TypeOK, Models, Url, NoNight, Stages, Idle, Present, ComparedBeforeSwap
<1>7. Given'
  BY ClassifierAssumption DEF Stop, TypeOK, Models, Url, NoNight, Stages, Idle, Given
<1> QED
  BY <1>1, <1>2, <1>3, <1>4, <1>5, <1>6, <1>7

LEMMA SaveCropKeeps ==
  ASSUME IInv, SaveCrop
  PROVE  IInv'
<1> USE DEF IInv, Named
<1>1. TypeOK'
  BY ClassifierAssumption DEF SaveCrop, TypeOK, Models, Url, NoNight, Stages
<1>2. Idle' /\ Holding'
  BY DEF SaveCrop, TypeOK, Models, Url, NoNight, Stages, Idle, Holding
<1>3. Older' /\ Candidate'
  BY ClassifierAssumption DEF SaveCrop, TypeOK, Models, Url, NoNight, Stages, Idle, Older, Candidate, Before, After
<1>4. Present' /\ StateRestorable'
  BY ClassifierAssumption DEF SaveCrop, TypeOK, Models, Url, NoNight, Stages, Idle, Older, Candidate, Present, Before, After, StateRestorable
<1>5. OnlyOldPoolsFail'
  BY ClassifierAssumption DEF SaveCrop, TypeOK, Models, Url, NoNight, Stages, Idle, Holding, Candidate, Present, Before, OnlyOldPoolsFail
<1>6. ComparedBeforeSwap'
  BY ClassifierAssumption DEF SaveCrop, TypeOK, Models, Url, NoNight, Stages, Idle, Present, ComparedBeforeSwap
<1>7. Given'
  BY ClassifierAssumption DEF SaveCrop, TypeOK, Models, Url, NoNight, Stages, Idle, Given
<1> QED
  BY <1>1, <1>2, <1>3, <1>4, <1>5, <1>6, <1>7

LEMMA TakePoolKeeps ==
  ASSUME IInv, NEW w \in Workers, TakePool(w)
  PROVE  IInv'
<1> USE DEF IInv, Named
<1>1. TypeOK'
  BY ClassifierAssumption DEF TakePool, TypeOK, Models, Url, NoNight, Stages
<1>2. Idle' /\ Holding'
  BY DEF TakePool, TypeOK, Models, Url, NoNight, Stages, Idle, Holding
<1>3. Older' /\ Candidate'
  BY ClassifierAssumption DEF TakePool, TypeOK, Models, Url, NoNight, Stages, Idle, Older, Candidate, Before, After
<1>4. Present' /\ StateRestorable'
  BY ClassifierAssumption DEF TakePool, TypeOK, Models, Url, NoNight, Stages, Idle, Older, Candidate, Present, Before, After, StateRestorable
<1>5. OnlyOldPoolsFail'
  BY ClassifierAssumption DEF TakePool, TypeOK, Models, Url, NoNight, Stages, Idle, Holding, Candidate, Present, Before, OnlyOldPoolsFail
<1>6. ComparedBeforeSwap'
  BY ClassifierAssumption DEF TakePool, TypeOK, Models, Url, NoNight, Stages, Idle, Present, ComparedBeforeSwap
<1>7. Given'
  BY ClassifierAssumption DEF TakePool, TypeOK, Models, Url, NoNight, Stages, Idle, Given
<1> QED
  BY <1>1, <1>2, <1>3, <1>4, <1>5, <1>6, <1>7

LEMMA AcquireKeeps ==
  ASSUME IInv, NEW w \in Workers, Acquire(w)
  PROVE  IInv'
<1> USE DEF IInv, Named
<1>1. TypeOK'
  BY ClassifierAssumption DEF Acquire, TypeOK, Models, Url, NoNight, Stages
<1>2. Idle' /\ Holding'
  BY DEF Acquire, TypeOK, Models, Url, NoNight, Stages, Idle, Holding
<1>3. Older' /\ Candidate'
  BY ClassifierAssumption DEF Acquire, TypeOK, Models, Url, NoNight, Stages, Idle, Older, Candidate, Before, After
<1>4. Present' /\ StateRestorable'
  BY ClassifierAssumption DEF Acquire, TypeOK, Models, Url, NoNight, Stages, Idle, Older, Candidate, Present, Before, After, StateRestorable
<1>5. OnlyOldPoolsFail'
  BY ClassifierAssumption DEF Acquire, TypeOK, Models, Url, NoNight, Stages, Idle, Holding, Candidate, Present, Before, OnlyOldPoolsFail
<1>6. ComparedBeforeSwap'
  BY ClassifierAssumption DEF Acquire, TypeOK, Models, Url, NoNight, Stages, Idle, Present, ComparedBeforeSwap
<1>7. Given'
  BY ClassifierAssumption DEF Acquire, TypeOK, Models, Url, NoNight, Stages, Idle, Given
<1> QED
  BY <1>1, <1>2, <1>3, <1>4, <1>5, <1>6, <1>7

LEMMA AcquireFailsKeeps ==
  ASSUME IInv, NEW w \in Workers, AcquireFails(w)
  PROVE  IInv'
<1> USE DEF IInv, Named
<1>1. TypeOK'
  BY ClassifierAssumption DEF AcquireFails, TypeOK, Models, Url, NoNight, Stages
<1>2. Idle' /\ Holding'
  BY DEF AcquireFails, TypeOK, Models, Url, NoNight, Stages, Idle, Holding
<1>3. Older' /\ Candidate'
  BY ClassifierAssumption DEF AcquireFails, TypeOK, Models, Url, NoNight, Stages, Idle, Older, Candidate, Before, After
<1>4. Present' /\ StateRestorable'
  BY ClassifierAssumption DEF AcquireFails, TypeOK, Models, Url, NoNight, Stages, Idle, Older, Candidate, Present, Before, After, StateRestorable
<1>5. OnlyOldPoolsFail'
  BY ClassifierAssumption DEF AcquireFails, TypeOK, Models, Url, NoNight, Stages, Idle, Holding, Candidate, Present, Before, OnlyOldPoolsFail
<1>6. ComparedBeforeSwap'
  BY ClassifierAssumption DEF AcquireFails, TypeOK, Models, Url, NoNight, Stages, Idle, Present, ComparedBeforeSwap
<1>7. Given'
  BY ClassifierAssumption DEF AcquireFails, TypeOK, Models, Url, NoNight, Stages, Idle, Given
<1> QED
  BY <1>1, <1>2, <1>3, <1>4, <1>5, <1>6, <1>7

LEMMA CountKeeps ==
  ASSUME IInv, Count
  PROVE  IInv'
<1> USE DEF IInv, Named
<1>1. TypeOK'
  <2>1. night' \in [pc : Stages, cand : Models, data : SUBSET saved', rest : SUBSET saved', late : SUBSET saved',
                   acc : Accuracies \cup {0}, base : Accuracies \cup {0}, nights : 0..MaxNights]
    <3>1. PICK p \in {"audit", "counted"} :
             night' = [pc |-> p, cand |-> night.nights + 1, data |-> {}, rest |-> {}, late |-> {}, acc |-> 0,
                       base |-> 0, nights |-> night.nights + 1]
      BY DEF Count, NoNight
    <3>2. night.nights + 1 \in 0..MaxNights
      BY ClassifierAssumption DEF Count, TypeOK
    <3> QED
      BY <3>1, <3>2 DEF Models, Stages
  <2>2. wk' \in [Workers -> [pool : Models \cup {None}, pc : {"idle", "acquire", "classified", "failed"}]]
    BY DEF Count, TypeOK
  <2>3. state' \in [onnx : Models, acc : Accuracies \cup {0}] \cup {None, Torn}
    BY ClassifierAssumption DEF Count, TypeOK, Models, Url, NoNight, Stages
  <2>4. /\ starts' \in 0..MaxStarts /\ saved' \subseteq Crops /\ crops' \subseteq saved'
    BY ClassifierAssumption DEF Count, TypeOK, Models, Url, NoNight, Stages
  <2>5. /\ pool' \in Models \cup {None} /\ files' \subseteq Models /\ warm' \subseteq Models
        /\ up' \in BOOLEAN /\ (~up' => pool' = None) /\ unsaved' \in BOOLEAN
    BY ClassifierAssumption DEF Count, TypeOK, Models, Url, NoNight, Stages, Idle
  <2> QED
    BY <2>1, <2>2, <2>3, <2>4, <2>5 DEF Count, TypeOK
<1>2. Idle' /\ Holding'
  BY DEF Count, TypeOK, Models, Url, NoNight, Stages, Idle, Holding
<1>3. Older' /\ Candidate'
  BY ClassifierAssumption DEF Count, TypeOK, Models, Url, NoNight, Stages, Idle, Older, Candidate, Before, After
<1>4. Present' /\ StateRestorable'
  BY ClassifierAssumption DEF Count, TypeOK, Models, Url, NoNight, Stages, Idle, Older, Candidate, Present, Before, After, StateRestorable
<1>5. OnlyOldPoolsFail'
  BY ClassifierAssumption DEF Count, TypeOK, Models, Url, NoNight, Stages, Idle, Holding, Candidate, Present, Before, OnlyOldPoolsFail
<1>6. ComparedBeforeSwap'
  BY ClassifierAssumption DEF Count, TypeOK, Models, Url, NoNight, Stages, Idle, Present, ComparedBeforeSwap
<1>7. Given'
  BY ClassifierAssumption DEF Count, TypeOK, Models, Url, NoNight, Stages, Idle, Given
<1> QED
  BY <1>1, <1>2, <1>3, <1>4, <1>5, <1>6, <1>7

(* What the cap leaves of R faces and F crops: at least two crops, and no  *)
(* more faces than MaxRatio times the crops.                               *)
LEMMA CapBound ==
  ASSUME NEW R \in Nat, NEW F \in Nat, R >= 2, F >= 2,
         NEW C \in Nat, C = LET smaller == IF R < F THEN R ELSE F
                            IN  IF MaxRatio * smaller < 2 THEN 2 ELSE MaxRatio * smaller
  PROVE  /\ Capped(F, C) \in Nat /\ Capped(R, C) \in Nat
         /\ Capped(F, C) >= 2 /\ Capped(R, C) <= MaxRatio * Capped(F, C)
<1>0. MaxRatio \in Nat /\ MaxRatio >= 1
  BY ClassifierAssumption
<1>1. ASSUME NEW a \in Nat PROVE MaxRatio * a >= a
  BY <1>0, <1>1
<1>2. CASE R < F
  <2>1. C = MaxRatio * R /\ C >= R
    BY <1>0, <1>1, <1>2
  <2>2. Capped(R, C) = R /\ Capped(F, C) >= R /\ Capped(F, C) \in Nat
    BY <1>2, <2>1 DEF Capped
  <2> QED
    BY <1>0, <1>1, <2>2
<1>3. CASE ~(R < F)
  <2>1. C = MaxRatio * F /\ C >= F
    BY <1>0, <1>1, <1>3
  <2>2. Capped(F, C) = F /\ Capped(R, C) <= C /\ Capped(R, C) \in Nat
    BY <1>3, <2>1 DEF Capped
  <2> QED
    BY <2>1, <2>2
<1> QED
  BY <1>2, <1>3

(* A holdout of n samples rounded from so many, and all of one class.      *)
LEMMA HoldoutBound ==
  ASSUME NEW r \in Nat, NEW f \in Nat, f >= 2, r <= MaxRatio * f,
         Holdout * (1 + MaxRatio) <= 50, NEW n \in HoldoutSizes(r + f)
  PROVE  n \in Nat /\ n < f
<1>0. MaxRatio \in Nat /\ Holdout \in Nat
  BY ClassifierAssumption
<1>1. PICK i \in 0..(r + f) : /\ 2 * (100 * i - (r + f) * Holdout) \in -100..100
                              /\ n = IF i = 0 THEN 1 ELSE i
  BY DEF HoldoutSizes
<1>2. r + f <= (1 + MaxRatio) * f
  BY <1>0
<1>3. \A a, b \in Nat : a <= b => a * Holdout <= b * Holdout
  BY <1>0
<1>4. (1 + MaxRatio) * f \in Nat /\ ((1 + MaxRatio) * f) * Holdout = (Holdout * (1 + MaxRatio)) * f
  BY <1>0
<1>5. \A a \in Nat : a <= 50 => a * f <= 50 * f
  OBVIOUS
<1>6. Holdout * (1 + MaxRatio) \in Nat
  BY <1>0
<1>7. (r + f) * Holdout <= 50 * f /\ (r + f) * Holdout \in Nat
  BY <1>0, <1>2, <1>3, <1>4, <1>5, <1>6
<1>8. \A h \in Nat : 2 * (100 * i - h) \in -100..100 /\ h <= 50 * f => i < f
  BY <1>1
<1> QED
  BY <1>1, <1>7, <1>8

(* Whatever the sampling and the shuffle, some crop is trained on.         *)
LEMMA LearnsSome ==
  ASSUME TypeOK, NEW reals \in Seeds, NEW used, NEW val, Enough(reals), Split(reals, used, val),
         Holdout * (1 + MaxRatio) <= 50
  PROVE  used \ val # {}
<1>1. IsFiniteSet(crops) /\ IsFiniteSet(used)
  BY ClassifierAssumption, FS_Subset DEF TypeOK, Split
<1>2. Cardinality(crops) \in Nat /\ Cardinality(used) \in Nat
  BY <1>1, FS_CardinalityType
<1>3. reals \in Nat /\ reals >= 2 /\ Cardinality(crops) >= 2
  BY <1>2, ClassifierAssumption DEF Enough
<1>4. Cap(reals) \in Nat
  BY <1>2, <1>3, ClassifierAssumption DEF Cap
<1> DEFINE faces == Capped(reals, Cap(reals))
<1>5. Cap(reals) = LET smaller == IF reals < Cardinality(crops) THEN reals ELSE Cardinality(crops)
                   IN  IF MaxRatio * smaller < 2 THEN 2 ELSE MaxRatio * smaller
  BY DEF Cap
<1>6. /\ faces \in Nat /\ Cardinality(used) >= 2 /\ faces <= MaxRatio * Cardinality(used)
  BY <1>2, <1>3, <1>4, <1>5, CapBound DEF Split
<1>7. PICK n \in HoldoutSizes(faces + Cardinality(used)) : Cardinality(val) \in (n - faces)..n
  BY DEF Split
<1>8. n \in Nat /\ n < Cardinality(used)
  BY <1>2, <1>6, HoldoutBound
<1>9. val # used
  BY <1>2, <1>6, <1>7, <1>8
<1> QED
  BY <1>9 DEF Split

LEMMA ReadDataKeeps ==
  ASSUME IInv, ReadData
  PROVE  IInv'
<1> USE DEF IInv, Named
<1>k. /\ night.pc = "counted"
      /\ UNCHANGED <<url, up, starts, pool, warm, files, state, crops, saved, wk, unsaved>>
  BY DEF ReadData
<1>t. /\ night \in [pc : Stages, cand : Models, data : SUBSET saved, rest : SUBSET saved, late : SUBSET saved,
                    acc : Accuracies \cup {0}, base : Accuracies \cup {0}, nights : 0..MaxNights]
      /\ crops \subseteq saved
  BY DEF TypeOK
<1>1. CASE night' = [night EXCEPT !.pc = "audit"]
  <2>1. TypeOK'
    BY <1>1, <1>k, <1>t DEF TypeOK, Stages
  <2> QED
    BY <1>1, <1>k, <1>t, <2>1 DEF Idle, Holding, Older, Candidate, Before, After, Present,
       StateRestorable, OnlyOldPoolsFail, ComparedBeforeSwap, Given
<1>2. ASSUME NEW reals \in Seeds, NEW used \in SUBSET crops, NEW val \in SUBSET crops,
             Enough(reals), Split(reals, used, val),
             night' = [night EXCEPT !.pc = "trained", !.data = used \ val,
                                    !.rest = (crops \ used) \cup val, !.late = {}]
      PROVE  IInv'
  <2>1. TypeOK'
    BY <1>2, <1>k, <1>t DEF TypeOK, Stages
  <2>2. Given'
    <3>1. Holdout * (1 + MaxRatio) <= 50 => used \ val # {}
      BY <1>2, LearnsSome
    <3>2. night'.data = used \ val /\ night'.rest = (crops \ used) \cup val
      BY <1>2, <1>t
    <3>3. crops \subseteq night'.data \cup night'.rest
      BY <1>2, <3>2
    <3> QED
      BY <1>k, <3>1, <3>2, <3>3 DEF Given
  <2> QED
    BY <1>2, <1>k, <1>t, <2>1, <2>2 DEF Idle, Holding, Older, Candidate, Before, After, Present,
       StateRestorable, OnlyOldPoolsFail, ComparedBeforeSwap
<1> QED
  BY <1>1, <1>2 DEF ReadData, EndNight

LEMMA ExportKeeps ==
  ASSUME IInv, Export
  PROVE  IInv'
<1> USE DEF IInv, Named
<1>1. TypeOK'
  BY ClassifierAssumption DEF Export, EndNight, TypeOK, Models, Url, NoNight, Stages
<1>2. Idle' /\ Holding'
  BY DEF Export, EndNight, TypeOK, Models, Url, NoNight, Stages, Idle, Holding
<1>3. Older' /\ Candidate'
  BY ClassifierAssumption DEF Export, EndNight, TypeOK, Models, Url, NoNight, Stages, Idle, Older, Candidate, Before, After
<1>4. Present' /\ StateRestorable'
  BY ClassifierAssumption DEF Export, EndNight, TypeOK, Models, Url, NoNight, Stages, Idle, Older, Candidate, Present, Before, After, StateRestorable
<1>5. OnlyOldPoolsFail'
  BY ClassifierAssumption DEF Export, EndNight, TypeOK, Models, Url, NoNight, Stages, Idle, Holding, Candidate, Present, Before, OnlyOldPoolsFail
<1>6. ComparedBeforeSwap'
  BY ClassifierAssumption DEF Export, EndNight, TypeOK, Models, Url, NoNight, Stages, Idle, Present, ComparedBeforeSwap
<1>7. Given'
  BY ClassifierAssumption DEF Export, EndNight, TypeOK, Models, Url, NoNight, Stages, Idle, Given
<1> QED
  BY <1>1, <1>2, <1>3, <1>4, <1>5, <1>6, <1>7

LEMMA ValidateKeeps ==
  ASSUME IInv, Validate
  PROVE  IInv'
<1> USE DEF IInv, Named
<1>1. TypeOK'
  <2>1. night' \in [pc : Stages, cand : Models, data : SUBSET saved', rest : SUBSET saved', late : SUBSET saved',
                   acc : Accuracies \cup {0}, base : Accuracies \cup {0}, nights : 0..MaxNights]
    <3>1. CASE night' = [night EXCEPT !.pc = "audit"]
      BY <3>1 DEF Validate, TypeOK, Stages
    <3>2. ASSUME NEW acc \in Accuracies, night' = [night EXCEPT !.pc = "gate", !.acc = acc]
          PROVE  night' \in [pc : Stages, cand : Models, data : SUBSET saved', rest : SUBSET saved', late : SUBSET saved',  acc : Accuracies \cup {0}, base : Accuracies \cup {0}, nights : 0..MaxNights]
      BY <3>2 DEF Validate, TypeOK, Stages
    <3> QED
      BY <3>1, <3>2 DEF Validate, EndNight
  <2>2. wk' \in [Workers -> [pool : Models \cup {None}, pc : {"idle", "acquire", "classified", "failed"}]]
    BY DEF Validate, EndNight, Discard, TypeOK
  <2>3. state' \in [onnx : Models, acc : Accuracies \cup {0}] \cup {None, Torn}
    BY ClassifierAssumption DEF Validate, EndNight, Discard, TypeOK, Models, Url, NoNight, Stages
  <2>4. /\ starts' \in 0..MaxStarts /\ saved' \subseteq Crops /\ crops' \subseteq saved'
    BY ClassifierAssumption DEF Validate, EndNight, Discard, TypeOK, Models, Url, NoNight, Stages
  <2>5. /\ pool' \in Models \cup {None} /\ files' \subseteq Models /\ warm' \subseteq Models
        /\ up' \in BOOLEAN /\ (~up' => pool' = None) /\ unsaved' \in BOOLEAN
    BY ClassifierAssumption DEF Validate, EndNight, Discard, TypeOK, Models, Url, NoNight, Stages, Idle
  <2> QED
    BY <2>1, <2>2, <2>3, <2>4, <2>5 DEF Validate, EndNight, Discard, TypeOK
<1>2. Idle' /\ Holding'
  BY DEF Validate, EndNight, Discard, TypeOK, Models, Url, NoNight, Stages, Idle, Holding
<1>3. Older' /\ Candidate'
  <2>1. /\ night.pc = "validate" /\ night'.pc \in {"gate", "audit"} /\ UNCHANGED <<pool, state, wk>>
        /\ night'.cand = night.cand /\ night'.nights = night.nights
    BY DEF Validate, EndNight, TypeOK
  <2> QED
    BY <2>1 DEF Older, Candidate, Before, After
<1>4. Present' /\ StateRestorable'
  BY ClassifierAssumption DEF Validate, EndNight, Discard, TypeOK, Models, Url, NoNight, Stages, Idle, Older, Candidate, Present, Before, After, StateRestorable
<1>5. OnlyOldPoolsFail'
  BY ClassifierAssumption DEF Validate, EndNight, Discard, TypeOK, Models, Url, NoNight, Stages, Idle, Holding, Candidate, Present, Before, OnlyOldPoolsFail
<1>6. ComparedBeforeSwap'
  BY ClassifierAssumption DEF Validate, EndNight, Discard, TypeOK, Models, Url, NoNight, Stages, Idle, Present, ComparedBeforeSwap
<1>7. Given'
  BY ClassifierAssumption DEF Validate, EndNight, Discard, TypeOK, Models, Url, NoNight, Stages, Idle, Given
<1> QED
  BY <1>1, <1>2, <1>3, <1>4, <1>5, <1>6, <1>7

LEMMA GateKeeps ==
  ASSUME IInv, Gate
  PROVE  IInv'
<1> USE DEF IInv, Named
<1>k. /\ night.pc = "gate" /\ up
      /\ UNCHANGED <<url, up, starts, pool, warm, state, crops, saved, wk, unsaved>>
  BY DEF Gate, Idle, TypeOK
<1>t. /\ night \in [pc : Stages, cand : Models, data : SUBSET saved, rest : SUBSET saved, late : SUBSET saved,
                    acc : Accuracies \cup {0}, base : Accuracies \cup {0}, nights : 0..MaxNights]
      /\ files \subseteq Models
  BY DEF TypeOK
<1>1. CASE pool = None /\ night' = [night EXCEPT !.pc = "backup"] /\ UNCHANGED files
  <2>1. TypeOK'
    BY <1>1, <1>k, <1>t DEF TypeOK, Stages
  <2> QED
    BY <1>1, <1>k, <1>t, <2>1 DEF Idle, Holding, Older, Candidate, Before, After, Present, StateRestorable,
       OnlyOldPoolsFail, ComparedBeforeSwap, Given
<1>2. ASSUME NEW b \in Accuracies, ~(night.acc < b - Eps), UNCHANGED files,
             night' = [night EXCEPT !.pc = "backup", !.base = b]
      PROVE  IInv'
  <2>1. TypeOK'
    BY <1>2, <1>k, <1>t DEF TypeOK, Stages
  <2>2. ComparedBeforeSwap'
    BY <1>2, <1>k, <1>t, ClassifierAssumption DEF ComparedBeforeSwap
  <2> QED
    BY <1>2, <1>k, <1>t, <2>1, <2>2 DEF Idle, Holding, Older, Candidate, Before, After, Present,
       StateRestorable, OnlyOldPoolsFail, Given
<1>3. CASE night' = [night EXCEPT !.pc = "audit"] /\ files' = files \ {night.cand}
  <2>1. TypeOK'
    BY <1>3, <1>k, <1>t DEF TypeOK, Stages
  <2>2. Present' /\ StateRestorable'
    BY <1>3, <1>k, <1>t DEF Candidate, Before, Present, StateRestorable
  <2> QED
    BY <1>3, <1>k, <1>t, <2>1, <2>2 DEF Idle, Holding, Older, Candidate, Before, After,
       OnlyOldPoolsFail, ComparedBeforeSwap, Given
<1>4. pool # None => pool \in files
  BY DEF Present
<1> QED
  BY <1>1, <1>2, <1>3, <1>4 DEF Gate, EndNight, Discard

LEMMA BackupKeeps ==
  ASSUME IInv, Backup
  PROVE  IInv'
<1> USE DEF IInv, Named
<1>1. TypeOK'
  BY ClassifierAssumption DEF Backup, TypeOK, Models, Url, NoNight, Stages
<1>2. Idle' /\ Holding'
  BY DEF Backup, TypeOK, Models, Url, NoNight, Stages, Idle, Holding
<1>3. Older' /\ Candidate'
  BY ClassifierAssumption DEF Backup, TypeOK, Models, Url, NoNight, Stages, Idle, Older, Candidate, Before, After
<1>4. Present' /\ StateRestorable'
  BY ClassifierAssumption DEF Backup, TypeOK, Models, Url, NoNight, Stages, Idle, Older, Candidate, Present, Before, After, StateRestorable
<1>5. OnlyOldPoolsFail'
  BY ClassifierAssumption DEF Backup, TypeOK, Models, Url, NoNight, Stages, Idle, Holding, Candidate, Present, Before, OnlyOldPoolsFail
<1>6. ComparedBeforeSwap'
  BY ClassifierAssumption DEF Backup, TypeOK, Models, Url, NoNight, Stages, Idle, Present, ComparedBeforeSwap
<1>7. Given'
  BY ClassifierAssumption DEF Backup, TypeOK, Models, Url, NoNight, Stages, Idle, Given
<1> QED
  BY <1>1, <1>2, <1>3, <1>4, <1>5, <1>6, <1>7

LEMMA SwapKeeps ==
  ASSUME IInv, Swap
  PROVE  IInv'
<1> USE DEF IInv, Named
<1>1. TypeOK'
  <2>1. night' \in [pc : Stages, cand : Models, data : SUBSET saved', rest : SUBSET saved', late : SUBSET saved',
                   acc : Accuracies \cup {0}, base : Accuracies \cup {0}, nights : 0..MaxNights]
    BY ClassifierAssumption DEF Swap, TypeOK, Models, Url, NoNight, Stages
  <2>2. wk' \in [Workers -> [pool : Models \cup {None}, pc : {"idle", "acquire", "classified", "failed"}]]
    BY DEF Swap, TypeOK
  <2>3. state' \in [onnx : Models, acc : Accuracies \cup {0}] \cup {None, Torn}
    BY ClassifierAssumption DEF Swap, TypeOK, Models, Url, NoNight, Stages
  <2>4. /\ starts' \in 0..MaxStarts /\ saved' \subseteq Crops /\ crops' \subseteq saved'
    BY ClassifierAssumption DEF Swap, TypeOK, Models, Url, NoNight, Stages
  <2>5. /\ pool' \in Models \cup {None} /\ files' \subseteq Models /\ warm' \subseteq Models
        /\ up' \in BOOLEAN /\ (~up' => pool' = None) /\ unsaved' \in BOOLEAN
    BY ClassifierAssumption DEF Swap, TypeOK, Models, Url, NoNight, Stages, Idle
  <2> QED
    BY <2>1, <2>2, <2>3, <2>4, <2>5 DEF Swap, TypeOK
<1>2. Idle' /\ Holding'
  BY DEF Swap, TypeOK, Models, Url, NoNight, Stages, Idle, Holding
<1>3. Older' /\ Candidate'
  BY ClassifierAssumption DEF Swap, TypeOK, Models, Url, NoNight, Stages, Idle, Older, Candidate, Before, After
<1>4. Present' /\ StateRestorable'
  BY ClassifierAssumption DEF Swap, TypeOK, Models, Url, NoNight, Stages, Idle, Older, Candidate, Present, Before, After, StateRestorable
<1>5. OnlyOldPoolsFail'
  BY ClassifierAssumption DEF Swap, TypeOK, Models, Url, NoNight, Stages, Idle, Holding, Candidate, Present, Before, OnlyOldPoolsFail
<1>6. ComparedBeforeSwap'
  BY ClassifierAssumption DEF Swap, TypeOK, Models, Url, NoNight, Stages, Idle, Present, ComparedBeforeSwap
<1>7. Given'
  BY ClassifierAssumption DEF Swap, TypeOK, Models, Url, NoNight, Stages, Idle, Given
<1> QED
  BY <1>1, <1>2, <1>3, <1>4, <1>5, <1>6, <1>7

LEMMA ClearKeeps ==
  ASSUME IInv, Clear
  PROVE  IInv'
<1> USE DEF IInv, Named
<1>1. TypeOK'
  BY ClassifierAssumption DEF Clear, TypeOK, Models, Url, NoNight, Stages
<1>2. Idle' /\ Holding'
  BY DEF Clear, TypeOK, Models, Url, NoNight, Stages, Idle, Holding
<1>3. Older' /\ Candidate'
  BY ClassifierAssumption DEF Clear, TypeOK, Models, Url, NoNight, Stages, Idle, Older, Candidate, Before, After
<1>4. Present' /\ StateRestorable'
  BY ClassifierAssumption DEF Clear, TypeOK, Models, Url, NoNight, Stages, Idle, Older, Candidate, Present, Before, After, StateRestorable
<1>5. OnlyOldPoolsFail'
  BY ClassifierAssumption DEF Clear, TypeOK, Models, Url, NoNight, Stages, Idle, Holding, Candidate, Present, Before, OnlyOldPoolsFail
<1>6. ComparedBeforeSwap'
  BY ClassifierAssumption DEF Clear, TypeOK, Models, Url, NoNight, Stages, Idle, Present, ComparedBeforeSwap
<1>7. Given'
  BY ClassifierAssumption DEF Clear, TypeOK, Models, Url, NoNight, Stages, Idle, Given
<1> QED
  BY <1>1, <1>2, <1>3, <1>4, <1>5, <1>6, <1>7

LEMMA WriteKeeps ==
  ASSUME IInv, Write
  PROVE  IInv'
<1> USE DEF IInv, Named
<1>1. TypeOK'
  <2>1. night' \in [pc : Stages, cand : Models, data : SUBSET saved', rest : SUBSET saved', late : SUBSET saved',
                   acc : Accuracies \cup {0}, base : Accuracies \cup {0}, nights : 0..MaxNights]
    BY ClassifierAssumption DEF Write, TypeOK, Models, Url, NoNight, Stages
  <2>2. wk' \in [Workers -> [pool : Models \cup {None}, pc : {"idle", "acquire", "classified", "failed"}]]
    BY DEF Write, TypeOK
  <2>3. state' \in [onnx : Models, acc : Accuracies \cup {0}] \cup {None, Torn}
    BY ClassifierAssumption DEF Write, TypeOK, Models, Url, NoNight, Stages
  <2>4. /\ starts' \in 0..MaxStarts /\ saved' \subseteq Crops /\ crops' \subseteq saved'
    BY ClassifierAssumption DEF Write, TypeOK, Models, Url, NoNight, Stages
  <2>5. /\ pool' \in Models \cup {None} /\ files' \subseteq Models /\ warm' \subseteq Models
        /\ up' \in BOOLEAN /\ (~up' => pool' = None) /\ unsaved' \in BOOLEAN
    BY ClassifierAssumption DEF Write, TypeOK, Models, Url, NoNight, Stages, Idle
  <2> QED
    BY <2>1, <2>2, <2>3, <2>4, <2>5 DEF Write, TypeOK
<1>2. Idle' /\ Holding'
  BY DEF Write, TypeOK, Models, Url, NoNight, Stages, Idle, Holding
<1>3. Older' /\ Candidate'
  BY ClassifierAssumption DEF Write, TypeOK, Models, Url, NoNight, Stages, Idle, Older, Candidate, Before, After
<1>4. Present' /\ StateRestorable'
  BY ClassifierAssumption DEF Write, TypeOK, Models, Url, NoNight, Stages, Idle, Older, Candidate, Present, Before, After, StateRestorable
<1>5. OnlyOldPoolsFail'
  BY ClassifierAssumption DEF Write, TypeOK, Models, Url, NoNight, Stages, Idle, Holding, Candidate, Present, Before, OnlyOldPoolsFail
<1>6. ComparedBeforeSwap'
  BY ClassifierAssumption DEF Write, TypeOK, Models, Url, NoNight, Stages, Idle, Present, ComparedBeforeSwap
<1>7. Given'
  BY ClassifierAssumption DEF Write, TypeOK, Models, Url, NoNight, Stages, Idle, Given
<1> QED
  BY <1>1, <1>2, <1>3, <1>4, <1>5, <1>6, <1>7

LEMMA PruneKeeps ==
  ASSUME IInv, Prune
  PROVE  IInv'
<1> USE DEF IInv, Named
<1>1. TypeOK'
  BY ClassifierAssumption DEF Prune, Candidates, TypeOK, Models, Url, NoNight, Stages
<1>2. Idle' /\ Holding'
  BY DEF Prune, Candidates, TypeOK, Models, Url, NoNight, Stages, Idle, Holding
<1>3. Older' /\ Candidate'
  BY ClassifierAssumption DEF Prune, Candidates, TypeOK, Models, Url, NoNight, Stages, Idle, Older, Candidate, Before, After
<1>4. Present' /\ StateRestorable'
  BY ClassifierAssumption DEF Prune, Candidates, TypeOK, Models, Url, NoNight, Stages, Idle, Older, Candidate, Present, Before, After, StateRestorable
<1>5. OnlyOldPoolsFail'
  BY ClassifierAssumption DEF Prune, Candidates, TypeOK, Models, Url, NoNight, Stages, Idle, Holding, Candidate, Present, Before, OnlyOldPoolsFail
<1>6. ComparedBeforeSwap'
  BY ClassifierAssumption DEF Prune, Candidates, TypeOK, Models, Url, NoNight, Stages, Idle, Present, ComparedBeforeSwap
<1>7. Given'
  BY ClassifierAssumption DEF Prune, Candidates, TypeOK, Models, Url, NoNight, Stages, Idle, Given
<1> QED
  BY <1>1, <1>2, <1>3, <1>4, <1>5, <1>6, <1>7

LEMMA AuditKeeps ==
  ASSUME IInv, Audit
  PROVE  IInv'
<1> USE DEF IInv, Named
<1>1. TypeOK'
  BY ClassifierAssumption DEF Audit, TypeOK, Models, Url, NoNight, Stages
<1>2. Idle' /\ Holding'
  BY DEF Audit, TypeOK, Models, Url, NoNight, Stages, Idle, Holding
<1>3. Older' /\ Candidate'
  BY ClassifierAssumption DEF Audit, TypeOK, Models, Url, NoNight, Stages, Idle, Older, Candidate, Before, After
<1>4. Present' /\ StateRestorable'
  BY ClassifierAssumption DEF Audit, TypeOK, Models, Url, NoNight, Stages, Idle, Older, Candidate, Present, Before, After, StateRestorable
<1>5. OnlyOldPoolsFail'
  BY ClassifierAssumption DEF Audit, TypeOK, Models, Url, NoNight, Stages, Idle, Holding, Candidate, Present, Before, OnlyOldPoolsFail
<1>6. ComparedBeforeSwap'
  BY ClassifierAssumption DEF Audit, TypeOK, Models, Url, NoNight, Stages, Idle, Present, ComparedBeforeSwap
<1>7. Given'
  BY ClassifierAssumption DEF Audit, TypeOK, Models, Url, NoNight, Stages, Idle, Given
<1> QED
  BY <1>1, <1>2, <1>3, <1>4, <1>5, <1>6, <1>7

LEMMA StepInv == IInv /\ [Next]_vars => IInv'
<1> SUFFICES ASSUME IInv, [Next]_vars PROVE IInv'
  OBVIOUS
<1>1. CASE UNCHANGED vars
  BY <1>1 DEF vars, IInv, TypeOK, Idle, Older, Candidate, Present, Holding, Given, Named,
              StateRestorable, OnlyOldPoolsFail, ComparedBeforeSwap
<1>2. CASE StartWithUrl \/ StartRestored \/ StartRefused \/ Stop \/ SaveCrop
  BY <1>2, StartWithUrlKeeps, StartRestoredKeeps, StartRefusedKeeps, StopKeeps, SaveCropKeeps
<1>3. ASSUME NEW w \in Workers, TakePool(w) \/ Acquire(w) \/ AcquireFails(w) PROVE IInv'
  BY <1>3, TakePoolKeeps, AcquireKeeps, AcquireFailsKeeps
<1>4. CASE Retrain
  BY <1>4, CountKeeps, ReadDataKeeps, ExportKeeps, ValidateKeeps, GateKeeps, BackupKeeps,
     SwapKeeps, ClearKeeps, WriteKeeps, PruneKeeps, AuditKeeps DEF Retrain
<1> QED
  BY <1>1, <1>2, <1>3, <1>4 DEF Next

(* Every variable keeps its type, and a process that is down has no pool.   *)
THEOREM TypeCorrect == Spec => []TypeOK
<1>1. IInv => TypeOK
  BY DEF IInv
<1> QED
  BY <1>1, InitInv, StepInv, PTL DEF Spec

(* A state file whose last write succeeded always names a model that is    *)
(* there, wherever a night or a start was cut off (training.rs 304-314).   *)
THEOREM RestorableAlways == Spec => []StateRestorable
<1>1. IInv => StateRestorable
  BY DEF IInv
<1> QED
  BY <1>1, InitInv, StepInv, PTL DEF Spec

(* A frame that holds the live pool never fails for want of its file        *)
(* (models.rs 77-110, 191-215).                                            *)
THEOREM LivePoolLoads == Spec => []OnlyOldPoolsFail
<1>1. IInv => OnlyOldPoolsFail
  BY DEF IInv
<1> QED
  BY <1>1, InitInv, StepInv, PTL DEF Spec

(* No candidate replaces a deployed model without having been measured      *)
(* against it (training.rs 224-268).                                       *)
THEOREM GateHolds == Spec => []ComparedBeforeSwap
<1>1. IInv => ComparedBeforeSwap
  BY DEF IInv
<1> QED
  BY <1>1, InitInv, StepInv, PTL DEF Spec

(* A crop goes only by the clearing of a night whose candidate is live; it  *)
(* was trained on, left out, or late; with the default holdout and ratio    *)
(* some crop was trained on (training.rs 285-308, retrain.py 88-121).       *)
THEOREM NoCropForgotten == Spec => CropsAccounted
<1>1. IInv /\ [Next]_vars =>
        [crops \ crops' # {} =>
           /\ night.pc = "clear" /\ pool = night.cand
           /\ crops \ crops' \subseteq night.data \cup night.rest \cup night.late
           /\ Holdout * (1 + MaxRatio) <= 50 => night.data # {}]_crops
  <2> SUFFICES ASSUME IInv, [Next]_vars, crops \ crops' # {}
               PROVE  /\ night.pc = "clear" /\ pool = night.cand
                      /\ crops \ crops' \subseteq night.data \cup night.rest \cup night.late
                      /\ Holdout * (1 + MaxRatio) <= 50 => night.data # {}
    OBVIOUS
  <2>1. Clear
    <3>1. CASE SaveCrop
      BY <3>1 DEF SaveCrop
    <3>2. CASE Retrain
      BY <3>2 DEF Retrain, Count, ReadData, Export, Validate, Gate, Backup, Swap, Write, Prune, Audit
    <3>3. crops' = crops \/ SaveCrop \/ Retrain
      BY DEF Next, vars, StartWithUrl, StartRestored, Boot, StartRefused, Stop, TakePool, Acquire,
             AcquireFails
    <3> QED
      BY <3>1, <3>2, <3>3
  <2>2. night.pc = "clear"
    BY <2>1 DEF Clear
  <2> QED
    BY <2>2 DEF IInv, Candidate, After, Given
<1> QED
  BY <1>1, InitInv, StepInv, PTL DEF Spec, CropsAccounted
==============================================================================
