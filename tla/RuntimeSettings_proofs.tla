------------------------- MODULE RuntimeSettings_proofs -------------------------
(***************************************************************************)
(* Proofs about RuntimeSettings, for any requests, patches, environments   *)
(* and clamp: its type invariant, that the configuration in force is       *)
(* always valid however the requests interleave, and that requests which   *)
(* come one at a time leave an overrides file the next start loads.        *)
(***************************************************************************)
EXTENDS RuntimeSettings, FiniteSetTheorems, TLAPS

LEMMA InodesTyped == None \notin Inodes
BY SettingsAssumption, FS_CardinalityType DEF Inodes

(* An accepted patch of a configuration is a valid configuration.          *)
LEMMA PatchedConfig ==
  ASSUME NEW c \in Config, NEW p,
         \A k \in DOMAIN p \cap Knobs : p[k] \in Int \cup {Bad},
         Accepts(c, p)
  PROVE  Patched(c, p) \in Config /\ Valid(Patched(c, p))
<1>1. \A k \in Knobs : k \in DOMAIN p => Clamp(p[k]) \in Lo..Hi
  BY SettingsAssumption DEF Accepts, Clamp
<1>2. \A k \in Knobs : c[k] \in Int /\ (k # "cap" => c[k] \in Lo..Hi)
  BY DEF Config
<1>3. Lo..Hi \subseteq Int
  BY SettingsAssumption
<1>4. Patched(c, p) \in [Knobs -> Int]
  BY <1>1, <1>2, <1>3 DEF Patched
<1>5. \A k \in Knobs \ {"cap"} : Patched(c, p)[k] \in Lo..Hi
  BY <1>1, <1>2 DEF Patched
<1> QED
  BY <1>4, <1>5 DEF Config, Accepts

(* A saved configuration is taken over with its cap clamped, and accepted  *)
(* exactly when it is valid then.                                          *)
LEMMA PatchedWhole ==
  ASSUME NEW c \in Config, NEW d \in Config
  PROVE  Patched(c, d) = Reloaded(d) /\ (Accepts(c, d) <=> Valid(Reloaded(d)))
<1>1. /\ DOMAIN d = Knobs /\ d = [k \in Knobs |-> d[k]]
      /\ \A k \in Knobs : d[k] \in Int /\ (k # "cap" => d[k] \in Lo..Hi)
  BY DEF Config
<1>2. \A k \in Knobs \ {"cap"} : Clamp(d[k]) = d[k]
  BY <1>1, SettingsAssumption DEF Clamp
<1>3. Patched(c, d) = [k \in Knobs |-> Clamp(d[k])]
  BY <1>1 DEF Patched
<1>4. Reloaded(d) = [k \in Knobs |-> IF k = "cap" THEN Clamp(d[k]) ELSE d[k]]
  BY <1>1 DEF Reloaded
<1>5. Patched(c, d) = Reloaded(d)
  BY <1>2, <1>3, <1>4
<1>6. \A k \in DOMAIN d : d[k] # Bad
  BY <1>1, SettingsAssumption
<1> QED
  BY <1>1, <1>5, <1>6 DEF Accepts

(* What a start makes of an overrides file it accepts.                     *)
LEMMA Loaded ==
  ASSUME TypeOK, Valid(base), Loadable
  PROVE  OnDisk \in Config /\ Valid(OnDisk)
<1>1. CASE file = None
  BY <1>1 DEF OnDisk, TypeOK
<1>2. CASE file # None
  <2>1. text[file] \in Config /\ Accepts(base, text[file]) /\ base \in Config
    BY <1>2 DEF Loadable, TypeOK
  <2>2. \A k \in DOMAIN text[file] \cap Knobs : text[file][k] \in Int \cup {Bad}
    BY <2>1 DEF Config
  <2> QED
    BY <1>2, <2>1, <2>2, PatchedConfig DEF OnDisk
<1> QED
  BY <1>1, <1>2

(* A request that changes its step and its open file.                      *)
MovesTo(r, p, f) == req' = [req EXCEPT ![r].pc = p, ![r].fd = f]
LEMMA Moved ==
  ASSUME TypeOK, NEW r \in Requests, NEW p \in Steps, NEW f \in Inodes \cup {None},
         MovesTo(r, p, f)
  PROVE  /\ req' \in [Requests -> [pc : Steps, next : Config, fd : Inodes \cup {None}]]
         /\ req'[r].pc = p /\ req'[r].fd = f
         /\ \A q \in Requests : /\ req'[q].next = req[q].next
                                /\ q # r => req'[q] = req[q]
BY DEF TypeOK, MovesTo

(* The configuration in force, the environment and every configuration a   *)
(* request has computed are valid.                                         *)
AllValid == Valid(base) /\ Valid(inner) /\ \A r \in Requests : Valid(req[r].next)
SafeInv  == TypeOK /\ AllValid

LEMMA SafeInit == Init => SafeInv
<1> SUFFICES ASSUME Init PROVE SafeInv
  OBVIOUS
<1>1. base \in Config /\ Valid(base)
  BY SettingsAssumption DEF Init, Valid
<1>2. TypeOK
  <2>1. text \in [Inodes -> Config \cup {Torn, Empty}]
    BY DEF Init
  <2>2. req \in [Requests -> [pc : Steps, next : Config, fd : Inodes \cup {None}]]
    BY <1>1 DEF Init, Steps
  <2>3. \A r \in Requests : req[r].pc \in {"write"} => req[r].fd # None
    BY DEF Init
  <2>4. inner \in Config /\ promised \subseteq Config
    BY <1>1 DEF Init
  <2>5. starts \in 0..MaxStarts /\ running = "down" /\ file = None /\ tmp = None /\ overlapped = FALSE
    BY SettingsAssumption DEF Init
  <2> QED
    BY <1>1, <2>1, <2>2, <2>3, <2>4, <2>5 DEF TypeOK
<1>3. AllValid
  BY <1>1 DEF Init, AllValid
<1> QED
  BY <1>2, <1>3 DEF SafeInv

LEMMA SafeStep == SafeInv /\ [Next]_vars => SafeInv'
<1> SUFFICES ASSUME SafeInv, [Next]_vars PROVE SafeInv'
  OBVIOUS
<1> USE DEF SafeInv
<1>t. TypeOK /\ AllValid
  OBVIOUS
<1>b. \A r \in Requests : req[r].next \in Config /\ Valid(req[r].next)
  BY <1>t DEF TypeOK, AllValid
<1>1. CASE Start
  <2>1. OnDisk \in Config /\ Valid(OnDisk)
    BY <1>1, <1>t, Loaded DEF Start, AllValid
  <2>2. inner' = OnDisk /\ starts' \in 0..MaxStarts /\ running' = "up"
        /\ UNCHANGED <<base, file, tmp, text, req, promised, overlapped>>
    BY <1>1, <1>t, SettingsAssumption DEF Start, StartWith, TypeOK
  <2> QED
    BY <2>1, <2>2, <1>t DEF TypeOK, AllValid, Valid
<1>2. CASE StartBlind
  BY <1>2, <1>t, SettingsAssumption DEF StartBlind, StartWith, TypeOK, AllValid, Valid
<1>3. CASE StartRefused
  BY <1>3, <1>t, SettingsAssumption DEF StartRefused, TypeOK, AllValid, Valid
<1>4. CASE Stop
  <2>1. req' \in [Requests -> [pc : Steps, next : Config, fd : Inodes \cup {None}]]
        /\ \A r \in Requests : req'[r].next = req[r].next /\ (req'[r].pc = "write" => req'[r].fd # None)
    BY <1>4, <1>t DEF Stop, TypeOK, Busy, Steps
  <2>2. promised' \subseteq Config
    BY <1>4, <1>t, <1>b DEF Stop, TypeOK, Busy
  <2> QED
    BY <1>4, <1>t, <2>1, <2>2 DEF Stop, TypeOK, AllValid, Valid
<1>5. ASSUME NEW r \in Requests, NEW p \in Patches, Refuse(r, p) PROVE SafeInv'
  BY <1>5, <1>t DEF Refuse, Begin, Answer, TypeOK, AllValid, Valid, Steps, Busy
<1>6. ASSUME NEW r \in Requests, NEW p \in Patches, Compute(r, p) PROVE SafeInv'
  <2>1. Patched(inner, p) \in Config /\ Valid(Patched(inner, p))
    BY <1>6, <1>t, PatchedConfig, SettingsAssumption DEF Compute, TypeOK
  <2> QED
    BY <1>6, <1>t, <2>1 DEF Compute, Begin, TypeOK, AllValid, Valid, Steps, Busy
<1>7. ASSUME NEW r \in Requests, Swap(r) PROVE SafeInv'
  BY <1>7, <1>t DEF Swap, TypeOK, AllValid, Valid, Steps
<1>8. ASSUME NEW r \in Requests, OpenTmp(r) PROVE SafeInv'
  <2>1. PICK i \in Inodes : tmp' = i /\ text' = [text EXCEPT ![i] = Empty]
                            /\ req' = [req EXCEPT ![r].pc = "write", ![r].fd = i]
    BY <1>8, <1>t DEF OpenTmp, TypeOK, Fresh, Unused
  <2>2. "write" \in Steps
    BY DEF Steps
  <2>3. /\ req' \in [Requests -> [pc : Steps, next : Config, fd : Inodes \cup {None}]]
        /\ \A q \in Requests : /\ req'[q].next = req[q].next
                               /\ req'[q].pc = "write" => req'[q].fd # None
    <3>0. MovesTo(r, "write", i)
      BY <2>1 DEF MovesTo
    <3>1. /\ req' \in [Requests -> [pc : Steps, next : Config, fd : Inodes \cup {None}]]
          /\ req'[r].fd = i
          /\ \A q \in Requests : req'[q].next = req[q].next /\ (q # r => req'[q] = req[q])
      BY <1>t, <2>2, <3>0, Moved
    <3>2. i # None
      BY <2>1, InodesTyped
    <3> QED
      BY <1>t, <3>1, <3>2 DEF TypeOK
  <2>4. text' \in [Inodes -> Config \cup {Torn, Empty}]
    BY <1>t, <2>1 DEF TypeOK
  <2> QED
    BY <1>8, <1>t, <2>1, <2>3, <2>4 DEF OpenTmp, TypeOK, AllValid, Valid
<1>9. ASSUME NEW r \in Requests, WriteTmp(r) PROVE SafeInv'
  <2>1. text' \in [Inodes -> Config \cup {Torn, Empty}]
    BY <1>9, <1>t DEF WriteTmp, TypeOK
  <2> QED
    BY <1>9, <1>t, <2>1 DEF WriteTmp, TypeOK, AllValid, Valid, Steps
<1>10. ASSUME NEW r \in Requests, Rename(r) PROVE SafeInv'
  BY <1>10, <1>t DEF Rename, Answer, TypeOK, AllValid, Valid, Steps
<1>11. ASSUME NEW r \in Requests, Fail(r) PROVE SafeInv'
  <2>1. text' \in [Inodes -> Config \cup {Torn, Empty}]
    BY <1>11, <1>t DEF Fail, TypeOK
  <2>2. "failed" \in Steps
    BY DEF Steps
  <2>3. MovesTo(r, "failed", None)
    BY <1>11 DEF Fail, Answer, MovesTo
  <2>4. /\ req' \in [Requests -> [pc : Steps, next : Config, fd : Inodes \cup {None}]]
        /\ \A q \in Requests : /\ req'[q].next = req[q].next
                               /\ req'[q].pc = "write" => req'[q].fd # None
    BY <1>t, <2>2, <2>3, Moved DEF TypeOK
  <2> QED
    BY <1>11, <1>t, <1>b, <2>1, <2>4 DEF Fail, TypeOK, AllValid, Valid
<1>12. ASSUME NEW r \in Requests, ResetAll(r) PROVE SafeInv'
  BY <1>12, <1>t DEF ResetAll, Begin, TypeOK, AllValid, Valid, Steps, Busy
<1>13. ASSUME NEW r \in Requests, Remove(r) PROVE SafeInv'
  BY <1>13, <1>t DEF Remove, TypeOK, AllValid, Valid, Steps
<1>14. ASSUME NEW r \in Requests, Restore(r) PROVE SafeInv'
  BY <1>14, <1>t DEF Restore, Answer, TypeOK, AllValid, Valid, Steps
<1>15. CASE UNCHANGED vars
  BY <1>15, <1>t DEF vars, TypeOK, AllValid, Valid
<1> QED
  BY <1>1, <1>2, <1>3, <1>4, <1>5, <1>6, <1>7, <1>8, <1>9, <1>10, <1>11, <1>12, <1>13,
     <1>14, <1>15 DEF Next

(* Every variable keeps its type.                                          *)
THEOREM TypeCorrect == Spec => []TypeOK
<1>1. SafeInv => TypeOK
  BY DEF SafeInv
<1> QED
  BY <1>1, SafeInit, SafeStep, PTL DEF Spec

(* The configuration in force is valid however patches, resets, failures   *)
(* and restarts interleave: no lock is needed for that (config.rs          *)
(* 1002-1006, 1139-1145).                                                  *)
THEOREM AlwaysValid == Spec => []EffectiveValid
<1>1. SafeInv => EffectiveValid
  BY DEF SafeInv, AllValid, EffectiveValid
<1> QED
  BY <1>1, SafeInit, SafeStep, PTL DEF Spec

------------------------------------------------------------------------------
(* What holds while no two requests have overlapped: the overrides file is *)
(* whole and is not the temporary one, and each step of the only request   *)
(* finds what its last step left.                                          *)
Saved == IF file = None THEN base ELSE text[file]
InProgress == {"swap", "open", "write", "rename", "remove", "restore"}
FileWhole  == file # None => file # tmp /\ text[file] \in Config /\ Valid(text[file])
Steady(q)  ==
  /\ req[q].pc = "write" => req[q].fd = tmp /\ text[tmp] = Empty
  /\ req[q].pc = "rename" => tmp # None /\ text[tmp] = req[q].next
  /\ req[q].pc \in {"open", "write", "rename"} => inner = req[q].next
  /\ req[q].pc \in {"remove", "restore"} => req[q].next = base
  /\ req[q].pc = "restore" => file = None
Kept == Saved \in promised \/ \E q \in Requests : req[q].pc = "restore"
OneByOne ==
  /\ running = "refused" => ~Loadable
  /\ Busy # {} => running = "up"
  /\ \A q, r \in Busy : q = r
  /\ FileWhole
  /\ \A q \in Requests : Steady(q)
  /\ Kept
SeqInv == SafeInv /\ (~overlapped => OneByOne)

(* A whole file is loaded as it is, with its cap clamped, if that leaves a *)
(* valid configuration.                                                    *)
LEMMA SavedOnDisk ==
  ASSUME SafeInv, FileWhole
  PROVE  /\ OnDisk = IF file = None THEN Saved ELSE Reloaded(Saved)
         /\ Valid(Reloaded(Saved)) => Loadable
<1>1. base \in Config
  BY DEF SafeInv, TypeOK
<1>2. CASE file = None
  BY <1>2 DEF Loadable, OnDisk, Saved
<1>3. CASE file # None
  <2>1. text[file] \in Config
    BY <1>3 DEF FileWhole
  <2>2. /\ Patched(base, text[file]) = Reloaded(text[file])
        /\ Accepts(base, text[file]) <=> Valid(Reloaded(text[file]))
    BY <1>1, <2>1, PatchedWhole
  <2> QED
    BY <1>3, <2>1, <2>2 DEF Loadable, OnDisk, Saved
<1> QED
  BY <1>2, <1>3

(* When only one request moves, no other one is in progress.               *)
LEMMA LoneMove ==
  ASSUME NEW r \in Requests, \A q \in Busy : q = r,
         \A q \in Requests : q # r => req'[q] = req[q]
  PROVE  /\ \A q \in Busy' : q = r
         /\ \A q \in Requests : q # r => req'[q].pc \notin InProgress
BY DEF Busy, InProgress

(* A request that begins, or goes on, without another one in progress.     *)
LEMMA Others ==
  ASSUME NEW r \in Requests, \A q \in Busy : q = r,
         \A q \in Requests : q # r => req'[q] = req[q],
         running' = "up", FileWhole', Steady(r)', Kept'
  PROVE  OneByOne'
<1>1. /\ \A q \in Busy' : q = r
      /\ \A q \in Requests : q # r => req'[q].pc \notin InProgress
  BY LoneMove
<1>2. \A q \in Requests : Steady(q)'
  BY <1>1 DEF Steady, InProgress
<1> QED
  BY <1>1, <1>2 DEF OneByOne

LEMMA SeqInit == Init => SeqInv
<1> SUFFICES ASSUME Init PROVE SeqInv
  OBVIOUS
<1>1. SafeInv
  BY SafeInit
<1>2. Busy = {} /\ \A q \in Requests : Steady(q)
  BY DEF Init, Busy, Steady
<1>3. FileWhole /\ Kept /\ running = "down"
  BY DEF Init, FileWhole, Kept, Saved
<1> QED
  BY <1>1, <1>2, <1>3 DEF OneByOne, SeqInv

LEMMA SeqStep == SeqInv /\ [Next]_vars => SeqInv'
<1> SUFFICES ASSUME SeqInv, [Next]_vars, ~overlapped' PROVE OneByOne'
  BY SafeStep DEF SeqInv
<1>t. TypeOK /\ AllValid /\ SafeInv
  BY DEF SeqInv, SafeInv
<1>o. ~overlapped /\ OneByOne
  <2>1. CASE \E r \in Requests : Begin(r)
    <3>1. overlapped' = (overlapped \/ Busy # {})
      BY <2>1 DEF Begin
    <3>2. ~(overlapped \/ Busy # {})
      BY <3>1, Zenon
    <3> QED
      BY <3>2 DEF SeqInv
  <2>2. CASE \E r \in Requests : Swap(r) \/ OpenTmp(r) \/ WriteTmp(r) \/ Rename(r)
                               \/ Fail(r) \/ Remove(r) \/ Restore(r)
    BY <2>2 DEF SeqInv, Swap, OpenTmp, WriteTmp, Rename, Fail, Remove, Restore
  <2>3. CASE Start \/ StartBlind \/ StartRefused \/ Stop \/ UNCHANGED vars
    <3>1. UNCHANGED overlapped
      BY <2>3 DEF Start, StartBlind, StartRefused, StartWith, Stop, vars
    <3> QED
      BY <3>1 DEF SeqInv
  <2> QED
    BY <2>1, <2>2, <2>3 DEF Next, Refuse, Compute, ResetAll
<1>f. FileWhole /\ Kept /\ \A q \in Requests : Steady(q)
  BY <1>o DEF OneByOne
<1>1. CASE Start \/ StartBlind
  <2>1. /\ running = "down" /\ running' = "up"
        /\ UNCHANGED <<base, file, tmp, text, req, promised>>
    BY <1>1 DEF Start, StartBlind, StartWith
  <2>2. Busy = {} /\ Busy' = {}
    BY <1>o, <2>1 DEF OneByOne, Busy
  <2>3. \A q \in Requests : Steady(q)'
    BY <1>f, <2>1, <2>2 DEF Steady, Busy
  <2>4. FileWhole' /\ Kept'
    BY <1>f, <2>1 DEF FileWhole, Kept, Saved, Valid
  <2> QED
    BY <2>1, <2>2, <2>3, <2>4 DEF OneByOne
<1>3. CASE StartRefused
  <2>1. /\ running = "down" /\ ~Loadable
        /\ UNCHANGED <<base, file, tmp, text, req, promised>>
    BY <1>3 DEF StartRefused
  <2>2. Busy = {} /\ Busy' = {}
    BY <1>o, <2>1 DEF OneByOne, Busy
  <2>3. \A q \in Requests : Steady(q)'
    BY <1>f, <2>1, <2>2 DEF Steady, Busy
  <2>4. FileWhole' /\ Kept' /\ ~Loadable'
    BY <1>f, <2>1 DEF FileWhole, Kept, Saved, Valid, Loadable, Accepts, Patched
  <2> QED
    BY <2>2, <2>3, <2>4 DEF OneByOne
<1>4. CASE Stop
  <2>1. /\ running' = "down" /\ UNCHANGED <<base, inner, file, tmp, text>>
        /\ promised' = promised \cup {req[q].next : q \in Busy}
        /\ req' = [q \in Requests |-> IF q \in Busy THEN [req[q] EXCEPT !.pc = "gone", !.fd = None]
                                     ELSE req[q]]
    BY <1>4 DEF Stop
  <2>2. \A q \in Requests : req'[q].pc \notin InProgress
    <3> TAKE q \in Requests
    <3>1. CASE q \in Busy
      BY <2>1, <3>1, <1>t DEF InProgress, TypeOK
    <3>2. CASE q \notin Busy
      BY <2>1, <3>2 DEF InProgress, Busy
    <3> QED
      BY <3>1, <3>2
  <2>3. Busy' = {} /\ \A q \in Requests : Steady(q)'
    BY <2>2 DEF Busy, Steady, InProgress
  <2>4. FileWhole'
    BY <2>1, <1>f DEF FileWhole, Valid
  <2>5. Saved' = Saved
    BY <2>1 DEF Saved
  <2>6. Saved \in promised'
    <3>1. CASE Saved \in promised
      BY <2>1, <3>1
    <3>2. CASE \E q \in Requests : req[q].pc = "restore"
      <4>1. PICK q \in Requests : req[q].pc = "restore"
        BY <3>2
      <4>2. q \in Busy /\ req[q].next = base /\ file = None
        BY <4>1, <1>f DEF Busy, Steady
      <4> QED
        BY <4>2, <2>1 DEF Saved
    <3> QED
      BY <3>1, <3>2, <1>f DEF Kept
  <2> QED
    BY <2>1, <2>3, <2>4, <2>5, <2>6 DEF OneByOne, Kept
<1>5. ASSUME NEW r \in Requests, NEW p \in Patches, Refuse(r, p) \/ Compute(r, p) PROVE OneByOne'
  <2>1. /\ running' = "up" /\ req[r].pc = "idle" /\ Busy = {}
        /\ UNCHANGED <<base, inner, file, tmp, text, promised>>
    BY <1>5, <1>o DEF Refuse, Compute, Begin
  <2>2. /\ \A q \in Requests : q # r => req'[q] = req[q]
        /\ req'[r].pc \in {"rejected", "swap"}
    BY <1>5, <1>t DEF Refuse, Compute, Answer, TypeOK
  <2>3. Saved \in promised
    BY <2>1, <1>f DEF Kept, Busy
  <2>4. FileWhole' /\ Steady(r)' /\ Kept'
    BY <2>1, <2>2, <2>3, <1>f DEF FileWhole, Steady, Kept, Saved, Valid
  <2> QED
    BY <2>1, <2>2, <2>4, Others
<1> DEFINE Alone(r) == r \in Busy /\ running = "up" /\ \A q \in Busy : q = r
<1>a. \A r \in Busy : Alone(r)
  BY <1>o DEF OneByOne
<1>k. \A r \in Requests : Alone(r) /\ req[r].pc # "restore" => Saved \in promised
  BY <1>f DEF Kept, Busy
<1>7. ASSUME NEW r \in Requests, Swap(r) PROVE OneByOne'
  <2>1. Alone(r) /\ UNCHANGED <<running, base, file, tmp, text, promised>> /\ inner' = req[r].next
        /\ Saved \in promised
    BY <1>7, <1>a, <1>k DEF Swap, Busy
  <2>2. /\ \A q \in Requests : q # r => req'[q] = req[q]
        /\ req'[r].pc = "open" /\ req'[r].next = req[r].next
    BY <1>7, <1>t DEF Swap, TypeOK
  <2>3. FileWhole' /\ Steady(r)' /\ Kept'
    BY <2>1, <2>2, <1>f DEF FileWhole, Steady, Kept, Saved, Valid
  <2> QED
    BY <2>1, <2>2, <2>3, Others
<1>8. ASSUME NEW r \in Requests, OpenTmp(r) PROVE OneByOne'
  <2>1. Alone(r) /\ UNCHANGED <<running, base, inner, file, promised>> /\ Saved \in promised
        /\ inner = req[r].next
    BY <1>8, <1>a, <1>k, <1>f DEF OpenTmp, Busy, Steady
  <2>2. PICK i \in IF tmp = None THEN Fresh ELSE {tmp} :
           /\ tmp' = i /\ text' = [text EXCEPT ![i] = Empty]
           /\ req' = [req EXCEPT ![r].pc = "write", ![r].fd = i]
    BY <1>8 DEF OpenTmp
  <2>3. i \in Inodes /\ i # None /\ (file # None => i # file)
    BY <2>2, <1>t, <1>f, InodesTyped DEF Fresh, Unused, TypeOK, FileWhole
  <2>4. /\ \A q \in Requests : q # r => req'[q] = req[q]
        /\ req'[r].pc = "write" /\ req'[r].next = req[r].next /\ req'[r].fd = i
    BY <2>2, <1>t DEF TypeOK
  <2>5. text'[i] = Empty /\ (file # None => text'[file] = text[file])
    BY <2>2, <2>3, <1>t DEF TypeOK
  <2>6. FileWhole' /\ Kept'
    BY <2>1, <2>2, <2>3, <2>5, <1>f DEF FileWhole, Kept, Saved, Valid
  <2>7. Steady(r)'
    BY <2>1, <2>2, <2>4, <2>5 DEF Steady
  <2> QED
    BY <2>1, <2>4, <2>6, <2>7, Others
<1>9. ASSUME NEW r \in Requests, WriteTmp(r) PROVE OneByOne'
  <2>1. Alone(r) /\ UNCHANGED <<running, base, inner, file, tmp, promised>> /\ Saved \in promised
        /\ inner = req[r].next /\ req[r].fd = tmp /\ text[tmp] = Empty
    BY <1>9, <1>a, <1>k, <1>f DEF WriteTmp, Busy, Steady
  <2>2. tmp \in Inodes /\ tmp # None
    BY <1>9, <2>1, <1>t DEF WriteTmp, TypeOK
  <2>3. text' = [text EXCEPT ![tmp] = req[r].next]
    BY <1>9, <2>1 DEF WriteTmp
  <2>4. /\ \A q \in Requests : q # r => req'[q] = req[q]
        /\ req'[r].pc = "rename" /\ req'[r].next = req[r].next
    BY <1>9, <1>t DEF WriteTmp, TypeOK
  <2>5. text'[tmp] = req[r].next /\ (file # None => text'[file] = text[file])
    BY <2>2, <2>3, <1>t, <1>f DEF TypeOK, FileWhole
  <2>6. FileWhole' /\ Kept'
    BY <2>1, <2>5, <1>f DEF FileWhole, Kept, Saved, Valid
  <2>7. Steady(r)'
    BY <2>1, <2>2, <2>4, <2>5 DEF Steady
  <2> QED
    BY <2>1, <2>4, <2>6, <2>7, Others
<1>10. ASSUME NEW r \in Requests, Rename(r) PROVE OneByOne'
  <2>1. Alone(r) /\ UNCHANGED <<running, base, inner, text>> /\ promised' = {req[r].next}
        /\ tmp # None /\ text[tmp] = req[r].next /\ file' = tmp /\ tmp' = None
    BY <1>10, <1>a, <1>f DEF Rename, Busy, Steady
  <2>2. req[r].next \in Config /\ Valid(req[r].next)
    BY <1>t DEF TypeOK, AllValid
  <2>3. /\ \A q \in Requests : q # r => req'[q] = req[q]
        /\ req'[r].pc = "ok"
    BY <1>10, <1>t DEF Rename, Answer, TypeOK
  <2>4. FileWhole' /\ Kept' /\ Steady(r)'
    BY <2>1, <2>2, <2>3 DEF FileWhole, Kept, Saved, Valid, Steady
  <2> QED
    BY <2>1, <2>3, <2>4, Others
<1>11. ASSUME NEW r \in Requests, Fail(r) PROVE OneByOne'
  <2>1. Alone(r) /\ UNCHANGED <<running, base, inner, file, tmp>> /\ Saved \in promised
        /\ promised' = promised \cup {req[r].next}
    BY <1>11, <1>a, <1>k DEF Fail, Busy
  <2>2. /\ \A q \in Requests : q # r => req'[q] = req[q]
        /\ req'[r].pc = "failed"
    BY <1>11, <1>t DEF Fail, Answer, TypeOK
  <2>3. file # None => text'[file] = text[file]
    <3>1. CASE UNCHANGED text
      BY <3>1
    <3>2. CASE req[r].pc = "write"
      <4>1. req[r].fd = tmp /\ tmp \in Inodes
        BY <3>2, <1>f, <1>t DEF Steady, TypeOK
      <4>2. PICK t \in {Empty, Torn} : text' = [text EXCEPT ![tmp] = t]
        BY <1>11, <3>2, <4>1 DEF Fail
      <4> QED
        BY <4>1, <4>2, <1>f, <1>t DEF TypeOK, FileWhole
    <3> QED
      BY <1>11, <3>1, <3>2 DEF Fail
  <2>4. FileWhole' /\ Kept' /\ Steady(r)'
    BY <2>1, <2>2, <2>3, <1>f DEF FileWhole, Kept, Saved, Valid, Steady
  <2> QED
    BY <2>1, <2>2, <2>4, Others
<1>12. ASSUME NEW r \in Requests, ResetAll(r) PROVE OneByOne'
  <2>1. /\ running' = "up" /\ req[r].pc = "idle" /\ Busy = {}
        /\ UNCHANGED <<base, inner, file, tmp, text, promised>>
    BY <1>12, <1>o DEF ResetAll, Begin
  <2>2. /\ \A q \in Requests : q # r => req'[q] = req[q]
        /\ req'[r].pc = (IF file = None THEN "restore" ELSE "remove") /\ req'[r].next = base
    BY <1>12, <1>t DEF ResetAll, TypeOK
  <2>3. Saved \in promised
    BY <2>1, <1>f DEF Kept, Busy
  <2>4. FileWhole' /\ Steady(r)' /\ Kept'
    BY <2>1, <2>2, <2>3, <1>f DEF FileWhole, Steady, Kept, Saved, Valid
  <2> QED
    BY <2>1, <2>2, <2>4, Others
<1>13. ASSUME NEW r \in Requests, Remove(r) PROVE OneByOne'
  <2>1. Alone(r) /\ UNCHANGED <<running, base, inner, tmp, text, promised>> /\ file' = None
        /\ req[r].next = base
    BY <1>13, <1>a, <1>f DEF Remove, Busy, Steady
  <2>2. /\ \A q \in Requests : q # r => req'[q] = req[q]
        /\ req'[r].pc = "restore" /\ req'[r].next = base
    BY <1>13, <1>t, <2>1 DEF Remove, TypeOK
  <2>3. FileWhole' /\ Kept' /\ Steady(r)'
    BY <2>1, <2>2 DEF FileWhole, Kept, Steady
  <2> QED
    BY <2>1, <2>2, <2>3, Others
<1>14. ASSUME NEW r \in Requests, Restore(r) PROVE OneByOne'
  <2>1. Alone(r) /\ UNCHANGED <<running, base, file, tmp, text>> /\ file = None /\ promised' = {base}
    BY <1>14, <1>a, <1>f DEF Restore, Busy, Steady
  <2>2. /\ \A q \in Requests : q # r => req'[q] = req[q]
        /\ req'[r].pc = "ok"
    BY <1>14, <1>t DEF Restore, Answer, TypeOK
  <2>3. FileWhole' /\ Kept' /\ Steady(r)'
    BY <2>1, <2>2 DEF FileWhole, Kept, Steady, Saved
  <2> QED
    BY <2>1, <2>2, <2>3, Others
<1>15. CASE UNCHANGED vars
  BY <1>15, <1>o DEF vars, OneByOne, Busy, FileWhole, Steady, Kept, Saved, Valid,
                     Loadable, Accepts, Patched
<1> QED
  BY <1>1, <1>3, <1>4, <1>5, <1>7, <1>8, <1>9, <1>10, <1>11, <1>12, <1>13, <1>14, <1>15 DEF Next

(* Requests that come one at a time leave an overrides file that the next  *)
(* start loads and that brings back an answer a client was given, whatever *)
(* write fails and wherever the process stops (config.rs 961-975,          *)
(* 1002-1040).                                                             *)
THEOREM Survives == Spec => []AnswersSurvive
<1>1. SeqInv => AnswersSurvive
  <2> SUFFICES ASSUME SeqInv, ~overlapped
               PROVE  \E c \in promised \cup {req[r].next : r \in Busy} :
                         /\ Valid(Reloaded(c)) => OverridesLoadable
                         /\ OnDisk = IF file = None THEN c ELSE Reloaded(c)
    BY DEF AnswersSurvive
  <2>1. SafeInv /\ OneByOne
    BY DEF SeqInv
  <2>2. /\ OnDisk = IF file = None THEN Saved ELSE Reloaded(Saved)
        /\ Valid(Reloaded(Saved)) => OverridesLoadable
    BY <2>1, SavedOnDisk DEF OneByOne, OverridesLoadable
  <2>3. Saved \in promised \cup {req[r].next : r \in Busy}
    <3>1. CASE Saved \in promised
      BY <3>1
    <3>2. ASSUME NEW q \in Requests, req[q].pc = "restore"
          PROVE  Saved \in {req[r].next : r \in Busy}
      <4>1. q \in Busy /\ req[q].next = base /\ file = None
        BY <2>1, <3>2 DEF OneByOne, Steady, Busy
      <4> QED
        BY <4>1 DEF Saved
    <3> QED
      BY <2>1, <3>1, <3>2 DEF OneByOne, Kept
  <2> QED
    BY <2>2, <2>3
<1> QED
  BY <1>1, SeqInit, SeqStep, PTL DEF Spec

(* And while they do, an answer of ok means that memory and disk agree.    *)
THEOREM OkAgrees == Spec => OkMeansBoth
<1>1. SeqInv /\ [Next]_vars =>
        [~overlapped' => \A r \in Requests : req'[r].pc = "ok" /\ req[r].pc # "ok" =>
            OnDisk' = IF file' = None THEN inner' ELSE Reloaded(inner')]_vars
  <2> SUFFICES ASSUME SeqInv, [Next]_vars, ~overlapped',
                      NEW r \in Requests, req'[r].pc = "ok", req[r].pc # "ok"
               PROVE  OnDisk' = IF file' = None THEN inner' ELSE Reloaded(inner')
    OBVIOUS
  <2>1. SafeInv' /\ OneByOne'
    BY SeqStep DEF SeqInv
  <2>2. OnDisk' = IF file' = None THEN Saved' ELSE Reloaded(Saved')
    <3>1. base' \in Config /\ (file' # None => text'[file'] \in Config)
      BY <2>1 DEF SafeInv, TypeOK, OneByOne, FileWhole
    <3>2. file' # None => Patched(base', text'[file']) = Reloaded(text'[file'])
      BY <3>1, PatchedWhole
    <3> QED
      BY <3>2 DEF OnDisk, Saved
  <2>t. req \in [Requests -> [pc : Steps, next : Config, fd : Inodes \cup {None}]]
    BY DEF SeqInv, SafeInv, TypeOK
  <2>3. Rename(r) \/ Restore(r)
    <3>1. CASE Start \/ StartBlind \/ StartRefused \/ UNCHANGED vars
      BY <3>1 DEF Start, StartBlind, StartRefused, StartWith, vars
    <3>2. CASE Stop
      BY <3>2, <2>t DEF Stop
    <3>3. ASSUME NEW q \in Requests, NEW p \in Patches, Refuse(q, p) \/ Compute(q, p) PROVE FALSE
      BY <3>3, <2>t DEF Refuse, Compute, Answer
    <3>4. ASSUME NEW q \in Requests,
                 Swap(q) \/ OpenTmp(q) \/ WriteTmp(q) \/ ResetAll(q) \/ Remove(q)
          PROVE  FALSE
      BY <3>4, <2>t DEF Swap, OpenTmp, WriteTmp, ResetAll, Remove
    <3>5. ASSUME NEW q \in Requests, Fail(q) PROVE FALSE
      BY <3>5, <2>t DEF Fail, Answer
    <3>6. ASSUME NEW q \in Requests, Rename(q) \/ Restore(q) PROVE q = r
      BY <3>6, <2>t DEF Rename, Restore, Answer
    <3> QED
      BY <3>1, <3>2, <3>3, <3>4, <3>5, <3>6 DEF Next
  <2>4. ~overlapped /\ OneByOne
    BY <2>3 DEF Rename, Restore, SeqInv
  <2>5. CASE Rename(r)
    <3>1. inner = req[r].next /\ text[tmp] = req[r].next /\ tmp # None
      BY <2>4, <2>5 DEF OneByOne, Steady, Rename
    <3> QED
      BY <2>2, <2>5, <3>1 DEF Rename, Saved
  <2>6. CASE Restore(r)
    <3>1. file = None
      BY <2>4, <2>6 DEF OneByOne, Steady, Restore
    <3> QED
      BY <2>2, <2>6, <3>1 DEF Restore, Saved
  <2> QED
    BY <2>3, <2>5, <2>6
<1> QED
  BY <1>1, SeqInit, SeqStep, PTL DEF Spec, OkMeansBoth
=============================================================================
