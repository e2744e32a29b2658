---------------------------- MODULE RuntimeSettings ----------------------------
(***************************************************************************)
(* The hot-tunable settings: RuntimeConfig (config.rs) and its HTTP        *)
(* endpoint (main.rs).  The effective configuration lives in an ArcSwap;   *)
(* a copy of all its knobs is kept in DATA_DIR/runtime_config.json, which  *)
(* the next start applies on top of the environment.                       *)
(*                                                                         *)
(* A patch is computed from a snapshot, swapped in, and then persisted     *)
(* through a temporary file: created or truncated, written, renamed.  The  *)
(* handlers run on several runtime threads and take no lock, so requests   *)
(* may interleave at every one of these points; they share the temporary   *)
(* file's name.  Files are modelled by inodes, because a writer keeps the  *)
(* inode it opened while another request renames it.                       *)
(*                                                                         *)
(* Of the sixteen knobs two matter together (fp_crop_conf_max must exceed  *)
(* yolo_conf_threshold); the third stands for all the others.              *)
(***************************************************************************)
EXTENDS Integers, FiniteSets

CONSTANTS Requests,    \* POST /operator/settings.json requests, each sent once
          Patches,     \* bodies {"set": ...}: functions from keys to values
          Bases,       \* environments: what Config::from_env may return
          Lo, Hi,      \* the clamp of the numeric knobs
          Bad,         \* a value of the wrong type, or not finite
          Torn,        \* a file whose text is not what one writer wrote
          Empty,       \* a file just created or truncated
          None,
          MaxStarts    \* bound: how often the service is started

Knobs  == {"conf", "cap", "other"}

(* Config::from_env clamps what it reads as apply_runtime_patch does, but   *)
(* for FP_CROP_CONF_MAX (config.rs 737, 1117): the environment's cap may be *)
(* any number above the threshold (820).                                    *)
Config == {c \in [Knobs -> Int] : \A k \in Knobs \ {"cap"} : c[k] \in Lo..Hi}

ASSUME SettingsAssumption ==
  /\ Lo \in Int /\ Hi \in Int /\ Lo < Hi
  /\ Bases \subseteq Config /\ \A b \in Bases : b["cap"] > b["conf"]
  /\ \A p \in Patches : \A k \in DOMAIN p \cap Knobs : p[k] \in Int \cup {Bad}
  /\ Bad \notin Int
  /\ Torn \notin Config /\ Empty \notin Config /\ None \notin Config
  /\ MaxStarts \in Nat /\ None \notin Nat /\ IsFiniteSet(Requests)

VARIABLES
  base,        \* the configuration from the environment
  running,     \* "down", "up", or "refused": the last start failed
  inner,       \* the ArcSwap: the effective configuration
  file,        \* the inode runtime_config.json names, or None
  tmp,         \* the inode of runtime_config.json.tmp, or None
  text,        \* what each inode holds
  req,         \* progress of every request
  starts,
  promised,    \* ghost: what a client may expect a restart to bring back
  overlapped   \* ghost: two requests were in progress at once

vars == <<base, running, inner, file, tmp, text, req, starts, promised, overlapped>>

Inodes == 0..(Cardinality(Requests) + 1)
Steps  == {"idle", "swap", "open", "write", "rename", "remove", "restore",
           "ok", "rejected", "failed", "gone"}
Busy   == {r \in Requests : req[r].pc \in {"swap", "open", "write", "rename", "remove", "restore"}}
Unused == {i \in Inodes : i # file /\ i # tmp /\ \A r \in Busy : req[r].fd # i}
Fresh  == {i \in Unused : \A j \in Unused : i <= j}

------------------------------------------------------------------------------
(* Config::apply_runtime_patch: clamp what is given, keep the rest, refuse  *)
(* unknown keys, wrong types and a broken cross-field rule.                 *)
Clamp_noUpper(v) == IF v < Lo THEN Lo ELSE v
Clamp(v) == IF v < Lo THEN Lo ELSE IF v > Hi THEN Hi ELSE v
Patched(c, p) == [k \in Knobs |-> IF k \in DOMAIN p THEN Clamp(p[k]) ELSE c[k]]
Valid(c)      == c["cap"] > c["conf"]
Accepts_noCrossCheck(c, p) ==
  DOMAIN p \subseteq Knobs /\ \A k \in DOMAIN p : p[k] # Bad
Accepts(c, p) ==
  /\ DOMAIN p \subseteq Knobs
  /\ \A k \in DOMAIN p : p[k] # Bad
  /\ Valid(Patched(c, p))

(* What a start makes of the overrides file.                                *)
Loadable  == IF file = None THEN TRUE ELSE text[file] \in Config /\ Accepts(base, text[file])
OnDisk    == IF file = None THEN base ELSE Patched(base, text[file])

Init ==
  /\ base \in Bases
  /\ running = "down" /\ starts = 0
  /\ inner = base
  /\ file = None /\ tmp = None
  /\ text = [i \in Inodes |-> Empty]
  /\ req = [r \in Requests |-> [pc |-> "idle", next |-> base, fd |-> None]]
  /\ promised = {base}
  /\ overlapped = FALSE

------------------------------------------------------------------------------
(* RuntimeConfig::from_env.  A file that cannot be read is taken for absent; *)
(* one that cannot be parsed or validated aborts the start.                  *)
StartWith(c) ==
  /\ running' = "up" /\ inner' = c
  /\ UNCHANGED <<base, file, tmp, text, req, promised, overlapped>>

Start ==
  /\ running = "down" /\ starts < MaxStarts /\ starts' = starts + 1
  /\ Loadable
  /\ StartWith(OnDisk)

StartBlind ==
  /\ running = "down" /\ starts < MaxStarts /\ starts' = starts + 1
  /\ file # None
  /\ StartWith(base)

StartRefused ==
  /\ running = "down" /\ starts < MaxStarts /\ starts' = starts + 1
  /\ ~Loadable
  /\ running' = "refused"
  /\ UNCHANGED <<base, inner, file, tmp, text, req, promised, overlapped>>

(* The process stops; the requests it was serving are gone.                  *)
Stop ==
  /\ running = "up"
  /\ running' = "down"
  /\ req' = [r \in Requests |-> IF r \in Busy THEN [req[r] EXCEPT !.pc = "gone", !.fd = None]
                                ELSE req[r]]
  /\ promised' = promised \cup {req[r].next : r \in Busy}
  /\ UNCHANGED <<base, inner, file, tmp, text, starts, overlapped>>

------------------------------------------------------------------------------
Begin(r) ==
  /\ running = "up" /\ req[r].pc = "idle"
  /\ overlapped' = (overlapped \/ Busy # {})
Answer(r, a) == req' = [req EXCEPT ![r].pc = a, ![r].fd = None]

(* apply_patch takes a snapshot, patches its copy and validates it.          *)
Refuse(r, p) ==
  /\ Begin(r) /\ ~Accepts(inner, p)
  /\ Answer(r, "rejected")
  /\ UNCHANGED <<base, running, inner, file, tmp, text, starts, promised>>

Compute(r, p) ==
  /\ Begin(r) /\ Accepts(inner, p)
  /\ req' = [req EXCEPT ![r].pc = "swap", ![r].next = Patched(inner, p)]
  /\ UNCHANGED <<base, running, inner, file, tmp, text, starts, promised>>

Swap(r) ==
  /\ req[r].pc = "swap"
  /\ inner' = req[r].next
  /\ req' = [req EXCEPT ![r].pc = "open"]
  /\ UNCHANGED <<base, running, file, tmp, text, starts, promised, overlapped>>

(* fs::write of the temporary file: open with create and truncate ...        *)
OpenTmp_inPlace(r) ==
  /\ req[r].pc = "open"
  /\ \E i \in IF file = None THEN Fresh ELSE {file} :
        /\ file' = i /\ tmp' = i
        /\ text' = [text EXCEPT ![i] = Empty]
        /\ req' = [req EXCEPT ![r].pc = "write", ![r].fd = i]
  /\ UNCHANGED <<base, running, inner, starts, promised, overlapped>>

OpenTmp(r) ==
  /\ req[r].pc = "open"
  /\ \E i \in IF tmp = None THEN Fresh ELSE {tmp} :
        /\ tmp' = i
        /\ text' = [text EXCEPT ![i] = Empty]
        /\ req' = [req EXCEPT ![r].pc = "write", ![r].fd = i]
  /\ UNCHANGED <<base, running, inner, file, starts, promised, overlapped>>

(* ... and write from the start of the file.  Over the text of another       *)
(* request the tail of a longer one shows through.                           *)
WriteTmp(r) ==
  LET i == req[r].fd IN
  /\ req[r].pc = "write"
  /\ \E t \in {req[r].next} \cup (IF text[i] \in {Empty, req[r].next} THEN {} ELSE {Torn}) :
        text' = [text EXCEPT ![i] = t]
  /\ req' = [req EXCEPT ![r].pc = "rename"]
  /\ UNCHANGED <<base, running, inner, file, tmp, starts, promised, overlapped>>

Rename(r) ==
  /\ req[r].pc = "rename" /\ tmp # None
  /\ file' = tmp /\ tmp' = None
  /\ promised' = {req[r].next}
  /\ Answer(r, "ok")
  /\ UNCHANGED <<base, running, inner, text, starts, overlapped>>

(* Any of the file operations fails: full disk, permissions, or the          *)
(* temporary file is gone.  The settings are in force, but the client is     *)
(* told they are not; a write that fails may have written a part.            *)
Fail(r) ==
  /\ \/ req[r].pc \in {"open", "rename", "remove"} /\ UNCHANGED text
     \/ /\ req[r].pc = "write"
        /\ \E t \in {Empty, Torn} : text' = [text EXCEPT ![req[r].fd] = t]
  /\ Answer(r, "failed")
  /\ promised' = promised \cup {req[r].next}
  /\ UNCHANGED <<base, running, inner, file, tmp, starts, overlapped>>

(* reset_to_env(clear_all): remove the file, then go back to the base.       *)
ResetAll(r) ==
  /\ Begin(r)
  /\ req' = [req EXCEPT ![r].pc = IF file = None THEN "restore" ELSE "remove",
                        ![r].next = base]
  /\ UNCHANGED <<base, running, inner, file, tmp, text, starts, promised>>

Remove(r) ==
  /\ req[r].pc = "remove" /\ file # None
  /\ file' = None
  /\ req' = [req EXCEPT ![r].pc = "restore"]
  /\ UNCHANGED <<base, running, inner, tmp, text, starts, promised, overlapped>>

Restore_keepsOther(r) ==
  /\ req[r].pc = "restore"
  /\ inner' = [base EXCEPT !["other"] = inner["other"]]
  /\ promised' = {base}
  /\ Answer(r, "ok")
  /\ UNCHANGED <<base, running, file, tmp, text, starts, overlapped>>

Restore(r) ==
  /\ req[r].pc = "restore"
  /\ inner' = base
  /\ promised' = {base}
  /\ Answer(r, "ok")
  /\ UNCHANGED <<base, running, file, tmp, text, starts, overlapped>>

Next ==
  \/ Start \/ StartBlind \/ StartRefused \/ Stop
  \/ \E r \in Requests :
        \/ \E p \in Patches : Refuse(r, p) \/ Compute(r, p)
        \/ Swap(r) \/ OpenTmp(r) \/ WriteTmp(r) \/ Rename(r) \/ Fail(r)
        \/ ResetAll(r) \/ Remove(r) \/ Restore(r)

Spec == Init /\ [][Next]_vars

------------------------------------------------------------------------------
TypeOK ==
  /\ base \in Config /\ inner \in Config
  /\ running \in {"down", "up", "refused"}
  /\ file \in Inodes \cup {None} /\ tmp \in Inodes \cup {None}
  /\ text \in [Inodes -> Config \cup {Torn, Empty}]
  /\ req \in [Requests -> [pc : Steps, next : Config, fd : Inodes \cup {None}]]
  /\ \A r \in Requests : req[r].pc \in {"write"} => req[r].fd # None
  /\ starts \in 0..MaxStarts
  /\ promised \subseteq Config /\ overlapped \in BOOLEAN

(* Whatever the requests and restarts interleave, the configuration in      *)
(* force has its false-positive cap above its detector threshold (checked   *)
(* on a copy and swapped in whole, config.rs 1002-1010 and 1139-1147).      *)
EffectiveValid == Valid(inner)

(* "Atomic write-rename so a crash mid-write never leaves a corrupt         *)
(* overrides file that would fail the next startup" (config.rs 1011-1012).  *)
OverridesLoadable == running # "refused" /\ Loadable

(* A configuration saved whole, as the next start reads it: c itself, but   *)
(* for a cap the environment set beyond the clamp.                          *)
Reloaded(c) == [c EXCEPT !["cap"] = Clamp(c["cap"])]

(* ... which holds as long as requests come one at a time.  A restart then   *)
(* also brings back what the last accepted request set, or what a later one  *)
(* was about to set when it failed or was cut off; a rejected patch never    *)
(* comes back (config.rs 961-975, 1002-1038).  A cap beyond the clamp comes  *)
(* back clamped, and the start is refused only if that breaks the            *)
(* cross-field rule.                                                         *)
AnswersSurvive ==
  ~overlapped =>
    \E c \in promised \cup {req[r].next : r \in Busy} :
       /\ Valid(Reloaded(c)) => OverridesLoadable
       /\ OnDisk = IF file = None THEN c ELSE Reloaded(c)

(* And a request is answered ok only when memory and disk agree: equal       *)
(* after a reset, equal but for an environment's cap beyond the clamp after  *)
(* a patch.                                                                  *)
OkMeansBoth ==
  [][~overlapped' =>
       \A r \in Requests : req'[r].pc = "ok" /\ req[r].pc # "ok" =>
          OnDisk' = IF file' = None THEN inner' ELSE Reloaded(inner')]_vars
==============================================================================
