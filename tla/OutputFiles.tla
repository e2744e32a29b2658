------------------------------ MODULE OutputFiles ------------------------------
(***************************************************************************)
(* The files of the data directory: uploads spooled there, one output      *)
(* archive per processed archive, the merged archive of a batch, and the   *)
(* retention pass that prunes outputs.                                     *)
(*                                                                         *)
(* The actors are HTTP requests (/anonymize and /anonymize/batch, one at a *)
(* time under job_lock, which a streaming response no longer holds), jobs  *)
(* of the object-store worker (which take no lock) and the retention loop. *)
(* An output's name derives from the upload's base name alone, so actors   *)
(* meet on names; File::create truncates the file under the name and keeps *)
(* its inode, hence the model keeps directory entries, inodes and open     *)
(* files apart.  What an archive contains is abstracted to which uploads   *)
(* it was made from, and whether it is whole.  How a job schedules and     *)
(* drains its frames is ZipJob's subject.                                  *)
(***************************************************************************)
EXTENDS Integers, Sequences, FiniteSets, FiniteSetsExt

CONSTANTS Posts,       \* requests to /anonymize
          Batches,     \* requests to /anonymize/batch
          S3Jobs,      \* jobs of the object-store worker
          Uploads,     \* archives
          Sends,       \* the archives each actor brings, in order
          Stem,        \* output_stem and sanitize_filename: many to one
          Size,        \* the bytes each upload may turn out to have
          Combined,    \* "batch_elaborato.zip"
          MaxArchive, MaxTotal, MaxCount,   \* upload caps, 0 = unlimited
          MaxAge, MaxStore, MinAge,         \* RETENTION_*
          MaxNow,      \* bound: the last instant
          MaxPasses,   \* bound: retention passes
          None

Requests == Posts \cup Batches
Actors   == Requests \cup S3Jobs
Outs     == {Stem[u] : u \in Uploads} \cup {Combined}

ASSUME OutputAssumption ==
  /\ Posts \cap Batches = {} /\ Requests \cap S3Jobs = {}
  /\ Sends \in [Actors -> Seq(Uploads)] /\ \A j \in S3Jobs : Len(Sends[j]) = 1
  /\ Size \in [Uploads -> SUBSET Nat]
  /\ {MaxArchive, MaxTotal, MaxCount, MaxAge, MaxStore, MinAge, MaxNow, MaxPasses} \subseteq Nat
  /\ None \notin Actors \cup Outs \cup Nat
  /\ IsFiniteSet(Actors) /\ IsFiniteSet(Uploads)

VARIABLES
  lock,       \* job_lock: the request that holds it, or None
  act,        \* progress of every actor
  spools,     \* uploads on disk: <<request, index>>
  dir,        \* the inode an output name is bound to, or None
  ino,        \* what is in each inode
  crossed,    \* ghost: actors whose output name another one wrote or removed meanwhile
  ret,        \* the retention pass under way
  now

vars == <<lock, act, spools, dir, ino, crossed, ret, now>>

Inodes   == 1..(Cardinality(Outs) + 2 * Cardinality(Actors))
Ended    == {"busy", "rejected", "aborted", "failed", "missing", "done", "gone"}
Stages   == Ended \cup {"idle", "next", "spooling", "process", "writing", "close",
                        "merging", "detached", "drop", "answer", "streaming", "remove"}
OutOf(a, k) == Stem[Sends[a][k]]
Unused   == Inodes \ ({dir[n] : n \in Outs} \cup {act[a].fd : a \in Actors})
Inode(n) == IF dir[n] = None THEN CHOOSE i \in Unused : TRUE ELSE dir[n]
Blank    == [from |-> {}, whole |-> FALSE, mtime |-> 0, shared |-> FALSE]
(* A file is gone with its last name and its last handle.                   *)
Keep(files) ==
  ino' = [i \in Inodes |-> IF (\E n \in Outs : dir'[n] = i) \/ (\E a \in Actors : act'[a].fd = i)
                           THEN files[i] ELSE Blank]
Writing(i) == {a \in Actors : act[a].fd = i /\ act[a].pc \in {"writing", "merging", "detached"}}

(* The names an actor still depends on.                                     *)
Uses(a) ==
  IF act[a].pc \in Ended \cup {"idle"} THEN {}
  ELSE {OutOf(a, k) : k \in act[a].outs \cup (IF act[a].pc = "writing" THEN {act[a].k} ELSE {})}
       \cup (IF act[a].pc \in {"merging", "detached", "drop"} \/ act[a].merged THEN {Combined} ELSE {})
Cross(a, names) ==
  LET others == {b \in Actors \ {a} : Uses(b) \cap names # {}}
  IN  crossed' = crossed \cup others \cup (IF others = {} THEN {} ELSE {a})

Locals ==
  [pc |-> "idle", k |-> 0, fd |-> None, outs |-> {}, hard |-> 0, bytes |-> 0, merged |-> FALSE]

Init ==
  /\ lock = None /\ spools = {}
  /\ act = [a \in Actors |-> IF a \in S3Jobs THEN [Locals EXCEPT !.pc = "process", !.k = 1]
                             ELSE Locals]
  /\ dir = [n \in Outs |-> None]
  /\ ino = [i \in Inodes |-> Blank]
  /\ crossed = {}
  /\ ret = [pc |-> "idle", at |-> 0, list |-> {}, passes |-> 0]
  /\ now = 0

Goto(a, p) == act' = [act EXCEPT ![a].pc = p]
(* A handler returns: its locals are gone, its guards remove the spooled     *)
(* uploads, the lock is free again.                                          *)
Return(a, p) ==
  /\ act' = [act EXCEPT ![a] = [Locals EXCEPT !.pc = p]]
  /\ lock' = IF lock = a THEN None ELSE lock
  /\ spools' = {s \in spools : s[1] # a}

------------------------------------------------------------------------------
(* Uploading.  try_lock, then one archive field after the other.             *)
Begin(r) ==
  /\ act[r].pc = "idle"
  /\ \/ lock # None /\ Goto(r, "busy") /\ UNCHANGED lock
     \/ lock = None /\ Goto(r, "next") /\ lock' = r
  /\ UNCHANGED <<spools, dir, ino, crossed, ret, now>>

MinCap(a, b) == IF a = 0 THEN b ELSE IF b = 0 \/ a <= b THEN a ELSE b
Remaining_noTotal(r) == 0
Remaining(r) == IF MaxTotal = 0 \/ MaxTotal <= act[r].bytes THEN 0 ELSE MaxTotal - act[r].bytes
Cap(r)  == IF r \in Posts THEN MaxArchive ELSE MinCap(MaxArchive, Remaining(r))
Sizes(r) == Size[Sends[r][act[r].k]]

(* spool_next_archive_field: the spool file is created, then filled.         *)
Receive(r) ==
  /\ act[r].pc = "next" /\ act[r].k < Len(Sends[r])
  /\ act' = [act EXCEPT ![r].pc = "spooling", ![r].k = @ + 1]
  /\ spools' = spools \cup {<<r, act[r].k + 1>>}
  /\ UNCHANGED <<lock, dir, ino, crossed, ret, now>>

Spooled(r) ==
  /\ act[r].pc = "spooling"
  /\ r \in Batches /\ MaxCount > 0 => act[r].k <= MaxCount
  /\ \E size \in Sizes(r) :
        /\ Cap(r) = 0 \/ size <= Cap(r)
        /\ act' = [act EXCEPT ![r].pc = "process", ![r].bytes = @ + size]
  /\ UNCHANGED <<lock, spools, dir, ino, crossed, ret, now>>

(* cleanup_batch_outputs removes, by name, what the batch has produced.      *)
Abandon_keepsOutputs(r) ==
  /\ Return(r, "aborted")
  /\ UNCHANGED <<dir, ino, crossed, ret, now>>

Abandon(r) ==
  LET made == {OutOf(r, k) : k \in act[r].outs} IN
  /\ dir' = [n \in Outs |-> IF n \in made THEN None ELSE dir[n]]
  /\ Cross(r, made)
  /\ Return(r, "aborted")
  /\ Keep(ino)
  /\ UNCHANGED <<ret, now>>

TooMuch(r) ==
  /\ act[r].pc = "spooling"
  /\ \/ Cap(r) > 0 /\ \E size \in Sizes(r) : size > Cap(r)
     \/ r \in Batches /\ MaxCount > 0 /\ act[r].k > MaxCount
  /\ Abandon(r)

(* The deadline, and an unreadable form.  It covers the wait for the next    *)
(* field as well as the transfer.                                            *)
IngestTimeout_bodyOnly(r) ==
  /\ act[r].pc = "spooling"
  /\ Abandon(r)

IngestTimeout(r) ==
  /\ act[r].pc \in {"next", "spooling"}
  /\ Abandon(r)

EndOfForm(r) ==
  /\ act[r].pc = "next" /\ act[r].k = Len(Sends[r])
  /\ \/ r \in Batches /\ act[r].k > 0 /\ Goto(r, "close") /\ UNCHANGED <<lock, spools>>
     \/ act[r].k = 0 /\ Return(r, "rejected")
  /\ UNCHANGED <<dir, ino, crossed, ret, now>>

------------------------------------------------------------------------------
(* process_archive_file, for requests and object-store jobs alike.           *)
After(a, ok) ==
  IF a \in Batches
  THEN /\ act' = [act EXCEPT ![a].pc = "next", ![a].fd = None,
                             ![a].outs = IF ok THEN @ \cup {act[a].k} ELSE @,
                             ![a].hard = IF ok THEN @ ELSE @ + 1]
       /\ UNCHANGED <<lock, spools>>
  ELSE IF ok THEN /\ act' = [act EXCEPT ![a].pc = "answer", ![a].fd = None, ![a].outs = {act[a].k}]
                  /\ UNCHANGED <<lock, spools>>
             ELSE Return(a, IF a \in S3Jobs THEN "failed" ELSE "rejected")

(* Not an archive, too many entries: nothing is created.                     *)
Reject(a) ==
  /\ act[a].pc = "process"
  /\ After(a, FALSE)
  /\ UNCHANGED <<dir, ino, crossed, ret, now>>

OpenFor(a, n, p) ==
  /\ dir' = [dir EXCEPT ![n] = Inode(n)]
  /\ ino' = [ino EXCEPT ![Inode(n)] = [from |-> {}, whole |-> FALSE, mtime |-> now,
                                       shared |-> Writing(Inode(n)) # {}]]
  /\ act' = [act EXCEPT ![a].pc = p, ![a].fd = Inode(n)]
  /\ Cross(a, {n})
  /\ UNCHANGED <<lock, spools, ret, now>>

Create(a) == act[a].pc = "process" /\ OpenFor(a, OutOf(a, act[a].k), "writing")

(* A writer that shared the inode with another leaves either its archive or  *)
(* an unusable mixture.                                                      *)
Written(i, srcs) ==
  \E whole \in {TRUE} \cup (IF ino[i].shared THEN {FALSE} ELSE {}) :
     Keep([ino EXCEPT ![i].from = srcs, ![i].whole = whole, ![i].mtime = now])

Finish(a) ==
  /\ act[a].pc = "writing"
  /\ UNCHANGED <<dir, crossed, ret, now>>
  /\ After(a, TRUE)
  /\ Written(act[a].fd, {<<a, act[a].k>>})

(* A limit is exceeded, or the archive cannot be finished: the file stays.   *)
GiveUp(a) ==
  /\ act[a].pc = "writing"
  /\ UNCHANGED <<dir, crossed, ret, now>>
  /\ After(a, FALSE)
  /\ Keep(ino)

------------------------------------------------------------------------------
(* The end of a batch: one healthy archive is answered as it is, several are *)
(* merged under a fixed name and removed.                                    *)
Close(r) ==
  /\ act[r].pc = "close"
  /\ \/ act[r].outs = {} /\ Return(r, "rejected")
     \/ /\ Cardinality(act[r].outs) = 1 /\ act[r].hard = 0
        /\ Goto(r, "answer") /\ UNCHANGED <<lock, spools>>
  /\ UNCHANGED <<dir, ino, crossed, ret, now>>

MergeInto(r) ==
  /\ act[r].pc = "close" /\ act[r].outs # {}
  /\ Cardinality(act[r].outs) > 1 \/ act[r].hard > 0
  /\ OpenFor(r, Combined, "merging")

Readable(n) == IF dir[n] = None THEN FALSE ELSE ino[dir[n]].whole
MergeCopy_skipsMissing(r) ==
  /\ act[r].pc \in {"merging", "detached"}
  /\ UNCHANGED <<lock, spools, dir, crossed, ret, now>>
  /\ act' = [act EXCEPT ![r] = IF @.pc = "detached" THEN [Locals EXCEPT !.pc = "gone"]
                               ELSE [@ EXCEPT !.pc = "drop", !.fd = None]]
  /\ Written(act[r].fd, UNION {ino[dir[OutOf(r, k)]].from :
                                  k \in {l \in act[r].outs : Readable(OutOf(r, l))}})

MergeCopy(r) ==
  /\ act[r].pc \in {"merging", "detached"}
  /\ \A k \in act[r].outs : Readable(OutOf(r, k))
  /\ UNCHANGED <<lock, spools, dir, crossed, ret, now>>
  /\ act' = [act EXCEPT ![r] = IF @.pc = "detached" THEN [Locals EXCEPT !.pc = "gone"]
                               ELSE [@ EXCEPT !.pc = "drop", !.fd = None]]
  /\ Written(act[r].fd, UNION {ino[dir[OutOf(r, k)]].from : k \in act[r].outs})

MergeFail(r) ==
  /\ act[r].pc \in {"merging", "detached"}
  /\ UNCHANGED <<dir, crossed, ret, now>>
  /\ Return(r, IF act[r].pc = "detached" THEN "gone" ELSE "failed")
  /\ Keep(ino)

DropParts(r) ==
  LET parts == {OutOf(r, k) : k \in act[r].outs} IN
  /\ act[r].pc = "drop"
  /\ dir' = [n \in Outs |-> IF n \in parts THEN None ELSE dir[n]]
  /\ Cross(r, parts)
  /\ act' = [act EXCEPT ![r].pc = "answer", ![r].merged = TRUE]
  /\ Keep(ino)
  /\ UNCHANGED <<lock, spools, ret, now>>

------------------------------------------------------------------------------
(* respond_with_archive, and the upload of an object-store job: the output   *)
(* is opened by its name and read while the lock is already free.            *)
Result(a) == IF act[a].merged THEN Combined ELSE OutOf(a, CHOOSE k \in act[a].outs : TRUE)

Answer(a) ==
  /\ act[a].pc = "answer"
  /\ IF dir[Result(a)] = None
     THEN Return(a, "missing")
     ELSE /\ act' = [act EXCEPT ![a].pc = "streaming", ![a].fd = dir[Result(a)]]
          /\ lock' = IF lock = a THEN None ELSE lock
          /\ spools' = {s \in spools : s[1] # a}
  /\ UNCHANGED <<dir, ino, crossed, ret, now>>

Stream(a) ==
  /\ act[a].pc = "streaming"
  /\ act' = [act EXCEPT ![a] = IF a \in S3Jobs THEN [@ EXCEPT !.pc = "remove", !.fd = None]
                               ELSE [Locals EXCEPT !.pc = "done"]]
  /\ UNCHANGED <<lock, spools, dir, crossed, ret, now>>
  /\ Keep(ino)

UploadFails(j) ==
  /\ act[j].pc = "streaming" /\ Return(j, "failed")
  /\ UNCHANGED <<dir, crossed, ret, now>>
  /\ Keep(ino)

RemoveLocal(j) ==
  /\ act[j].pc = "remove"
  /\ dir' = [dir EXCEPT ![Result(j)] = None]
  /\ Cross(j, {Result(j)})
  /\ Return(j, "done")
  /\ Keep(ino)
  /\ UNCHANGED <<ret, now>>

(* The client goes away: the handler's future is dropped where it waits.     *)
(* Guards run, but an upload still being spooled has none yet, and the       *)
(* blocking merge goes on by itself.                                         *)
Disconnect_guardLost(r) ==
  /\ act[r].pc \in {"next", "spooling", "process", "writing", "merging", "drop", "answer", "streaming"}
  /\ act' = [act EXCEPT ![r] = IF @.pc = "merging" THEN [@ EXCEPT !.pc = "detached"]
                               ELSE [Locals EXCEPT !.pc = "gone", !.k = act[r].k]]
  /\ lock' = IF lock = r THEN None ELSE lock
  /\ UNCHANGED <<spools, dir, crossed, ret, now>>
  /\ Keep(ino)

Disconnect(r) ==
  /\ act[r].pc \in {"next", "spooling", "process", "writing", "merging", "drop", "answer", "streaming"}
  /\ act' = [act EXCEPT ![r] = IF @.pc = "merging" THEN [@ EXCEPT !.pc = "detached"]
                               ELSE [Locals EXCEPT !.pc = "gone", !.k = act[r].k]]
  /\ lock' = IF lock = r THEN None ELSE lock
  /\ spools' = {s \in spools : s[1] # r \/ (act[r].pc = "spooling" /\ s[2] = act[r].k)}
  /\ UNCHANGED <<dir, crossed, ret, now>>
  /\ Keep(ino)

------------------------------------------------------------------------------
(* run_retention: list, then remove by name, first what is too old, then the *)
(* oldest while the total is too large.                                      *)
Listed == {[name |-> n, mtime |-> ino[dir[n]].mtime, len |-> Cardinality(ino[dir[n]].from),
            tried |-> FALSE] : n \in {m \in Outs : dir[m] # None}}
Total  == MapThenSumSet(LAMBDA f : f.len, ret.list)
TooOld == {f \in ret.list : ~f.tried /\ f.mtime + MaxAge < ret.at}
Eligible == {f \in ret.list : ~f.tried /\ f.mtime + MinAge <= ret.at}
Victims ==
  IF MaxAge > 0 /\ TooOld # {} THEN TooOld
  ELSE IF MaxStore > 0 /\ Total > MaxStore
       THEN {f \in Eligible : \A g \in Eligible : f.mtime <= g.mtime}
       ELSE {}

RetentionList ==
  /\ ret.pc = "idle" /\ ret.passes < MaxPasses /\ MaxAge + MaxStore > 0
  /\ ret' = [pc |-> "pass", at |-> now, list |-> Listed, passes |-> ret.passes + 1]
  /\ UNCHANGED <<lock, act, spools, dir, ino, crossed, now>>

RetentionRemove ==
  /\ ret.pc = "pass"
  /\ \E f \in Victims :
        /\ dir' = [dir EXCEPT ![f.name] = None]
        /\ ret' = [ret EXCEPT !.list = (@ \ {f}) \cup
                      (IF dir[f.name] = None THEN {[f EXCEPT !.tried = TRUE]} ELSE {})]
  /\ UNCHANGED <<lock, act, spools, crossed, now>>
  /\ Keep(ino)

RetentionEnd ==
  /\ ret.pc = "pass" /\ Victims = {}
  /\ ret' = [ret EXCEPT !.pc = "idle", !.list = {}]
  /\ UNCHANGED <<lock, act, spools, dir, ino, crossed, now>>

Tick ==
  /\ now < MaxNow /\ now' = now + 1
  /\ UNCHANGED <<lock, act, spools, dir, ino, crossed, ret>>

Handler(r) ==
  \/ Spooled(r) \/ TooMuch(r) \/ IngestTimeout(r) \/ Close(r) \/ MergeInto(r)
  \/ MergeCopy(r) \/ MergeFail(r) \/ DropParts(r)
Job(a) == Reject(a) \/ Create(a) \/ Finish(a) \/ GiveUp(a) \/ Answer(a) \/ Stream(a)

Next ==
  \/ \E r \in Requests : Begin(r) \/ Receive(r) \/ EndOfForm(r) \/ Handler(r) \/ Disconnect(r)
  \/ \E a \in Actors : Job(a)
  \/ \E j \in S3Jobs : UploadFails(j) \/ RemoveLocal(j)
  \/ RetentionList \/ RetentionRemove \/ RetentionEnd \/ Tick

Spec == Init /\ [][Next]_vars

------------------------------------------------------------------------------
(* What a client or the bucket receives is the whole result of its own      *)
(* request, made of every archive counted as processed, unless another actor *)
(* wrote or removed a file of the same name meanwhile, or two archives of    *)
(* the batch share an output name                                           *)
(* (zip_worker.rs 429-434, main.rs 985-1010, zip_worker_s3.rs 375-389).       *)
OwnNames(a) == \A k, l \in act[a].outs : OutOf(a, k) = OutOf(a, l) => k = l
DeliveredIsOwn ==
  \A a \in Actors : act[a].pc = "streaming" /\ a \notin crossed /\ OwnNames(a) =>
    /\ ino[act[a].fd].from = {<<a, k>> : k \in act[a].outs}
    /\ ino[act[a].fd].whole

(* "Outputs already produced by an aborted batch are deleted immediately"   *)
(* (README 916, main.rs 931-953, 1240-1251): no entry leads to them any      *)
(* more, but for a copy in the merged archive, which the merge of a batch    *)
(* whose client has gone can make while another batch uploads the same names.*)
AbortLeavesNothing ==
  \A r \in Requests : act[r].pc = "aborted" =>
    \A n \in Outs : dir[n] # None => \A s \in ino[dir[n]].from :
      s[1] = r => n = Combined /\ r \in crossed

(* The guards remove every spooled upload with the handler that owns it; the *)
(* one case they miss is a client that goes away in the middle of a transfer *)
(* (main.rs 840, 938, 1214-1231: the guard is only made once the upload is complete).  *)
OnlyCutUploadLeft ==
  \A s \in spools : act[s[1]].pc \in Ended =>
    act[s[1]].pc = "gone" /\ s[2] = act[s[1]].k

(* A batch's total byte budget can only be exceeded once it is used up        *)
(* exactly: min_cap then takes the remaining 0 for "unlimited"                *)
(* (main.rs 913-919, 1324-1330).                                             *)
BudgetUntilSpent ==
  [][\A r \in Batches : MaxTotal > 0 /\ act'[r].bytes > MaxTotal => act[r].bytes >= MaxTotal]_vars

(* However its client stalls, the request that holds the lock has a step to  *)
(* take that needs no client, so that with the runtime's fairness to ready   *)
(* handlers the lock is given back (main.rs 1148-1179).                      *)
LockHolderGoesOn ==
  \A r \in Requests : lock = r => ENABLED (Handler(r) \/ Job(r))
==============================================================================
